---------------------- MODULE RiecoinMinerMemoryProofs ----------------------
(***************************************************************************)
(* Proofs about what RiecoinMiner's threads do to memory and capacity: a   *)
(* worker always finds room for its answer, jobs that may run at once never *)
(* write the same memory, and the sieve that is scanned is complete.  They *)
(* rest on the counts proved in RiecoinMinerProofs.                        *)
(***************************************************************************)
EXTENDS RiecoinMinerProofs

-----------------------------------------------------------------------------
(* The master pushes jobs.  Each job is as long as the ones before, so base *)
(* tells their number; the SIEVE jobs are fewer than the sieves.           *)
PushingMod(t) ==
  pc[t] = "pushmod" =>
    base = PrimorialNumber + awaited * ModIncr /\ base < PrimeTestSize

PushingSieve(t) ==
  pc[t] = "pushsieve" =>
    /\ base = NDense + awaited * SieveIncr /\ base < NDense + NSparse
    /\ which_sieve = awaited

(* Where testDoneQueue was not cleared since the last test was pushed. *)
Uncleared == {"scanclear", "looptop", "pushsieve", "dense", "endclear"}
MostTests == VwqSize + Cardinality(MinerThreads)

Limited ==
  /\ awaited <= WdqSize
  /\ outstandingTests <= MostTests
  /\ \A t \in MinerThreads :
       /\ PushingMod(t) /\ PushingSieve(t)
       /\ pc[t] \in RoundPCs \ Uncleared => outstandingTests < MostTests

LEMMA Factor ==
  ASSUME NEW a \in Nat, NEW b \in Nat, NEW m \in Nat \ {0}, a * m < b * m
  PROVE  a < b
<1> SUFFICES ASSUME a >= b PROVE FALSE
  OBVIOUS
<1>1. a * m >= b * m
  <2>1. (a - b) \in Nat /\ (a - b) * m \in Nat
    OBVIOUS
  <2>2. (a - b) * m = a * m - b * m
    OBVIOUS
  <2>3. a * m \in Int /\ b * m \in Int
    OBVIOUS
  <2> QED
    BY <2>1, <2>2, <2>3
<1> QED
  <2>1. a * m \in Int /\ b * m \in Int
    OBVIOUS
  <2> QED
    BY <1>1, <2>1

LEMMA OneMore ==
  ASSUME NEW a \in Nat, NEW m \in Nat
  PROVE  (a + 1) * m = a * m + m /\ a * m \in Nat
OBVIOUS

LEMMA ModIncrPositive == ModIncr \in Nat \ {0}
<1>1. \A a \in Nat, n \in Nat \ {0} : n <= a => a \div n \in Nat \ {0}
  OBVIOUS
<1> QED
  BY <1>1, TableAssumption DEF ModIncr

LEMMA SieveIncrEnough ==
  SieveIncr \in Nat \ {0} /\ NSparse < NSieveWorkers * SieveIncr
<1>1. \A a \in Nat, n \in Nat \ {0} : a < n * ((a \div n) + 1) /\ a \div n \in Nat
  OBVIOUS
<1> QED
  BY <1>1, TableAssumption DEF SieveIncr

LEMMA AwaitedNat == ASSUME TypeOK, Counted PROVE awaited \in Nat
<1>1. InFlight({"MOD", "SIEVE"}) \in Nat /\ wdq \in Nat
  BY InFlightNat, QueueAssumption DEF TypeOK
<1> QED
  BY <1>1 DEF Counted, JobsAccounted

LEMMA ThreadsCounted ==
  ASSUME NEW t \in MinerThreads
  PROVE  /\ Cardinality(MinerThreads) \in Nat \ {0}
         /\ IsFiniteSet(MinerThreads \ {t})
         /\ Cardinality(MinerThreads \ {t}) = Cardinality(MinerThreads) - 1
<1>1. /\ IsFiniteSet(MinerThreads \ {t})
      /\ Cardinality(MinerThreads \ {t}) = Cardinality(MinerThreads) - 1
  BY ThreadAssumption, FS_RemoveElement
<1>2. Cardinality(MinerThreads) \in Nat /\ Cardinality(MinerThreads \ {t}) \in Nat
  BY <1>1, ThreadAssumption, FS_CardinalityType
<1> QED
  BY <1>1, <1>2

LEMMA MostTestsPositive == MostTests \in Nat \ {0} /\ MostTests <= TdqSize
<1>1. Cardinality(MinerThreads) \in Nat
  BY ThreadAssumption, FS_CardinalityType
<1> QED
  BY <1>1, QueueAssumption DEF MostTests

(* The master holds no job, so the tests in flight leave room for one more. *)
LEMMA TestsInFlight ==
  ASSUME Safe, NEW t \in MinerThreads, pc[t] \in RoundPCs
  PROVE  InFlight({"CHECK"}) < MostTests
<1> DEFINE C == {"CHECK"}
<1>1. TypeOK /\ job[t] = NoJob
  BY DEF Safe, Control, Place, OwnJob, RoundPCs
<1>2. Cardinality(Queued(C)) <= Len(vwq) /\ Len(vwq) \in Nat /\ Len(vwq) <= VwqSize
  <2>1. vwq \in Seq(Jobs) /\ Len(vwq) \in Nat /\ Len(vwq) <= VwqSize
    BY <1>1 DEF TypeOK
  <2>2. Cardinality(Places(vwq, C)) <= Len(vwq)
    BY <2>1, PlacesFinite
  <2> QED
    BY <1>1, <2>1, <2>2, InFlightNat
<1>3. Holding(C) \in SUBSET (MinerThreads \ {t})
  BY <1>1 DEF Holding, NoJob
<1>4. Cardinality(Holding(C)) <= Cardinality(MinerThreads) - 1
  <2> DEFINE rest == MinerThreads \ {t}
             held == Holding(C)
  <2>1. IsFiniteSet(rest) /\ Cardinality(rest) = Cardinality(MinerThreads) - 1
    BY ThreadsCounted
  <2>2. held \in SUBSET rest
    BY <1>3
  <2> HIDE DEF rest, held
  <2>3. Cardinality(held) <= Cardinality(rest)
    BY <2>1, <2>2, FS_Subset
  <2> QED
    BY <2>1, <2>3 DEF held
<1>5. Cardinality(Queued(C)) \in Nat /\ Cardinality(Holding(C)) \in Nat
  BY <1>1, InFlightNat
<1>6. Cardinality(MinerThreads) \in Nat /\ VwqSize \in Nat
  BY ThreadsCounted, QueueAssumption
<1>7. InFlight(C) = Cardinality(Queued(C)) + Cardinality(Holding(C))
  BY DEF InFlight
<1> HIDE DEF C
<1>8. InFlight(C) < MostTests
  BY <1>2, <1>4, <1>5, <1>6, <1>7 DEF MostTests
<1> QED
  BY <1>8 DEF C

(* The last SIEVE job leaves no slack. *)
LEMMA NextSieve ==
  ASSUME NEW b \in Nat, ~(SieveEnd(b) + SieveSlack > NDense + NSparse)
  PROVE  b + SieveIncr < NDense + NSparse /\ SieveEnd(b) = b + SieveIncr
BY SieveIncrNat, TableAssumption DEF SieveEnd, Least

(* A job more is within workerDoneQueue, and base still tells the count.   *)
LEMMA LimitedPushMod ==
  ASSUME Safe, Counted, Counted', Limited, NEW t \in MinerThreads, PushMod(t)
  PROVE  /\ awaited' <= WdqSize
         /\ pc'[t] \in {"pushmod", "waitmod"}
         /\ pc'[t] = "pushmod" =>
              base' = PrimorialNumber + awaited' * ModIncr /\ base' < PrimeTestSize
<1>1. /\ pc[t] = "pushmod" /\ awaited' = awaited + 1 /\ base' = base + ModIncr
      /\ pc'[t] = IF base' < PrimeTestSize THEN "pushmod" ELSE "waitmod"
  BY DEF PushMod, Goto, Safe, TypeOK
<1>2. awaited \in Nat /\ ModIncr \in Nat \ {0} /\ WdqSize \in Nat \ {0}
      /\ PrimorialNumber \in Nat /\ PrimeTestSize \in Nat
      /\ PrimeTestSize <= WdqSize * ModIncr
  BY AwaitedNat, ModIncrPositive, QueueAssumption, TableAssumption DEF Safe
<1>3. base = PrimorialNumber + awaited * ModIncr /\ base < PrimeTestSize
  BY <1>1 DEF Limited, PushingMod
<1>4. awaited * ModIncr \in Nat /\ WdqSize * ModIncr \in Nat
      /\ (awaited + 1) * ModIncr = awaited * ModIncr + ModIncr
  BY <1>2, OneMore
<1>5. awaited * ModIncr < WdqSize * ModIncr
  BY <1>2, <1>3, <1>4
<1>6. awaited < WdqSize
  BY <1>2, <1>5, Factor
<1>7. base' = PrimorialNumber + awaited' * ModIncr
  BY <1>1, <1>2, <1>3, <1>4
<1> QED
  BY <1>1, <1>2, <1>6, <1>7

LEMMA LimitedPushSieve ==
  ASSUME Safe, Counted, Limited, NEW t \in MinerThreads, PushSieve(t)
  PROVE  /\ awaited < NSieveWorkers /\ awaited' <= WdqSize
         /\ pc'[t] \in {"pushsieve", "dense"}
         /\ pc'[t] = "pushsieve" =>
              /\ base' = NDense + awaited' * SieveIncr /\ base' < NDense + NSparse
              /\ which_sieve' = awaited' /\ SieveEnd(base) = base'
<1>1. /\ pc[t] = "pushsieve" /\ awaited' = awaited + 1 /\ base' = base + SieveIncr
      /\ which_sieve' = (which_sieve + 1) % NSieveWorkers
      /\ pc'[t] = IF SieveEnd(base) + SieveSlack > NDense + NSparse
                  THEN "dense" ELSE "pushsieve"
  BY DEF PushSieve, Goto, Safe, TypeOK
<1>2. awaited \in Nat /\ SieveIncr \in Nat \ {0} /\ base \in Nat
      /\ NDense \in Nat /\ NSparse \in Nat /\ NSieveWorkers \in Nat \ {0}
      /\ WdqSize \in Nat /\ NSieveWorkers <= WdqSize
      /\ NSparse < NSieveWorkers * SieveIncr
  BY AwaitedNat, SieveIncrEnough, QueueAssumption, TableAssumption DEF Safe, TypeOK
<1>3. /\ base = NDense + awaited * SieveIncr /\ base < NDense + NSparse
      /\ which_sieve = awaited
  BY <1>1 DEF Limited, PushingSieve
<1>4. awaited * SieveIncr \in Nat /\ NSieveWorkers * SieveIncr \in Nat
      /\ (awaited + 1) * SieveIncr = awaited * SieveIncr + SieveIncr
  BY <1>2, OneMore
<1>5. awaited < NSieveWorkers
  <2>1. awaited * SieveIncr < NSieveWorkers * SieveIncr
    BY <1>2, <1>3, <1>4
  <2> QED
    BY <1>2, <2>1, Factor
<1>6. base' = NDense + awaited' * SieveIncr
  BY <1>1, <1>2, <1>3, <1>4
<1>7. ASSUME pc'[t] = "pushsieve"
      PROVE  base' < NDense + NSparse /\ which_sieve' = awaited' /\ SieveEnd(base) = base'
  <2>1. base' < NDense + NSparse /\ SieveEnd(base) = base'
    BY <1>1, <1>2, <1>7, NextSieve
  <2>2. awaited' * SieveIncr < NSieveWorkers * SieveIncr
    <3>1. awaited' * SieveIncr \in Nat
      BY <1>1, <1>4, <1>2
    <3> QED
      BY <1>2, <1>4, <1>6, <2>1, <3>1
  <2>3. awaited + 1 < NSieveWorkers
    BY <1>1, <1>2, <2>2, Factor
  <2>4. \A a \in Nat, n \in Nat \ {0} : a < n => a % n = a
    OBVIOUS
  <2>5. (awaited + 1) % NSieveWorkers = awaited + 1
    BY <1>2, <2>3, <2>4
  <2> QED
    BY <1>1, <1>3, <2>1, <2>5
<1> QED
  BY <1>1, <1>2, <1>5, <1>6, <1>7

(* The master moves; no other thread is in its code. *)
LEMMA LimitedMasterMove ==
  ASSUME Safe, NEW t \in MinerThreads, i_am_master[t],
         \A u \in MinerThreads \ {t} : pc'[u] = pc[u],
         awaited' <= WdqSize, outstandingTests' <= MostTests,
         PushingMod(t)', PushingSieve(t)',
         pc'[t] \in RoundPCs \ Uncleared => outstandingTests' < MostTests
  PROVE  Limited'
<1>1. \A u \in MinerThreads \ {t} : pc'[u] \notin RoundPCs
  BY DEF Safe, Control, Place, Role
<1>2. \A u \in MinerThreads \ {t} : PushingMod(u)' /\ PushingSieve(u)'
  BY <1>1 DEF PushingMod, PushingSieve, RoundPCs
<1> QED
  BY <1>1, <1>2 DEF Limited

LEMMA LimitedOtherMove ==
  ASSUME Limited, UNCHANGED <<base, which_sieve, awaited, outstandingTests>>,
         \A u \in MinerThreads : pc'[u] = pc[u] \/ pc'[u] \notin RoundPCs
  PROVE  Limited'
<1>1. \A u \in MinerThreads : PushingMod(u)' /\ PushingSieve(u)'
  BY DEF Limited, PushingMod, PushingSieve, RoundPCs
<1>2. MostTests' = MostTests
  BY DEF MostTests
<1> QED
  BY <1>1, <1>2 DEF Limited

LEMMA LimitedMaster ==
  ASSUME Safe, Counted, Counted', Limited, NEW t \in MinerThreads, MasterStep(t)
  PROVE  Limited'
<1> DEFINE tests == InFlight({"CHECK"})
<1>a. TypeOK /\ Role(t) /\ pc \in [MinerThreads -> PCs]
  BY DEF Safe, Control, Place, TypeOK
<1>b. /\ outstandingTests = tests + tdq /\ tests \in Nat /\ tdq \in Nat
      /\ awaited \in Nat /\ WdqSize \in Nat
      /\ MostTests \in Nat \ {0} /\ outstandingTests <= MostTests /\ awaited <= WdqSize
      /\ pc[t] \in RoundPCs => tests < MostTests
      /\ pc[t] \in RoundPCs \ Uncleared => outstandingTests < MostTests
  <2>1. tests \in Nat /\ tdq \in Nat /\ outstandingTests = tests + tdq
    BY <1>a, InFlightNat, QueueAssumption DEF TypeOK, Counted, TestsAccounted
  <2>2. MostTests \in Nat \ {0} /\ WdqSize \in Nat
    BY MostTestsPositive, QueueAssumption
  <2>3. awaited \in Nat /\ (pc[t] \in RoundPCs => tests < MostTests)
    BY <1>a, AwaitedNat, TestsInFlight
  <2> QED
    BY <2>1, <2>2, <2>3 DEF Limited
<1> HIDE DEF tests
<1>m. i_am_master[t]
  BY <1>a DEF Role, RoundPCs, MasterStep, Prepare, PushMod, PopDone, EndMod, LeaveLoop,
         StartPass, PushSieve, SieveDense, Merge, ScanNext, PushBatch, ScanClear,
         ScanCheck, Reset, ScanEnd, Flush, EndClear, DrainPop, DrainCheck, DrainReset,
         Finish
(* A move that pushes no job. *)
<1>c. ASSUME NEW l \in PCs \ {"pushmod", "pushsieve"}, pc' = [pc EXCEPT ![t] = l],
             awaited' <= WdqSize, outstandingTests' <= MostTests,
             l \in RoundPCs \ Uncleared => outstandingTests' < MostTests
      PROVE  Limited'
  <2>1. pc'[t] = l /\ \A u \in MinerThreads \ {t} : pc'[u] = pc[u]
    BY <1>a, <1>c
  <2>2. PushingMod(t)' /\ PushingSieve(t)'
    BY <1>c, <2>1 DEF PushingMod, PushingSieve
  <2> QED
    BY <1>c, <1>m, <2>1, <2>2, LimitedMasterMove
<1>d. ASSUME ClearDone, pc[t] \in RoundPCs
      PROVE  outstandingTests' < MostTests /\ outstandingTests' <= MostTests
  BY <1>b, <1>d DEF ClearDone
<1> USE DEF Goto, PCs, RoundPCs, Uncleared
<1>1. CASE Prepare(t)
  <2>1. /\ pc' = [pc EXCEPT ![t] = "pushmod"] /\ pc'[t] = "pushmod"
        /\ base' = PrimorialNumber /\ awaited' = 0
    BY <1>1, <1>a DEF Prepare
  <2>2. outstandingTests' = 0
    BY <2>1 DEF Counted
  <2>3. PushingMod(t)' /\ PushingSieve(t)'
    <3>1. ModIncr \in Nat /\ PrimorialNumber \in Nat /\ PrimorialNumber < PrimeTestSize
      BY ModIncrPositive, TableAssumption
    <3>2. base' = PrimorialNumber + awaited' * ModIncr
      BY <2>1, <3>1
    <3> QED
      BY <2>1, <3>1, <3>2 DEF PushingMod, PushingSieve
  <2>4. \A u \in MinerThreads \ {t} : pc'[u] = pc[u]
    BY <1>a, <2>1
  <2>5. awaited' <= WdqSize /\ outstandingTests' <= MostTests /\ outstandingTests' < MostTests
    BY <1>b, <2>1, <2>2
  <2> QED
    BY <1>m, <2>3, <2>4, <2>5, LimitedMasterMove
<1>2. CASE PushMod(t)
  <2>1. /\ awaited' <= WdqSize
        /\ pc'[t] \in {"pushmod", "waitmod"}
        /\ pc'[t] = "pushmod" =>
             base' = PrimorialNumber + awaited' * ModIncr /\ base' < PrimeTestSize
    BY <1>2, LimitedPushMod
  <2>2. outstandingTests' = 0
    BY <2>1 DEF Counted
  <2>3. PushingMod(t)' /\ PushingSieve(t)'
    BY <2>1 DEF PushingMod, PushingSieve
  <2>4. \A u \in MinerThreads \ {t} : pc'[u] = pc[u]
    BY <1>2, <1>a DEF PushMod
  <2> QED
    BY <1>b, <1>m, <2>1, <2>2, <2>3, <2>4, LimitedMasterMove
<1>3. CASE PopDone(t)
  <2>1. /\ pc' = [pc EXCEPT ![t] = pc[t]] /\ pc[t] \in {"waitmod", "waitsieve"}
        /\ awaited' = awaited - 1 /\ outstandingTests' = outstandingTests
    BY <1>3, <1>a DEF PopDone
  <2>2. awaited' <= WdqSize
    BY <1>b, <2>1
  <2>3. pc[t] \in PCs \ {"pushmod", "pushsieve"}
    BY <2>1
  <2>4. outstandingTests' <= MostTests
    BY <1>b, <2>1
  <2>5. pc[t] \in RoundPCs \ Uncleared => outstandingTests' < MostTests
    BY <1>b, <2>1
  <2> QED
    BY ONLY <1>c, <2>1, <2>2, <2>3, <2>4, <2>5
<1>4. CASE EndMod(t)
  <2>1. awaited' <= WdqSize /\ outstandingTests' <= MostTests
    BY <1>4, <1>b DEF EndMod
  <2>2. outstandingTests' < MostTests
    BY <1>4, <1>b DEF EndMod
  <2> QED
    BY <1>4, <1>c, <2>1, <2>2 DEF EndMod
<1>5. CASE LeaveLoop(t)
  BY <1>5, <1>b, <1>c DEF LeaveLoop, masterVars
<1>6. CASE StartPass(t)
  <2>1. /\ pc[t] = "looptop" /\ awaited' = 0 /\ base' = NDense /\ which_sieve' = 0
        /\ outstandingTests' = outstandingTests
        /\ pc'[t] = IF NSparse > 0 THEN "pushsieve" ELSE "dense"
        /\ \A u \in MinerThreads \ {t} : pc'[u] = pc[u]
    BY <1>6, <1>a DEF StartPass
  <2>2. PushingMod(t)' /\ PushingSieve(t)'
    <3>1. SieveIncr \in Nat /\ NDense \in Nat /\ NSparse \in Nat
      BY SieveIncrNat, TableAssumption
    <3>2. base' = NDense + awaited' * SieveIncr /\ which_sieve' = awaited'
      BY <2>1, <3>1
    <3>3. pc'[t] = "pushsieve" => base' < NDense + NSparse
      BY <2>1, <3>1
    <3>4. pc'[t] # "pushmod"
      BY <2>1
    <3> QED
      BY <3>2, <3>3, <3>4 DEF PushingMod, PushingSieve
  <2>3. pc'[t] \in Uncleared
    BY <2>1
  <2> QED
    BY <1>b, <1>m, <2>1, <2>2, <2>3, LimitedMasterMove
<1>7. CASE PushSieve(t)
  <2>1. /\ awaited' <= WdqSize
        /\ pc'[t] \in {"pushsieve", "dense"}
        /\ pc'[t] = "pushsieve" =>
             /\ base' = NDense + awaited' * SieveIncr /\ base' < NDense + NSparse
             /\ which_sieve' = awaited'
    BY <1>7, LimitedPushSieve
  <2>2. PushingMod(t)' /\ PushingSieve(t)'
    BY <2>1 DEF PushingMod, PushingSieve
  <2>3. outstandingTests' = outstandingTests /\ \A u \in MinerThreads \ {t} : pc'[u] = pc[u]
    BY <1>7, <1>a DEF PushSieve
  <2>4. pc'[t] \in Uncleared
    BY <2>1
  <2> QED
    BY <1>b, <1>m, <2>1, <2>2, <2>3, <2>4, LimitedMasterMove
<1>8. CASE SieveDense(t)
  BY <1>8, <1>b, <1>c, <1>d DEF SieveDense
<1>9. CASE Merge(t)
  BY <1>9, <1>b, <1>c DEF Merge
<1>10. CASE ScanNext(t)
  BY <1>10, <1>b, <1>c, <1>d DEF ScanNext
<1>11. CASE PushBatch(t)
  <2>1. awaited' <= WdqSize /\ outstandingTests' <= MostTests
    BY <1>11, <1>b DEF PushBatch, PushTests
  <2> QED
    BY <1>11, <1>c, <2>1 DEF PushBatch, PushTests
<1>12. CASE ScanClear(t)
  BY <1>12, <1>b, <1>c, <1>d DEF ScanClear
<1>13. CASE ScanCheck(t)
  BY <1>13, <1>b, <1>c DEF ScanCheck, PollHeight, masterVars
<1>e. ASSUME ClearTests, pc[t] \in RoundPCs \ Uncleared
      PROVE  outstandingTests' < MostTests /\ outstandingTests' <= MostTests
  <2>1. Len(vwq) \in Nat
    BY <1>a DEF TypeOK
  <2> QED
    BY <1>b, <1>e, <2>1 DEF ClearTests
<1>14. CASE Reset(t)
  BY <1>14, <1>b, <1>c, <1>e DEF Reset
<1>15. CASE ScanEnd(t)
  BY <1>15, <1>b, <1>c DEF ScanEnd, masterVars
<1>16. CASE Flush(t)
  <2>1. awaited' <= WdqSize /\ outstandingTests' <= MostTests
    BY <1>16, <1>b DEF Flush, PushTests
  <2> QED
    BY <1>16, <1>c, <2>1 DEF Flush, PushTests
<1>17. CASE EndClear(t)
  BY <1>17, <1>b, <1>c, <1>d DEF EndClear
<1>18. CASE DrainPop(t)
  <2>1. awaited' <= WdqSize /\ outstandingTests' <= MostTests
    BY <1>18, <1>b DEF DrainPop
  <2>2. outstandingTests' < MostTests
    BY <1>18, <1>b DEF DrainPop
  <2> QED
    BY <1>18, <1>c, <2>1, <2>2 DEF DrainPop
<1>19. CASE DrainCheck(t)
  BY <1>19, <1>b, <1>c DEF DrainCheck, PollHeight, masterVars
<1>20. CASE DrainReset(t)
  BY <1>20, <1>b, <1>c, <1>e DEF DrainReset
<1>21. CASE Finish(t)
  BY <1>21, <1>b, <1>c DEF Finish, masterVars
<1> QED
  BY <1>1, <1>2, <1>3, <1>4, <1>5, <1>6, <1>7, <1>8, <1>9, <1>10, <1>11, <1>12,
     <1>13, <1>14, <1>15, <1>16, <1>17, <1>18, <1>19, <1>20, <1>21 DEF MasterStep

(* A thread that is no master takes a step: the master's counts stay. *)
LEMMA StartMoves ==
  ASSUME Safe, NEW t \in MinerThreads, StartStep(t)
  PROVE  /\ pc[t] \notin RoundPCs /\ pc'[t] \notin RoundPCs
         /\ \A u \in MinerThreads \ {t} : pc'[u] = pc[u]
<1>1. pc \in [MinerThreads -> PCs]
  BY DEF Safe, TypeOK
<1>2. CASE TakeWork(t) \/ CheckAlgorithm(t) \/ Elect(t)
  BY <1>1, <1>2 DEF TakeWork, CheckAlgorithm, Elect, Goto, RoundPCs
<1>3. CASE ElectLocked(t) \/ Join(t)
  BY <1>1, <1>3 DEF ElectLocked, Join, Goto, RoundPCs
<1> QED
  BY <1>2, <1>3 DEF StartStep

LEMMA LimitedNext ==
  Safe /\ Counted /\ Counted' /\ Limited /\ [Next]_vars => Limited'
<1> SUFFICES ASSUME Safe, Counted, Counted', Limited, [Next]_vars PROVE Limited'
  OBVIOUS
<1>1. CASE MainStep
  BY <1>1, LimitedOtherMove DEF MainStep, masterVars
<1>2. ASSUME NEW t \in MinerThreads, StartStep(t)
      PROVE  Limited'
  <2>1. UNCHANGED <<base, which_sieve, awaited, outstandingTests>>
    BY <1>2 DEF StartStep, TakeWork, CheckAlgorithm, Elect, ElectLocked, Join, masterVars
  <2> QED
    BY <1>2, <2>1, StartMoves, LimitedOtherMove
<1>3. ASSUME NEW t \in MinerThreads, WorkerStep(t)
      PROVE  Limited'
  <2>1. UNCHANGED <<base, which_sieve, awaited, outstandingTests>>
    BY <1>3 DEF WorkerStep, Pop, UpdateRemainders, ProcessSieve, PushWorkerDone,
       TestIndex, SubmitShare, PushTestDone, JobDone, masterVars
  <2>2. pc'[t] \notin RoundPCs /\ \A u \in MinerThreads \ {t} : pc'[u] = pc[u]
    BY <1>3, WorkerMoves DEF WorkerPCs, RoundPCs
  <2> QED
    BY <2>1, <2>2, LimitedOtherMove
<1>4. CASE UNCHANGED vars
  BY <1>4, LimitedOtherMove DEF vars, masterVars
<1> QED
  BY <1>1, <1>2, <1>3, <1>4, LimitedMaster DEF Next, ThreadStep

LEMMA LimitedInit == Init => Limited
<1> SUFFICES ASSUME Init PROVE Limited
  OBVIOUS
<1>1. WdqSize \in Nat /\ VwqSize \in Nat /\ awaited = 0 /\ outstandingTests = 0
      /\ \A t \in MinerThreads : pc[t] = "getwork"
  BY QueueAssumption DEF Init
<1>2. Cardinality(MinerThreads) \in Nat
  BY ThreadAssumption, FS_CardinalityType
<1> QED
  BY <1>1, <1>2 DEF Limited, PushingMod, PushingSieve, MostTests, RoundPCs

LEMMA LimitedAlways == Spec => []Limited
BY LimitedInit, SafeAlways, CountedAlways, LimitedNext, PTL DEF Spec

(* A worker that holds a job makes one more in flight. *)
LEMMA HeldInFlight ==
  ASSUME TypeOK, NEW T, NEW t \in MinerThreads, job[t].type \in T
  PROVE  InFlight(T) \in Nat \ {0}
<1>1. Holding(T) # {} /\ Holding(T) \in SUBSET MinerThreads
  BY DEF Holding
<1>2. IsFiniteSet(Holding(T))
  BY <1>1, ThreadAssumption, FS_Subset
<1>3. Cardinality(Holding(T)) \in Nat \ {0}
  BY <1>1, <1>2, FS_EmptySet, FS_CardinalityType
<1>4. Cardinality(Queued(T)) \in Nat
  BY InFlightNat
<1> QED
  BY <1>3, <1>4 DEF InFlight

LEMMA RoomForAnswers ==
  ASSUME Safe, Counted, Limited
  PROVE  AnswersNeverBlock
<1>1. ASSUME NEW t \in MinerThreads, pc[t] = "wdqpush"
      PROVE  wdq < WdqSize
  <2>1. job[t] \in ModJobs \cup SieveJobs
    BY <1>1 DEF Safe, Control, Place, OwnJob
  <2>2. job[t].type \in {"MOD", "SIEVE"}
    BY <2>1 DEF ModJobs, SieveJobs
  <2>3. InFlight({"MOD", "SIEVE"}) \in Nat \ {0}
    BY <2>2, HeldInFlight DEF Safe
  <2>4. wdq \in Nat /\ WdqSize \in Nat
    BY QueueAssumption DEF Safe, TypeOK
  <2> QED
    BY <2>3, <2>4 DEF Counted, JobsAccounted, Limited
<1>2. ASSUME NEW t \in MinerThreads, pc[t] = "check"
      PROVE  tdq < TdqSize
  <2>1. job[t] \in CheckJobs
    BY <1>2 DEF Safe, Control, Place, OwnJob
  <2>2. job[t].type \in {"CHECK"}
    BY <2>1 DEF CheckJobs
  <2>3. InFlight({"CHECK"}) \in Nat \ {0}
    BY <2>2, HeldInFlight DEF Safe
  <2>4. tdq \in Nat /\ TdqSize \in Nat /\ MostTests \in Nat /\ MostTests <= TdqSize
    BY <1>2, MostTestsPositive, QueueAssumption DEF Safe, TypeOK
  <2> QED
    BY <2>3, <2>4 DEF Counted, TestsAccounted, Limited
<1> QED
  BY <1>1, <1>2 DEF AnswersNeverBlock

(***************************************************************************)
(* A worker always finds room for its answer, for any number of threads    *)
(* and primes the queue sizes allow: no cycle of full queues stops master  *)
(* and workers (lines 690-858).                                            *)
(***************************************************************************)
THEOREM AnswersFindRoom == Spec => []AnswersNeverBlock
BY RoomForAnswers, SafeAlways, CountedAlways, LimitedAlways, PTL

-----------------------------------------------------------------------------
(* Jobs that may run at once.  While the master pushes, each job of the    *)
(* kind it pushes ends where the next begins, with an earlier sieve.       *)
Apart ==
  /\ NoSharedWrites
  /\ \A t \in MinerThreads, j \in InUse :
       /\ pc[t] = "pushmod" /\ j.type = "MOD" => j.end <= base
       /\ pc[t] = "pushsieve" /\ j.type = "SIEVE" =>
            j.end <= base /\ j.sieveId < which_sieve

(* Where the jobs of NoSharedWrites may start. *)
InBounds(j) ==
  /\ j.type = "SIEVE" => j.start >= NDense
  /\ j.type = "MOD" => j.start >= PrimorialNumber

LEMMA ClashSymmetric == \A j, k : Clash(j, k) => Clash(k, j)
BY DEF Clash

LEMMA ClashNone == \A k : ~Clash(NoJob, k) /\ ~Clash(k, NoJob)
BY DEF Clash, NoJob

LEMMA ApartPush ==
  ASSUME TypeOK, NoSharedWrites, NEW j \in Jobs, InBounds(j), job' = job,
         vwq' = Append(vwq, j) \/ vwq' = <<j>> \o vwq,
         \A k \in InUse : ~Clash(j, k)
  PROVE  NoSharedWrites'
<1>1. \A k \in InUse : ~Clash(j, k) /\ ~Clash(k, j)
  BY ClashSymmetric
<1>2. \A k \in InUse' : InBounds(k)
  <2>1. \A k \in InUse' : k = j \/ k \in InUse
    BY InUsePush
  <2> QED
    BY <2>1 DEF NoSharedWrites, InBounds
<1>3. PICK f \in [DOMAIN vwq' -> 0..Len(vwq)] :
        /\ \A i \in DOMAIN vwq' :
             vwq'[i] = IF f[i] = 0 THEN j ELSE vwq[f[i]]
        /\ \A i, k \in DOMAIN vwq' : i # k => f[i] # f[k]
  <2>1. vwq \in Seq(Jobs) /\ Len(vwq) \in Nat /\ DOMAIN vwq = 1..Len(vwq)
    BY DEF TypeOK
  <2>2. CASE vwq' = Append(vwq, j)
    <3> DEFINE f == [i \in DOMAIN vwq' |-> IF i = Len(vwq) + 1 THEN 0 ELSE i]
    <3>1. DOMAIN vwq' = 1..Len(vwq)+1
      BY <2>1, <2>2, AppendProperties
    <3>2. f \in [DOMAIN vwq' -> 0..Len(vwq)]
      BY <2>1, <3>1
    <3>3. \A i \in DOMAIN vwq' : vwq'[i] = IF f[i] = 0 THEN j ELSE vwq[f[i]]
      BY <2>1, <2>2, <3>1, AppendProperties
    <3>4. \A i, k \in DOMAIN vwq' : i # k => f[i] # f[k]
      BY <2>1, <3>1
    <3> HIDE DEF f
    <3> QED
      BY <3>2, <3>3, <3>4
  <2>3. CASE vwq' = <<j>> \o vwq
    <3> DEFINE f == [i \in DOMAIN vwq' |-> i - 1]
    <3>1. <<j>> \in Seq(Jobs) /\ Len(<<j>>) = 1 /\ <<j>>[1] = j
      OBVIOUS
    <3>2. DOMAIN vwq' = 1..Len(vwq)+1
      BY <2>1, <2>3, <3>1, ConcatProperties
    <3>3. f \in [DOMAIN vwq' -> 0..Len(vwq)]
      BY <2>1, <3>2
    <3>4. \A i \in DOMAIN vwq' : vwq'[i] = IF f[i] = 0 THEN j ELSE vwq[f[i]]
      BY <2>1, <2>3, <3>1, <3>2, ConcatProperties
    <3>5. \A i, k \in DOMAIN vwq' : i # k => f[i] # f[k]
      BY <2>1, <3>2
    <3> HIDE DEF f
    <3> QED
      BY <3>3, <3>4, <3>5
  <2> QED
    BY <2>2, <2>3
<1>4. /\ DOMAIN vwq = 1..Len(vwq) /\ Len(vwq) \in Nat
      /\ \A i \in DOMAIN vwq : vwq[i] \in InUse
      /\ \A t \in MinerThreads : job[t] \in InUse
  <2>1. DOMAIN vwq = 1..Len(vwq) /\ Len(vwq) \in Nat
    BY DEF TypeOK
  <2>2. /\ \A i \in DOMAIN vwq : vwq[i] \in InUse
        /\ \A t \in MinerThreads : job[t] \in InUse
    BY DEF InUse
  <2> QED
    BY <2>1, <2>2
<1>5. \A i \in DOMAIN vwq' : f[i] = 0 \/ f[i] \in DOMAIN vwq
  BY <1>3, <1>4
<1>6. ASSUME NEW i \in DOMAIN vwq', NEW k \in DOMAIN vwq', i # k
      PROVE  ~Clash(vwq'[i], vwq'[k])
  <2>1. f[i] # f[k]
    BY <1>3, <1>6
  <2>2. CASE f[i] = 0
    <3>1. vwq'[i] = j /\ vwq'[k] \in InUse
      BY <1>3, <1>4, <1>5, <2>1, <2>2
    <3> QED
      BY <1>1, <3>1
  <2>3. CASE f[k] = 0
    <3>1. vwq'[k] = j /\ vwq'[i] \in InUse
      BY <1>3, <1>4, <1>5, <2>1, <2>3
    <3> QED
      BY <1>1, <3>1
  <2>4. CASE f[i] # 0 /\ f[k] # 0
    <3>1. /\ f[i] \in DOMAIN vwq /\ f[k] \in DOMAIN vwq
          /\ vwq'[i] = vwq[f[i]] /\ vwq'[k] = vwq[f[k]]
      BY <1>3, <1>5, <2>4
    <3> QED
      BY <2>1, <3>1 DEF NoSharedWrites
  <2> QED
    BY <2>2, <2>3, <2>4
<1>7. ASSUME NEW i \in DOMAIN vwq', NEW t \in MinerThreads
      PROVE  ~Clash(vwq'[i], job'[t])
  <2>1. CASE f[i] = 0
    BY <1>1, <1>3, <1>4, <2>1
  <2>2. CASE f[i] # 0
    <3>1. f[i] \in DOMAIN vwq /\ vwq'[i] = vwq[f[i]]
      BY <1>3, <1>5, <2>2
    <3> QED
      BY <3>1 DEF NoSharedWrites
  <2> QED
    BY <2>1, <2>2
<1>8. \A t, u \in MinerThreads : t # u => ~Clash(job'[t], job'[u])
  BY DEF NoSharedWrites
<1> QED
  BY <1>2, <1>6, <1>7, <1>8 DEF NoSharedWrites, InBounds

LEMMA ApartPop ==
  ASSUME TypeOK, NoSharedWrites, NEW t \in MinerThreads, vwq # <<>>, vwq' = Tail(vwq),
         job' = [job EXCEPT ![t] = Head(vwq)]
  PROVE  NoSharedWrites'
<1>1. \A i \in DOMAIN vwq' : i + 1 \in DOMAIN vwq /\ i + 1 # 1 /\ vwq'[i] = vwq[i + 1]
  BY HeadTailProperties DEF TypeOK
<1>2. 1 \in DOMAIN vwq /\ Head(vwq) = vwq[1]
  BY DEF TypeOK
<1>3. job'[t] = vwq[1] /\ \A u \in MinerThreads \ {t} : job'[u] = job[u]
  BY <1>2 DEF TypeOK
<1>4. \A i, k \in DOMAIN vwq' : i # k => ~Clash(vwq'[i], vwq'[k])
  <2>1. \A i, k \in DOMAIN vwq' : i # k => i + 1 # k + 1
    BY HeadTailProperties DEF TypeOK
  <2> QED
    BY <1>1, <2>1 DEF NoSharedWrites
<1>5. \A u, v \in MinerThreads : u # v => ~Clash(job'[u], job'[v])
  BY <1>2, <1>3, ClashSymmetric DEF NoSharedWrites
<1>6. \A i \in DOMAIN vwq', u \in MinerThreads : ~Clash(vwq'[i], job'[u])
  BY <1>1, <1>2, <1>3 DEF NoSharedWrites
<1>7. InUse' \subseteq InUse
  BY InUsePop
<1> QED
  BY <1>4, <1>5, <1>6, <1>7 DEF NoSharedWrites

LEMMA ApartDone ==
  ASSUME TypeOK, NoSharedWrites, NEW t \in MinerThreads, vwq' = vwq,
         job' = [job EXCEPT ![t] = NoJob]
  PROVE  NoSharedWrites' /\ \A k \in InUse' : k \in InUse \/ k = NoJob
<1>1. job'[t] = NoJob /\ \A u \in MinerThreads \ {t} : job'[u] = job[u]
  BY DEF TypeOK
<1>2. \A k \in InUse' : k \in InUse \/ k = NoJob
  BY <1>1 DEF InUse
<1>3. \A k \in InUse' : InBounds(k)
  <2>1. InBounds(NoJob)
    BY DEF InBounds, NoJob
  <2> QED
    BY <1>2, <2>1 DEF NoSharedWrites, InBounds
<1>4. \A u, v \in MinerThreads : u # v => ~Clash(job'[u], job'[v])
  BY <1>1, ClashNone DEF NoSharedWrites
<1>5. \A i \in DOMAIN vwq', u \in MinerThreads : ~Clash(vwq'[i], job'[u])
  BY <1>1, ClashNone DEF NoSharedWrites
<1> QED
  BY <1>2, <1>3, <1>4, <1>5 DEF NoSharedWrites, InBounds

LEMMA ApartClear ==
  ASSUME NoSharedWrites, job' = job, vwq' = vwq \/ vwq' = <<>>
  PROVE  NoSharedWrites' /\ InUse' \subseteq InUse
<1>1. InUse' \subseteq InUse
  BY DEF InUse
<1> QED
  BY <1>1 DEF NoSharedWrites

(* Nothing is pushed, and where the master pushes next nothing is in use. *)
LEMMA ApartMove ==
  ASSUME Apart, NoSharedWrites', \A k \in InUse' : k \in InUse \/ k = NoJob,
         UNCHANGED <<base, which_sieve>>,
         \A u \in MinerThreads : pc'[u] = pc[u] \/ pc'[u] \notin {"pushmod", "pushsieve"}
  PROVE  Apart'
<1>1. NoJob.type # "MOD" /\ NoJob.type # "SIEVE"
  BY DEF NoJob
<1> QED
  BY <1>1 DEF Apart

LEMMA NothingOwed ==
  ASSUME TypeOK, InFlight({"MOD", "SIEVE"}) = 0
  PROVE  \A k \in InUse : k.type # "MOD" /\ k.type # "SIEVE"
<1> DEFINE A == {"MOD", "SIEVE"}
<1>1. Cardinality(Queued(A)) = 0 /\ Cardinality(Holding(A)) = 0
  BY InFlightNat DEF InFlight
<1>2. Queued(A) = {} /\ Holding(A) = {}
  BY <1>1, InFlightNat, FS_EmptySet
<1> QED
  BY <1>2 DEF InUse, Queued, Holding

LEMMA ApartMaster ==
  ASSUME Safe, Counted, Limited, Apart, NEW t \in MinerThreads, MasterStep(t)
  PROVE  Apart'
<1>a. /\ TypeOK /\ pc \in [MinerThreads -> PCs] /\ base \in Nat
      /\ which_sieve \in 0..NSieveWorkers-1 /\ NoSharedWrites
  BY DEF Safe, TypeOK, Apart
<1>j. job' = job
  BY DEF MasterStep, Prepare, PushMod, PopDone, EndMod, LeaveLoop,
         StartPass, PushSieve, SieveDense, Merge, ScanNext, PushBatch, ScanClear,
         ScanCheck, PollHeight, Reset, ScanEnd, Flush, EndClear, DrainPop, DrainCheck,
         DrainReset, Finish, workerVars
<1>m. i_am_master[t] /\ \A u \in MinerThreads \ {t} : pc[u] \notin RoundPCs
  <2>1. i_am_master[t]
    BY DEF Safe, Control, Place, Role, RoundPCs, MasterStep, Prepare, PushMod, PopDone,
         EndMod, LeaveLoop, StartPass, PushSieve, SieveDense, Merge, ScanNext, PushBatch,
         ScanClear, ScanCheck, Reset, ScanEnd, Flush, EndClear, DrainPop, DrainCheck,
         DrainReset, Finish
  <2> QED
    BY <2>1 DEF Safe, Control, Place, Role
(* The master starts to push: no job of a kind that is pushed is in use. *)
<1>b. ASSUME InFlight({"MOD", "SIEVE"}) = 0, vwq' = vwq
      PROVE  Apart'
  <2>1. \A k \in InUse : k.type # "MOD" /\ k.type # "SIEVE"
    BY <1>a, <1>b, NothingOwed
  <2>2. NoSharedWrites' /\ InUse' \subseteq InUse
    BY <1>a, <1>b, <1>j, ApartClear
  <2> QED
    BY <2>1, <2>2 DEF Apart
<1>1. CASE Prepare(t)
  <2>1. \A u \in MinerThreads : pc[u] \notin RoundPCs
    BY <1>1, <1>m DEF Prepare, RoundPCs
  <2>2. awaited = 0 /\ wdq \in Nat /\ InFlight({"MOD", "SIEVE"}) \in Nat
    BY <1>a, <2>1, InFlightNat, QueueAssumption DEF Counted, TypeOK
  <2>3. InFlight({"MOD", "SIEVE"}) = 0
    BY <2>2 DEF Counted, JobsAccounted
  <2> QED
    BY <1>1, <1>b, <2>3 DEF Prepare, queueVars
<1>2. CASE StartPass(t)
  <2>1. awaited = 0 /\ wdq \in Nat /\ InFlight({"MOD", "SIEVE"}) \in Nat
    <3>1. pc[t] = "looptop"
      BY <1>2 DEF StartPass
    <3>2. awaited = 0
      BY <3>1 DEF Counted, Settled
    <3>3. wdq \in Nat
      BY <1>a, QueueAssumption DEF TypeOK
    <3> QED
      BY <1>a, <3>2, <3>3, InFlightNat
  <2>2. InFlight({"MOD", "SIEVE"}) = 0
    BY <2>1 DEF Counted, JobsAccounted
  <2> QED
    BY <1>2, <1>b, <2>2 DEF StartPass, queueVars
<1>3. CASE PushMod(t)
  <2> DEFINE j == [type |-> "MOD", start |-> base,
                   end |-> Least(PrimeTestSize, base + ModIncr)]
  <2>1. ModIncr \in Nat \ {0} /\ awaited \in Nat /\ awaited * ModIncr \in Nat
    <3>1. ModIncr \in Nat \ {0} /\ awaited \in Nat
      BY <1>a, ModIncrPositive, AwaitedNat
    <3> QED
      BY <3>1, OneMore
  <2>2. /\ pc[t] = "pushmod" /\ base' = base + ModIncr /\ vwq' = Append(vwq, j)
        /\ pc'[t] \in {"pushmod", "waitmod"}
        /\ \A u \in MinerThreads \ {t} : pc'[u] = pc[u]
    BY <1>3, <1>a DEF PushMod, Goto
  <2>3. /\ j \in Jobs /\ j.type = "MOD" /\ j.start = base /\ j.end <= base'
    BY <1>a, <2>1, <2>2, TableAssumption DEF Least, Jobs, ModJobs
  <2>4. base >= PrimorialNumber
    <3>1. base = PrimorialNumber + awaited * ModIncr
      BY <2>2 DEF Limited, PushingMod
    <3> QED
      BY <2>1, <3>1, TableAssumption
  <2> HIDE DEF j
  <2>5. \A k \in InUse : k.type = "MOD" => k.end <= base
    BY <2>2 DEF Apart
  <2>6. \A k \in InUse : k \in Jobs \cup {NoJob}
    BY <1>a DEF InUse, TypeOK
  <2>7. ASSUME NEW k \in InUse
        PROVE  ~Clash(j, k)
    <3>1. CASE k.type # "MOD"
      BY <2>3, <3>1 DEF Clash
    <3>2. CASE k.type = "MOD"
      <4>1. k \in ModJobs
        BY <2>6, <3>2 DEF Jobs, ModJobs, SieveJobs, CheckJobs, NoJob
      <4>2. k.end \in Nat /\ k.end <= base
        BY <4>1, <2>5 DEF ModJobs
      <4> QED
        BY <1>a, <2>3, <4>2 DEF Clash
    <3> QED
      BY <3>1, <3>2
  <2>8. NoSharedWrites'
    BY <1>a, <1>j, <2>2, <2>3, <2>4, <2>7, ApartPush DEF InBounds
  <2>9. \A k \in InUse' : k.type = "MOD" => k.end <= base'
    <3>1. \A k \in InUse' : k = j \/ k \in InUse
      BY <1>a, <1>j, <2>2, <2>3, InUsePush
    <3>2. ASSUME NEW k \in InUse, k.type = "MOD"
          PROVE  k.end <= base'
      <4>1. k \in ModJobs
        BY <2>6, <3>2 DEF Jobs, ModJobs, SieveJobs, CheckJobs, NoJob
      <4>2. k.end \in Nat /\ k.end <= base
        BY <4>1, <2>5, <3>2 DEF ModJobs
      <4> QED
        BY <1>a, <2>1, <2>2, <4>2
    <3> QED
      BY <2>3, <3>1, <3>2
  <2>10. \A u \in MinerThreads : pc'[u] # "pushsieve"
    BY <1>m, <2>2 DEF RoundPCs
  <2> QED
    BY <2>8, <2>9, <2>10 DEF Apart
<1>4. CASE PushSieve(t)
  <2> DEFINE j == [type |-> "SIEVE", start |-> base, end |-> SieveEnd(base),
                   sieveId |-> which_sieve]
  <2>1. SieveIncr \in Nat \ {0} /\ awaited \in Nat /\ awaited * SieveIncr \in Nat
    <3>1. SieveIncr \in Nat \ {0} /\ awaited \in Nat
      BY <1>a, SieveIncrEnough, AwaitedNat
    <3> QED
      BY <3>1, OneMore
  <2>2. /\ pc[t] = "pushsieve" /\ base' = base + SieveIncr /\ vwq' = <<j>> \o vwq
        /\ awaited' = awaited + 1
        /\ \A u \in MinerThreads \ {t} : pc'[u] = pc[u]
    BY <1>4, <1>a DEF PushSieve, Goto
  <2>3. /\ pc'[t] \in {"pushsieve", "dense"}
        /\ pc'[t] = "pushsieve" => which_sieve' = awaited' /\ SieveEnd(base) = base'
    BY <1>4, LimitedPushSieve
  <2>4. j \in Jobs /\ j.type = "SIEVE" /\ j.start = base /\ j.sieveId = which_sieve
        /\ j.end = SieveEnd(base)
    BY <1>a, SieveEndBound DEF Jobs, SieveJobs
  <2>5. base >= NDense /\ which_sieve = awaited
    <3>1. base = NDense + awaited * SieveIncr /\ which_sieve = awaited
      BY <2>2 DEF Limited, PushingSieve
    <3> QED
      BY <2>1, <3>1, TableAssumption
  <2> HIDE DEF j
  <2>6. \A k \in InUse : k \in Jobs \cup {NoJob}
    BY <1>a DEF InUse, TypeOK
  <2>7. ASSUME NEW k \in InUse, k.type = "SIEVE"
        PROVE  /\ k.end \in Nat /\ k.sieveId \in Int
               /\ k.end <= base /\ k.sieveId < which_sieve
    <3>1. k \in SieveJobs
      BY <2>6, <2>7 DEF Jobs, ModJobs, SieveJobs, CheckJobs, NoJob
    <3>2. k.end \in Nat /\ k.sieveId \in 0..NSieveWorkers-1
      BY <3>1 DEF SieveJobs
    <3>3. k.end <= base /\ k.sieveId < which_sieve
      BY <2>2, <2>7 DEF Apart
    <3> QED
      BY <3>2, <3>3
  <2>8. \A k \in InUse : ~Clash(j, k)
    BY <1>a, <2>4, <2>7 DEF Clash
  <2>9. NoSharedWrites'
    BY <1>a, <1>j, <2>2, <2>4, <2>5, <2>8, ApartPush DEF InBounds
  <2>10. pc'[t] = "pushsieve" =>
           \A k \in InUse' : k.type = "SIEVE" => k.end <= base' /\ k.sieveId < which_sieve'
    <3>1. \A k \in InUse' : k = j \/ k \in InUse
      BY <1>a, <1>j, <2>2, <2>4, InUsePush
    <3>2. pc'[t] = "pushsieve" => j.end <= base' /\ j.sieveId < which_sieve'
      BY <1>a, <2>1, <2>2, <2>3, <2>4, <2>5
    <3>3. pc'[t] = "pushsieve" =>
            \A k \in InUse : k.type = "SIEVE" => k.end <= base' /\ k.sieveId < which_sieve'
      BY <1>a, <2>1, <2>2, <2>3, <2>5, <2>7
    <3> QED
      BY <3>1, <3>2, <3>3
  <2>11. \A u \in MinerThreads : pc'[u] # "pushmod" /\ (u = t \/ pc'[u] # "pushsieve")
    BY <1>m, <2>2, <2>3 DEF RoundPCs
  <2> QED
    BY <2>9, <2>10, <2>11 DEF Apart
<1>c. ASSUME PushTests, n_indexes > 0, target \in Headers, UNCHANGED <<base, which_sieve>>,
             \A u \in MinerThreads : pc'[u] = pc[u] \/ pc'[u] \notin {"pushmod", "pushsieve"}
      PROVE  Apart'
  <2> DEFINE j == [type |-> "CHECK", n_indexes |-> n_indexes, header |-> target]
  <2>1. n_indexes \in 1..WorkIndexes
    BY <1>a, <1>c, BoundAssumption DEF TypeOK
  <2>2. j \in Jobs /\ j.type = "CHECK" /\ vwq' = Append(vwq, j)
    BY <1>c, <2>1 DEF Jobs, CheckJobs, PushTests
  <2> HIDE DEF j
  <2>3. \A k : ~Clash(j, k)
    BY <2>2 DEF Clash
  <2>4. NoSharedWrites'
    BY <1>a, <1>j, <2>2, <2>3, ApartPush DEF InBounds
  <2>5. \A k \in InUse' : k = j \/ k \in InUse
    BY <1>a, <1>j, <2>2, InUsePush
  <2> QED
    BY <1>c, <2>2, <2>4, <2>5 DEF Apart
<1>h. pc[t] \in RoundPCs => target \in Headers
  BY DEF Safe, Control, Place, OwnHeader, RoundPCs, WorkerPCs
<1>5. CASE PushBatch(t)
  <2>1. n_indexes > 0 /\ target \in Headers
    BY <1>5, <1>h, BoundAssumption
       DEF PushBatch, Safe, Control, Place, BatchSize, RoundPCs
  <2> QED
    BY <1>5, <1>a, <1>c, <2>1 DEF PushBatch, Goto
<1>6. CASE Flush(t)
  <2>1. target \in Headers
    BY <1>6, <1>h DEF Flush, RoundPCs
  <2>2. /\ UNCHANGED <<base, which_sieve>>
        /\ \A u \in MinerThreads : pc'[u] = pc[u] \/ pc'[u] \notin {"pushmod", "pushsieve"}
    BY <1>6, <1>a DEF Flush, Goto
  <2>3. CASE n_indexes > 0
    BY <1>6, <1>c, <2>1, <2>2, <2>3 DEF Flush
  <2>4. CASE ~(n_indexes > 0)
    <3>1. vwq' = vwq
      BY <1>6, <2>4 DEF Flush
    <3> QED
      BY <1>a, <1>j, <2>2, <3>1, ApartClear, ApartMove
  <2> QED
    BY <2>3, <2>4
<1>7. CASE ~(\/ Prepare(t) \/ StartPass(t) \/ PushMod(t) \/ PushSieve(t)
             \/ PushBatch(t) \/ Flush(t))
  <2>1. vwq' = vwq \/ vwq' = <<>>
    BY <1>7 DEF MasterStep, PopDone, EndMod, LeaveLoop, SieveDense, Merge, ScanNext,
         ScanClear, ScanCheck, PollHeight, Reset, ClearTests, ScanEnd,
         EndClear, DrainPop, DrainCheck, DrainReset, Finish, queueVars
  <2>2. UNCHANGED <<base, which_sieve>>
    BY <1>7 DEF MasterStep, PopDone, EndMod, LeaveLoop, SieveDense, Merge, ScanNext,
         ScanClear, ScanCheck, PollHeight, Reset, ClearTests, ScanEnd,
         EndClear, DrainPop, DrainCheck, DrainReset, Finish, masterVars
  <2>3. \A u \in MinerThreads : pc'[u] = pc[u] \/ pc'[u] \notin {"pushmod", "pushsieve"}
    <3>1. CASE PopDone(t) \/ EndMod(t) \/ LeaveLoop(t) \/ SieveDense(t) \/ Merge(t)
      BY <1>a, <3>1 DEF PopDone, EndMod, LeaveLoop, SieveDense, Merge, Goto
    <3>2. CASE ScanNext(t) \/ ScanClear(t) \/ ScanCheck(t) \/ Reset(t) \/ ScanEnd(t)
      BY <1>a, <3>2 DEF ScanNext, ScanClear, ScanCheck, PollHeight, Reset, ScanEnd, Goto
    <3>3. CASE EndClear(t) \/ DrainPop(t) \/ DrainCheck(t) \/ DrainReset(t) \/ Finish(t)
      BY <1>a, <3>3 DEF EndClear, DrainPop, DrainCheck, PollHeight, DrainReset, Finish, Goto
    <3> QED
      BY <1>7, <3>1, <3>2, <3>3 DEF MasterStep
  <2> QED
    BY <1>a, <1>j, <2>1, <2>2, <2>3, ApartClear, ApartMove
<1> QED
  BY <1>1, <1>2, <1>3, <1>4, <1>5, <1>6, <1>7

LEMMA ApartWorker ==
  ASSUME Safe, Apart, NEW t \in MinerThreads, WorkerStep(t)
  PROVE  Apart'
<1>1. UNCHANGED <<base, which_sieve>>
  BY DEF WorkerStep, Pop, UpdateRemainders, ProcessSieve, PushWorkerDone,
         TestIndex, SubmitShare, PushTestDone, JobDone, masterVars
<1>2. \A u \in MinerThreads : pc'[u] = pc[u] \/ pc'[u] \notin {"pushmod", "pushsieve"}
  BY WorkerMoves DEF WorkerPCs
<1>3. NoSharedWrites' /\ \A k \in InUse' : k \in InUse \/ k = NoJob
  <2>1. TypeOK /\ NoSharedWrites
    BY DEF Safe, Apart
  <2>2. CASE Pop(t)
    BY <2>1, <2>2, ApartPop, InUsePop DEF Pop
  <2>3. CASE job' = job /\ vwq' = vwq
    BY <2>1, <2>3, ApartClear
  <2>4. CASE job' = [job EXCEPT ![t] = NoJob] /\ vwq' = vwq
    BY <2>1, <2>4, ApartDone
  <2> QED
    BY <2>2, <2>3, <2>4 DEF WorkerStep, UpdateRemainders, ProcessSieve, PushWorkerDone,
       TestIndex, SubmitShare, PushTestDone, JobDone, workerVars, queueVars
<1> QED
  BY <1>1, <1>2, <1>3, ApartMove

LEMMA ApartNext == Safe /\ Counted /\ Limited /\ Apart /\ [Next]_vars => Apart'
<1> SUFFICES ASSUME Safe, Counted, Limited, Apart, [Next]_vars PROVE Apart'
  OBVIOUS
<1>1. ASSUME UNCHANGED <<vwq, job, base, which_sieve>>,
             \A u \in MinerThreads : pc'[u] = pc[u] \/ pc'[u] \notin {"pushmod", "pushsieve"}
      PROVE  Apart'
  <2>1. NoSharedWrites' /\ InUse' \subseteq InUse
    BY <1>1, ApartClear DEF Apart
  <2> QED
    BY <1>1, <2>1, ApartMove
<1>2. CASE MainStep \/ UNCHANGED vars
  BY <1>1, <1>2 DEF MainStep, vars, workerVars, queueVars, masterVars
<1>3. ASSUME NEW t \in MinerThreads, StartStep(t)
      PROVE  Apart'
  <2>1. UNCHANGED <<vwq, job, base, which_sieve>>
    BY <1>3 DEF StartStep, TakeWork, CheckAlgorithm, Elect, ElectLocked, Join,
       workerVars, queueVars, masterVars
  <2>2. \A u \in MinerThreads : pc'[u] = pc[u] \/ pc'[u] \notin {"pushmod", "pushsieve"}
    BY <1>3, StartMoves DEF RoundPCs
  <2> QED
    BY <1>1, <2>1, <2>2
<1>4. ASSUME NEW t \in MinerThreads, ThreadStep(t)
      PROVE  Apart'
  BY <1>3, <1>4, ApartMaster, ApartWorker DEF ThreadStep
<1> QED
  BY <1>2, <1>4 DEF Next

LEMMA ApartInit == Init => Apart
<1> SUFFICES ASSUME Init PROVE Apart
  OBVIOUS
<1>1. vwq = <<>> /\ \A t \in MinerThreads : job[t] = NoJob
  BY DEF Init
<1>2. DOMAIN vwq = {} /\ \A k \in InUse : k = NoJob
  BY <1>1, NoJobs DEF InUse
<1>3. NoJob.type # "MOD" /\ NoJob.type # "SIEVE"
  BY DEF NoJob
<1> QED
  BY <1>1, <1>2, <1>3, ClashNone DEF Apart, NoSharedWrites

LEMMA ApartAlways == Spec => []Apart
BY ApartInit, SafeAlways, CountedAlways, LimitedAlways, ApartNext, PTL DEF Spec

(***************************************************************************)
(* No two jobs in the queue or with a worker write the same offsets or the *)
(* same sieve, and none writes what the master sieves itself, however      *)
(* queue and workers interleave (lines 635-655, 690-745).                  *)
(***************************************************************************)
THEOREM JobsShareNoWrites == Spec => []NoSharedWrites
<1>1. Apart => NoSharedWrites
  BY DEF Apart
<1> QED
  BY <1>1, ApartAlways, PTL

-----------------------------------------------------------------------------
(* The sieve.  A prime is prepared by a MOD job, then marked once a pass:  *)
(* the dense ones by the master, the sparse ones by SIEVE jobs, the others *)
(* from the buckets.  What is missing is due to a job, or not pushed yet.  *)
ModPCs == {"pushmod", "waitmod"}
PassPCs == {"pushsieve", "dense", "waitsieve"}
ScanPCs == {"scan", "pushbatch", "scanclear", "scancheck", "reset", "flush"}
SieveIds == 0..NSieveWorkers-1

(* The jobs no worker has executed yet, and the primes of a job. *)
ToDo == {vwq[i] : i \in DOMAIN vwq}
          \cup {job[u] : u \in {v \in MinerThreads : pc[v] \in {"mod", "sieve"}}}
Span(j) == IF j.type = "MOD" THEN j.start .. j.end - 1
           ELSE PrimorialNumber + j.start .. PrimorialNumber + j.end - 1
Due(type, p) == \E j \in ToDo : j.type = type /\ p \in Span(j)

Current(p, n) == offsets[p] = [header |-> target, pass |-> n]
AllMarks(S) == {<<p, target, loop>> : p \in S}

Prepared(p) == IF p \in OnceOnly THEN <<p, target>> \in hits ELSE Current(p, 0)
Preparing(t) ==
  /\ hits \subseteq OnceOnly \X {target}
  /\ \A j \in InUse : j.type # "SIEVE"
  /\ \A p \in Primes : Prepared(p) \/ Due("MOD", p) \/ (pc[t] = "pushmod" /\ p >= base)

Marked(p) ==
  Current(p, loop + 1) /\ \E s \in SieveIds : <<p, target, loop>> \in sieves[s]
Unpushed(t, p) == pc[t] = "pushsieve" /\ p >= PrimorialNumber + base
Passing(t) ==
  /\ \A s \in SieveIds : sieves[s] \subseteq AllMarks(Sparse)
  /\ \A p \in Sparse : Marked(p) \/ Due("SIEVE", p) \/ Unpushed(t, p)
  /\ \A p \in Sparse : Due("SIEVE", p) \/ Unpushed(t, p) => Current(p, loop)
  /\ IF pc[t] = "waitsieve"
     THEN sieve = AllMarks(Dense) /\ \A p \in Dense : Current(p, loop + 1)
     ELSE \A p \in Dense : Current(p, loop)

Sieving(t) ==
  /\ pc[t] \in ModPCs => Preparing(t)
  /\ pc[t] \in RoundPCs \ ModPCs =>
       hits = OnceOnly \X {target} /\ \A j \in InUse : j.type # "MOD"
  /\ pc[t] = "looptop" => \A p \in Dense \cup Sparse : Current(p, loop)
  /\ pc[t] \in PassPCs => Passing(t)
  /\ pc[t] \in ScanPCs =>
       /\ sieve = AllMarks(Primes)
       /\ \A p \in Dense \cup Sparse : Current(p, loop + 1)

Whole == \A t \in MinerThreads : Sieving(t)

LEMMA Parts ==
  /\ Dense \cap Sparse = {} /\ OnceOnly \cap (Dense \cup Sparse) = {}
  /\ Primes = Dense \cup Sparse \cup OnceOnly
BY TableAssumption DEF Primes, Dense, Sparse, OnceOnly

LEMMA NothingToDo ==
  ASSUME TypeOK, InFlight({"MOD", "SIEVE"}) = 0
  PROVE  \A p : ~Due("MOD", p) /\ ~Due("SIEVE", p)
<1>1. ToDo \subseteq InUse
  BY DEF ToDo, InUse
<1> QED
  BY <1>1, NothingOwed DEF Due

(* The master waits for nothing: nothing is owed. *)
LEMMA NothingAwaited ==
  ASSUME TypeOK, Counted, awaited = 0
  PROVE  InFlight({"MOD", "SIEVE"}) = 0
<1>1. InFlight({"MOD", "SIEVE"}) \in Nat /\ wdq \in Nat
  BY InFlightNat, QueueAssumption DEF TypeOK
<1> QED
  BY <1>1 DEF Counted, JobsAccounted

LEMMA ToDoPush ==
  ASSUME TypeOK, NEW j \in Jobs, job' = job,
         vwq' = Append(vwq, j) \/ vwq' = <<j>> \o vwq,
         \A u \in MinerThreads : pc'[u] = pc[u] \/ {pc[u], pc'[u]} \cap {"mod", "sieve"} = {}
  PROVE  ToDo' = ToDo \cup {j}
<1>1. vwq \in Seq(Jobs) /\ Len(vwq) \in Nat /\ DOMAIN vwq = 1..Len(vwq)
  BY DEF TypeOK
<1>2. {vwq'[i] : i \in DOMAIN vwq'} = {vwq[i] : i \in DOMAIN vwq} \cup {j}
  <2>1. CASE vwq' = Append(vwq, j)
    <3>1. /\ DOMAIN vwq' = 1..Len(vwq)+1 /\ vwq'[Len(vwq)+1] = j
          /\ \A i \in 1..Len(vwq) : vwq'[i] = vwq[i]
      BY <1>1, <2>1, AppendProperties
    <3>2. \A i \in DOMAIN vwq' : vwq'[i] = j \/ (i \in DOMAIN vwq /\ vwq'[i] = vwq[i])
      BY <1>1, <3>1
    <3>3. Len(vwq)+1 \in DOMAIN vwq' /\ \A i \in DOMAIN vwq : i \in DOMAIN vwq'
      BY <1>1, <3>1
    <3> QED
      BY <1>1, <3>1, <3>2, <3>3
  <2>2. CASE vwq' = <<j>> \o vwq
    <3>1. <<j>> \in Seq(Jobs) /\ Len(<<j>>) = 1 /\ <<j>>[1] = j
      OBVIOUS
    <3>2. /\ DOMAIN vwq' = 1..Len(vwq)+1 /\ vwq'[1] = j
          /\ \A i \in 2..Len(vwq)+1 : vwq'[i] = vwq[i-1]
      BY <1>1, <2>2, <3>1, ConcatProperties
    <3>3. \A i \in DOMAIN vwq' : vwq'[i] = j \/ (i-1 \in DOMAIN vwq /\ vwq'[i] = vwq[i-1])
      BY <1>1, <3>2
    <3>4. /\ 1 \in DOMAIN vwq'
          /\ \A i \in DOMAIN vwq : i+1 \in DOMAIN vwq' /\ vwq'[i+1] = vwq[i]
      BY <1>1, <3>2
    <3> QED
      BY <3>2, <3>3, <3>4
  <2> QED
    BY <2>1, <2>2
<1> QED
  BY <1>2 DEF ToDo

LEMMA ToDoSame ==
  ASSUME job' = job, vwq' = vwq,
         \A u \in MinerThreads : pc'[u] = pc[u] \/ {pc[u], pc'[u]} \cap {"mod", "sieve"} = {}
  PROVE  ToDo' = ToDo
BY DEF ToDo

(* A worker takes a job from the queue. *)
LEMMA ToDoPop ==
  ASSUME Safe, NEW t \in MinerThreads, Pop(t)
  PROVE  /\ ToDo' \subseteq ToDo
         /\ \A j \in ToDo : j.type \in {"MOD", "SIEVE"} => j \in ToDo'
<1>1. /\ vwq # <<>> /\ vwq \in Seq(Jobs) /\ vwq' = Tail(vwq)
      /\ job \in [MinerThreads -> Jobs \cup {NoJob}] /\ pc \in [MinerThreads -> PCs]
      /\ job' = [job EXCEPT ![t] = Head(vwq)] /\ pc[t] = "pop"
      /\ pc' = [pc EXCEPT ![t] = WorkPC(Head(vwq).type)]
  BY DEF Safe, TypeOK, Pop, Goto
<1>2. /\ 1 \in DOMAIN vwq /\ Head(vwq) = vwq[1] /\ Head(vwq) \in Jobs
      /\ \A i \in DOMAIN vwq' : i + 1 \in DOMAIN vwq /\ vwq'[i] = vwq[i + 1]
      /\ \A i \in DOMAIN vwq : i = 1 \/ (i - 1 \in DOMAIN vwq' /\ vwq[i] = vwq'[i - 1])
  BY <1>1, HeadTailProperties
<1>3. Head(vwq).type \in {"MOD", "SIEVE"} => pc'[t] \in {"mod", "sieve"}
  BY <1>1 DEF WorkPC
<1>4. job'[t] = vwq[1] /\ \A u \in MinerThreads \ {t} : job'[u] = job[u] /\ pc'[u] = pc[u]
  BY <1>1, <1>2
<1>5. ToDo' \subseteq ToDo
  BY <1>2, <1>4 DEF ToDo
<1>6. ASSUME NEW j \in ToDo, j.type \in {"MOD", "SIEVE"}
      PROVE  j \in ToDo'
  <2>1. CASE \E i \in DOMAIN vwq : j = vwq[i]
    <3>1. PICK i \in DOMAIN vwq : j = vwq[i]
      BY <2>1
    <3>2. CASE i = 1
      BY <1>2, <1>3, <1>4, <1>6, <3>1, <3>2 DEF ToDo
    <3>3. CASE i # 1
      <4>1. i - 1 \in DOMAIN vwq' /\ j = vwq'[i - 1]
        BY <1>2, <3>1, <3>3
      <4> QED
        BY <4>1 DEF ToDo
    <3> QED
      BY <3>2, <3>3
  <2>2. CASE \E u \in MinerThreads : pc[u] \in {"mod", "sieve"} /\ j = job[u]
    <3>1. PICK u \in MinerThreads : pc[u] \in {"mod", "sieve"} /\ j = job[u]
      BY <2>2
    <3>2. u # t
      BY <1>1, <3>1
    <3> QED
      BY <1>4, <3>1, <3>2 DEF ToDo
  <2> QED
    BY <2>1, <2>2 DEF ToDo
<1> QED
  BY <1>5, <1>6

(* A worker executes its job. *)
LEMMA ToDoExecute ==
  ASSUME TypeOK, NEW t \in MinerThreads, job' = job, vwq' = vwq,
         pc' = [pc EXCEPT ![t] = "wdqpush"]
  PROVE  /\ ToDo \subseteq ToDo' \cup {job[t]}
         /\ \A j \in ToDo' :
              /\ j \in ToDo
              /\ \/ \E i \in DOMAIN vwq : j = vwq[i]
                 \/ \E u \in MinerThreads \ {t} : j = job[u]
<1>1. pc'[t] = "wdqpush" /\ \A u \in MinerThreads \ {t} : pc'[u] = pc[u]
  BY DEF TypeOK
<1> QED
  BY <1>1 DEF ToDo

(* Nothing of the sieve changes, nor what is due to it. *)
LEMMA SievingSame ==
  ASSUME NEW t \in MinerThreads, Sieving(t), pc'[t] = pc[t],
         UNCHANGED <<hits, offsets, sieves, sieve, target, loop, base>>,
         \A j \in InUse' : j \in InUse \/ j.type \notin {"MOD", "SIEVE"},
         ToDo' \subseteq ToDo,
         \A j \in ToDo : j.type \in {"MOD", "SIEVE"} => j \in ToDo'
  PROVE  Sieving(t)'
<1>1. \A p : /\ Due("MOD", p)' <=> Due("MOD", p)
             /\ Due("SIEVE", p)' <=> Due("SIEVE", p)
  BY DEF Due, Span
<1>2. /\ \A p, n : Current(p, n)' <=> Current(p, n)
      /\ \A S : AllMarks(S)' = AllMarks(S)
      /\ \A p : Prepared(p)' <=> Prepared(p)
      /\ \A p : Marked(p)' <=> Marked(p)
      /\ \A p : Unpushed(t, p)' <=> Unpushed(t, p)
  BY DEF Current, AllMarks, Prepared, Marked, Unpushed
<1>3. pc[t] \in ModPCs => Preparing(t)'
  BY <1>1, <1>2 DEF Sieving, Preparing
<1>4. pc[t] \in PassPCs => Passing(t)'
  BY <1>1, <1>2 DEF Sieving, Passing
<1> QED
  BY <1>2, <1>3, <1>4 DEF Sieving

LEMMA SievingElsewhere ==
  ASSUME NEW t, pc'[t] \notin RoundPCs
  PROVE  Sieving(t)'
BY DEF Sieving, ModPCs, PassPCs, ScanPCs, RoundPCs

LEMMA SievingUpdate ==
  ASSUME Safe, Whole, NEW u \in MinerThreads, UpdateRemainders(u),
         NEW t \in MinerThreads, pc[t] \in RoundPCs
  PROVE  Sieving(t)'
<1> DEFINE S == job[u].start .. job[u].end - 1
<1>1. /\ TypeOK /\ pc[u] = "mod" /\ t # u /\ pc'[t] = pc[t]
      /\ job' = job /\ vwq' = vwq /\ pc' = [pc EXCEPT ![u] = "wdqpush"]
      /\ UNCHANGED <<sieves, sieve, target, loop, base>>
      /\ hits' = hits \cup {<<p, target>> : p \in S \cap OnceOnly}
      /\ offsets' = [p \in DOMAIN offsets |->
                       IF p \in S THEN [header |-> target, pass |-> 0] ELSE offsets[p]]
      /\ DOMAIN offsets = Dense \cup Sparse
  BY DEF Safe, TypeOK, UpdateRemainders, Goto, RoundPCs, workerVars, queueVars, masterVars
<1>2. job[u] \in InUse /\ job[u].type = "MOD" /\ Span(job[u]) = S
  <2>1. job[u] \in ModJobs
    BY <1>1 DEF Safe, Control, Place, OwnJob
  <2> QED
    BY <2>1 DEF InUse, ModJobs, Span
<1>3. pc[t] \in ModPCs /\ Preparing(t)
  BY <1>2 DEF Whole, Sieving
<1>4. /\ hits' \subseteq OnceOnly \X {target'}
      /\ \A j \in InUse' : j.type # "SIEVE"
  BY <1>1, <1>3 DEF Preparing, InUse
<1>5. ToDo \subseteq ToDo' \cup {job[u]}
  BY <1>1, ToDoExecute
<1>6. ASSUME NEW p \in Primes
      PROVE  \/ Prepared(p)' \/ Due("MOD", p)'
             \/ (pc'[t] = "pushmod" /\ p >= base')
  <2>1. CASE p \in S \/ Prepared(p)
    <3>1. CASE p \in OnceOnly
      BY <1>1, <2>1, <3>1 DEF Prepared
    <3>2. CASE p \notin OnceOnly
      <4>1. p \in DOMAIN offsets
        BY <1>1, <3>2, Parts
      <4>2. offsets'[p] = [header |-> target, pass |-> 0]
        BY <1>1, <2>1, <3>2, <4>1 DEF Prepared, Current
      <4> QED
        BY <1>1, <3>2, <4>2 DEF Prepared, Current
    <3> QED
      BY <3>1, <3>2
  <2>2. CASE p \notin S /\ Due("MOD", p)
    <3>1. PICK j \in ToDo : j.type = "MOD" /\ p \in Span(j)
      BY <2>2 DEF Due
    <3>2. j \in ToDo'
      BY <1>2, <1>5, <2>2, <3>1
    <3> QED
      BY <3>1, <3>2 DEF Due, Span
  <2> QED
    BY <1>1, <1>3, <2>1, <2>2 DEF Preparing
<1>7. Preparing(t)'
  BY <1>4, <1>6 DEF Preparing
<1> QED
  BY <1>1, <1>3, <1>7 DEF Sieving, ModPCs, PassPCs, ScanPCs, RoundPCs

(* A prime of two ranges: the ranges clash. *)
LEMMA Overlap ==
  ASSUME NEW m \in Nat, NEW a \in Nat, NEW b \in Nat, NEW c \in Nat, NEW d \in Nat,
         NEW p \in m + a .. m + b - 1, p \in m + c .. m + d - 1
  PROVE  a < d /\ c < b
OBVIOUS

LEMMA SievedSpan ==
  ASSUME NEW a \in Nat, NEW b \in Nat, a >= NDense, b <= NDense + NSparse
  PROVE  LET S == PrimorialNumber + a .. PrimorialNumber + b - 1
         IN  S \subseteq Sparse /\ S \cap Dense = {}
BY TableAssumption DEF Sparse, Dense

LEMMA SievingProcess ==
  ASSUME Safe, Counted, Apart, Whole, NEW u \in MinerThreads, ProcessSieve(u),
         NEW t \in MinerThreads, pc[t] \in RoundPCs
  PROVE  Sieving(t)'
<1> DEFINE S == PrimorialNumber + job[u].start .. PrimorialNumber + job[u].end - 1
<1>1. /\ TypeOK /\ pc[u] = "sieve" /\ t # u /\ pc'[t] = pc[t]
      /\ job' = job /\ vwq' = vwq /\ pc' = [pc EXCEPT ![u] = "wdqpush"]
      /\ UNCHANGED <<hits, sieve, target, loop, base>>
      /\ sieves' = [sieves EXCEPT ![job[u].sieveId] = @ \cup {Mark(p) : p \in S}]
      /\ offsets' = Advance(S)
      /\ DOMAIN offsets = Dense \cup Sparse /\ loop \in Nat
      /\ sieves \in [SieveIds -> SUBSET Marks]
  BY DEF Safe, TypeOK, ProcessSieve, Goto, RoundPCs, workerVars, queueVars, masterVars,
         SieveIds
<1>2. /\ job[u] \in SieveJobs /\ job[u] \in InUse /\ job[u].type = "SIEVE"
      /\ Span(job[u]) = S /\ job[u].sieveId \in SieveIds
      /\ job[u].start >= NDense /\ job[u].end <= NDense + NSparse
      /\ job[u].start \in Nat /\ job[u].end \in Nat
  <2>1. job[u] \in SieveJobs /\ job[u] \in InUse
    BY <1>1 DEF Safe, Control, Place, OwnJob, InUse
  <2>2. job[u].type = "SIEVE" /\ job[u] # NoJob
    BY <2>1 DEF SieveJobs, NoJob
  <2>3. job[u].start >= NDense /\ job[u].end <= NDense + NSparse
    BY <2>1, <2>2 DEF Apart, NoSharedWrites, Safe, Control, Place, Sound
  <2> QED
    BY <2>1, <2>2, <2>3 DEF SieveJobs, Span, SieveIds
<1>3. pc[t] \in PassPCs /\ Passing(t)
  <2>1. pc[t] \notin Settled
    <3>1. CASE pc[t] \in Settled
      <4>1. awaited = 0
        BY <3>1 DEF Counted
      <4> QED
        BY <1>1, <1>2, <4>1, NothingAwaited, NothingOwed
    <3> QED
      BY <3>1
  <2>2. pc[t] \notin ModPCs
    BY <1>2 DEF Whole, Sieving, Preparing
  <2>3. pc[t] # "aborted"
    BY DEF Counted, NoAbort
  <2> QED
    BY <2>1, <2>2, <2>3 DEF Whole, Sieving, Settled, ModPCs, PassPCs, RoundPCs
<1>4. S \subseteq Sparse /\ S \cap Dense = {}
  BY <1>2, SievedSpan
<1>5. /\ ToDo \subseteq ToDo' \cup {job[u]}
      /\ \A j \in ToDo' :
           /\ j \in ToDo
           /\ \/ \E i \in DOMAIN vwq : j = vwq[i]
              \/ \E v \in MinerThreads \ {u} : j = job[v]
  BY <1>1, ToDoExecute
(* The primes of this job are at this pass; no other job due has them. *)
<1>6. \A p \in S : Current(p, loop)
  <2>1. job[u] \in ToDo
    BY <1>1 DEF ToDo
  <2>2. \A p \in S : Due("SIEVE", p)
    BY <1>2, <2>1 DEF Due
  <2> QED
    BY <1>3, <1>4, <2>2 DEF Passing
<1>7. ASSUME NEW p, Due("SIEVE", p)'
      PROVE  p \notin S /\ Due("SIEVE", p)
  <2>1. PICK j \in ToDo' : j.type = "SIEVE" /\ p \in Span(j)
    BY <1>7 DEF Due, Span
  <2>2. j \in ToDo /\ ~Clash(job[u], j)
    <3>1. CASE \E i \in DOMAIN vwq : j = vwq[i]
      BY <1>5, <3>1, ClashSymmetric DEF Apart, NoSharedWrites
    <3>2. CASE \E v \in MinerThreads \ {u} : j = job[v]
      BY <1>5, <3>2 DEF Apart, NoSharedWrites
    <3> QED
      BY <1>5, <3>1, <3>2
  <2>3. j \in SieveJobs
    <3>1. j \in Jobs \cup {NoJob}
      BY <1>1, <2>2 DEF ToDo, TypeOK
    <3> QED
      BY <2>1, <3>1 DEF Jobs, ModJobs, SieveJobs, CheckJobs, NoJob
  <2>4. Due("SIEVE", p)
    BY <2>1, <2>2 DEF Due
  <2>5. CASE p \in S
    <3>1. p \in PrimorialNumber + j.start .. PrimorialNumber + j.end - 1
      BY <2>1 DEF Span
    <3>2. j.start \in Nat /\ j.end \in Nat /\ PrimorialNumber \in Nat
      BY <2>3, TableAssumption DEF SieveJobs
    <3>3. job[u].start < j.end /\ j.start < job[u].end
      BY <1>2, <2>5, <3>1, <3>2, Overlap
    <3> QED
      BY <1>2, <2>1, <2>2, <3>3 DEF Clash
  <2> QED
    BY <2>4, <2>5
<1>8. \A p : Unpushed(t, p) => p \notin S
  <2>1. pc[t] = "pushsieve" => job[u].end <= base
    BY <1>2 DEF Apart
  <2>2. base \in Nat /\ PrimorialNumber \in Nat
    BY <1>1, TableAssumption DEF TypeOK
  <2> QED
    BY <1>2, <2>1, <2>2 DEF Unpushed
<1>9. \A p \in S : offsets'[p] = [header |-> target, pass |-> loop + 1]
  <2>1. ASSUME NEW p \in S
        PROVE  offsets'[p] = [header |-> target, pass |-> loop + 1]
    <3>1. offsets[p] = [header |-> target, pass |-> loop] /\ p \in DOMAIN offsets
      BY <1>1, <1>4, <1>6 DEF Current
    <3>2. offsets'[p] = [offsets[p] EXCEPT !.pass = @ + 1]
      BY <1>1, <3>1 DEF Advance
    <3> QED
      BY <3>1, <3>2
  <2> QED
    BY <2>1
<1>10. \A p \in (Dense \cup Sparse) \ S : offsets'[p] = offsets[p]
  BY <1>1 DEF Advance
<1>11. /\ \A s \in SieveIds : sieves[s] \subseteq sieves'[s]
       /\ \A s \in SieveIds : sieves'[s] \subseteq sieves[s] \cup AllMarks(S)
       /\ AllMarks(S) \subseteq sieves'[job[u].sieveId]
  <2>1. {Mark(p) : p \in S} = AllMarks(S)
    <3>1. \A p \in S : Mark(p) = <<p, target, loop>>
      BY <1>6 DEF Mark, Current
    <3> QED
      BY <3>1 DEF AllMarks
  <2> HIDE DEF S
  <2> QED
    BY <1>1, <1>2, <2>1
<1> HIDE DEF S
<1>12. \A s \in SieveIds : sieves'[s] \subseteq AllMarks(Sparse)'
  <2>1. \A s \in SieveIds : sieves[s] \subseteq AllMarks(Sparse)
    BY <1>3 DEF Passing
  <2>2. AllMarks(S) \subseteq AllMarks(Sparse)
    BY <1>4 DEF AllMarks
  <2>3. AllMarks(Sparse)' = AllMarks(Sparse)
    BY <1>1 DEF AllMarks
  <2> QED
    BY <1>11, <2>1, <2>2, <2>3
<1>13. ASSUME NEW p \in Sparse
       PROVE  Marked(p)' \/ Due("SIEVE", p)' \/ Unpushed(t, p)'
  <2>1. CASE p \in S
    <3>1. <<p, target, loop>> \in sieves'[job[u].sieveId]
      BY <1>11, <2>1 DEF AllMarks
    <3> QED
      BY <1>1, <1>2, <1>9, <2>1, <3>1 DEF Marked, Current
  <2>2. CASE p \notin S /\ Marked(p)
    BY <1>1, <1>10, <1>11, <2>2 DEF Marked, Current
  <2>3. CASE p \notin S /\ Due("SIEVE", p)
    <3>1. PICK j \in ToDo : j.type = "SIEVE" /\ p \in Span(j)
      BY <2>3 DEF Due
    <3>2. j \in ToDo'
      BY <1>2, <1>5, <2>3, <3>1
    <3> QED
      BY <3>1, <3>2 DEF Due, Span
  <2>4. CASE Unpushed(t, p)
    BY <1>1, <2>4 DEF Unpushed
  <2> QED
    BY <1>3, <2>1, <2>2, <2>3, <2>4 DEF Passing
<1>14. ASSUME NEW p \in Sparse, Due("SIEVE", p)' \/ Unpushed(t, p)'
       PROVE  Current(p, loop)'
  <2>1. p \notin S /\ Current(p, loop)
    BY <1>1, <1>3, <1>7, <1>8, <1>14 DEF Passing, Unpushed
  <2> QED
    BY <1>1, <1>10, <2>1 DEF Current
<1>15. IF pc'[t] = "waitsieve"
       THEN sieve' = AllMarks(Dense)' /\ \A p \in Dense : Current(p, loop + 1)'
       ELSE \A p \in Dense : Current(p, loop)'
  <2>1. AllMarks(Dense)' = AllMarks(Dense)
    BY <1>1 DEF AllMarks
  <2>2. \A p \in Dense : offsets'[p] = offsets[p]
    BY <1>4, <1>10
  <2> QED
    BY <1>1, <1>3, <2>1, <2>2 DEF Passing, Current
<1>16. Passing(t)'
  BY <1>12, <1>13, <1>14, <1>15 DEF Passing
<1>17. hits' = OnceOnly \X {target'} /\ \A j \in InUse' : j.type # "MOD"
  <2>1. pc[t] \in RoundPCs \ ModPCs
    BY <1>3 DEF PassPCs, ModPCs, RoundPCs
  <2>2. hits = OnceOnly \X {target} /\ \A j \in InUse : j.type # "MOD"
    BY <2>1 DEF Whole, Sieving
  <2> QED
    BY <1>1, <2>2 DEF InUse
<1> QED
  BY <1>1, <1>3, <1>16, <1>17 DEF Sieving, ModPCs, PassPCs, ScanPCs, RoundPCs

LEMMA SievingWorker ==
  ASSUME Safe, Counted, Apart, Whole, NEW u \in MinerThreads, WorkerStep(u)
  PROVE  Whole'
<1> SUFFICES ASSUME NEW t \in MinerThreads PROVE Sieving(t)'
  BY DEF Whole
<1>1. /\ pc[u] \in WorkerPCs /\ pc'[u] \in WorkerPCs
      /\ \A v \in MinerThreads \ {u} : pc'[v] = pc[v]
  BY WorkerMoves
<1>2. CASE pc'[t] \notin RoundPCs
  BY <1>2, SievingElsewhere
<1>3. CASE pc'[t] \in RoundPCs
  <2>1. t # u /\ pc'[t] = pc[t] /\ Sieving(t)
    BY <1>1, <1>3 DEF WorkerPCs, RoundPCs, Whole
  <2>2. CASE UpdateRemainders(u)
    BY <1>3, <2>1, <2>2, SievingUpdate
  <2>3. CASE ProcessSieve(u)
    BY <1>3, <2>1, <2>3, SievingProcess
  <2>4. CASE Pop(u)
    <3>1. UNCHANGED <<hits, offsets, sieves, sieve, target, loop, base>>
      BY <2>4 DEF Pop, tableVars, masterVars
    <3>2. InUse' \subseteq InUse
      BY <2>4, InUsePop DEF Pop, Safe
    <3> QED
      BY <2>1, <2>4, <3>1, <3>2, ToDoPop, SievingSame
  <2>5. CASE PushWorkerDone(u) \/ TestIndex(u) \/ SubmitShare(u) \/ PushTestDone(u)
    <3>1. UNCHANGED <<hits, offsets, sieves, sieve, target, loop, base, vwq>>
      BY <2>5 DEF PushWorkerDone, TestIndex, SubmitShare, PushTestDone, JobDone,
         tableVars, masterVars, queueVars
    <3>2. pc[u] \notin {"mod", "sieve"} /\ pc'[u] \notin {"mod", "sieve"}
      BY <2>5 DEF PushWorkerDone, TestIndex, SubmitShare, PushTestDone, JobDone, Goto,
         Safe, TypeOK
    <3>3. \A v \in MinerThreads \ {u} : job'[v] = job[v]
      BY <2>5 DEF PushWorkerDone, TestIndex, SubmitShare, PushTestDone, JobDone,
         Safe, TypeOK
    <3>4. ToDo' = ToDo
      BY <1>1, <3>1, <3>2, <3>3 DEF ToDo
    <3>5. job'[u] = job[u] \/ job'[u] = NoJob
      BY <2>5 DEF PushWorkerDone, TestIndex, SubmitShare, PushTestDone, JobDone,
         Safe, TypeOK
    <3>6. \A j \in InUse' : j \in InUse \/ j.type \notin {"MOD", "SIEVE"}
      BY <3>1, <3>3, <3>5 DEF InUse, NoJob
    <3> QED
      BY <2>1, <3>1, <3>4, <3>6, SievingSame
  <2> QED
    BY <2>2, <2>3, <2>4, <2>5 DEF WorkerStep
<1> QED
  BY <1>2, <1>3

-----------------------------------------------------------------------------
(* The steps of the master.                                                *)
LEMMA SievingMasterMove ==
  ASSUME Safe, NEW t \in MinerThreads, MasterStep(t), Sieving(t)'
  PROVE  Whole'
<1>1. i_am_master[t]
  BY DEF Safe, Control, Place, Role, RoundPCs, MasterStep, Prepare, PushMod, PopDone,
         EndMod, LeaveLoop, StartPass, PushSieve, SieveDense, Merge, ScanNext, PushBatch,
         ScanClear, ScanCheck, Reset, ScanEnd, Flush, EndClear, DrainPop, DrainCheck,
         DrainReset, Finish
<1>2. \A u \in MinerThreads \ {t} : pc[u] \notin RoundPCs
  BY <1>1 DEF Safe, Control, Place, Role
<1>3. \A u \in MinerThreads \ {t} : pc'[u] = pc[u]
  <2>1. pc \in [MinerThreads -> PCs]
    BY DEF Safe, TypeOK
  <2>2. CASE \/ Prepare(t) \/ PushMod(t) \/ PopDone(t) \/ EndMod(t) \/ LeaveLoop(t)
             \/ StartPass(t) \/ PushSieve(t)
    BY <2>1, <2>2 DEF Prepare, PushMod, PopDone, EndMod, LeaveLoop, StartPass, PushSieve,
       Goto
  <2>3. CASE \/ SieveDense(t) \/ Merge(t) \/ ScanNext(t) \/ PushBatch(t)
             \/ ScanClear(t) \/ ScanCheck(t) \/ Reset(t)
    BY <2>1, <2>3 DEF SieveDense, Merge, ScanNext, PushBatch, ScanClear, ScanCheck, Reset,
       PollHeight, Goto
  <2>4. CASE \/ ScanEnd(t) \/ Flush(t) \/ EndClear(t) \/ DrainPop(t)
             \/ DrainCheck(t) \/ DrainReset(t) \/ Finish(t)
    BY <2>1, <2>4 DEF ScanEnd, Flush, EndClear, DrainPop, DrainCheck, DrainReset, Finish,
       PollHeight, Goto
  <2> QED
    BY <2>2, <2>3, <2>4 DEF MasterStep
<1>4. \A u \in MinerThreads \ {t} : Sieving(u)'
  BY <1>2, <1>3, SievingElsewhere
<1> QED
  BY <1>4 DEF Whole

LEMMA SievingPrepare ==
  ASSUME Safe, Counted, NEW t \in MinerThreads, Prepare(t)
  PROVE  Sieving(t)'
<1>1. /\ pc'[t] = "pushmod" /\ hits' = {} /\ base' = PrimorialNumber
      /\ vwq' = vwq /\ job' = job
  BY DEF Prepare, Goto, Safe, TypeOK, queueVars, workerVars
<1>2. \A j \in InUse' : j.type # "SIEVE"
  <2>1. \A u \in MinerThreads : pc[u] \notin RoundPCs
    BY DEF Prepare, Safe, Control, Place, Role, RoundPCs
  <2>2. vwq = <<>> /\ \A u \in MinerThreads : job[u] = NoJob
    BY <2>1, Rest DEF RestBetweenRounds
  <2>3. DOMAIN vwq' = {} /\ NoJob.type # "SIEVE"
    BY <1>1, <2>2, NoJobs DEF NoJob
  <2> QED
    BY <1>1, <2>2, <2>3 DEF InUse
<1>3. \A p \in Primes : p >= base'
  BY <1>1, TableAssumption DEF Primes
<1>4. Preparing(t)'
  BY <1>1, <1>2, <1>3 DEF Preparing
<1> QED
  BY <1>1, <1>4 DEF Sieving, ModPCs, PassPCs, ScanPCs

LEMMA SievingPushMod ==
  ASSUME Safe, NEW t \in MinerThreads, Sieving(t), PushMod(t)
  PROVE  Sieving(t)'
<1> DEFINE j == [type |-> "MOD", start |-> base,
                 end |-> Least(PrimeTestSize, base + ModIncr)]
<1>1. /\ TypeOK /\ base \in Nat /\ ModIncr \in Nat \ {0} /\ PrimeTestSize \in Nat
      /\ pc[t] = "pushmod" /\ base' = base + ModIncr /\ vwq' = Append(vwq, j) /\ job' = job
      /\ pc' = [pc EXCEPT ![t] = IF base' < PrimeTestSize THEN "pushmod" ELSE "waitmod"]
      /\ pc'[t] = IF base' < PrimeTestSize THEN "pushmod" ELSE "waitmod"
      /\ UNCHANGED <<hits, offsets, target>>
  BY ModIncrPositive, TableAssumption
     DEF PushMod, Goto, Safe, TypeOK, tableVars, workerVars
<1>2. j \in Jobs /\ j.type = "MOD"
  BY <1>1 DEF Jobs, ModJobs, Least
<1>3. Span(j) = base .. Least(PrimeTestSize, base + ModIncr) - 1
  BY DEF Span
<1> HIDE DEF j
<1>4. Preparing(t)
  BY <1>1 DEF Sieving, ModPCs
<1>5. ToDo' = ToDo \cup {j}
  <2>1. \A u \in MinerThreads : pc'[u] = pc[u] \/ {pc[u], pc'[u]} \cap {"mod", "sieve"} = {}
    BY <1>1 DEF TypeOK
  <2> QED
    BY <1>1, <1>2, <2>1, ToDoPush
<1>6. \A k \in InUse' : k.type # "SIEVE"
  BY <1>1, <1>2, <1>4, InUsePush DEF Preparing
<1>7. ASSUME NEW p \in Primes
      PROVE  Prepared(p)' \/ Due("MOD", p)' \/ (pc'[t] = "pushmod" /\ p >= base')
  <2>1. CASE Prepared(p)
    BY <1>1, <2>1 DEF Prepared, Current
  <2>2. CASE Due("MOD", p)
    BY <1>5, <2>2 DEF Due, Span
  <2>3. CASE p >= base
    <3>1. p \in Nat /\ p < PrimeTestSize
      BY TableAssumption DEF Primes
    <3>2. CASE p < base + ModIncr
      <4>1. p \in Span(j)
        BY <1>1, <1>3, <2>3, <3>1, <3>2 DEF Least
      <4> QED
        BY <1>2, <1>5, <4>1 DEF Due, Span
    <3>3. CASE p >= base + ModIncr
      BY <1>1, <3>1, <3>3
    <3> QED
      BY <1>1, <3>1, <3>2, <3>3
  <2> QED
    BY <1>4, <2>1, <2>2, <2>3 DEF Preparing
<1>8. Preparing(t)'
  BY <1>1, <1>4, <1>6, <1>7 DEF Preparing
<1> QED
  BY <1>1, <1>8 DEF Sieving, ModPCs, PassPCs, ScanPCs, RoundPCs

(* All offsets and buckets are prepared once nothing is awaited. *)
LEMMA SievingEndMod ==
  ASSUME Safe, Counted, NEW t \in MinerThreads, Sieving(t), EndMod(t)
  PROVE  Sieving(t)'
<1>1. /\ TypeOK /\ pc[t] = "waitmod" /\ awaited = 0 /\ pc'[t] = "looptop" /\ loop' = 0
      /\ UNCHANGED <<hits, offsets, target, vwq, job>>
  BY DEF EndMod, Goto, Safe, TypeOK, tableVars, queueVars, workerVars
<1>2. InFlight({"MOD", "SIEVE"}) = 0
  BY <1>1, NothingAwaited
<1>3. Preparing(t)
  BY <1>1 DEF Sieving, ModPCs
<1>4. \A p \in Primes : Prepared(p)
  BY <1>1, <1>2, <1>3, NothingToDo DEF Preparing
<1>5. hits = OnceOnly \X {target}
  <2>1. \A p \in OnceOnly : <<p, target>> \in hits
    BY <1>4, Parts DEF Prepared
  <2> QED
    BY <1>3, <2>1 DEF Preparing
<1>6. \A p \in Dense \cup Sparse : Current(p, 0)
  BY <1>4, Parts DEF Prepared
<1>7. \A j \in InUse' : j.type # "MOD"
  BY <1>1, <1>2, NothingOwed DEF InUse
<1> QED
  BY <1>1, <1>5, <1>6, <1>7 DEF Sieving, Current, ModPCs, PassPCs, ScanPCs, RoundPCs

LEMMA SievingStart ==
  ASSUME Safe, Counted, NEW t \in MinerThreads, Sieving(t), StartPass(t)
  PROVE  Sieving(t)'
<1>1. /\ TypeOK /\ pc[t] = "looptop" /\ awaited = 0 /\ base' = NDense
      /\ pc'[t] = IF NSparse > 0 THEN "pushsieve" ELSE "dense"
      /\ sieves' = [s \in 0..NSieveWorkers-1 |-> {}]
      /\ UNCHANGED <<hits, offsets, target, loop, vwq, job>>
      /\ \A u \in MinerThreads : pc'[u] = pc[u] \/ {pc[u], pc'[u]} \cap {"mod", "sieve"} = {}
  <2>1. awaited = 0
    BY DEF StartPass, Counted, Settled
  <2> QED
    BY <2>1 DEF StartPass, Goto, Safe, TypeOK, tableVars, queueVars, workerVars
<1>2. InFlight({"MOD", "SIEVE"}) = 0
  BY <1>1, NothingAwaited DEF Counted
<1>3. /\ hits = OnceOnly \X {target} /\ \A j \in InUse : j.type # "MOD"
      /\ \A p \in Dense \cup Sparse : Current(p, loop)
  BY <1>1 DEF Sieving, ModPCs, RoundPCs
<1>4. \A p \in Dense \cup Sparse : Current(p, loop)'
  BY <1>1, <1>3 DEF Current
<1>5. \A p \in Sparse : Unpushed(t, p)'
  BY <1>1, TableAssumption DEF Sparse, Unpushed
<1>6. Passing(t)'
  <2>1. \A s \in SieveIds : sieves'[s] = {}
    BY <1>1 DEF SieveIds
  <2>2. pc'[t] # "waitsieve"
    BY <1>1
  <2> QED
    BY <1>4, <1>5, <2>1, <2>2 DEF Passing
<1>7. hits' = OnceOnly \X {target'} /\ \A j \in InUse' : j.type # "MOD"
  BY <1>1, <1>3 DEF InUse
<1> QED
  BY <1>1, <1>6, <1>7 DEF Sieving, ModPCs, PassPCs, ScanPCs, RoundPCs

LEMMA LastSieve ==
  ASSUME NEW b \in Nat, SieveEnd(b) + SieveSlack > NDense + NSparse
  PROVE  SieveEnd(b) = NDense + NSparse
BY SieveIncrNat, TableAssumption DEF SieveEnd, Least

LEMMA SievingPushSieve ==
  ASSUME Safe, Counted, Limited, NEW t \in MinerThreads, Sieving(t), PushSieve(t)
  PROVE  Sieving(t)'
<1> DEFINE j == [type |-> "SIEVE", start |-> base, end |-> SieveEnd(base),
                 sieveId |-> which_sieve]
<1>1. /\ TypeOK /\ base \in Nat /\ pc[t] = "pushsieve" /\ base' = base + SieveIncr
      /\ vwq' = <<j>> \o vwq /\ job' = job
      /\ pc'[t] = IF SieveEnd(base) + SieveSlack > NDense + NSparse
                  THEN "dense" ELSE "pushsieve"
      /\ UNCHANGED <<hits, offsets, sieves, target, loop>>
      /\ \A u \in MinerThreads : pc'[u] = pc[u] \/ {pc[u], pc'[u]} \cap {"mod", "sieve"} = {}
  BY DEF PushSieve, Goto, Safe, TypeOK, tableVars, workerVars
<1>2. j \in Jobs /\ j.type = "SIEVE"
  BY <1>1, SieveEndBound DEF Jobs, SieveJobs, TypeOK
<1>3. Span(j) = PrimorialNumber + base .. PrimorialNumber + SieveEnd(base) - 1
  BY DEF Span
<1> HIDE DEF j
<1>4. /\ Passing(t)
      /\ hits = OnceOnly \X {target} /\ \A k \in InUse : k.type # "MOD"
  BY <1>1 DEF Sieving, PassPCs, ModPCs, RoundPCs
<1>5. ToDo' = ToDo \cup {j}
  BY <1>1, <1>2, ToDoPush
<1>6. /\ SieveEnd(base) \in Nat /\ SieveIncr \in Nat \ {0} /\ PrimorialNumber \in Nat
      /\ \/ pc'[t] = "dense" /\ SieveEnd(base) = NDense + NSparse
         \/ pc'[t] = "pushsieve" /\ SieveEnd(base) = base'
  BY <1>1, SieveEndBound, LastSieve, LimitedPushSieve, SieveIncrEnough, TableAssumption
(* What was not pushed yet is in the job, or still not pushed. *)
<1>7. ASSUME NEW p \in Sparse
      PROVE  /\ Unpushed(t, p) => p \in Span(j) \/ Unpushed(t, p)'
             /\ p \in Span(j) \/ Unpushed(t, p)' => Unpushed(t, p)
  <2>1. p \in Nat /\ p < PrimorialNumber + NDense + NSparse
    BY TableAssumption DEF Sparse
  <2>2. NDense \in Nat /\ NSparse \in Nat
    BY TableAssumption
  <2>3. Unpushed(t, p) => p \in Span(j) \/ Unpushed(t, p)'
    BY <1>1, <1>3, <1>6, <2>1, <2>2 DEF Unpushed
  <2>4. p \in Span(j) \/ Unpushed(t, p)' => Unpushed(t, p)
    BY <1>1, <1>3, <1>6, <2>1 DEF Unpushed
  <2> QED
    BY <2>3, <2>4
<1>8. \A p \in Sparse : Due("SIEVE", p)' <=> Due("SIEVE", p) \/ p \in Span(j)
  BY <1>2, <1>5 DEF Due, Span
<1>9. /\ \A p : Marked(p)' <=> Marked(p)
      /\ \A p, n : Current(p, n)' <=> Current(p, n)
      /\ AllMarks(Sparse)' = AllMarks(Sparse)
  BY <1>1 DEF Marked, Current, AllMarks
<1>10. Passing(t)'
  <2>1. \A s \in SieveIds : sieves'[s] \subseteq AllMarks(Sparse)'
    BY <1>1, <1>4, <1>9 DEF Passing
  <2>2. \A p \in Sparse : Marked(p)' \/ Due("SIEVE", p)' \/ Unpushed(t, p)'
    BY <1>4, <1>7, <1>8, <1>9 DEF Passing
  <2>3. \A p \in Sparse : Due("SIEVE", p)' \/ Unpushed(t, p)' => Current(p, loop)'
    BY <1>1, <1>4, <1>7, <1>8 DEF Passing, Current
  <2>4. pc'[t] # "waitsieve" /\ \A p \in Dense : Current(p, loop)'
    BY <1>1, <1>4 DEF Passing, Current
  <2> QED
    BY <2>1, <2>2, <2>3, <2>4 DEF Passing
<1>11. hits' = OnceOnly \X {target'} /\ \A k \in InUse' : k.type # "MOD"
  BY <1>1, <1>2, <1>4, InUsePush
<1> QED
  BY <1>1, <1>10, <1>11 DEF Sieving, ModPCs, PassPCs, ScanPCs, RoundPCs

LEMMA SievingDense ==
  ASSUME Safe, NEW t \in MinerThreads, Sieving(t), SieveDense(t)
  PROVE  Sieving(t)'
<1>1. /\ TypeOK /\ pc[t] = "dense" /\ pc'[t] = "waitsieve" /\ loop \in Nat
      /\ sieve' = {Mark(p) : p \in Dense} /\ offsets' = Advance(Dense)
      /\ DOMAIN offsets = Dense \cup Sparse
      /\ UNCHANGED <<hits, sieves, target, loop, vwq, job>>
      /\ \A u \in MinerThreads : pc'[u] = pc[u] \/ {pc[u], pc'[u]} \cap {"mod", "sieve"} = {}
  BY DEF SieveDense, Goto, Safe, TypeOK, workerVars
<1>2. /\ Passing(t)
      /\ hits = OnceOnly \X {target} /\ \A k \in InUse : k.type # "MOD"
  BY <1>1 DEF Sieving, PassPCs, ModPCs, RoundPCs
<1>3. ToDo' = ToDo
  BY <1>1, ToDoSame
<1>4. \A p : Due("SIEVE", p)' <=> Due("SIEVE", p)
  BY <1>3 DEF Due, Span
<1>5. \A p \in Dense : Current(p, loop)
  BY <1>1, <1>2 DEF Passing
<1>6. \A p \in Sparse : offsets'[p] = offsets[p]
  BY <1>1, Parts DEF Advance
<1>7. \A p \in Dense : Current(p, loop + 1)'
  <2>1. ASSUME NEW p \in Dense
        PROVE  offsets'[p] = [header |-> target, pass |-> loop + 1]
    <3>1. offsets[p] = [header |-> target, pass |-> loop]
      BY <1>5 DEF Current
    <3>2. offsets'[p] = [offsets[p] EXCEPT !.pass = @ + 1]
      BY <1>1 DEF Advance
    <3> QED
      BY <3>1, <3>2
  <2> QED
    BY <1>1, <2>1 DEF Current
<1>8. sieve' = AllMarks(Dense)'
  <2>1. \A p \in Dense : Mark(p) = <<p, target, loop>>
    BY <1>5 DEF Mark, Current
  <2> QED
    BY <1>1, <2>1 DEF AllMarks
<1>9. Passing(t)'
  <2>1. /\ AllMarks(Sparse)' = AllMarks(Sparse)
        /\ \A p : ~Unpushed(t, p) /\ ~Unpushed(t, p)'
    BY <1>1 DEF AllMarks, Unpushed
  <2>2. \A s \in SieveIds : sieves'[s] \subseteq AllMarks(Sparse)'
    BY <1>1, <1>2, <2>1 DEF Passing
  <2>3. \A p \in Sparse : Marked(p)' <=> Marked(p)
    BY <1>1, <1>6 DEF Marked, Current
  <2>4. \A p \in Sparse : Marked(p)' \/ Due("SIEVE", p)' \/ Unpushed(t, p)'
    BY <1>2, <1>4, <2>1, <2>3 DEF Passing
  <2>5. \A p \in Sparse : Due("SIEVE", p)' \/ Unpushed(t, p)' => Current(p, loop)'
    BY <1>1, <1>2, <1>4, <1>6, <2>1 DEF Passing, Current
  <2> QED
    BY <1>1, <1>7, <1>8, <2>2, <2>4, <2>5 DEF Passing
<1>10. hits' = OnceOnly \X {target'} /\ \A k \in InUse' : k.type # "MOD"
  BY <1>1, <1>2 DEF InUse
<1> QED
  BY <1>1, <1>9, <1>10 DEF Sieving, ModPCs, PassPCs, ScanPCs, RoundPCs

(* The merged sieve holds every prime, and nothing else. *)
LEMMA SievingMerge ==
  ASSUME Safe, Counted, NEW t \in MinerThreads, Sieving(t), Merge(t)
  PROVE  Sieving(t)'
<1>1. /\ TypeOK /\ pc[t] = "waitsieve" /\ awaited = 0 /\ pc'[t] \in {"scan", "aborted"}
      /\ sieve' = sieve \cup (UNION {sieves[s] : s \in SieveIds})
                      \cup {<<h[1], h[2], loop>> : h \in hits}
      /\ UNCHANGED <<hits, offsets, target, loop, vwq, job>>
  BY DEF Merge, Goto, Safe, TypeOK, workerVars, queueVars, SieveIds
<1>2. /\ Passing(t)
      /\ hits = OnceOnly \X {target} /\ \A k \in InUse : k.type # "MOD"
  BY <1>1 DEF Sieving, PassPCs, ModPCs, RoundPCs
<1>3. \A p \in Sparse : Marked(p)
  <2>1. InFlight({"MOD", "SIEVE"}) = 0
    BY <1>1, NothingAwaited
  <2>2. \A p : ~Due("SIEVE", p) /\ ~Unpushed(t, p)
    BY <1>1, <2>1, NothingToDo DEF Unpushed
  <2> QED
    BY <1>2, <2>2 DEF Passing
<1>4. (UNION {sieves[s] : s \in SieveIds}) = AllMarks(Sparse)
  <2>1. (UNION {sieves[s] : s \in SieveIds}) \subseteq AllMarks(Sparse)
    BY <1>2 DEF Passing
  <2>2. \A p \in Sparse : \E s \in SieveIds : <<p, target, loop>> \in sieves[s]
    BY <1>3 DEF Marked
  <2>3. AllMarks(Sparse) \subseteq (UNION {sieves[s] : s \in SieveIds})
    BY <2>2 DEF AllMarks
  <2> QED
    BY <2>1, <2>3
<1>5. {<<h[1], h[2], loop>> : h \in hits} = AllMarks(OnceOnly)
  <2>1. \A h \in hits : h[1] \in OnceOnly /\ h[2] = target
    BY <1>2
  <2>2. \A p \in OnceOnly : /\ <<p, target>> \in hits
                            /\ <<p, target>>[1] = p /\ <<p, target>>[2] = target
    BY <1>2
  <2>3. {<<h[1], h[2], loop>> : h \in hits} \subseteq AllMarks(OnceOnly)
    BY <2>1 DEF AllMarks
  <2>4. ASSUME NEW p \in OnceOnly
        PROVE  <<p, target, loop>> \in {<<h[1], h[2], loop>> : h \in hits}
    BY <2>2
  <2> QED
    BY <2>3, <2>4 DEF AllMarks
<1>6. sieve = AllMarks(Dense) /\ \A p \in Dense : Current(p, loop + 1)
  BY <1>1, <1>2 DEF Passing
<1>7. sieve' = AllMarks(Primes)'
  <2>1. AllMarks(Primes) = AllMarks(Dense) \cup AllMarks(Sparse) \cup AllMarks(OnceOnly)
    BY Parts DEF AllMarks
  <2>2. AllMarks(Primes)' = AllMarks(Primes)
    BY <1>1 DEF AllMarks
  <2> QED
    BY <1>1, <1>4, <1>5, <1>6, <2>1, <2>2
<1>8. \A p \in Dense \cup Sparse : Current(p, loop + 1)'
  BY <1>1, <1>3, <1>6 DEF Marked, Current
<1>9. hits' = OnceOnly \X {target'} /\ \A k \in InUse' : k.type # "MOD"
  BY <1>1, <1>2 DEF InUse
<1> QED
  BY <1>1, <1>7, <1>8, <1>9 DEF Sieving, ModPCs, PassPCs, ScanPCs, RoundPCs

(* The sieve is scanned, and the next pass starts where this one ended. *)
LEMMA SievingScan ==
  ASSUME Safe, Counted, NEW t \in MinerThreads, Sieving(t), pc[t] \in ScanPCs,
         pc'[t] \in ScanPCs, \A k \in InUse' : k \in InUse \/ k.type # "MOD",
         UNCHANGED <<hits, offsets, sieve, target, loop>>
  PROVE  Sieving(t)'
<1>1. /\ hits = OnceOnly \X {target} /\ \A k \in InUse : k.type # "MOD"
      /\ sieve = AllMarks(Primes)
      /\ \A p \in Dense \cup Sparse : Current(p, loop + 1)
  BY DEF Sieving, ModPCs, ScanPCs, RoundPCs
<1>2. AllMarks(Primes)' = AllMarks(Primes)
  BY DEF AllMarks
<1> QED
  BY <1>1, <1>2 DEF Sieving, Current, ModPCs, PassPCs, ScanPCs

LEMMA SievingFlush ==
  ASSUME Safe, NEW t \in MinerThreads, Sieving(t), pc[t] = "flush", pc'[t] = "looptop",
         \A k \in InUse' : k \in InUse \/ k.type # "MOD",
         loop' = loop + 1, UNCHANGED <<hits, offsets, target>>
  PROVE  Sieving(t)'
<1>1. /\ hits = OnceOnly \X {target} /\ \A k \in InUse : k.type # "MOD"
      /\ \A p \in Dense \cup Sparse : Current(p, loop + 1)
  BY DEF Sieving, ModPCs, ScanPCs, RoundPCs
<1> QED
  BY <1>1 DEF Sieving, Current, ModPCs, PassPCs, ScanPCs

LEMMA SievingDrain ==
  ASSUME NEW t \in MinerThreads, Sieving(t), pc[t] \in RoundPCs \ ModPCs,
         pc'[t] \in {"endclear", "drain", "draincheck", "drainreset", "getwork"},
         InUse' \subseteq InUse, UNCHANGED <<hits, target>>
  PROVE  Sieving(t)'
BY DEF Sieving, ModPCs, PassPCs, ScanPCs, RoundPCs

LEMMA SievingMaster ==
  ASSUME Safe, Counted, Limited, Whole, NEW t \in MinerThreads, MasterStep(t)
  PROVE  Whole'
<1> SUFFICES Sieving(t)'
  BY SievingMasterMove
<1>a. TypeOK /\ Sieving(t) /\ pc \in [MinerThreads -> PCs]
  BY DEF Safe, TypeOK, Whole
<1>1. CASE Prepare(t)
  BY <1>1, SievingPrepare
<1>2. CASE PushMod(t)
  BY <1>2, <1>a, SievingPushMod
<1>3. CASE PopDone(t)
  <2>1. /\ UNCHANGED <<pc, hits, offsets, sieves, sieve, target, loop, base, vwq, job>>
    BY <1>3 DEF PopDone, tableVars, workerVars
  <2>2. ToDo' = ToDo /\ InUse' = InUse
    BY <2>1 DEF ToDo, InUse
  <2> QED
    BY <1>a, <2>1, <2>2, SievingSame
<1>4. CASE EndMod(t)
  BY <1>4, <1>a, SievingEndMod
<1>5. CASE StartPass(t)
  BY <1>5, <1>a, SievingStart
<1>6. CASE PushSieve(t)
  BY <1>6, <1>a, SievingPushSieve
<1>7. CASE SieveDense(t)
  BY <1>7, <1>a, SievingDense
<1>8. CASE Merge(t)
  BY <1>8, <1>a, SievingMerge
<1>b. ASSUME PushTests, n_indexes > 0, target \in Headers, job' = job
      PROVE  \A k \in InUse' : k \in InUse \/ k.type # "MOD"
  <2> DEFINE j == [type |-> "CHECK", n_indexes |-> n_indexes, header |-> target]
  <2>1. n_indexes \in 1..WorkIndexes
    BY <1>a, <1>b, BoundAssumption DEF TypeOK
  <2>2. j \in Jobs /\ j.type = "CHECK" /\ vwq' = Append(vwq, j)
    BY <1>b, <2>1 DEF Jobs, CheckJobs, PushTests
  <2> HIDE DEF j
  <2> QED
    BY <1>a, <1>b, <2>2, InUsePush
<1>c. ASSUME job' = job, vwq' = vwq \/ vwq' = <<>>
      PROVE  InUse' \subseteq InUse
  BY <1>c DEF InUse
<1>d. pc[t] \in RoundPCs => target \in Headers
  BY DEF Safe, Control, Place, OwnHeader, RoundPCs, WorkerPCs
<1>9. CASE PushBatch(t)
  <2>1. /\ PushTests /\ n_indexes > 0 /\ target \in Headers /\ job' = job
        /\ pc[t] = "pushbatch" /\ pc'[t] = "scanclear"
        /\ UNCHANGED <<hits, offsets, sieve, target, loop>>
    BY <1>9, <1>a, <1>d, BoundAssumption
       DEF PushBatch, Goto, Safe, Control, Place, BatchSize, RoundPCs, tableVars, workerVars
  <2> QED
    BY <1>a, <1>b, <2>1, SievingScan DEF ScanPCs
<1>10. CASE ScanNext(t) \/ ScanClear(t) \/ ScanCheck(t) \/ Reset(t) \/ ScanEnd(t)
  <2>1. /\ pc[t] \in ScanPCs /\ pc'[t] \in ScanPCs
    BY <1>10, <1>a DEF ScanNext, ScanClear, ScanCheck, PollHeight, Reset, ScanEnd, Goto,
       ScanPCs
  <2>2. /\ UNCHANGED <<hits, offsets, sieve, target, loop>> /\ job' = job
        /\ vwq' = vwq \/ vwq' = <<>>
    BY <1>10 DEF ScanNext, ScanClear, ScanCheck, PollHeight, Reset, ClearTests, ScanEnd,
       tableVars, masterVars, workerVars, queueVars
  <2> QED
    BY <1>a, <1>c, <2>1, <2>2, SievingScan
<1>11. CASE Flush(t)
  <2>1. /\ pc[t] = "flush" /\ pc'[t] = "looptop" /\ loop' = loop + 1 /\ job' = job
        /\ UNCHANGED <<hits, offsets, target>> /\ target \in Headers
    BY <1>11, <1>a, <1>d DEF Flush, Goto, RoundPCs, tableVars, workerVars
  <2>2. \A k \in InUse' : k \in InUse \/ k.type # "MOD"
    <3>1. CASE n_indexes > 0
      BY <1>11, <1>b, <2>1, <3>1 DEF Flush
    <3>2. CASE ~(n_indexes > 0)
      BY <1>11, <1>c, <2>1, <3>2 DEF Flush
    <3> QED
      BY <3>1, <3>2
  <2> QED
    BY <1>a, <2>1, <2>2, SievingFlush
<1>12. CASE \/ LeaveLoop(t) \/ EndClear(t) \/ DrainPop(t) \/ DrainCheck(t)
            \/ DrainReset(t) \/ Finish(t)
  <2>1. /\ pc[t] \in RoundPCs \ ModPCs
        /\ pc'[t] \in {"endclear", "drain", "draincheck", "drainreset", "getwork"}
    BY <1>12, <1>a DEF LeaveLoop, EndClear, DrainPop, DrainCheck, PollHeight, DrainReset,
       Finish, Goto, RoundPCs, ModPCs
  <2>2. /\ UNCHANGED <<hits, target>> /\ job' = job /\ (vwq' = vwq \/ vwq' = <<>>)
    BY <1>12 DEF LeaveLoop, EndClear, DrainPop, DrainCheck, PollHeight, DrainReset,
       ClearTests, Finish, tableVars, workerVars, queueVars
  <2> QED
    BY <1>a, <1>c, <2>1, <2>2, SievingDrain
<1> QED
  BY <1>1, <1>2, <1>3, <1>4, <1>5, <1>6, <1>7, <1>8, <1>9, <1>10, <1>11, <1>12
     DEF MasterStep

LEMMA WholeNext ==
  Safe /\ Counted /\ Limited /\ Apart /\ Whole /\ [Next]_vars => Whole'
<1> SUFFICES ASSUME Safe, Counted, Limited, Apart, Whole, [Next]_vars PROVE Whole'
  OBVIOUS
<1>1. ASSUME UNCHANGED <<hits, offsets, sieves, sieve, target, loop, base, vwq, job>>,
             \A u \in MinerThreads :
                pc'[u] = pc[u] \/ (/\ {pc[u], pc'[u]} \cap {"mod", "sieve"} = {}
                                  /\ pc'[u] \notin RoundPCs)
      PROVE  Whole'
  <2>1. ToDo' = ToDo /\ InUse' = InUse
    BY <1>1 DEF ToDo, InUse
  <2>2. ASSUME NEW t \in MinerThreads PROVE Sieving(t)'
    BY <1>1, <2>1, SievingSame, SievingElsewhere DEF Whole
  <2> QED
    BY <2>2 DEF Whole
<1>2. CASE MainStep \/ UNCHANGED vars
  BY <1>1, <1>2 DEF MainStep, vars, tableVars, workerVars, queueVars, masterVars
<1>3. ASSUME NEW t \in MinerThreads, StartStep(t)
      PROVE  Whole'
  <2>1. UNCHANGED <<hits, offsets, sieves, sieve, target, loop, base, vwq, job>>
    BY <1>3 DEF StartStep, TakeWork, CheckAlgorithm, Elect, ElectLocked, Join,
       tableVars, workerVars, queueVars, masterVars
  <2>2. pc[t] \notin {"mod", "sieve"} /\ pc'[t] \notin {"mod", "sieve"}
    BY <1>3 DEF StartStep, TakeWork, CheckAlgorithm, Elect, ElectLocked, Join, Goto,
       Safe, TypeOK
  <2> QED
    BY <1>1, <1>3, <2>1, <2>2, StartMoves
<1>4. ASSUME NEW t \in MinerThreads, ThreadStep(t)
      PROVE  Whole'
  BY <1>3, <1>4, SievingMaster, SievingWorker DEF ThreadStep
<1> QED
  BY <1>2, <1>4 DEF Next

LEMMA WholeInit == Init => Whole
BY SievingElsewhere DEF Init, Whole, Sieving, ModPCs, PassPCs, ScanPCs, RoundPCs

LEMMA WholeAlways == Spec => []Whole
BY WholeInit, SafeAlways, CountedAlways, LimitedAlways, ApartAlways, WholeNext, PTL
   DEF Spec

(***************************************************************************)
(* The sieve that is scanned marks every prime of the table, for the       *)
(* header being mined and at this pass, and holds nothing else, for any    *)
(* table, any split into jobs and any number of workers (lines 635-780).   *)
(***************************************************************************)
THEOREM ScannedSieveComplete == Spec => []SieveComplete
<1>1. Safe /\ Whole => SieveComplete
  <2> SUFFICES ASSUME Safe, Whole, NEW t \in MinerThreads, pc[t] \in ScanPCs
               PROVE  sieve = {<<p, block[t], loop>> : p \in Primes}
    BY DEF SieveComplete, ScanPCs
  <2>1. target = block[t]
    BY DEF Safe, Control, Place, ScanPCs, RoundPCs
  <2> QED
    BY <2>1 DEF Whole, Sieving, AllMarks
<1> QED
  BY <1>1, SafeAlways, WholeAlways, PTL
=============================================================================
