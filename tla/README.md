# Verification of xptMiner / fastrie

TLA+ models, TLC runs and TLAPS proofs for the Riecoin miner of this
repository (`src/xptMiner/xptMiner`). The program is a multi-threaded miner: one
thread, elected master, sieves for candidates; all others work for it through
bounded blocking queues; the main thread talks to a pool over the xpt protocol.
Paths below are relative to `src/xptMiner/xptMiner/`.

## 1. The system

| Component | State | Operations | Meets the others through |
|---|---|---|---|
| Blocking queue `tsqueue.hpp` | deque `_q`, mutex `_m`, condition variables `_cv`, `_cv_full` | `push_back`, `push_front`, `pop_front`, `clear`, `size` | three instances join master and workers |
| Mining core `riecoinMiner.cpp` | `verifyWorkQueue`, `workerDoneQueue`, `testDoneQueue`; `there_is_a_master`, `i_am_master`; `z_verify_target`, `verify_block`; `riecoin_sieve`, `riecoin_sieves` | `riecoin_process` (election, master's rounds), `verify_thread` (MOD, SIEVE and CHECK jobs) | called by the miner threads; reads `monitorCurrentBlockHeight`; submits shares through `main.cpp` |
| Sieve arithmetic `riecoinMiner.cpp:256-370, 733-790` | offsets, offset stack, `segment_hits`, pending ring, sieve bits | `update_remainders`, `put_offsets_in_segments`, `process_sieve`, `add_to_pending` | inside the jobs of the mining core |
| Prime table `riecoinMiner.cpp:98-160` | `riecoin_primeTestTable`, a bit vector | `riecoin_init` | built by the main thread, under `cs_work`, when the first work arrives (`main.cpp:195-198`); the miner threads exist by then and wait for work |
| Work source and miner threads `main.cpp:46-236` | `workDataSource` under `cs_work`, `monitorCurrentBlockHeight`, `uniqueMerkleSeedGenerator` | `xptMiner_minerThread`, `xptMiner_getWorkFromXPTConnection` | main thread writes, miner threads read |
| Connection loop and share submission `main.cpp:73-115, 240-375` | `xptClient` under `cs_xptClient`, timers | `xptMiner_xptQueryWorkLoop`, `xptMiner_submitShare` | owns the client object, resets the work source when the connection is lost |
| xpt client `xptClient.cpp`, `xptClientPacketHandler.cpp` | socket, `disconnected`, `clientState`, receive cursor, share queue under `cs_shareSubmit`, `blockWorkInfo` | connect, disconnect, send login/share/ping, process, packet handlers | socket to the pool; share queue filled by miner threads |
| Packet buffer `xptPacketbuffer.cpp` | buffer, parser index, limits, error flag | begin/finalise packet, read/write of integers, data, strings | used by client and server |
| Merkle root `transaction.cpp:60-144` | one array of hashes, sizes of its layers | `bitclient_calculateMerkleRoot` | called for each header |
| xpt server `xptServer*.cpp` | receive cursor per client | receive, dispatch | not called by `main()` |
| Memory streams, transaction hash `jhlib.cpp`, `transaction.cpp` | a growing buffer | `bitclient_generateTxHash` | called for each header |
| Lists and strings `jhlib.cpp` | arrays | add, get, format | share queue, parameters |
| Command line, start-up `main.cpp:380-624` | `commandlineInput` | parse, create threads | fixes the constants of the models |
| Ticker, SHA-256, MPIR, OpenCL, sphlib, `explain/`, `analysis/` | - | - | wrappers, third-party, unused, teaching scripts |

### What is hard, and what must hold

* **Queue.** Every signal is sent after the mutex was left, `push` wakes one
  sleeper, `clear` must wake all of them, and in the POSIX build
  `SleepConditionVariableCS` has no time limit (`global.h:42`), so a lost
  wake-up would be for ever. It must behave as an atomic bounded deque, and no
  thread may sleep on something nobody will tell it about.
* **Election.** A double-checked lock on a plain `bool` (`riecoinMiner.cpp:516-524`).
  Exactly one thread may be master, and no thread works before there is one.
* **Jobs and answers.** MOD, SIEVE and CHECK jobs share one queue; two kinds
  of answers come back on two others; SIEVE jobs overtake CHECK jobs of the
  pass before; the master clears the job queue while workers hold jobs and the
  answer queue while they push. `outstandingTests` is an unsigned count from which three
  kinds of clear are subtracted: it must be exact at every step.
* **Shared tables.** Offsets, buckets, sieves, `z_verify_target` and
  `*verify_block` are read and written without locks. No two jobs that may run at
  once may share memory, the master may rewrite them only when nobody uses
  them, and a candidate must be tested for the header it was sieved for.
* **Capacity.** The master pushes all MOD jobs before it pops an answer, and
  workers push answers the master may not be waiting for: nobody may wait on a
  queue nobody will empty.
* **New data.** The height is published after `cs_work` was left and is the only
  thing the master polls.
* **Connection.** Packets arrive in pieces; the connection is lost anywhere; the
  client object is replaced while threads submit shares; connecting blocks
  under the lock they need; a `send()` over a lost connection raises SIGPIPE, which only the
  BSD builds ignore (`main.cpp:533`). Packets must be taken as they were sent, shares sent
  once or refused, the connection made again, and nothing of one connection may be mined on
  the next.
* **Arithmetic.** Indexes that are carried from pass to pass and across a ring
  whose 0 means empty; 32-bit sums and products in the prime table; layers of the merkle
  tree in one array; lengths that one side of the packet buffer accepts and
  the other does not.

`PROJECT.json` lists these hazards one by one, each at its line and with the
properties that watch it.

## 2. Modules

| Module | Models |
|---|---|
| `AtomicQueue` | what `ts_queue` promises: an atomic bounded deque with a call and a return around each effect |
| `TsQueue` | `tsqueue.hpp`, one action per step between two synchronisation calls |
| `TsQueueProofs` | theorems about `TsQueue` |
| `WorkFeed` | what the miner threads may see of the connection: work, published heights |
| `MiningRound` | what `riecoin_process` promises: one header at a time, no batch of candidates lost |
| `RiecoinMiner` | election, master, workers, jobs; extends `WorkFeed` |
| `RiecoinMinerProofs` | theorems about `RiecoinMiner`: counts, header, refinement |
| `RiecoinMinerMemoryProofs` | theorems about `RiecoinMiner`: capacities, shared tables, the sieve scanned |
| `RiecoinSieve` | the arithmetic of the sieve, header after header |
| `RiecoinSieveProofs` | theorems about `RiecoinSieve`: the bits set, the indexes |
| `PrimeTable` | the table of `riecoin_init`, over integers that wrap |
| `PrimeTableProofs` | theorems about `PrimeTable`: the entries, the memory |
| `PacketStream` | what receiving promises: packets in order, each once |
| `XptClient` | connection loop, client object, receiving, packet handlers, share queue |
| `XptClientProofs` | theorems about `XptClient` |
| `XptPacketbuffer` | writing and reading of packets |
| `XptPacketbufferProofs` | theorems about `XptPacketbuffer` |
| `MerkleRoot` | `bitclient_calculateMerkleRoot` |
| `MerkleRootProofs` | theorems about `MerkleRoot`: the array, the root |
| `MCRiecoinMiner`, `MCRiecoinSieve`, `MCXptClient`, `MCXptPacketbuffer` | instances for TLC; the other runs take their module as it is |

How they compose: `TsQueue` is shown to implement `AtomicQueue`, whose queues
`RiecoinMiner` has three of. `XptClient` is shown to implement `WorkFeed`, on which
`RiecoinMiner` is built, so what holds of the miner for every feed holds with the
connection loop as it is. `RiecoinSieve` is the meaning of what `RiecoinMiner`
calls a mark, and `PrimeTable` that of a prime's position. `XptPacketbuffer`
says what handlers return for packets that were cut, which `XptClient` takes
for given.

### The queue (`TsQueue`)

`pc[t]` tells where thread `t` is in the method `op[t]`: before the mutex
(`enter`), at the `while` with the mutex (`held`), asleep (`cv`, `cv_full`),
done with `_q` (`leave`), out of the mutex with its signal still to send
(`signal`). `Enter` is `EnterCriticalSection` and also the return of a sleep;
`WaitFull`/`WaitEmpty` are the `while` bodies; `Store`, `Take`, `Drop`,
`Measure` touch the deque; the `Signal...` actions wake any one sleeper, all of
them (`clear`), or nobody (`size`). `WakeUnsignalled` is a spurious wake-up or
the Windows time limit. A call is made by any thread of the right role at any
time. The mutex and condition variables are those of `global.h`.

### The miner (`RiecoinMiner`, `WorkFeed`)

The three queues are atomic, which `TsQueue` justifies. The done queues carry
the value 1 only and are numbers. The model keeps all control of `riecoin_process`
and `verify_thread` between two accesses to shared state and abstracts data:

* a block header is a record of height, merkle root and seed
  (`uniqueMerkleSeedGenerator`, from which the extra nonce is made);
* a prime is its position in `riecoin_primeTestTable`; dense, sparse and
  once-only primes are the three ranges the code treats differently;
* `offsets[p]` is the header and pass the six stored offsets stand for, and a
  position marked in a sieve is the triple of prime, header and pass; so a stale or
  missing mark is visible, the arithmetic of indexes is `RiecoinSieve`'s;
* which candidates survive a pass is a nondeterministic number of them; which
  of them turn out prime is a nondeterministic choice per candidate;
* time limits (195 seconds, `maxiter`) may end the loop at any time.

The history field `header` of a CHECK job exists in the model only and is read
by properties only: the code's CHECK job carries candidates, not the header.

| Code | Actions |
|---|---|
| main thread, `main.cpp:190-236, 296-335`, in `WorkFeed` | `GetWorkFromConnection`, `PublishHeight`, `LoseConnection` |
| `xptMiner_minerThread` | `TakeWork`, `CheckAlgorithm` |
| election | `Elect`, `ElectLocked`, `Join` |
| MOD phase | `Prepare`, `PushMod`, `PopDone`, `EndMod` |
| a pass | `LeaveLoop`, `StartPass`, `PushSieve`, `SieveDense`, `PopDone`, `Merge` |
| the scan | `ScanNext`, `PushBatch`, `ScanClear`, `ScanCheck`, `Reset`, `ScanEnd`, `Flush` |
| the drain | `EndClear`, `DrainPop`, `DrainCheck`, `DrainReset`, `Finish` |
| `verify_thread` | `Pop`, `UpdateRemainders`, `ProcessSieve`, `PushWorkerDone`, `TestIndex`, `SubmitShare`, `PushTestDone` |

Server and connection may do anything at any time; the main loop is never
fair.

### The sieve (`RiecoinSieve`)

One thread and every index. A remainder is reduced by one subtraction
(`UpdateRemainder`, one step for each of the six numbers of a prime); a prime that
hits at most once puts its indexes on the stack, and `PutOffsets` sorts a full
stack into the buckets (`Bucketed`, one index after the other) or ends the program
(`BucketOverflow`). A pass is `StartPass`,
`SieveDense` (with the sort of the six offsets, exchange by exchange, and their carry to
the next pass),
`StartSparse`, `MarkSparse`, `NextSparse`, `EndSparse`, `MarkHit`, `EndHits`; then `NextPass`
or `NextHeader`, which may also come after an abandoned pass and leaves the offsets
as they are. A mark enters the pending ring and leaves it `PENDING_SIZE` entries
later. How the work is split among threads is `RiecoinMiner`'s: its
`NoSharedWrites` and `SieveComplete` are what allows this module to have one.

### The prime table (`PrimeTable`)

The two loops of the Sieve of Eratosthenes and the loop that collects, in
integers of `W` bits that wrap. The limit is any that the command line lets through. The
bytes of the flags are what line 118 computes, a sum that wraps, too: where the program would
read or set a flag outside them it goes to a place called undefined (`AccessBeyond`), from which
the model says nothing; a `malloc` of no bytes may also end it (`AllocateNothing`).

### The merkle root (`MerkleRoot`)

The array, its read index and the size of each layer are the code's; a hash is
the term of what was hashed. `Reference` is the textbook tree.

### The connection (`XptClient`, `PacketStream`)

| Code | Actions |
|---|---|
| pool and network | `ServerSend`, `LinkLost` |
| `xptMiner_submitShare` | `FindShare`, `EnterSubmit`, `SubmitShare` |
| `xptMiner_xptQueryWorkLoop`, reconnecting | `NewObject`, `Connect`, `ConnectFails`, `Wake` |
| SIGPIPE in `send()` | `Killed` |
| `xptClient_process` | `EnterProcess`, `SendShares`, `RecvFails`, `RecvNothing`, `RecvTooLarge`, `RecvPiece`, `RecvPacket` |
| packet handlers, inside `RecvPacket` | `Verdicts`, `LoginAfter`, `BlockAfter` |
| the loop after `xptClient_process` | `ConnectionLost`, `ForceDisconnect`, `GetWorkFromConnection`, `PublishHeight`, `NothingNew` |

A packet is a record of what it is, its size, whether all its fields are
there, and what it brings. The bytes of a connection are positions, and `recv`
may return any number of them, so packets come in any pieces, their headers
included. The receive cursor (`recvSize`, `recvIndex`, `opcode`) is the code's, and
the packet handled is the one that lies where the buffer began; if the cursor
were wrong, it would be another or none. A packet too large leaves its header
in the buffer and the client marked connected, as the code does. `build` is how the
program was built: "windows" looks at the result of `connect()`; "bsd" does not, but ignores
SIGPIPE; "posix", all other systems, does neither, so a `send()` over a socket without a
connection may end the process with all its threads (`Killed`). On Linux that is the login after
a `connect()` that failed, or a share or a ping after the connection was lost; whether the signal comes with
the first such `send()` or a later one depends on what the kernel knows by then, so it is a choice.
`Conforming` is an assumption on the server: it answers the login first and once.

### The packet buffer (`XptPacketbuffer`)

A packet is written field by field (`Write`), arrives whole or cut short in a
buffer that holds old bytes (`Receive`), and is read field by field (`Read`, `Accept`); a handler
looks at the error flag after some fields only. A number is written byte by byte (`Left`
is what a shift leaves of it) and put together again byte by byte (`High`). The lengths
and limits are the code's with a small base in place of 256.

### Mutants

An operator marked as a mutant, or named after a slip (`FinishEarly`,
`ClearTestsUncounted`, ...), stands beside the definition it spoils; no specification
uses it. It is a variant of the code that some property is known to reject.

## 3. Runs

| Run | Instance | Shows |
|---|---|---|
| `queue` | `TsQueue`: 2 producers, 2 consumers, 1 thread that clears and measures, 2 places, fair threads | type and bound, no lost wake-up for items (`NoLostItem`) or room (`NoLostRoom`), refinement of `AtomicQueue` (`Linearizable`), `PopProgress`, `PushProgress` |
| `miner` | 3 miner threads, 3 passes, 5 primes, queues of their smallest permitted sizes, 2 seeds at one height | type, `OneMaster`, `TestsAccounted`, `JobsAccounted`, `RestBetweenRounds`, `NoSharedWrites`, `SieveComplete`, `AnswersNeverBlock`, `TestsMatchHeader`, and the refinement of `MiningRound` |
| `miner_live` | 3 fair threads, unfair server | `RoundEnds` |
| `new_data` | 2 roots | `NewDataNotified` fails, see section 6 |
| `sieve` | 121 targets in any order, 3 passes of 16 bits, one dense prime, two sparse, two that hit once | the bits are exactly the candidates some prime divides (`SieveExact`), every index in its array (`IndexesInBounds`) |
| `prime_table` | 8-bit integers, every limit from 20 to 255 | `TableIsPrimes` where no product wraps; `TableFits` and `TableReady` where the size of the flags does not |
| `merkle` | 0 to 40 hashes, 5 layers | `RootIsReference`, `ArrayInBounds` |
| `merkle_layers` | 0 to 20 hashes, 5 layers | `RootForAnnounced` fails, see section 6 |
| `packet_buffer` | bytes of base 3, a writer's buffer one byte too small, a reader's that must grow | `RoundTrip`, `CursorInBounds`, `CutRefused` |
| `xpt_client` | the BSD build, conforming server, 2 threads, 2 shares, 3 packets a connection, fair threads | `SharesAccounted`, `NoShareStranded`, `NoWorkWithoutConnection`, `WorkIsFromServer`, the refinement of `WorkFeed`; `PacketsHandled`, `SharesSettle`, `Reconnects` |
| `xpt_unruly` | the Windows and the Linux build, a server that sends anything: cut, refused, unknown packets in any order, headers in pieces | type, refinement of `PacketStream` (`PacketsInOrder`); `ConnectReportsErrors` of the Windows build |
| `xpt_reconnect` | the Linux build, fair threads | `Reconnects` fails, see section 6 |

**Bounds.** *Queue:* two producers and two consumers are the least with which one signal
can go to the wrong sleeper; a queue of two places is the least that is neither
empty nor full, and `clear` then frees two places for two sleepers. There is one
item, as no signal depends on which it is; the order of different items is
theorem `QueueLinearizable`. *Miner:* three
miner threads give a master, two workers that interleave, and every
order of the election. Three passes make tests of one overlap the sieve of the
next, and carry what they leave twice; three candidates with batches of two give a full and a
left-over batch, so six tests in a round, which are more than `testDoneQueue`'s four places; a
job queue of one is full always. Five primes are one dense, three sparse (two
SIEVE jobs, the second merged by the slack) and one once-only; two MOD jobs
cross the borders between them. Two seeds make two headers at one height, which differ in nothing
the master compares; the height published alternates between that height and 0, and with it
every abandoned round, reset and return to the same height occurs.
`MaxCandidates` bounds the candidates of a pass; `Heights`, `Roots` and `SeedLimit` the
server's choices. The other constants are numbers of the code made small,
with the relations the code has between them stated as assumptions
(`QueueAssumption`: the queue of jobs and one job per thread fit into
`testDoneQueue`, 1024 + 129 <= 3096; the MOD jobs fit into `workerDoneQueue`).

*Sieve:* 121 consecutive targets meet many combinations of residues modulo
the five primes, among them remainders equal to the prime, hits at bit 0 and hits
of one prime twice in a pass; a ring of 4 wraps, a stack of 3 fills, three
passes carry the offsets twice, and a bucket of 5 overflows for some targets,
where the program ends. *Prime table:* with 8-bit integers the limits above
225 = 15 * 15 are what those above 65535 * 65535 = 4294836225 are with 32 bits, and the last seven, 249
to 255, are what 0xfffffff9 to 0xffffffff are. *Merkle:* 40 hashes have every
pattern of odd layers, and 17 and more are too many for 5 layers. *Packet buffer:* base 3 puts
prefixes of one and of two bytes, strings of every length up to the limit and
one more, and full buffers within reach. *Connection:* `MaxPackets` packets on each of
any number of connections: a login, block data and another block; headers of one byte
where packets are mutilated by order and loss, and of two in `xpt_unruly`, where a header
itself is cut. Two shares and two threads meet in the queue and on the lock.

Symmetry is used over threads in `miner`. `CHECK_DEADLOCK` is
off in `prime_table` and the two runs of `MerkleRoot`, which end, in `sieve`, where a full bucket ends
the program, and in `xpt_unruly` and `xpt_reconnect`, where SIGPIPE does. Elsewhere deadlock is checked; in the miner the main thread can
always move, so it is `RoundEnds` that excludes a standstill of master and workers.

**Fairness.** *Queue:* a thread that holds the mutex or owes a signal goes on
(weak), a thread that competes for the mutex again and again gets it (strong);
nothing makes a thread call a method and nothing but a signal ends a sleep, so
progress never rests on a timeout. *Miner:* weak fairness per miner thread, the
operating system's scheduling; queues are atomic there because `TsQueue` has
the progress properties. Nothing is assumed of server, connection or main
thread. `RoundEnds` speaks of rounds that a worker has joined; there is one to join, as the
program starts one thread more than it was asked for (`main.cpp:564`), two at least. *Connection:* strong fairness of the main thread's
step and of each thread's submission: `Sleep` ends, `connect()` returns, and a thread that finds
`cs_xptClient` free again and again gets it, which is what both builds' critical
sections are relied upon for; nothing is assumed of server and network, so they
may send nothing for ever. *Prime table:* the one thread goes on.

## 4. Proofs

TLAPS proves the theorems below for every value of the constants the named
assumptions permit; TLC evaluates those assumptions in every run.

### The queue (`TsQueueProofs`)

For every number of threads, every capacity and every item, from
`SizeAssumption` and `ThreadsAssumption`:

* `TsQueueProofs!TypeCorrect`, `NoItemLost`, `NoRoomLost`. The inductive
  invariant is `Safe` (`TypeOK` and `Control`, which ties the place of a thread to the
  mutex, its method and its argument) with the two counting invariants.
  `Control` is what makes the counts exact: each action moves one thread from
  one counted set to another, and the lemmas on cardinalities
  (`CountAdd`, `CountRemove`, `CountMore`) say by how much.
* `TsQueueProofs!QueueLinearizable`: the initial states map to initial states of
  `AtomicQueue`, and every step to a step of the same thread or to a stutter
  (`AbstractStep`).

### The miner (`RiecoinMinerProofs`, `RiecoinMinerMemoryProofs`)

For every finite set of miner threads, every table and partition, every
capacity and whatever the server does, from `ThreadAssumption` (finite),
`TableAssumption` (the ranges of primes lie in the table), `BoundAssumption`
(heights are positive), `QueueAssumption` (what fits into which queue) and
`NoneAssumption`:

| Theorem | Property |
|---|---|
| `TypeCorrect` | `TypeOK` |
| `MasterElected` | `OneMaster` |
| `OutstandingTestsExact` | `TestsAccounted` |
| `AwaitedJobsExact` | `JobsAccounted` |
| `NothingInFlightAtRest` | `RestBetweenRounds` |
| `TestsRunForTheirHeader` | `TestsMatchHeader` |
| `MinerImplementsRound` | `ImplementsRound` |
| `AnswersFindRoom` | `AnswersNeverBlock` |
| `JobsShareNoWrites` | `NoSharedWrites` |
| `ScannedSieveComplete` | `SieveComplete` |

None of these properties is inductive. The argument has six layers, the first three
in `RiecoinMinerProofs`.

1. `Safe` is `TypeOK` and `Control`. `Control` says of each thread what being
   at its place implies (`Place`): its role in the election, a header of its
   own, a job of the kind it is working at, an index within the job, a batch
   not yet full, and, for the master, that `z_verify_target` and `verify_block` are its own.
   Without it a step at "wdqpush" could be taken with a CHECK job in hand and answer in the
   wrong queue. `OneMaster` follows from it.
2. `Counted` adds the two counts, that the master does not exit at line 760, and what the master has settled at each of
   its places: no answer awaited once it leaves the wait for MOD or SIEVE
   jobs, no test outstanding while MOD jobs run, neither outside a round. Each
   step moves one job between the queue, a worker and an answer; lemmas on
   the cardinality of the places in a queue (`Places...`) and of the threads that hold
   a kind of job (`Holders...`) say what the move does to each side. With
   both counts 0 outside a round, the sets counted are empty (`Rest`), which is
   `RestBetweenRounds`.
3. `TestsMatchHeader` uses that: `Prepare` may change target and block
   because nothing is in use then, and no other step changes them while a
   test exists.
4. `Limited` bounds what is out. While MOD or SIEVE jobs are pushed, the place
   in the table tells how many were, and that is at most what `workerDoneQueue` holds.
   `outstandingTests` is at most the size of the job queue and one per thread
   (`MostTests`), and below it at every place that was reached by way of a clear of
   `testDoneQueue` since the last push: the queue holds no more than its size, each worker one
   test, and the master none. `AnswersFindRoom` is these bounds with
   `QueueAssumption`.
5. `Apart` is `NoSharedWrites` with what makes it inductive: every job of the
   kind being pushed ends where the next one begins, and has an earlier sieve. That
   `which_sieve` never reaches `N_SIEVE_WORKERS`, where it would wrap, is the
   division rounded up and the slack of line 707, in lemmas on division.
6. `Whole` follows each prime of the table through a round: prepared, or due to
   a job that was not run yet, or not pushed yet; then marked at this pass and moved
   to the next, or due, or not pushed. Jobs run in any order, so it needs `Apart`:
   what one does, no other undoes. When the master scans, no job is left, so
   every prime is marked, for this header and pass.

The refinement maps the header mined to the block of the one thread in a
round, and `pending` to the CHECK jobs in flight, which by `TestsAccounted`
is `outstandingTests` less the answers waiting. So each step of the master is `Begin`,
`Post`, `Notice`, `Drop`, `End` or a stutter by what it does to two numbers,
a worker's `PushTestDone` is `Answer`, and all other worker steps stutter.

### The connection (`XptClientProofs`)

For every set of threads (finite) and shares, every set of packets of any sizes, any number
of packets, length of a header and build, from `ClientAssumption`:

| Theorem | Property | Under |
|---|---|---|
| `TypeCorrect` | `TypeOK` | |
| `ReceivesInOrder` | `PacketsInOrder` | |
| `ShareSentOnce` | `SharesAccounted` | |
| `NoShareLost` | `NoShareStranded` | |
| `WindowsReportsErrors` | `ConnectReportsErrors` | |
| `IdleMinerWithoutConnection` | `NoWorkWithoutConnection` | `Conforming` |
| `WorkIsReal` | `WorkIsFromServer` | `Conforming`, `WholeBlocks` |
| `ConnectionIsFeed` | `ImplementsFeed` | `Conforming`, `WholeBlocks` |

* `Safe` is `TypeOK`, `Control` (who has `cs_xptClient`), `Laid` (the packets of a
  connection lie one behind the other, so no two begin at the same byte) and `Framed`:
  the buffer begins where the first packet not handled begins; once its header is
  there, size and opcode are that packet's, or its size was refused and the cursor
  stands where the next `recv`, of no bytes, ends the connection. Without the reset of
  `recvSize` after a packet this breaks; with it the packet handled is always the
  next one sent, and `ReceivesInOrder` follows.
* `Drained`: from `SendShares` on until the lock is left, and as long as the
  client is disconnected, its queue is empty; hence `NoShareLost`. `OnePlace` says of
  each share that it is in one of the four places at most, and once; hence
  `ShareSentOnce`, which counts.
* `Session` is the protocol: the first packet of a connection is the
  answer to the login, and while there is none, or its algorithm is not
  Riecoin, no block data was taken and both heights are 0. That is why `main.cpp:315-326` need not
  reset them. `Traced`: block data held, and work published, are of one block data packet.
  It needs `WholeBlocks` (block data is never cut short), because the handler looks at no
  error and would mix two packets.
* `ConnectionIsFeed` maps each step of the main thread to a step of `WorkFeed` or a stutter
  by these invariants.

### The sieve (`RiecoinSieveProofs`)

From `SieveAssumption`: the table is ascending, its numbers have an inverse of the
primorial (what `mpz_invert` needs, as the table starts after the primorial's factors), each
is greater than the distances of the tuple, and dense primes are among those whose offsets are stored. Nothing
else is assumed of the table, of the targets, or of the sizes of sieve, ring, stack and
buckets: that the table holds primes is not needed.

| Theorem | Property |
|---|---|
| `SieveInvariant` | `SieveInv`, the inductive invariant |
| `IndexesStayInBounds` | `IndexesInBounds` |
| `SieveIsExact` | `SieveExact` |

`SieveExact` speaks of the moment a pass is scanned; `SieveInv` says what is true until then.
`Root(k, g)` is the first position at which prime `k` divides the `g`-th number of the tuple.

* `ModInv`: what was computed so far are the roots: `offsets` for primes that are stored,
  and for the others exactly those below the end of the last pass are in a bucket or
  on the stack (`Waiting`). A remainder left equal to `p` is harmless because only its class
  matters (`Answers`: the index computed by way of the inverse is a root).
* `OffsetsInv`: in a pass, `Place(k, h)`, the offset `h` of prime `k` counted from the first pass
  on, is in the class of a root modulo `p`, every root has such a place, and the offset is less than
  `p`. The sort only exchanges (`SortKeeps`), so it loses no root; `Carries` shows that the
  dense loop marks exactly the positions of a class in this pass and goes on at the first one in
  the next.
* `MarksInv`: the bits set, together with the ring's entries that are not 0 (`Lit`), are exactly
  what the primes before the present one strike, and what the present one has got to (`Reached`). Because the
  ring is part of it, its wrap, its size and the flushes do not matter. An index in a bucket is a bit of
  the pass the bucket belongs to (`BucketsKept`, `Passes`).

`IndexesInBounds` follows from the types in `SieveType`, for whose proof the same places are
needed: an offset is less than the sieve's size when it is put into the ring because
`NextSparse` has the other case.

### The prime table (`PrimeTableProofs`)

From `TableAssumption` (whole bytes, limits of at least 2 and below 2^W):

| Theorem | Property |
|---|---|
| `TableInvariant` | `Inv`, the inductive invariant |
| `TablePrimes` | `TableIsPrimes` |
| `TableInMemory` | `TableFits` |

`TableIsPrimes` is about limits that nothing wraps for. There `Sieving` is the textbook
argument: every factor passed has all its multiples from its square on marked, only composite numbers
are marked, and a composite number below the limit has a factor whose square is below it too.
`TableFits` is about every limit whose size in bytes does not wrap (`SizeFits`: all but the last seven), also those that products
or sums wrap for, where the marks are not sound. It needs less and says more, and has two halves.

*The table.* The multiples of 2, 3, 5 and 7 are marked
whatever happens later (`Marked`, `Tame`; just below 2^W the multiples of 7 may wrap once, when all
of them are marked, hence the first disjunct of `Marking`), so an entry is one of these four or has none of them as a
factor (`Free`), and of such numbers there are at most `Slots(n)` up to `n`: eight in thirty, less those with the factor 7.
`SlotsBound` says that is at most `n/4 + 10`. Without the multiples of 7 the count is 4n/15, which
is more than is allocated.

*The flags.* A flag below the limit is in the bytes allocated; the first loop reads the flag of a factor, which
is below the limit only as long as the loop ends in time, although the square it tests wraps. It does: some factor
has a square between the last limit with `SizeFits`, 2^W - 8, and 2^W when both are taken modulo 2^W, because
-7 is a square modulo every power of two (`StopExists`, by induction on the exponent: `RootAt`, `RootStep`), and there the test
fails whatever the limit (`Stop`, `Ends`). So the factors stop below the limit and `AccessBeyond` is never
enabled (`AccessInMemory`).

### The packet buffer (`XptPacketbufferProofs`)

From `BufferAssumption` (the base is at least 2, the layouts are sequences of fields), for every
size of the two buffers, every set of layouts and every value:

| Theorem | Property |
|---|---|
| `BufferInvariant` | `Inv`, the inductive invariant |
| `CursorsStayInBounds` | `CursorInBounds` |
| `PacketsRoundTrip` | `RoundTrip` |
| `CutPacketsRefused` | `CutRefused` |

The invariant says that there are places `e` at which the fields end in the packet (`EndsAt`): field `j` lies
between `e[j - 1]` and `e[j]` and is what was encoded for it. The reader agrees with `e` as long as it
can: in a whole packet until a string of the greatest length (`WholeInv`), in one that was cut
until its end, where the cursor stays (`CutInv`), with every checked field read in full. A field
that is there in full is read as it was written (`ReadBack`, with `NumberOfBytes`: a number is its
bytes put together), and a string that is read without an error is there in full (`StringBack`). Old
bytes in the reader's buffer, failed writes and earlier packets are in the invariant's reach; the
places are unknown to the reader.

### The merkle root (`MerkleRootProofs`)

From `MerkleAssumption` (each layer may duplicate one hash, so the allocation has two
more places for each: 2 * 10 <= 128), for any number of hashes and of layers:

| Theorem | Property |
|---|---|
| `TreeFits` | `ArrayInBounds` |
| `RootIsTheReferences` | `RootIsReference` |

*The array.* A pair reads two hashes and writes one, so twice the number written less
the number read changes only with a duplicate, at most once per layer (`Written`); and what is
unread is always the present layer with its duplicate and the next one so far (`LayersLaid`).

*The root.* `RootInv` adds what these hashes are: those of the reference's layer `f`, padded, and while pairs are
hashed the rest of it and the beginning of the layer above (`Paired`). `layerSize[f]` counts the
duplicate in the first layer and not in the others; both pad to the same length, which is all the
invariant says of it. `Sized` bounds a layer: with `l` hashes left of `n` after `g` layers,
`(l - 1) * 2^g < n <= l * 2^g`, and `2^(g - 1) < n` if `g > 0`. So a layer of one hash comes only if
`n <= 2^(Layers - 1)`, and the loop runs out of layers only if `n` is greater.

### Recursion in proofs

What `LayersOf`, `Bucketed`, `Sorting`, `Left` or `High` compute for every input needs induction over numbers and the
existence of the recursive function. Both are derived where they are used, for sets in place of
predicates: `Induction` says that a set of numbers with 0 and the next of each has all
numbers (from the well-foundedness of `<`), and `LayersAre`, `Recursion` and `Steps` that functions defined step by step exist, by
gluing the finite pieces together. `Power` makes `2^n` a number by counting subsets. That is why these lemmas appear in
more than one of the modules.

## 5. Only model-checked, not modelled

Liveness (`PopProgress`, `PushProgress`, `RoundEnds`, `PacketsHandled`,
`SharesSettle`, `Reconnects`, `TableReady`) is out of the prover's reach, as is `ENABLED`.
Every other property of the passing runs, invariant or action property, has a theorem. No
module uses a RECURSIVE operator.

Not modelled, and why:

* SHA-256, big integers, primality tests of a candidate, OpenCL and sphlib: third-party or unused.
* The xpt server: `main()` never starts it. Its receive function is the
  client's without the reset of `recvSize` after a packet; `RecvPacketKeepsSize` in
  `XptClient` is that function, and `PacketsInOrder` rejects it.
* What pings measure, and partial sends: the result of `send()` is looked
  at nowhere, so a share counts as sent when it is handed to `send()`. What the pool
  then does with it (accepted, rejected) only moves counters.
* Sockets that are never closed and objects never freed on a reconnect
  (`main.cpp:345`), and a socket numbered 0, which the code takes for an error.
* `hasWorkData` (written, never read), `cs_workAccess` (initialised, never entered), the
  branch of `xptClient_sendShare` for an unknown algorithm (not reachable).
* The data of a block beyond height and root: `main.cpp:217-225` says "Too many transaction hashes", sets their count to 0 and
  copies them all the same, and `xptClientPacketHandler.cpp:73-83` copies `coinBase1`, `coinBase2` and `txHashes`
  with the lengths the packet gives. No property depends on these lengths; the models assume they fit.
* Memory streams, lists, strings, command line, tickers (a time limit is a
  choice), console output: sequential and without state that outlives a call.
* Statistics counters, which all workers increment without synchronisation:
  increments are lost, and nothing but a report reads them.

Most lines of the repository are headers and libraries of others (`CL/cl.hpp`,
`OpenCLKernel.hpp`, `mpir.h`, `sph_types.h`, `sha2.cpp`), which are not modelled; the
models cover what the program itself decides.

## 6. Where a comment and the code differ

* `main.cpp:16` calls `monitorCurrentBlockHeight` "used to notify worker
  threads of new block data" and `main.cpp:226` calls the height the value that
  "triggers reload of work". Work is replaced when the height or the merkle root
  differs (line 327), but the monitor carries the height alone. Run `new_data`
  shows block data with another root at the same height being published
  while the master goes on with the old root and sees no difference at its next poll.
* `main.cpp:306` says "Connection to server lost - Reconnect in 45 seconds" and `main.cpp:360`
  "Connection attempt failed, retry in 45 seconds". In a POSIX build `xptClient_connect`, which "Returns false
  on error" (`xptClient.cpp:68`), drops the result of `connect()` (line 39) and sends the login (line
  391) over a socket without a connection. Where SIGPIPE is ignored, the BSD builds, the next `recv` fails and the loop
  goes on: run `xpt_client` shows `Reconnects` there. Elsewhere, on Linux, that `send()` ends the process, and so may one of a
  share or a ping after the pool has closed the connection: run `xpt_reconnect`. `src/xptMiner/BUGS:2-3` records
  "Not-reconnecting after pool disconnect observed by a few miners", of a build on Ubuntu 14.04; what the
  run shows would look like that to a user, but the record says too little to tell whether it is the cause.
* `transaction.cpp:80` announces "up to 16 layers (which means 2^16 hashes are possible)"; line 95 gives up after
  ten, so for more than 512 transactions no root is written. Run `merkle_layers` shows it (`RootForAnnounced`);
  `RootIsReference` is what does hold: up to 2^(Layers - 1) hashes the root is the reference's.

The following were met while modelling; they are stated in the properties named.

* `main.cpp:408-409` accepts table limits up to 0xffffffff and says "between 100000
  and 4.1 billion". For limits above 65535 * 65535 = 4294836225 a product of line 128 wraps: the
  loops end, but primes of the table are missing (`TableIsPrimes` is stated for the others). For the
  last seven, 0xfffffff9 to 0xffffffff, the sum of line 118 wraps as well: no byte is allocated for the flags, and
  what the program then does is undefined (`SizeFits` in `TableFits` and `TableReady` leaves them out).
* `src/xptMiner/BUGS:5-7` records, of Windows builds with "a huge and weird -s flag", "a workerDoneQueue too large
  error", which is the exit at `riecoinMiner.cpp:758-760`. The model has that exit (`Merge`, at the place `"aborted"`), and no behaviour
  reaches it: `JobsAccounted` says that the answers in `workerDoneQueue` are never more than
  the master still waits for, and it waits for all before it looks. So the report is not explained by the order in which master
  and workers act; the model rests on queues that are atomic (`TsQueue`), on jobs that write
  inside their arrays (`RiecoinSieve`, whose exit at a full bucket is modelled) and on allocations that succeed, and says nothing
  of a program whose memory was overwritten. The sizes near 2^32 above are such a case.
* `xptPacketbuffer.cpp:297` writes strings as long as `maxStringLength - 1`, and
  line 362 refuses to read one (`RoundTrip`; `XptClient` counts such a packet as cut).
* `xptClient.cpp:533-538` refuses a packet of too great a size by returning false, but nobody
  looks at the result and the client stays connected until the `recv` of no bytes
  in the next turn (`RecvTooLarge`, `RecvFails`).
* `xptClient.cpp:497` says "ping every 4 minutes" and adds 120 seconds.

## 7. Plan

What is left, in order of what it would add:

1. The miner's shares in the connection: `FindShare` of `XptClient` is `SubmitShare` of
   `RiecoinMiner` with any header; a composition of both would follow a header from block data
   to the share sent for it, and show for which connection a late share is sent.
2. Sending: partial sends and a `send()` that fails without a signal, with what the pool receives.
3. The memory streams of the transaction hash, with their growth and cursors.
4. Theorems that join two modules: that the table `PrimeTable` builds meets `SieveAssumption` from the first
   prime after the primorial's factors on, and that a packet `CutRefused` lets through is
   the kind `XptClient` calls whole.
