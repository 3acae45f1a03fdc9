# A TLA+ model of the transactional file server

The program (`src/cvg_a3/`) is a pair of servers, a primary and a backup, that
take transactions over TCP. A client opens a transaction on a file (`NEW_TXN`),
sends numbered packets (`WRITE`), possibly out of order, and ends it with
`COMMIT n` or `ABORT`. On commit the packets 1 to n are appended to the file as
lines. The primary forwards what it did to the backup, and commits only after
the backup. Each server keeps a log of its transactions and loads it when it is
started again.

## Inventory

| Part | State | Operations | Talks to |
|---|---|---|---|
| `LogHandler` | `log_trans`: per transaction a status, a commit number, a second status word, the file name and the packets; entry 0: own role and address; entry -1: the backup's address. `.server.log` on disk, the target files | `newTxn`, `makeTxn`, `addLogEntry`, `commit`, `abort`, `canCommit`, `timeouts`, `writeFile`, `readFile`, `save`, load in the constructor | called by all others |
| `Session` | one per connection: its buffers | `handle_read`, `executeCommand`, `doCommit`, `sendACK_RESEND` | `LogHandler`, `ReplicationManager`, the client |
| `TransactionManager` | a counter | `check`, every 5 s: save; every 30th time sweep | `LogHandler` |
| `ReplicationManager` | `syncQueue`, `alive`, `tries`, `restarted`, `backup_did_sync` | `check` (every 0.3 s: `primaryOps` or `backupOps`), `commit`, `integrityCheck`, `switchToPrimary`, `switchToBackup`, `loadPrimary`, `enqueue` | `Client`, `LogHandler`, `primary.txt` |
| `Client` | one blocking connection to the other server | `connectSocket`, `sendReceive`, `sendPacket`, `genRequest`, `genEcho` | the other server's `Session` |
| `Server`, `main` | acceptor, command line | start, SIGINT handler (deletes the log) | all |
| `ServerTools` | none | parsing and formatting of headers and answers | all |

Everything on one server runs on one thread (`io_service.run()` is called once),
so handlers do not interleave with each other. What makes the program hard is:

* a crash between, or inside, the steps of a commit (save WRITING, ask the
  backup, write the file, save COMMITTED, answer), and inside `save()`;
* a log on disk that is older than the log in memory (`WRITE` and `ABORT` are
  not saved), and a restart that goes back to it;
* packets and commits in any order, repeated, or with another commit number;
* expiry that races requests, through a loop that increments an iterator to an
  element it has erased;
* two servers that call each other with blocking calls from their only thread,
  through functions that call one another (`commit`, `primaryOps`,
  `integrityCheck`) and read one reply per request whatever was sent;
* promotion and demotion by two timers, a file, and a message nobody answers;
* packets that the network cuts anywhere, put together from a buffer that
  reads ahead and a blocking read of the rest.

What makes the parts correct: a transaction is COMMITTED only with its lines in
the file, an acknowledged commit is not lost and not written twice, packets are
never replaced, expired transactions stay expired and idle ones go away; the
backup has what the primary committed, and there is one primary.

## Modules

| Module | What it is |
|---|---|
| `LogHandler` | the log as a value, and what each operation of `LogHandler` does to it, as operators |
| `TransactionServer` | one server as a state machine: requests, daemon, commit in steps, crashes and restarts |
| `DurableStore` | abstract: what log and files promise to whoever looks at the disk |
| `MCTransactionServer` | TLC instances of `TransactionServer` |
| `ResendLoop` | the loops of `canCommit` and `sendACK_RESEND`, step by step |
| `Replication` | two servers: `ReplicationManager`, `Client` and `Session` of both, with connections and call stacks |
| `MCReplication` | TLC instances of `Replication`: what clients send |
| `Lines` | byte streams: delimiters and lines |
| `RequestStream` | `handle_read` against `genRequest` and `genEcho`: packets cut by the network |
| `ReplyStream` | `sendReceive` against `genAnswerStr`: answers cut by the network |
| `MCStreams`, `MCReplies` | TLC instances of the two |
| `LogHandlerProofs` | lemmas about the operators of `LogHandler` |
| `TransactionServerProofs` | theorems about `TransactionServer` |
| `ResendLoopProofs` | theorems about `ResendLoop` |
| `ReplicationProofs` | theorems about `Replication` whatever fails: types, how calls nest, and that commits are complete and kept |
| `ReplicationSyncProofs` | theorems about `Replication` while nothing fails: the backup commits first, and the same |
| `LinesProofs` | lemmas about `Lines`: what cutting and joining streams does to their bytes |
| `ReplyStreamProofs` | theorems about `ReplyStream` |
| `RequestStreamProofs` | theorems about `RequestStream` |

A definition whose comment says *mutant* is a deliberately wrong variant of the
definition that follows it. Nothing uses it; putting it in place of the right one
must break the property that is about it.

### LogHandler

`Txn` is a record: the code's keys -1 (`status`, `data`), 0 (`z`, `file`) and
1, 2, ... (`writes`). Payloads and file names are model values: the code only
stores and copies them. `AddLogEntryCode`, `CommitCode` and `AbortCode` are the
cascades of checks at the head of each handler, in the code's order; they return
the reply code, or what the rest of the handler acts on. `Aged` is one visit of
`timeouts()`. `SweptLogs` is the set of logs a whole sweep can leave. When a
sweep erases something, the loop goes on from an erased node of the map, which is
undefined; the transactions up to the first erased one were visited once, and
each later one may be skipped or be visited up to three times. (A sweep that
faults is a crash.) Numbers below 1, refused by every handler, are not offered.

### TransactionServer

| Action | Code |
|---|---|
| `NewTxn` | `newTxn`, `makeTxn` with their `save()` |
| `Write` | `addLogEntry`; if it completes a WAITING commit it goes on as `StartCommit` |
| `Commit`, `CommitIncomplete`, `CommitAgain` | `commit`: all packets there; some missing; already committed |
| `Abort` | `abort` (no save) |
| `Replicate(ok)` | `doCommit` on a primary: the answer of `ReplicationManager::commit` |
| `WriteFile`, `WriteFails` | `writeFile`; a backup that cannot open the file |
| `MarkCommitted` | status COMMITTED and `save()`, in `doCommit` or `commit` |
| `AckCommit` | the ACK to the client (a backup's ACK to its primary) |
| `Save`, `Sweep` | `TransactionManager::check` |
| `SwitchRole` | `switchToPrimary`, `switchToBackup` |
| `Crash`, `CrashInWrite`, `CrashInSave` | the process dies, and is started again in either role |

A handler that cannot be split by anything but a crash is one action. A commit
is split where a crash makes a difference: `step` is its position, `cur` the
transaction. Requests the code refuses change nothing and are left out.
`WriteFails` on a primary is `exit(-1)`, hence a `Crash`; so is an ACK to a client
that has closed its connection (`sendACK` throws and nothing catches it). `acked` and `touched`
are history variables, for the properties only.

`CrashInSave` models the crash between the truncation and the end of the
writing of `.server.log`. The map is written and read in key order, so a prefix
of the transactions is loaded; the damaged file is renamed, so nothing is on disk
until the next save. The constant `TornSaves` says whether such crashes happen.
`CrashInWrite` cuts the file after any of the lines, or inside the next one: such
a block is `torn`, and what is appended later begins on its last line.

The other server is seen only through what it makes this one do: its answer to a
commit, `MAKE_TXN`, and changes of role, all at any time. `Replication` has both
servers; there `writeFile` and `save()` do not tear.

### DurableStore

A transaction on disk is absent, open or committed. Open ones come and go, and
leave lines in files when a commit is cut short. A committed one never changes,
its lines were in its file before it became committed, and nothing is appended
for it afterwards. `TransactionServer` implements it by reading the status off
`.server.log` (`DurableView`).

### ResendLoop

One action per loop iteration of `canCommit` and of `sendACK_RESEND`. It shows
that the set definitions `Fetch` and `CanCommit`, which the other modules use,
are what the loops compute.

### Replication

A server has one thread, and `sendReceive` blocks it. So the state of a server is
what it has in memory (`srv`) with the stack of calls its thread is in, innermost
first: `sync` (`primaryOps` sending the queue), `commit`, `check`
(`integrityCheck`), `ping`, `doCommit`. An empty stack is a thread in
`io_service.run()`, and only such a thread serves requests or timers. `link[s]` is
the connection that the `Client` of s opened: requests not served, replies not
read. `orphans` are requests of connections that were closed before they were
served; the kernel delivers them all the same.

| Action | Code |
|---|---|
| `NewTxn`, `ClientRequest` | a client's request at a primary (`executeCommand`, `handle_read`, `enqueue`) |
| `Serve`, `ServeLate` | the same for the other server's requests; `Handle...` has one operator per command |
| `PrimaryCheck`, `PrimaryIdles` | `check()` on a primary: `primaryOps` |
| `SyncReply`, `SyncFails` | one round of its loop over the queue; the exception |
| `CommitEnter`, `CommitDecide`, `CommitReply`, `KillPrimary`, `CommitFails` | `commit()`: its call of `primaryOps`, its three branches, each reply, KILL, the exception |
| `CommitRecurses` | `commit()` on a demoted server, which calls itself until the stack is full |
| `FinishDoCommit` | `doCommit` after `commit()` returned |
| `CheckStart`, `CheckNext`, `CheckEnd` | `integrityCheck` |
| `BackupCheck`, `BackupNoPrimary` | `check()` on a backup: `backupOps` with and without a connection |
| `PingReply`, `PingFails` | the answer to a PING; the exception nobody catches |
| `HandleKill` | `switchToBackup` |
| `Crash`, `Start` | the end of a process at any step; the operator starts it again |
| `Save`, `Sweep` | `TransactionManager::check` |

What was abstracted. The AUTH packet has no answer and is always the first of a
connection: it is part of opening one. A read that takes more than one reply drops
the others whole (`AfterRead`); how answers are cut is `ReplyStream`'s subject. A
write to a connection that was reset throws: where nothing catches it the
process ends, which is a `Crash`. `FreshNumbers` says that a number is drawn only
if neither server uses it; the code draws one of 100000 that is free on the
primary. `Payloads` says what clients send as packet n: in the passing runs the
same data whenever they send it again. The operator does not start a second
primary beside a running one.

### RequestStream and ReplyStream

A stream is a sequence of tokens: CR, LF, one token for a header line, one for each
byte of a body. The network delivers it in chunks of any size, so where a read
stops is a choice. `RequestStream` follows `handle_read`: lines skipped before the
header, the fragment of the payload that `async_read_until` left in the buffer,
the size with or without the `\n`, the blocking read of what is missing, an end of
the stream anywhere (the sender's machine may die, so a part may be lost).
`ReplyStream` follows `sendReceive`, whose buffer lives for one call. Its constants
are the answers (`Texts`) and the request each belongs to (`Of`): `sendACK_RESEND`
answers one COMMIT several times, the further answers may arrive after its call
has returned, and then are there for the calls after it.
`InvalidAssumption` leaves one case out: after an invalid header *without* a
payload, the rest of the packet is a delimiter, and a following header that has
arrived in part is taken to pieces. Only a client that breaks the protocol gets there.

## Runs

| Run | Checks | Instance |
|---|---|---|
| `server_crash` | `TypeOK`, `ExactlyOnceWithoutCrash`, `AckedDurable`, `WriteOnce`, `ImplementsDurableStore` | 1 transaction, 2 packets, 2 payloads, 2 files, 2 crashes |
| `server_torn_log` | `ExactlyOnceWithoutCrash`, `CommittedInFile`, `ExpiredIsFinal` | 2 transactions, 1 packet, 2 crashes, torn saves |
| `resend_loop` | `ReturnsCanCommit`, `AsksForMissing` | every set of packets and every commit number up to 4 |
| `repl_order` | `TypeOK`, `CommitSyncs`, `BackupFirstUntilFault`, `CheckIsSoundUntilFault`, `Agreement` | 1 transaction, 3 packets, 7 requests, 3 sweeps |
| `repl_crash` | `CommitsComplete`, `CommitsKept` | 1 transaction, 2 packets, 5 requests, 1 crash at any step, restart in either role, 1 failing `writeFile` |
| `repl_failover` | `OnePrimary`, `TakesOver`, `Replicated`, `HandlersReturn`, `QueueDrains` | 1 transaction, 1 packet, 3 requests, 1 crash, restart as backup, `Drift` 1, fairness |
| `repl_conflict` | `SettlesWithoutCrash`, `HandlersReturn` | 4 transactions, 2 packets, 3 requests, started with different commits on the two servers, no crash, `Drift` 1, fairness |
| `request_stream` | `TypeOK`, `ExecutesWhatWasSent`, `EveryPacketServed`, `SessionEnds` | 5 packets: payloads of 1 and 2 bytes, none, an empty one, 2 invalid headers |
| `reply_stream` | `NoOtherAnswer`, `OwnAnswerAfterText`, `CallsReturn` | 7 answers to 6 requests, with and without a text, two of them to one COMMIT |
| `finding_resend`, `finding_stuck`, `finding_stale_reply` | one property each, violated (see *Findings*) | the smallest instance that shows it |

Other instances are kept beside the runs, as configurations that can be checked
in the same way: the further `finding_....cfg`, in each of which TLC finds the
property violated (see *Findings*), and `server_sweep.cfg`, in which
`IdleIsCollected` holds for 3 transactions that are created, committed in vain,
aborted and swept, under fairness.

Why these bounds. Two transactions are needed for a sweep that erases one and
skips the other, for a prefix of the log, and for lines of two transactions in
one file. Three are needed for two that take turns in being erased while the third
is skipped each time (`server_sweep.cfg`): that can go on for ever if a client
creates them again and again, which `IdleIsCollected` excepts. Two packets are
needed for a missing packet, for a WAITING commit and for a `writeFile` that is cut
in the middle; three for a packet that arrives above
a commit number with a hole in between (`finding_resend`). Two payloads make an
overwritten packet visible, two files a block in the wrong one. Two crashes allow
a crash during the recovery from the first. Payloads and files are symmetric;
symmetry is used in `server_crash` only, which has no liveness property.

In `Replication`, four requests are a whole transaction of two packets and five one
of three; a fifth lets `repl_crash` extend a transaction that one server has committed
(`finding_agreement`), and `repl_order` has two more than the five, for a repeated or
contradicting COMMIT or for packets sent again. Three sweeps are what it takes to
expire a transaction. Three packets are what `finding_stale_reply` takes: with them
replies can lag by two, so that the ACK of a WRITE is read for that of the COMMIT.
`repl_order` has three, and so shows that this needs a fault. It has one transaction; two, which share the queue,
the stack and the replies, are for the proofs (`BackupCommitsFirst`,
`ChecksAreSound`), which hold for any number. One crash is followed by a promotion,
a restart, an integrity check and a KILL. `repl_conflict` starts with commits 1 2
and 2 3, as README.txt:12 has it, and leaves a fourth number to clients.

`Drift` is an assumption, and two runs make none (`repl_order` and `repl_crash`
have `Drift` 0: timers fire in any order and at any speed). With `Drift` n a timer
fires at most n times before the other server's does while both are idle,
computing takes no time against the period of 0.3 s, and requests of a closed
connection are served before the next timer. `repl_failover` and `repl_conflict` need it: a backup
that fires five times while the primary is started again promotes itself beside
it, and without bounds on time nothing excludes that. `Drift` must stay below
the four attempts a backup makes.

Deadlock checking is off for `Replication` and the streams: two servers that wait
for each other do stop, and so does a session whose connection ended.

Fairness. `server_sweep.cfg`: the daemon re-arms its timer in every `check()` and the
one thread serves what is ready in turn, so if the thread comes back for work
again and again, a sweep happens: strong fairness of `Sweep`. It is strong because
a client may start a commit between any two moments at which the thread is free.
`WriteFile`, `MarkCommitted` and `AckCommit` are local steps of a running handler:
weak fairness. Nothing is assumed of clients, of crashes, or of the answer of the
backup; `IdleIsCollected` therefore excepts a server that waits for it for ever.
It also excepts WRITING transactions, which the code never deletes, and behaviours
in which transactions are created for ever. `repl_failover` and `repl_conflict`: a thread outside `io_service.run()` that is not blocked runs on
(weak fairness of `Running`); timers, requests and late requests are served in
turn whenever the thread is free again and again (strong fairness of `Timer`,
`Serve`, `ServeLate`). Nothing is assumed of clients and operators: a server that
is down may stay down. The liveness properties except two servers that block each
other (`MutualWait`), which `finding_stuck` shows to happen. `HandlersReturn` excepts
also the `commit()` that calls itself (`CallsItself`, see `finding_recursion`), and
takes the end of a process for a return only after a crash; calls that went on for
ever would run into a PING and so into the mutual wait, so it says nothing of
those. Streams: a session
and a client read what has arrived, a server answers.

## Findings

Each is a property that states what a document or a comment says, and an instance,
`finding_....cfg`, in which TLC finds it violated. Three are runs of PROJECT.json,
which quotes the lines there; for the others they are given here.

One server:

* `finding_resend` (`ResendsAccepted`): `canCommit` also reports holes *above* the
  commit number. With packets 1 and 3, `COMMIT 1` becomes WAITING, packet 2 is asked
  for, and is refused as higher than the pending commit. The transaction cannot
  commit.
* `finding_duplicate` (`NoDuplicateLines`): a crash after `writeFile` and before the
  save of COMMITTED. The commit that is continued after the restart appends all
  lines again, although README.txt:42 says "you can continue a transaction after a
  failure".
* `finding_glued_line` (`NoGluedLines`): a crash inside `writeFile` leaves a
  fragment of a line, and the continued commit appends its first line to it
  (README.txt:42 again).
* `finding_torn_log` (`AckedDurable`): `save()` truncates, then writes. A crash in
  between forgets commits that were acknowledged long before (README.txt:42: the
  server "keeps track of commits").
* `finding_expiry` (`SweepSparesActive`): a WAITING transaction ages through a
  word no WRITE resets, so a sweep deletes it although a packet for it arrived
  since the last sweep. TransactionManager.cpp:21 says that the sweep deletes
  transactions "that haven't had any activity since last check".

Two servers:

* `finding_stuck` (`NoMutualWait`): the backup's PING is blocking, and so is what a
  primary sends its backup. If each is sent before the other is served, both threads
  wait for ever.
* `finding_stale_reply` (`BackupFirst`): three missing packets are asked for with
  three ACK_RESENDs, `commit()` reads one. From then on it reads two replies
  behind, takes the ACK of a WRITE for that of the COMMIT, and the primary commits
  while the backup is WAITING. The same replies make an integrity check report
  success for a transaction the backup has not committed (`CheckIsSound`).
* `finding_one_byte` (`CommitSyncs`): `genEcho` forwards a payload of one byte as
  none. The backup refuses the WRITE, nobody reads that, and the packet is sent
  again, in vain, when the COMMIT fails. README.txt:46 says "a commit will force a
  sync between servers".
* `finding_reuse` (`Agreement`, with `FreshNumbers` FALSE): a number that expired on
  the primary only is drawn again; MAKE_TXN is acknowledged, and the backup mixes
  the packets of two transactions. LogHandler.cpp:286 says "make sure tsn was not
  assigned".
* `finding_agreement` (`Agreement`): the primary commits one packet of a transaction
  before the backup is connected, and crashes while an integrity check forwards it.
  The backup promotes itself, a client adds a packet there and sends COMMIT with the
  number 2. Each server refuses the other's number for ever. The same happens the
  other way round, when a primary that crashed after the backup's commit and before
  its own is started alone. README.txt:15 says that the integrity check "will fix
  this".
* `finding_repair` (`Repaired`): a former primary that came back as backup, with a
  transaction WAITING, commits it when the missing WRITE is forwarded; the new
  primary does not commit it, and the integrity checks have already run
  (README.txt:15 again).
* `finding_recursion` (`ChecksFinish`): a demoted primary keeps its queue, and its
  integrity check calls `commit()` from `commit()` until the stack is full
  (README.txt:15 again).
* `finding_ping` (`Takeover`): a primary that dies between a PING and its answer
  takes the backup with it. README.txt:72 says that a backup will "promote itself as
  primary if it cannot" connect.
* `finding_loop` (`LoopsOnConflict`): README.txt:11-14 says that servers with
  different commits (1 2 against 2 3) promote themselves and demote each other for
  ever. They do so once each: `restarted` is set by a demotion and never reset, and
  then a backup makes no check. `repl_conflict` shows that without a crash the pair
  always settles, or blocks as in `finding_stuck`.
* `finding_split` (`EventuallyOne`): from the same start with a crash of the primary
  that is restarted as backup, there can be two primaries for good. The restarted
  one finds itself in primary.txt and promotes itself after four tries; the other
  takes it for the primary until it misses its commits there, sends KILL and
  promotes itself too. A primary does not look at primary.txt again.
  README.txt:71 says that a backup will "register with" the primary.

Streams:

* `finding_blank_line` (`OwnAnswer`): an answer without a text ends in a blank
  line `sendReceive` does not read; if it arrives by itself, the next call takes it
  for its header. Client.cpp:147 says "if data, get it, if not there was one more
  empty line anyway".

The positive statements next to them: without a crash lines are written exactly
once; with crashes that spare `save()` acknowledged commits are durable and
`DurableStore` is implemented; with any crash COMMITTED still implies that the
lines are in the file. A server commits only complete transactions and keeps them,
whatever fails around it; two servers that commit the same number of packets under
one number commit the same lines, if clients repeat packets unchanged, and they
agree on that number as long as nothing fails (`ServersAgree`), and also after an
expiry within the bounds of `repl_order`; a backup that is connected commits first as long
as nothing failed; in the instance of `repl_failover` whatever the primary committed
reaches the backup, also after a crash; as long as each request got one answer, a
stray blank line never makes a call return another request's answer.

## Proofs

TLAPS checks every proof. The theorems hold for every value of the constants that
satisfies the assumptions named in the modules: `Tsn` are positive integers,
`MaxSeq` and the bounds are naturals, `NoData` and `NoTxn` are not data or
transactions, there are two servers, `Tsn` has a greatest element
(`TsnBoundAssumption`; the code draws from 1..100000), answers have sizes.

### TransactionServerProofs

One server, for any number of transactions, packets and crashes.

| Theorem | States |
|---|---|
| `Safety` | `Spec => []SafeInv`, the inductive invariant |
| `TypeCorrect` | `Spec => []TypeOK` |
| `CommittedAreInFile` | `Spec => []CommittedInFile`, torn saves or not |
| `AckedAreDurable` | `Spec => []AckedDurable`, if `~TornSaves` |
| `PacketsWrittenOnce` | `Spec => WriteOnce` |
| `ExpiredStaysExpired` | `Spec => ExpiredIsFinal` |
| `LinesWrittenOnce` | `Spec => []ExactlyOnceWithoutCrash` |
| `RefinesDurableStore` | `Spec => ImplementsDurableStore`, if `~TornSaves` |

`SafeInv` has five parts. `TypeOK` and `CommittedInFile` are the properties
themselves. `CommittedInFile` is not inductive: `MarkCommitted` makes a
transaction COMMITTED without looking at the file, so `InProgress` says what the
earlier steps of the same handler established (the packets are there; at `mark`
the lines are in the file; `disk = log` throughout). A restart puts the disk's log
in the place of the one in memory, so `DiskBehind` says how the two may differ:
packets may be missing on disk but not differ, what is committed on disk is the
same in memory, what is expired in memory is the same on disk or gone.
`CommitsOnDisk` is the converse, and needs that no save is torn: what is committed
in memory, or was acknowledged, is committed on disk. The proof has one lemma per
action.

`WriteOnce` and `ExpiredIsFinal` follow from `SafeInv` and from a lemma on what
one step may do to one transaction (`Moves`). For sweeps that lemma rests on
`SweepAges`: whatever the walk skips or visits twice, each transaction of the log
it leaves is one that was aged some number of times. `ExactlyOnceWithoutCrash` is
inductive relative to `SafeInv`. For the refinement, `WriteFile` and
`CrashInWrite` are `AppendBlock`; `MarkCommitted` is an `UpdateStore` that commits
`cur`; all others are an `UpdateStore` of open transactions. `SafeInv`, like the
properties themselves, holds in TLC on the instances of `server_crash` and
`server_torn_log`.

### ResendLoopProofs

| Theorem | States |
|---|---|
| `LoopSafety` | `Spec => []LoopInv`, the inductive invariant |
| `ReturnsWhatItShould` | `Spec => []ReturnsCanCommit` |
| `AsksForAllMissing` | `Spec => []AsksForMissing` |

The set definitions `Fetch` and `CanCommit`, on which every other module and proof
rests, are what the loops compute for a transaction of any length. The properties
speak of the end of the loops only, so `LoopInv` says what `fetch` has at every
point: the holes below the key the walk has passed, below the number the inner
loop is at, and so on, in increasing order; what is left of it while the client is
asked is below what was asked for.

### ReplicationProofs

| Theorem | States |
|---|---|
| `CallsNest` | `Spec => []TypeInv`, the inductive invariant |
| `ReplicationTypes` | `Spec => []TypeOK` |
| `CommitsAreComplete` | `Spec => []CommitsComplete` |
| `PacketsAgree` | `Spec => []AgreeOnPackets`, if there is one payload for each sequence number |
| `CommitsAreKept` | `Spec => CommitsKept` |

Two servers, for any number of crashes, I/O errors, sweeps and restarts.
`TypeOK` is not inductive. A step that returns from a call replaces the frame
below the innermost one, so that frame has to be there and to be of a caller
(`StackOK`: `commit()` is called by `integrityCheck()` or `doCommit()`,
`doCommit()` by `io_service` only, `primaryOps()` while it sends and `ping()` call
nothing); a check commits number `data` of an entry, so that of a COMMITTED entry
is the number of a packet (`GoodLog`); a handler logs what a packet carries, so a
WRITE carries data (`WellFormed`); a round of the loop over the queue takes the
first packet off, so there is one (`SyncOK`).

`CommitsComplete` needs more of the same invariant. A WRITE carries under its
sequence number what a client sent under it (`WellFormed`), wherever it is: in the
queue, with the frame that sends it, on the connection, or left over from one that
was closed; a log holds only such packets; an entry that is COMMITTED (`GoodTxn`),
and the one that a `doCommit()` on the stack is about to commit (`StackOK`), have
all of them (`HasAll`). The last is why a sweep or another request must not come
between: the thread is inside the handler. Nothing is assumed about faults, numbers
or payloads of one byte.

`CommitsKept` speaks of memory and disk. What makes it inductive is `Durable`: a
server that is up has the same commits in both. Each kind of step then either leaves
commits alone, or commits in memory and saves in the same step, which is how
`doCommit()` ends. `save()` is atomic in `Replication`: crashes within it do lose
commits (`finding_torn_log`).

`PacketsAgree` is what is left of `Agreement` whatever fails. How many packets a
transaction has is agreed on only through the number of the COMMIT (see *Only
model-checked*).

### ReplicationSyncProofs

All theorems assume `Tiny = {}` (no payload of one byte: `genEcho` loses those,
finding_one_byte) and `FreshNumbers` (finding_reuse shows what happens without
it). `NoFault` says that no server crashed, no write failed and nothing was swept
so far. Neither premise can be dropped: `finding_stale_reply` and
`finding_agreement` are what happens after faults. So these theorems are about the
interleavings of two healthy servers, one of which may be started late, and say
nothing about recovery.

| Theorem | States |
|---|---|
| `BackupIsInStep` | `Spec => []InStep`, where `InStep == NoFault => SyncInv` |
| `CommitForcesSync` | `Spec => [](used.errors = 0 => CommitSyncs)` |
| `BackupCommitsFirst` | `Spec => []BackupFirstUntilFault`, that is `NoFault => BackupFirst` |
| `ChecksAreSound` | `Spec => []CheckIsSoundUntilFault`, that is `NoFault => CheckIsSound` |
| `ServersAgree` | `Spec => [](NoFault => Agreement)` |
| `RolesStay` | `Spec => [](NoFault => RolesKept /\ OnePrimary)` |

These cover any number of transactions, packets and requests, in every interleaving
of the two threads, connections made while a commit runs included. `CommitSyncs`
speaks only of runs without crashes and sweeps by itself, so for it I/O errors are all that
has to be excluded. The inductive invariant `SyncInv`, relative to `TypeInv`:

* `RolesKept`: nobody changes its role, and no connection is given up with a
  request on it, so the requests of a connection are served in order.
* `BackupThread`: the backup makes its own integrity check before it registers
  with the first PING, hence with an empty log, and only pings after that.
* `PrimaryLink`: the primary has at most one request or one reply under way, and
  while it waits in `commit()` that is the COMMIT of this very transaction. This is
  what fails after a crash, when a reply may be stale.
* `Mirrors`: the backup's log and the packets still to be sent together make the
  primary's log. Each packet fits the state both logs have when it is its turn
  (`PacketOK`: MAKE_TXN is the first packet for its number, a WRITE is for an empty
  place of an open transaction, only COMMITs follow a COMMIT, ABORT is for what the
  primary has forgotten), and each transaction has what it needs (`TxnOK`). The
  packet the backup has served is still the first of the queue until
  `primaryOps()` reads the reply, which is why `Remaining` is not always the queue.
* `PrimaryStack`: what each call of the primary's thread relies on: the transactions
  a check has left behind, and the one `doCommit()` was told is committed, are
  committed on the backup (or the COMMIT is in the queue, if there is no backup
  yet); a WRITING transaction belongs to a `doCommit()` on the stack.

There is one lemma for each effect on `Mirrors` (a packet served, queued, an entry
marked or committed), one for each effect on the stack (`Calls`, `Returns`,
`Continues`), one per action, and two (`MainCannot`, `BackupCannot`) for the actions
a server without faults does not get to. `InStep` holds in TLC with two
transactions of two packets and seven requests.

### ReplyStreamProofs

| Theorem | States |
|---|---|
| `StreamSafety` | `Spec => []StreamInv`, the inductive invariant |
| `NoOtherAnswerReturned` | `Spec => []NoOtherAnswer` |
| `OwnAnswerReturned` | `Spec => []OwnAnswerAfterText` |

For every sequence of answers, several to one request included (`OfAssumption`), and
every way the stream is cut. Both properties speak of a call only if every request
before it got one answer (`OneEach`); behind a COMMIT with several ACK_RESENDs they
do not hold (`finding_stale_reply`). `StreamInv` says where `\n` is in what is
unread: what an answer leaves has no header, and `\n` only as its last byte, so the
delimiter a call waits for is the one after the first header of its own (`FrontAt`),
whatever further answers to the same request are behind it. That those are the last
bytes (`AnswerAt`) is needed for the next call, and holds if this request got one
answer too.

### RequestStreamProofs

| Theorem | States |
|---|---|
| `RequestSafety` | `Spec => []RequestInv`, the inductive invariant |
| `RequestTypes` | `Spec => []TypeOK` |
| `PacketsExecuted` | `Spec => []ExecutesWhatWasSent` |

For every sequence of packets (`SizesAssumption`) of which invalid ones without a
payload are the last (`InvalidAssumption`), and every way the stream is cut.
`ExecutesWhatWasSent` speaks of what was executed only; what will be depends on what
is unread, in the session's buffer and in the network. `RequestInv` says, for some
number n of packets that are done with:

* `Layout`: the packets after n lie one behind the other in what is unread, byte by
  byte, up to the end of the stream. Only a closed connection ends inside of one
  (`Complete`).
* `Quiet`: what lies before them is the end of packet n (a newline that came after
  the payload, the blank line of an invalid one), without a header and without a
  delimiter, so that the header `handle_read` finds is the one of packet n + 1, and
  the delimiter it waited for has that header before it. The exception is
  `Leftover`, after an invalid header without payload: a delimiter, refused once
  more. That is what `InvalidAssumption` is for.
* `Within`: in the blocking read the fragment is the first part of the payload of
  packet n, what is unread begins with the other part, and `total` is its size with
  the newline. The fragment was the end of the buffer then, which is why nothing is
  lost when the blocking read uses a buffer of its own.

`RequestInv` holds in TLC on the instance of `request_stream`.

### Only model-checked

* Liveness under fairness, which is out of the prover's reach: `IdleIsCollected`
  and the temporal properties of `Replication`, `RequestStream` and `ReplyStream`.
* `Agreement` after a sweep, within the bounds of `repl_order`. After a crash it
  fails (`finding_agreement`). What holds for all constants is `PacketsAgree`.
* `OnePrimary` after a crash, which needs that the timers keep pace (`Drift`).
* The findings.

## Not modelled

* The fields of a header (`parse`, `getTsn`, `getSeq` of `ServerTools`): a header
  is one token in the streams and a parsed request elsewhere.
* READ, which changes nothing.
* SIGINT, which deletes the log on purpose, and the parsing of options.
* A write that is silently short (disk full), which the code does not detect.
* Requests that name the reserved entries 0 and -1.
* A connection that breaks while both servers stay up.
* Torn saves and files in `Replication`: `TransactionServer` has them.
* The test client, a compiled class that is not part of the system.

## Plan

1. `LogHandler`, `TransactionServer`, `DurableStore`, `ResendLoop` with runs and
   proofs: done.
2. `Replication`, `RequestStream`, `ReplyStream` with runs: done, as described above.
3. Proofs of `ResendLoop`, of `ReplyStream`, of `Replication` while nothing fails: done.
4. Proofs of `RequestStream`: done.
5. `Replication` with I/O errors: a weaker `Mirrors` in which the backup may wait
   for the COMMIT to be repeated, for `Agreement` with `used.errors > 0`.
6. A `ReplicatedStore` that the pair implements in the runs without the known
   faults.
