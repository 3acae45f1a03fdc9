----------------------- MODULE TransactionServerProofs -----------------------
(***************************************************************************)
(* Theorems about TransactionServer, for any number of transactions,       *)
(* packets, payloads, files and crashes.                                   *)
(*                                                                         *)
(* SafeInv is the inductive invariant.  The safety invariants follow from  *)
(* it; WriteOnce and ExpiredIsFinal follow from it and from what one step  *)
(* may do to one transaction (Moves); ExactlyOnceWithoutCrash is inductive *)
(* relative to it; and under it every step is a step of DurableStore.      *)
(***************************************************************************)
EXTENDS TransactionServer, LogHandlerProofs

(***************************************************************************)
(* The inductive invariant.                                                *)
(***************************************************************************)
Complete(x) == \A n \in 1..x.data : x.writes[n] # NoData

\* Where a commit is under way, and what its steps so far established.
InProgress ==
  step # "idle" =>
    /\ cur \in Tsn
    /\ log[cur] # NoTxn
    /\ disk = log
    /\ step # "ack" => log[cur].status = "WRITING"
    /\ step = "ack" => log[cur].status = "COMMITTED"
    /\ Complete(log[cur])
    /\ step = "mark" => InFile(cur, log[cur])

\* What .server.log lags behind the log in memory: packets, and transactions
\* that were aborted since.
DiskBehind ==
  \A t \in Tsn :
    /\ log[t] # NoTxn /\ disk[t] # NoTxn
         => \A n \in SeqNo : disk[t].writes[n] \in {NoData, log[t].writes[n]}
    /\ IsCommitted(disk[t]) => log[t] = disk[t]
    /\ IsExpired(log[t]) => disk[t] \in {log[t], NoTxn}

\* If no crash can hit save(): a commit is on disk before anyone is told.
CommitsOnDisk ==
  ~TornSaves =>
    /\ \A t \in Tsn : IsCommitted(log[t]) => disk[t] = log[t]
    /\ \A t \in acked : IsCommitted(disk[t])

SafeInv == TypeOK /\ InProgress /\ CommittedInFile /\ DiskBehind /\ CommitsOnDisk

-----------------------------------------------------------------------------
InFiles(fs, t, x) ==
  \E i \in DOMAIN fs[x.file] : fs[x.file][i] = Block(t, x, x.data)

\* writeFile opens the file for appending: what was in a file stays there.
LEMMA FilesGrow ==
  ASSUME TypeOK, NEW f \in Files, NEW b \in Blocks,
         files' = [files EXCEPT ![f] = Append(@, b)]
  PROVE  /\ files' \in [Files -> Seq(Blocks)]
         /\ \E i \in DOMAIN files'[f] : files'[f][i] = b
         /\ \A t \in Tsn, x \in Txn : InFiles(files, t, x) => InFiles(files', t, x)
<1>1. /\ files \in [Files -> Seq(Blocks)]
      /\ files[f] \in Seq(Blocks) /\ files'[f] = Append(files[f], b)
  BY DEF TypeOK
<1>2. Append(files[f], b) \in Seq(Blocks)
  BY <1>1
<1>3. files' \in [Files -> Seq(Blocks)]
  BY <1>1, <1>2
<1>4. \E i \in DOMAIN files'[f] : files'[f][i] = b
  <2>1. Len(files'[f]) \in DOMAIN files'[f] /\ files'[f][Len(files'[f])] = b
    BY <1>1
  <2> QED BY <2>1
<1>5. ASSUME NEW t \in Tsn, NEW x \in Txn, InFiles(files, t, x)
      PROVE  InFiles(files', t, x)
  <2>1. x.file \in Files
    BY DEF Txn
  <2>2. PICK i \in DOMAIN files[x.file] : files[x.file][i] = Block(t, x, x.data)
    BY <1>5 DEF InFiles
  <2>3. i \in DOMAIN files'[x.file] /\ files'[x.file][i] = files[x.file][i]
    <3>1. CASE x.file = f
      BY <1>1, <2>2, <3>1
    <3>2. CASE x.file # f
      BY <1>1, <2>1, <2>2, <3>2
    <3> QED BY <3>1, <3>2
  <2> QED BY <2>2, <2>3 DEF InFiles
<1> QED BY <1>3, <1>4, <1>5

-----------------------------------------------------------------------------
(***************************************************************************)
(* The invariant holds at the start and every step keeps it.               *)
(***************************************************************************)
\* The invariant holds on a first start with an empty directory.
LEMMA InitSafe == Init => SafeInv
<1> SUFFICES ASSUME Init PROVE SafeInv
  OBVIOUS
<1>1. EmptyLog \in Log /\ \A t \in Tsn : EmptyLog[t] = NoTxn
  BY DEF EmptyLog, Log
<1>2. TypeOK
  BY <1>1 DEF Init, TypeOK, Roles, Steps
<1>3. InProgress
  BY DEF Init, InProgress
<1>4. CommittedInFile /\ DiskBehind /\ CommitsOnDisk
  BY <1>1 DEF Init, CommittedInFile, DiskBehind, CommitsOnDisk, IsCommitted, IsExpired
<1> QED BY <1>2, <1>3, <1>4 DEF SafeInv

\* A step that saves the log it leaves, and leaves committed transactions and
\* files alone, keeps everything that relates log, disk and files.
LEMMA SavedStep ==
  ASSUME SafeInv, log' \in Log, disk' = log', files' = files, acked' = acked,
         \A u \in Tsn : IsCommitted(log[u]) \/ IsCommitted(log'[u]) => log'[u] = log[u]
  PROVE  CommittedInFile' /\ DiskBehind' /\ CommitsOnDisk'
<1>1. CommittedInFile'
  <2> SUFFICES ASSUME NEW u \in Tsn, IsCommitted(log'[u])
               PROVE  /\ \A n \in 1..log'[u].data : log'[u].writes[n] # NoData
                      /\ InFile(u, log[u])' 
    BY DEF CommittedInFile, InFile, IsCommitted
  <2>1. log'[u] = log[u]
    OBVIOUS
  <2> QED BY <2>1 DEF SafeInv, CommittedInFile, InFile
<1>2. DiskBehind'
  BY DEF DiskBehind, IsCommitted, IsExpired
<1>3. CommitsOnDisk'
  <2>1. ASSUME NEW u \in acked, ~TornSaves PROVE IsCommitted(log'[u])
    BY <2>1 DEF SafeInv, CommitsOnDisk, DiskBehind, TypeOK
  <2> QED BY <2>1 DEF CommitsOnDisk, IsCommitted
<1> QED BY <1>1, <1>2, <1>3

\* NEW_TXN and MAKE_TXN.
LEMMA NewTxnSafe ==
  ASSUME SafeInv, NEW t \in Tsn, NEW f \in Files, NewTxn(t, f)
  PROVE  SafeInv'
<1>1. NewEntry(f) \in Txn /\ NewEntry(f).status = "ACTIVE"
  BY NewEntryType
<1>2. log \in Log /\ log[t] = NoTxn /\ log' = [log EXCEPT ![t] = NewEntry(f)]
  BY DEF SafeInv, TypeOK, NewTxn
<1>3. log' \in Log
  BY <1>1, <1>2 DEF Log
<1>4. \A u \in Tsn : IsCommitted(log[u]) \/ IsCommitted(log'[u]) => log'[u] = log[u]
  BY <1>1, <1>2 DEF Log, IsCommitted
<1>5. TypeOK'
  BY <1>3 DEF SafeInv, TypeOK, NewTxn
<1>6. InProgress'
  BY DEF NewTxn, InProgress
<1>7. CommittedInFile' /\ DiskBehind' /\ CommitsOnDisk'
  BY <1>3, <1>4, SavedStep DEF NewTxn
<1> QED BY <1>5, <1>6, <1>7 DEF SafeInv

\* The common part of a COMMIT and of the WRITE that completes one.
LEMMA StartCommitSafe ==
  ASSUME SafeInv, step = "idle", NEW t \in Tsn, NEW x \in Txn, NEW n \in SeqNo,
         ~IsCommitted(log[t]), CanCommit(x, n), StartCommit(t, x, n),
         UNCHANGED <<files, role, acked, crashes>>, touched' \in SUBSET Tsn
  PROVE  SafeInv'
<1> DEFINE y == MarkedFor(x, "WRITING", n)
<1>1. y \in Txn /\ y.status = "WRITING" /\ y.data = n /\ y.writes = x.writes
  BY MarkedFacts DEF Status
<1>2. log \in Log /\ log' = [log EXCEPT ![t] = y] /\ disk' = log' /\ cur' = t
  BY DEF SafeInv, TypeOK, StartCommit
<1> HIDE DEF y
<1>3. log' \in Log /\ log'[t] = y
  BY <1>1, <1>2 DEF Log
<1>4. \A u \in Tsn : IsCommitted(log[u]) \/ IsCommitted(log'[u]) => log'[u] = log[u]
  BY <1>1, <1>2, <1>3 DEF Log, IsCommitted
<1>5. step' \in {"replicate", "write"}
  BY DEF StartCommit
<1>6. TypeOK'
  BY <1>2, <1>3, <1>5 DEF SafeInv, TypeOK, Steps
<1>7. InProgress'
  <2>1. Complete(y)
    BY <1>1, CanCommitComplete DEF Complete
  <2>2. y # NoTxn
    BY <1>1, NoTxnAssumption
  <2> QED BY <1>1, <1>2, <1>3, <1>5, <2>1, <2>2 DEF InProgress, Complete
<1>8. CommittedInFile' /\ DiskBehind' /\ CommitsOnDisk'
  BY <1>2, <1>3, <1>4, SavedStep
<1> QED BY <1>6, <1>7, <1>8 DEF SafeInv

\* WRITE: what it replaces is neither committed nor expired, and it adds a
\* packet where there was none.
LEMMA WriteSafe ==
  ASSUME SafeInv, NEW t \in Tsn, NEW n \in SeqNo, NEW d \in Data, Write(t, n, d)
  PROVE  SafeInv'
<1> DEFINE x == Logged(log[t], n, d)
<1>1. /\ log \in Log /\ log[t] \in Txn /\ log[t] # NoTxn
      /\ log[t].status \notin {"COMMITTED", "EXPIRED"}
      /\ log[t].writes[n] = NoData
  BY DEF SafeInv, TypeOK, Log, Write, AddLogEntryCode
<1>2. /\ x \in Txn /\ x.status \in {"WAITING", "ACTIVE"}
      /\ x.writes = [log[t].writes EXCEPT ![n] = d]
  BY <1>1, LoggedFacts
<1>3. ~IsCommitted(log[t]) /\ ~IsExpired(log[t])
  BY <1>1 DEF IsCommitted, IsExpired
<1>4. step = "idle" /\ UNCHANGED <<files, role, acked, crashes>> /\ touched' \in SUBSET Tsn
  BY DEF Write, SafeInv, TypeOK
<1>5. \/ CanCommit(x, x.data) /\ StartCommit(t, x, x.data)
      \/ log' = [log EXCEPT ![t] = x] /\ UNCHANGED <<disk, step, cur>>
  BY DEF Write
<1> HIDE DEF x
<1>6. CASE CanCommit(x, x.data) /\ StartCommit(t, x, x.data)
  <2>1. x.data \in SeqNo
    BY <1>2, <1>6, MaxSeqAssumption DEF CanCommit, Txn, SeqNo
  <2> QED BY <1>2, <1>3, <1>4, <1>6, <2>1, StartCommitSafe
<1>7. CASE log' = [log EXCEPT ![t] = x] /\ UNCHANGED <<disk, step, cur>>
  <2>1. log' \in Log /\ log'[t] = x /\ \A u \in Tsn \ {t} : log'[u] = log[u]
    BY <1>1, <1>2, <1>7 DEF Log
  <2>2. TypeOK'
    BY <1>4, <1>7, <2>1 DEF SafeInv, TypeOK
  <2>3. InProgress'
    BY <1>4, <1>7 DEF InProgress
  <2>4. ~IsCommitted(x) /\ ~IsExpired(x) /\ x # NoTxn
    BY <1>2, NoTxnAssumption DEF IsCommitted, IsExpired
  <2>5. CommittedInFile'
    <3> SUFFICES ASSUME NEW u \in Tsn, NEW z \in {log'[u], disk'[u]}, IsCommitted(z)
                 PROVE  z \in {log[u], disk[u]}
      BY <1>4 DEF SafeInv, CommittedInFile, InFile
    <3> QED BY <1>7, <2>1, <2>4
  <2>6. ~IsCommitted(disk[t])
    BY <1>3 DEF SafeInv, DiskBehind
  <2>7. DiskBehind'
    <3> SUFFICES ASSUME NEW u \in Tsn
                 PROVE  /\ log'[u] # NoTxn /\ disk[u] # NoTxn
                           => \A k \in SeqNo : disk[u].writes[k] \in {NoData, log'[u].writes[k]}
                        /\ IsCommitted(disk[u]) => log'[u] = disk[u]
                        /\ IsExpired(log'[u]) => disk[u] \in {log'[u], NoTxn}
      BY <1>7 DEF DiskBehind
    <3>1. CASE u # t
      BY <2>1, <3>1 DEF SafeInv, DiskBehind
    <3>2. CASE u = t
      <4>1. ASSUME disk[t] # NoTxn, NEW k \in SeqNo
            PROVE  disk[t].writes[k] \in {NoData, x.writes[k]}
        <5>1. disk[t].writes[k] \in {NoData, log[t].writes[k]}
          BY <1>1, <4>1 DEF SafeInv, DiskBehind
        <5>2. k # n => x.writes[k] = log[t].writes[k]
          BY <1>1, <1>2 DEF Txn
        <5> QED BY <1>1, <5>1, <5>2
      <4> QED BY <2>1, <2>4, <2>6, <3>2, <4>1
    <3> QED BY <3>1, <3>2
  <2>8. CommitsOnDisk'
    BY <1>4, <1>7, <2>1, <2>4 DEF SafeInv, CommitsOnDisk
  <2> QED BY <2>2, <2>3, <2>5, <2>7, <2>8 DEF SafeInv
<1> QED BY <1>5, <1>6, <1>7

\* COMMIT, in its three outcomes that change something.
LEMMA CommitSafe ==
  ASSUME SafeInv, NEW t \in Tsn, NEW n \in SeqNo, Commit(t, n)
  PROVE  SafeInv'
<1>1. /\ log[t] \in Txn /\ CanCommit(log[t], n)
      /\ ~IsCommitted(log[t])
  BY DEF SafeInv, TypeOK, Log, Commit, CommitCode, IsCommitted
<1>2. /\ step = "idle" /\ StartCommit(t, log[t], n)
      /\ UNCHANGED <<files, role, acked, crashes>> /\ touched' \in SUBSET Tsn
  BY DEF Commit, SafeInv, TypeOK
<1> QED BY <1>1, <1>2, StartCommitSafe

\* COMMIT with packets missing, which makes the transaction WAITING.
LEMMA CommitIncompleteSafe ==
  ASSUME SafeInv, NEW t \in Tsn, NEW n \in SeqNo, CommitIncomplete(t, n)
  PROVE  SafeInv'
<1> DEFINE y == MarkedFor(log[t], "WAITING", n)
<1>1. log \in Log /\ log[t] \in Txn /\ ~IsCommitted(log[t])
  BY DEF SafeInv, TypeOK, Log, CommitIncomplete, CommitCode, IsCommitted
<1>2. y \in Txn /\ y.status = "WAITING"
  BY <1>1, MarkedFacts DEF Status
<1>3. log' = [log EXCEPT ![t] = y] /\ disk' = log'
  BY DEF CommitIncomplete
<1> HIDE DEF y
<1>4. log' \in Log
  BY <1>1, <1>2, <1>3 DEF Log
<1>5. \A u \in Tsn : IsCommitted(log[u]) \/ IsCommitted(log'[u]) => log'[u] = log[u]
  BY <1>1, <1>2, <1>3 DEF Log, IsCommitted
<1>6. TypeOK'
  BY <1>3, <1>4 DEF SafeInv, TypeOK, CommitIncomplete
<1>7. InProgress'
  BY DEF CommitIncomplete, InProgress
<1>8. CommittedInFile' /\ DiskBehind' /\ CommitsOnDisk'
  BY <1>3, <1>4, <1>5, SavedStep DEF CommitIncomplete
<1> QED BY <1>6, <1>7, <1>8 DEF SafeInv

\* The acknowledgement is repeated only for what the log calls COMMITTED, and
\* unless a save was torn the disk calls it so too.
LEMMA CommitAgainSafe ==
  ASSUME SafeInv, NEW t \in Tsn, NEW n \in SeqNo, CommitAgain(t, n)
  PROVE  SafeInv'
<1>1. IsCommitted(log[t])
  BY DEF CommitAgain, CommitCode, IsCommitted
<1>2. UNCHANGED <<log, disk, files, role, step, cur, touched, crashes>> /\ acked' = acked \cup {t}
  BY DEF CommitAgain
<1>3. TypeOK'
  BY <1>2 DEF SafeInv, TypeOK
<1>4. InProgress' /\ CommittedInFile' /\ DiskBehind'
  BY <1>2 DEF SafeInv, InProgress, CommittedInFile, DiskBehind, InFile
<1>5. CommitsOnDisk'
  BY <1>1, <1>2 DEF SafeInv, CommitsOnDisk
<1> QED BY <1>3, <1>4, <1>5 DEF SafeInv

\* ABORT, which the code does not save: .server.log still has the transaction.
LEMMA AbortSafe ==
  ASSUME SafeInv, NEW t \in Tsn, Abort(t)
  PROVE  SafeInv'
<1>1. log \in Log /\ ~IsCommitted(log[t])
  BY DEF SafeInv, TypeOK, Abort, AbortCode, IsCommitted
<1>2. log' = [log EXCEPT ![t] = NoTxn]
  BY DEF Abort
<1>3. UNCHANGED <<disk, files, role, step, cur, acked, touched, crashes>> /\ step = "idle"
  BY DEF Abort
<1>4. log' \in Log /\ log'[t] = NoTxn /\ \A u \in Tsn \ {t} : log'[u] = log[u]
  BY <1>1, <1>2 DEF Log
<1>5. TypeOK'
  BY <1>3, <1>4 DEF SafeInv, TypeOK
<1>6. InProgress'
  BY <1>3 DEF InProgress
<1>7. CommittedInFile'
  <2> SUFFICES ASSUME NEW u \in Tsn, NEW z \in {log'[u], disk'[u]}, IsCommitted(z)
               PROVE  z \in {log[u], disk[u]}
    BY <1>3 DEF SafeInv, CommittedInFile, InFile
  <2> QED BY <1>3, <1>4 DEF IsCommitted
<1>8. ~IsCommitted(disk[t])
  BY <1>1 DEF SafeInv, DiskBehind
<1>9. DiskBehind'
  <2> SUFFICES ASSUME NEW u \in Tsn
               PROVE  /\ log'[u] # NoTxn /\ disk[u] # NoTxn
                         => \A k \in SeqNo : disk[u].writes[k] \in {NoData, log'[u].writes[k]}
                      /\ IsCommitted(disk[u]) => log'[u] = disk[u]
                      /\ IsExpired(log'[u]) => disk[u] \in {log'[u], NoTxn}
    BY <1>3 DEF DiskBehind
  <2>1. CASE u # t
    BY <1>4, <2>1 DEF SafeInv, DiskBehind
  <2>2. CASE u = t
    BY <1>4, <1>8, <2>2 DEF IsExpired
  <2> QED BY <2>1, <2>2
<1>10. CommitsOnDisk'
  BY <1>3, <1>4 DEF SafeInv, CommitsOnDisk, IsCommitted
<1> QED BY <1>5, <1>6, <1>7, <1>9, <1>10 DEF SafeInv

-----------------------------------------------------------------------------
\* The answer of the backup, either way.
LEMMA ReplicateSafe ==
  ASSUME SafeInv, NEW ok \in BOOLEAN, Replicate(ok)
  PROVE  SafeInv'
<1>1. step = "replicate" /\ UNCHANGED <<log, disk, files, role, acked, touched, crashes>>
  BY DEF Replicate
<1>2. \/ step' = "write" /\ cur' = cur
      \/ step' = "idle" /\ cur' = NoTxn
  BY DEF Replicate
<1>3. TypeOK'
  BY <1>1, <1>2 DEF SafeInv, TypeOK, Steps
<1>4. InProgress'
  BY <1>1, <1>2 DEF SafeInv, InProgress, Complete
<1>5. CommittedInFile' /\ DiskBehind' /\ CommitsOnDisk'
  BY <1>1 DEF SafeInv, CommittedInFile, DiskBehind, CommitsOnDisk, InFile
<1> QED BY <1>3, <1>4, <1>5 DEF SafeInv

\* Appending to a file keeps every block that was in one.
LEMMA AppendKeepsCommitted ==
  ASSUME TypeOK, CommittedInFile, NEW f \in Files, NEW b \in Blocks,
         files' = [files EXCEPT ![f] = Append(@, b)],
         \A u \in Tsn : log'[u] \in {log[u], disk[u]} /\ disk'[u] \in {log[u], disk[u]}
  PROVE  /\ files' \in [Files -> Seq(Blocks)]
         /\ \E i \in DOMAIN files'[f] : files'[f][i] = b
         /\ CommittedInFile'
<1>2. /\ files' \in [Files -> Seq(Blocks)]
      /\ \E i \in DOMAIN files'[f] : files'[f][i] = b
      /\ \A u \in Tsn, x \in Txn : InFiles(files, u, x) => InFiles(files', u, x)
  BY FilesGrow
<1>3. ASSUME NEW u \in Tsn, NEW x \in {log'[u], disk'[u]}, IsCommitted(x)
      PROVE  (\A n \in 1..x.data : x.writes[n] # NoData) /\ InFiles(files', u, x)
  <2>1. x \in {log[u], disk[u]} /\ x \in Txn
    BY <1>3 DEF TypeOK, Log, IsCommitted
  <2>2. (\A n \in 1..x.data : x.writes[n] # NoData) /\ InFiles(files, u, x)
    BY <1>3, <2>1 DEF CommittedInFile, InFile, InFiles
  <2> QED BY <1>2, <2>1, <2>2
<1>4. CommittedInFile'
  BY <1>3 DEF CommittedInFile, InFile, InFiles
<1> QED BY <1>2, <1>4

\* The handler's writeFile: from here on the lines are in the file.
LEMMA WriteFileSafe ==
  ASSUME SafeInv, WriteFile
  PROVE  SafeInv'
<1> DEFINE x == log[cur]
           b == Block(cur, x, x.data)
<1>1. step = "write" /\ step' = "mark" /\ UNCHANGED <<log, disk, role, cur, acked, touched, crashes>>
  BY DEF WriteFile
<1>2. /\ cur \in Tsn /\ x \in Txn /\ x # NoTxn /\ disk = log
      /\ x.status = "WRITING" /\ Complete(x)
  BY <1>1 DEF SafeInv, InProgress, TypeOK, Log
<1>3. x.file \in Files /\ x.data \in Int
  BY <1>2 DEF Txn
<1>4. b \in Blocks
  BY <1>2, <1>3, BlockType
<1>5. files' = [files EXCEPT ![x.file] = Append(@, b)]
  BY DEF WriteFile
<1> HIDE DEF b
<1>6. /\ files' \in [Files -> Seq(Blocks)]
      /\ \E i \in DOMAIN files'[x.file] : files'[x.file][i] = b
      /\ CommittedInFile'
  BY <1>1, <1>3, <1>4, <1>5, AppendKeepsCommitted DEF SafeInv
<1>7. TypeOK'
  BY <1>1, <1>6 DEF SafeInv, TypeOK, Steps
<1>8. InProgress'
  BY <1>1, <1>2, <1>6 DEF InProgress, Complete, InFile, b
<1>9. DiskBehind' /\ CommitsOnDisk'
  BY <1>1 DEF SafeInv, DiskBehind, CommitsOnDisk
<1> QED BY <1>6, <1>7, <1>8, <1>9 DEF SafeInv

\* A backup that cannot open the file goes back to WAITING.
LEMMA WriteFailsSafe ==
  ASSUME SafeInv, WriteFails
  PROVE  SafeInv'
<1> DEFINE y == [log[cur] EXCEPT !.status = "WAITING"]
<1>1. /\ step = "write" /\ step' = "idle" /\ cur' = NoTxn /\ disk' = log'
      /\ UNCHANGED <<files, role, acked, touched, crashes>>
      /\ log' = [log EXCEPT ![cur] = y]
  BY DEF WriteFails
<1>2. log \in Log /\ cur \in Tsn /\ log[cur] \in Txn /\ log[cur].status = "WRITING"
  BY <1>1 DEF SafeInv, InProgress, TypeOK, Log
<1>3. y \in Txn /\ y.status = "WAITING"
  BY <1>2, StatusFacts DEF Status
<1> HIDE DEF y
<1>4. log' \in Log
  BY <1>1, <1>2, <1>3 DEF Log
<1>5. \A u \in Tsn : IsCommitted(log[u]) \/ IsCommitted(log'[u]) => log'[u] = log[u]
  BY <1>1, <1>2, <1>3 DEF Log, IsCommitted
<1>6. TypeOK'
  BY <1>1, <1>4 DEF SafeInv, TypeOK, Steps
<1>7. InProgress'
  BY <1>1 DEF InProgress
<1>8. CommittedInFile' /\ DiskBehind' /\ CommitsOnDisk'
  BY <1>1, <1>4, <1>5, SavedStep
<1> QED BY <1>6, <1>7, <1>8 DEF SafeInv

\* The one step that makes a transaction committed: its lines are in the file.
LEMMA MarkCommittedSafe ==
  ASSUME SafeInv, MarkCommitted
  PROVE  SafeInv'
<1> DEFINE y == [log[cur] EXCEPT !.status = "COMMITTED"]
<1>1. /\ step = "mark" /\ step' = "ack" /\ disk' = log' /\ log' = [log EXCEPT ![cur] = y]
      /\ UNCHANGED <<files, role, cur, acked, touched, crashes>>
  BY DEF MarkCommitted
<1>2. /\ log \in Log /\ cur \in Tsn /\ log[cur] \in Txn /\ log[cur].status = "WRITING"
      /\ Complete(log[cur]) /\ InFile(cur, log[cur])
  BY <1>1 DEF SafeInv, InProgress, TypeOK, Log
<1>3. /\ y \in Txn /\ y.status = "COMMITTED" /\ y.data = log[cur].data
      /\ y.writes = log[cur].writes /\ y.file = log[cur].file
  BY <1>2, StatusFacts DEF Status
<1> HIDE DEF y
<1>4. /\ log' \in Log /\ log'[cur] = y
      /\ \A u \in Tsn \ {cur} : log'[u] = log[u]
  BY <1>1, <1>2, <1>3 DEF Log
<1>5. TypeOK'
  BY <1>1, <1>4 DEF SafeInv, TypeOK, Steps
<1>6. Complete(y) /\ InFiles(files', cur, y)
  <2>1. Block(cur, y, y.data) = Block(cur, log[cur], log[cur].data)
    BY <1>3 DEF Block
  <2> QED BY <1>1, <1>2, <1>3, <2>1 DEF Complete, InFile, InFiles
<1>7. InProgress'
  <2>1. y # NoTxn
    BY <1>3, NoTxnAssumption
  <2> QED BY <1>1, <1>2, <1>3, <1>4, <1>6, <2>1 DEF InProgress, Complete
<1>8. CommittedInFile'
  <2>1. ASSUME NEW u \in Tsn, IsCommitted(log'[u])
        PROVE  (\A n \in 1..log'[u].data : log'[u].writes[n] # NoData) /\ InFiles(files', u, log'[u])
    <3>1. CASE u = cur
      BY <1>4, <1>6, <3>1 DEF Complete
    <3>2. CASE u # cur
      BY <1>1, <1>4, <2>1, <3>2 DEF SafeInv, CommittedInFile, InFile, InFiles
    <3> QED BY <3>1, <3>2
  <2> QED BY <1>1, <2>1 DEF CommittedInFile, InFile, InFiles
<1>9. DiskBehind'
  BY <1>1 DEF DiskBehind, IsCommitted, IsExpired
<1>10. CommitsOnDisk'
  <2>1. ASSUME NEW u \in acked, ~TornSaves PROVE IsCommitted(log'[u])
    <3>1. u \in Tsn /\ IsCommitted(log[u])
      BY <2>1 DEF SafeInv, CommitsOnDisk, DiskBehind, TypeOK
    <3>2. u # cur
      BY <1>2, <3>1 DEF IsCommitted
    <3> QED BY <1>4, <3>1, <3>2
  <2> QED BY <1>1, <2>1 DEF CommitsOnDisk, IsCommitted
<1> QED BY <1>5, <1>7, <1>8, <1>9, <1>10 DEF SafeInv

\* sendACK at the end of a commit: what is acknowledged is on disk.
LEMMA AckCommitSafe ==
  ASSUME SafeInv, AckCommit
  PROVE  SafeInv'
<1>1. /\ step = "ack" /\ step' = "idle" /\ cur' = NoTxn /\ acked' = acked \cup {cur}
      /\ UNCHANGED <<log, disk, files, role, touched, crashes>>
  BY DEF AckCommit
<1>2. cur \in Tsn /\ IsCommitted(disk[cur])
  BY <1>1 DEF SafeInv, InProgress, IsCommitted
<1>3. TypeOK'
  BY <1>1, <1>2 DEF SafeInv, TypeOK, Steps
<1>4. InProgress' /\ CommittedInFile' /\ DiskBehind'
  BY <1>1 DEF SafeInv, InProgress, CommittedInFile, DiskBehind, InFile
<1>5. CommitsOnDisk'
  BY <1>1, <1>2 DEF SafeInv, CommitsOnDisk
<1> QED BY <1>3, <1>4, <1>5 DEF SafeInv

-----------------------------------------------------------------------------
\* The daemon's save every five seconds.
LEMMA SaveSafe ==
  ASSUME SafeInv, Save
  PROVE  SafeInv'
<1>1. step = "idle" /\ disk' = log /\ UNCHANGED <<log, files, role, step, cur, acked, touched, crashes>>
  BY DEF Save
<1>2. TypeOK' /\ InProgress' /\ log' \in Log
  BY <1>1 DEF SafeInv, TypeOK, InProgress
<1>3. CommittedInFile' /\ DiskBehind' /\ CommitsOnDisk'
  BY <1>1, <1>2, SavedStep
<1> QED BY <1>2, <1>3 DEF SafeInv

\* A sweep of timeouts() touches no committed transaction, whatever it skips.
LEMMA SweepSafe ==
  ASSUME SafeInv, Sweep
  PROVE  SafeInv'
<1>1. /\ step = "idle" /\ log' \in SweptLogs(log) /\ disk' = log' /\ touched' = {}
      /\ UNCHANGED <<files, role, step, cur, acked, crashes>>
  BY DEF Sweep
<1>2. log \in Log
  BY DEF SafeInv, TypeOK
<1>3. log' \in Log /\ \A u \in Tsn : AgesTo(log[u], log'[u])
  BY <1>1, <1>2, SweepAges
<1>4. \A u \in Tsn : IsCommitted(log[u]) \/ IsCommitted(log'[u]) => log'[u] = log[u]
  BY <1>3 DEF AgesTo, IsCommitted
<1>5. TypeOK' /\ InProgress'
  BY <1>1, <1>3 DEF SafeInv, TypeOK, InProgress
<1>6. CommittedInFile' /\ DiskBehind' /\ CommitsOnDisk'
  BY <1>1, <1>3, <1>4, SavedStep
<1> QED BY <1>5, <1>6 DEF SafeInv

\* A promotion or demotion changes entry 0 of the log only.
LEMMA SwitchRoleSafe ==
  ASSUME SafeInv, SwitchRole
  PROVE  SafeInv'
<1>1. role' \in Roles /\ UNCHANGED <<log, disk, files, step, cur, acked, touched, crashes>>
  BY DEF SwitchRole
<1>2. TypeOK'
  BY <1>1 DEF SafeInv, TypeOK
<1>3. InProgress' /\ CommittedInFile' /\ DiskBehind' /\ CommitsOnDisk'
  BY <1>1 DEF SafeInv, InProgress, Complete, CommittedInFile, DiskBehind, CommitsOnDisk, InFile
<1> QED BY <1>2, <1>3 DEF SafeInv

-----------------------------------------------------------------------------
\* After a restart the log in memory is the one on disk.
LEMMA LoadedDisk ==
  ASSUME SafeInv, log' = disk, disk' = disk, acked' = acked
  PROVE  DiskBehind' /\ CommitsOnDisk'
BY DEF SafeInv, DiskBehind, CommitsOnDisk, IsExpired, IsCommitted

\* What every restart establishes.
LEMMA RestartFacts ==
  ASSUME SafeInv, Restart
  PROVE  /\ role' \in Roles /\ step' \in Steps /\ cur' \in Tsn \cup {NoTxn}
         /\ acked' = acked /\ acked' \in SUBSET Tsn /\ touched' \in SUBSET Tsn /\ crashes' \in Nat
         /\ InProgress'
BY DEF SafeInv, TypeOK, Restart, Steps, InProgress

\* A crash between two steps: the log of the last save is loaded.
LEMMA CrashSafe ==
  ASSUME SafeInv, Crash
  PROVE  SafeInv'
<1>1. Restart /\ log' = disk /\ disk' = disk /\ files' = files
  BY DEF Crash
<1>2. TypeOK'
  BY <1>1, RestartFacts DEF SafeInv, TypeOK
<1>3. CommittedInFile'
  BY <1>1 DEF SafeInv, CommittedInFile, InFile
<1> QED BY <1>1, <1>2, <1>3, RestartFacts, LoadedDisk DEF SafeInv

\* A crash inside writeFile leaves the first lines of the transaction behind.
LEMMA CrashInWriteSafe ==
  ASSUME SafeInv, NEW k \in 0..MaxSeq, NEW torn \in BOOLEAN, CrashInWrite(k, torn)
  PROVE  SafeInv'
<1> DEFINE x == log[cur]
           b == [Block(cur, x, k) EXCEPT !.torn = torn]
<1>1. /\ step = "write" /\ Restart /\ log' = disk /\ disk' = disk
      /\ files' = [files EXCEPT ![x.file] = Append(@, b)]
  BY DEF CrashInWrite
<1>2. cur \in Tsn /\ x \in Txn
  BY <1>1 DEF SafeInv, InProgress, TypeOK, Log
<1>3. x.file \in Files /\ k \in Int
  BY <1>2 DEF Txn
<1>4. b \in Blocks
  BY <1>2, <1>3, BlockType, TornBlockType
<1> HIDE DEF b
<1>5. files' \in [Files -> Seq(Blocks)] /\ CommittedInFile'
  BY <1>1, <1>3, <1>4, AppendKeepsCommitted DEF SafeInv
<1>6. TypeOK'
  BY <1>1, <1>5, RestartFacts DEF SafeInv, TypeOK
<1> QED BY <1>1, <1>5, <1>6, RestartFacts, LoadedDisk DEF SafeInv

\* A crash inside save() loses transactions but invents none.
LEMMA CrashInSaveSafe ==
  ASSUME SafeInv, CrashInSave
  PROVE  SafeInv'
<1>1. TornSaves /\ Restart /\ log' \in Prefixes(log) /\ disk' = EmptyLog /\ files' = files
  BY DEF CrashInSave
<1>2. \A u \in Tsn : disk'[u] = NoTxn
  BY <1>1 DEF EmptyLog
<1>3. PICK k \in Tsn \cup {0} : log' = [t \in Tsn |-> IF t < k THEN log[t] ELSE NoTxn]
  BY <1>1 DEF Prefixes
<1>4. \A u \in Tsn : log'[u] \in {log[u], NoTxn}
  BY <1>3
<1>5. log' \in Log /\ disk' \in Log
  BY <1>1, <1>3 DEF SafeInv, TypeOK, Log, EmptyLog
<1>6. TypeOK'
  BY <1>1, <1>5, RestartFacts DEF SafeInv, TypeOK
<1>7. CommittedInFile'
  <2> SUFFICES ASSUME NEW u \in Tsn, NEW z \in {log'[u], disk'[u]}, IsCommitted(z)
               PROVE  z = log[u]
    BY <1>1 DEF SafeInv, CommittedInFile, InFile
  <2> QED BY <1>2, <1>4 DEF IsCommitted
<1>8. DiskBehind' /\ CommitsOnDisk'
  BY <1>1, <1>2 DEF DiskBehind, CommitsOnDisk, IsCommitted
<1> QED BY <1>1, <1>6, <1>7, <1>8, RestartFacts DEF SafeInv

-----------------------------------------------------------------------------
\* Every step of the server keeps the invariant.
LEMMA NextSafe == SafeInv /\ [Next]_vars => SafeInv'
<1> SUFFICES ASSUME SafeInv, [Next]_vars PROVE SafeInv'
  OBVIOUS
<1>1. CASE Request
  BY <1>1, NewTxnSafe, WriteSafe, CommitSafe, CommitIncompleteSafe, CommitAgainSafe, AbortSafe
  DEF Request
<1>2. CASE FinishCommit
  BY <1>2, ReplicateSafe, WriteFileSafe, WriteFailsSafe, MarkCommittedSafe, AckCommitSafe
  DEF FinishCommit
<1>3. CASE Save \/ Sweep \/ SwitchRole
  BY <1>3, SaveSafe, SweepSafe, SwitchRoleSafe
<1>4. CASE Failure
  BY <1>4, CrashSafe, CrashInWriteSafe, CrashInSaveSafe DEF Failure
<1>5. CASE UNCHANGED vars
  BY <1>5 DEF vars, SafeInv, TypeOK, InProgress, Complete, CommittedInFile, DiskBehind,
              CommitsOnDisk, InFile
<1> QED BY <1>1, <1>2, <1>3, <1>4, <1>5 DEF Next

\* The invariant holds in every state the server reaches.
THEOREM Safety == Spec => []SafeInv
BY InitSafe, NextSafe, PTL DEF Spec

\* The log in memory and on disk, the files and the handler's position always
\* have the shape the accessors of LogHandler.h rely on.
THEOREM TypeCorrect == Spec => []TypeOK
BY Safety, PTL DEF SafeInv

\* Write first, mark COMMITTED after: whatever crashes, torn saves included.
THEOREM CommittedAreInFile == Spec => []CommittedInFile
BY Safety, PTL DEF SafeInv

\* An acknowledged commit is on disk, in the log and in the file, for as long
\* as no crash hits save().
THEOREM AckedAreDurable ==
  ASSUME ~TornSaves
  PROVE  Spec => []AckedDurable
<1>1. SafeInv => AckedDurable
  <2> SUFFICES ASSUME SafeInv, NEW t \in acked
               PROVE  IsCommitted(disk[t]) /\ InFile(t, disk[t])
    BY DEF AckedDurable
  <2>1. t \in Tsn /\ IsCommitted(disk[t])
    BY DEF SafeInv, CommitsOnDisk, TypeOK
  <2> QED BY <2>1 DEF SafeInv, CommittedInFile
<1> QED BY <1>1, Safety, PTL

-----------------------------------------------------------------------------
(***************************************************************************)
(* What one step may do to one transaction.                                *)
(***************************************************************************)
Moves(x, y) ==
  \/ y = x
  \/ x = NoTxn /\ ~IsCommitted(y)
  \/ y = NoTxn /\ ~IsCommitted(x)
  \/ /\ x \in Txn /\ y \in Txn
     /\ ~IsCommitted(x) /\ ~IsCommitted(y) /\ ~IsExpired(x)
     /\ \A n \in SeqNo : x.writes[n] # NoData => y.writes[n] = x.writes[n]

\* Every request leaves committed transactions alone, makes none, revives no
\* expired one and replaces no packet.
LEMMA RequestMoves ==
  ASSUME SafeInv, Request, NEW u \in Tsn
  PROVE  Moves(log[u], log'[u])
<1>1. log \in Log
  BY DEF SafeInv, TypeOK
<1>2. ASSUME NEW t \in Tsn, NEW f \in Files, NewTxn(t, f)
      PROVE  Moves(log[u], log'[u])
  BY <1>1, <1>2, NewEntryType DEF NewTxn, Log, Moves, IsCommitted
<1>3. ASSUME NEW t \in Tsn, NEW x \in Txn, NEW n \in SeqNo, NEW s \in {"WRITING", "WAITING"},
             log[t] # NoTxn, ~IsCommitted(log[t]), ~IsExpired(log[t]),
             \A k \in SeqNo : log[t].writes[k] # NoData => x.writes[k] = log[t].writes[k],
             log' = [log EXCEPT ![t] = MarkedFor(x, s, n)]
      PROVE  Moves(log[u], log'[u])
  <2> DEFINE y == MarkedFor(x, s, n)
  <2>0. s \in Status
    BY DEF Status
  <2>1. y \in Txn /\ y.status = s /\ y.writes = x.writes
    BY <2>0, MarkedFacts
  <2>2. log' = [log EXCEPT ![t] = y]
    BY <1>3
  <2> HIDE DEF y
  <2>3. CASE u = t
    BY <1>1, <1>3, <2>1, <2>2, <2>3 DEF Log, Moves, IsCommitted
  <2>4. CASE u # t
    BY <1>1, <2>2, <2>4 DEF Log, Moves
  <2> QED BY <2>3, <2>4
<1>4. ASSUME NEW t \in Tsn, NEW n \in SeqNo, NEW d \in Data, Write(t, n, d)
      PROVE  Moves(log[u], log'[u])
  <2> DEFINE x == Logged(log[t], n, d)
  <2>1. /\ log[t] \in Txn /\ log[t] # NoTxn /\ log[t].writes[n] = NoData
        /\ ~IsCommitted(log[t]) /\ ~IsExpired(log[t])
    BY <1>1, <1>4 DEF Log, Write, AddLogEntryCode, IsCommitted, IsExpired
  <2>2. /\ x \in Txn /\ x.status \in {"WAITING", "ACTIVE"}
        /\ x.writes = [log[t].writes EXCEPT ![n] = d]
    BY <2>1, LoggedFacts
  <2>3. \A k \in SeqNo : log[t].writes[k] # NoData => x.writes[k] = log[t].writes[k]
    BY <2>1, <2>2 DEF Txn
  <2>4. \/ CanCommit(x, x.data) /\ StartCommit(t, x, x.data)
        \/ log' = [log EXCEPT ![t] = x]
    BY <1>4 DEF Write
  <2> HIDE DEF x
  <2>5. CASE CanCommit(x, x.data) /\ StartCommit(t, x, x.data)
    <3>1. x.data \in SeqNo
      BY <2>2, <2>5, MaxSeqAssumption DEF CanCommit, Txn, SeqNo
    <3>2. log' = [log EXCEPT ![t] = MarkedFor(x, "WRITING", x.data)]
      BY <2>5 DEF StartCommit
    <3> QED BY <1>3, <2>1, <2>2, <2>3, <3>1, <3>2
  <2>6. CASE log' = [log EXCEPT ![t] = x]
    BY <1>1, <2>1, <2>2, <2>3, <2>6 DEF Log, Moves, IsCommitted
  <2> QED BY <2>4, <2>5, <2>6
<1>5. ASSUME NEW t \in Tsn, NEW n \in SeqNo, Commit(t, n) \/ CommitIncomplete(t, n)
      PROVE  Moves(log[u], log'[u])
  <2>1. /\ log[t] \in Txn /\ log[t] # NoTxn
        /\ ~IsCommitted(log[t]) /\ ~IsExpired(log[t])
    BY <1>1, <1>5 DEF Log, Commit, CommitIncomplete, CommitCode, IsCommitted, IsExpired
  <2>2. \E s \in {"WRITING", "WAITING"} : log' = [log EXCEPT ![t] = MarkedFor(log[t], s, n)]
    BY <1>5 DEF Commit, StartCommit, CommitIncomplete
  <2> QED BY <1>3, <2>1, <2>2
<1>6. ASSUME NEW t \in Tsn, NEW n \in SeqNo, CommitAgain(t, n)
      PROVE  Moves(log[u], log'[u])
  BY <1>6 DEF CommitAgain, Moves
<1>7. ASSUME NEW t \in Tsn, Abort(t)
      PROVE  Moves(log[u], log'[u])
  BY <1>1, <1>7 DEF Abort, AbortCode, Log, Moves, IsCommitted
<1> QED BY <1>2, <1>4, <1>5, <1>6, <1>7 DEF Request

\* Of the steps that are not a crash, only MarkCommitted makes a transaction
\* committed, and none touches a committed one.
LEMMA StepMoves ==
  ASSUME SafeInv, Next, ~Failure, ~MarkCommitted, NEW u \in Tsn
  PROVE  Moves(log[u], log'[u])
<1>1. log \in Log
  BY DEF SafeInv, TypeOK
<1>2. CASE Request
  BY <1>2, RequestMoves
<1>3. CASE WriteFails
  <2> DEFINE y == [log[cur] EXCEPT !.status = "WAITING"]
  <2>1. log' = [log EXCEPT ![cur] = y] /\ step = "write"
    BY <1>3 DEF WriteFails
  <2>2. cur \in Tsn /\ log[cur] \in Txn /\ log[cur].status = "WRITING"
    BY <2>1 DEF SafeInv, InProgress, TypeOK, Log
  <2>3. y \in Txn /\ y.status = "WAITING" /\ y.writes = log[cur].writes
    BY <2>2, StatusFacts DEF Status
  <2> HIDE DEF y
  <2>4. CASE u = cur
    BY <1>1, <2>1, <2>2, <2>3, <2>4 DEF Log, Moves, IsCommitted, IsExpired
  <2>5. CASE u # cur
    BY <1>1, <2>1, <2>2, <2>5 DEF Log, Moves
  <2> QED BY <2>4, <2>5
<1>4. CASE Sweep
  <2>1. AgesTo(log[u], log'[u])
    BY <1>1, <1>4, SweepAges DEF Sweep
  <2> QED BY <2>1 DEF AgesTo, Moves
<1>5. CASE (\E ok \in BOOLEAN : Replicate(ok)) \/ WriteFile \/ AckCommit \/ Save \/ SwitchRole
  BY <1>5 DEF Replicate, WriteFile, AckCommit, Save, SwitchRole, Moves
<1> QED BY <1>2, <1>3, <1>4, <1>5 DEF Next, FinishCommit

\* Marking a transaction COMMITTED keeps its packets.
LEMMA MarkKeepsPackets ==
  ASSUME SafeInv, MarkCommitted, NEW u \in Tsn
  PROVE  /\ log'[u] = log[u] \/ (u = cur /\ log[u] \in Txn /\ log'[u] \in Txn)
         /\ log[u] \in Txn => log'[u].writes = log[u].writes
         /\ IsExpired(log[u]) => log'[u] = log[u]
<1> DEFINE y == [log[cur] EXCEPT !.status = "COMMITTED"]
<1>1. log' = [log EXCEPT ![cur] = y] /\ step = "mark"
  BY DEF MarkCommitted
<1>2. log \in Log /\ cur \in Tsn /\ log[cur] \in Txn /\ log[cur].status = "WRITING"
  BY <1>1 DEF SafeInv, InProgress, TypeOK, Log
<1>3. y \in Txn /\ y.writes = log[cur].writes
  BY <1>2, StatusFacts DEF Status
<1> HIDE DEF y
<1> QED BY <1>1, <1>2, <1>3 DEF Log, IsExpired

\* After a crash a transaction is what one of the two logs held, or gone.
LEMMA FailureMoves ==
  ASSUME SafeInv, Failure, NEW u \in Tsn
  PROVE  log'[u] \in {log[u], disk[u], NoTxn}
BY DEF Failure, Crash, CrashInWrite, CrashInSave, Prefixes

\* What WriteOnce and ExpiredIsFinal say of one step.
LEMMA StepKeepsPackets ==
  ASSUME SafeInv, [Next]_vars, NEW t \in Tsn
  PROVE  /\ log[t] # NoTxn /\ log'[t] # NoTxn
              => \A n \in SeqNo : log[t].writes[n] # NoData
                                    => log'[t].writes[n] \in {log[t].writes[n], NoData}
         /\ IsExpired(log[t]) => log'[t] \in {log[t], NoTxn}
<1>1. CASE Failure
  <2>1. log'[t] \in {log[t], disk[t], NoTxn}
    BY <1>1, FailureMoves
  <2> QED BY <2>1 DEF SafeInv, DiskBehind
<1>2. CASE MarkCommitted
  <2>1. log[t] \in Txn \cup {NoTxn}
    BY DEF SafeInv, TypeOK, Log
  <2> QED BY <1>2, <2>1, MarkKeepsPackets
<1>3. CASE Next /\ ~Failure /\ ~MarkCommitted
  <2>1. Moves(log[t], log'[t])
    BY <1>3, StepMoves
  <2> QED BY <2>1 DEF Moves, IsExpired
<1>4. CASE UNCHANGED vars
  BY <1>4 DEF vars
<1> QED BY <1>1, <1>2, <1>3, <1>4

\* The packet under a sequence number is never replaced.
THEOREM PacketsWrittenOnce == Spec => WriteOnce
<1>1. SafeInv /\ [Next]_vars
        => [\A t \in Tsn, n \in SeqNo :
              /\ log[t] # NoTxn /\ log'[t] # NoTxn
              /\ log[t].writes[n] # NoData
              => log'[t].writes[n] \in {log[t].writes[n], NoData}]_vars
  BY StepKeepsPackets
<1> QED BY <1>1, Safety, PTL DEF WriteOnce, Spec

\* An expired transaction is only ever deleted.
THEOREM ExpiredStaysExpired == Spec => ExpiredIsFinal
<1>1. SafeInv /\ [Next]_vars
        => [\A t \in Tsn : IsExpired(log[t]) => log'[t] \in {log[t], NoTxn}]_vars
  BY StepKeepsPackets
<1> QED BY <1>1, Safety, PTL DEF ExpiredIsFinal, Spec

-----------------------------------------------------------------------------
(***************************************************************************)
(* Lines are written at most once as long as nothing crashes.              *)
(***************************************************************************)

\* Block i of file f is the whole of a transaction that is committed or about
\* to be marked so, and no other block of f is that transaction's.
WholeAndOnce(f, i) ==
  LET b == files[f][i]
  IN  /\ IsCommitted(log[b.tsn]) \/ (step = "mark" /\ cur = b.tsn)
      /\ b = Block(b.tsn, log[b.tsn], log[b.tsn].data) /\ f = log[b.tsn].file
      /\ \A j \in DOMAIN files[f] : files[f][j].tsn = b.tsn => j = i

\* A step without a crash keeps ExactlyOnceWithoutCrash: writeFile runs only for
\* a WRITING transaction, which has no lines in any file yet.
LEMMA OnceStep == SafeInv /\ ExactlyOnceWithoutCrash /\ [Next]_vars => ExactlyOnceWithoutCrash'
<1> SUFFICES ASSUME SafeInv, ExactlyOnceWithoutCrash, [Next]_vars, crashes' = 0,
                    NEW f \in Files, NEW i \in DOMAIN files'[f]
             PROVE  WholeAndOnce(f, i)'
  BY DEF ExactlyOnceWithoutCrash, WholeAndOnce
<1>1. ~Failure
  <2>1. ~Restart
    BY DEF SafeInv, TypeOK, Restart
  <2> QED BY <2>1 DEF Failure, Crash, CrashInWrite, CrashInSave
<1>2. crashes = 0
  <2>1. CASE Next
    BY <1>1, <2>1 DEF Next, Request, NewTxn, Write, Commit, CommitIncomplete, CommitAgain, Abort,
      FinishCommit, Replicate, WriteFile, WriteFails, MarkCommitted, AckCommit, Save, Sweep,
      SwitchRole
  <2> QED BY <2>1 DEF vars
<1>3. \A g \in Files : \A j \in DOMAIN files[g] : WholeAndOnce(g, j)
  BY <1>2 DEF ExactlyOnceWithoutCrash, WholeAndOnce
<1>4. \A g \in Files : \A j \in DOMAIN files[g] : files[g][j].tsn \in Tsn
  <2> SUFFICES ASSUME NEW g \in Files, NEW j \in DOMAIN files[g]
               PROVE  files[g][j].tsn \in Tsn
    OBVIOUS
  <2>1. files[g] \in Seq(Blocks)
    BY DEF SafeInv, TypeOK
  <2>2. files[g][j] \in Blocks
    BY <2>1
  <2> QED BY <2>2 DEF Blocks
<1>5. CASE WriteFile
  <2> DEFINE x == log[cur]
             b == Block(cur, x, x.data)
  <2>1. step = "write" /\ step' = "mark" /\ log' = log /\ cur' = cur
    BY <1>5 DEF WriteFile
  <2>2. cur \in Tsn /\ x \in Txn /\ x.status = "WRITING"
    BY <2>1 DEF SafeInv, InProgress, TypeOK, Log
  <2>3. files' = [files EXCEPT ![x.file] = Append(@, b)] /\ b.tsn = cur
    BY <1>5 DEF WriteFile, Block
  <2>4. \A g \in Files : \A j \in DOMAIN files[g] : files[g][j].tsn # cur
    BY <1>3, <2>1, <2>2 DEF WholeAndOnce, IsCommitted
  <2>5. x.file \in Files /\ files \in [Files -> Seq(Blocks)]
    BY <2>2 DEF Txn, SafeInv, TypeOK
  <2>6. CASE f # x.file
    <3>1. files'[f] = files[f]
      BY <2>3, <2>5, <2>6
    <3> QED BY <1>3, <2>1, <3>1 DEF WholeAndOnce
  <2>7. CASE f = x.file
    <3> HIDE DEF b
    <3>1. /\ files[f] \in Seq(Blocks) /\ files'[f] = Append(files[f], b)
      BY <2>3, <2>5, <2>7
    <3>2. /\ DOMAIN files'[f] = DOMAIN files[f] \cup {Len(files[f]) + 1}
          /\ Len(files[f]) + 1 \notin DOMAIN files[f]
          /\ \A j \in DOMAIN files[f] : files'[f][j] = files[f][j]
          /\ files'[f][Len(files[f]) + 1] = b
      BY <3>1
    <3>3. CASE i = Len(files[f]) + 1
      <4>1. files'[f][i] = b /\ \A j \in DOMAIN files'[f] : files'[f][j].tsn = cur => j = i
        BY <2>4, <3>2, <3>3
      <4> QED BY <2>1, <2>3, <2>7, <4>1 DEF WholeAndOnce, b
    <3>4. CASE i \in DOMAIN files[f]
      <4>1. files'[f][i] = files[f][i] /\ WholeAndOnce(f, i) /\ files[f][i].tsn # cur
        BY <1>3, <2>4, <3>2, <3>4
      <4>2. \A j \in DOMAIN files'[f] : files'[f][j].tsn = files[f][i].tsn => j = i
        BY <2>3, <3>2, <3>4, <4>1 DEF WholeAndOnce
      <4> QED BY <2>1, <4>1, <4>2 DEF WholeAndOnce
    <3> QED BY <3>2, <3>3, <3>4
  <2> QED BY <2>6, <2>7
<1>6. ASSUME files' = files,
             \A u \in Tsn : IsCommitted(log[u]) => log'[u] = log[u],
             step # "mark"
      PROVE  WholeAndOnce(f, i)'
  <2> DEFINE t == files[f][i].tsn
  <2>1. t \in Tsn /\ WholeAndOnce(f, i)
    BY <1>3, <1>4, <1>6
  <2>2. IsCommitted(log[t]) /\ log'[t] = log[t]
    BY <1>6, <2>1 DEF WholeAndOnce
  <2> QED BY <1>6, <2>1, <2>2 DEF WholeAndOnce
<1>7. CASE MarkCommitted
  <2> DEFINE t == files[f][i].tsn
             y == [log[cur] EXCEPT !.status = "COMMITTED"]
  <2>1. /\ step = "mark" /\ log' = [log EXCEPT ![cur] = y] /\ files' = files /\ cur' = cur
    BY <1>7 DEF MarkCommitted
  <2>2. log \in Log /\ cur \in Tsn /\ log[cur] \in Txn
    BY <2>1 DEF SafeInv, InProgress, TypeOK, Log
  <2>3. /\ y \in Txn /\ y.status = "COMMITTED" /\ y.data = log[cur].data
        /\ y.writes = log[cur].writes /\ y.file = log[cur].file
    BY <2>2, StatusFacts DEF Status
  <2> HIDE DEF y
  <2>4. t \in Tsn /\ WholeAndOnce(f, i)
    BY <1>3, <1>4, <2>1
  <2>5. CASE t = cur
    <3>1. log'[t] = y /\ IsCommitted(y)
      BY <2>1, <2>2, <2>3, <2>5, NoTxnAssumption DEF Log, IsCommitted
    <3>2. Block(t, y, y.data) = Block(t, log[t], log[t].data) /\ y.file = log[t].file
      BY <2>3, <2>5 DEF Block
    <3> QED BY <2>1, <2>4, <3>1, <3>2 DEF WholeAndOnce
  <2>6. CASE t # cur
    <3>1. IsCommitted(log[t]) /\ log'[t] = log[t]
      BY <2>1, <2>2, <2>4, <2>6 DEF WholeAndOnce, Log
    <3> QED BY <2>1, <2>4, <3>1 DEF WholeAndOnce
  <2> QED BY <2>5, <2>6
<1>8. CASE Next /\ ~WriteFile /\ ~MarkCommitted
  <2>1. \A u \in Tsn : IsCommitted(log[u]) => log'[u] = log[u]
    BY <1>1, <1>8, StepMoves DEF Moves, IsCommitted
  <2>2. files' = files /\ step # "mark"
    BY <1>1, <1>8 DEF Next, Request, NewTxn, Write, Commit, CommitIncomplete, CommitAgain, Abort,
      FinishCommit, Replicate, WriteFails, AckCommit, Save, Sweep, SwitchRole
  <2> QED BY <1>6, <2>1, <2>2
<1>9. CASE UNCHANGED vars
  BY <1>3, <1>9 DEF vars, WholeAndOnce
<1> QED BY <1>5, <1>7, <1>8, <1>9

\* Without crashes, a transaction's lines are in its file at most once.
THEOREM LinesWrittenOnce == Spec => []ExactlyOnceWithoutCrash
<1>1. Init => ExactlyOnceWithoutCrash
  BY DEF Init, ExactlyOnceWithoutCrash
<1> QED BY <1>1, OnceStep, Safety, PTL DEF Spec

-----------------------------------------------------------------------------
(***************************************************************************)
(* The server implements DurableStore.                                     *)
(***************************************************************************)
Store == [t \in Tsn |-> DurableView(disk[t], t)]

\* The three states DurableStore knows, as DurableView reads them off the log.
LEMMA ViewFacts ==
  ASSUME NEW t \in Tsn, NEW x \in Txn \cup {NoTxn}
  PROVE  /\ ~IsCommitted(x) => DurableView(x, t) \in {Durable!Absent, Durable!Open}
         /\ x # NoTxn /\ ~IsCommitted(x) => DurableView(x, t) = Durable!Open
         /\ IsCommitted(x) => /\ DurableView(x, t) = [state |-> "committed", file |-> x.file,
                                                       block |-> Block(t, x, x.data)]
                              /\ DurableView(x, t) \in Durable!Committed
                              /\ DurableView(x, t).file = x.file
                              /\ DurableView(x, t).block = Block(t, x, x.data)
<1>1. ASSUME ~IsCommitted(x)
      PROVE  DurableView(x, t) \in {Durable!Absent, Durable!Open}
  BY <1>1 DEF DurableView, IsCommitted, Durable!Absent, Durable!Open
<1>2. ASSUME x # NoTxn, ~IsCommitted(x)
      PROVE  DurableView(x, t) = Durable!Open
  BY <1>2 DEF DurableView, IsCommitted, Durable!Open
<1>3. ASSUME IsCommitted(x)
      PROVE  /\ DurableView(x, t) = [state |-> "committed", file |-> x.file,
                                      block |-> Block(t, x, x.data)]
             /\ DurableView(x, t) \in Durable!Committed
             /\ DurableView(x, t).file = x.file
             /\ DurableView(x, t).block = Block(t, x, x.data)
  <2>1. x \in Txn /\ x.file \in Files /\ x.data \in Int
    BY <1>3 DEF IsCommitted, Txn
  <2>2. Block(t, x, x.data) \in Blocks
    BY <2>1, BlockType
  <2>3. DurableView(x, t) = [state |-> "committed", file |-> x.file, block |-> Block(t, x, x.data)]
    BY <1>3 DEF DurableView, IsCommitted
  <2> QED BY <2>1, <2>2, <2>3 DEF Durable!Committed
<1> QED BY <1>1, <1>2, <1>3

\* A step that appends nothing and neither makes nor touches a committed
\* transaction on disk is an update of open ones.
LEMMA QuietUpdate ==
  ASSUME TypeOK, TypeOK', files' = files,
         \A u \in Tsn : IsCommitted(disk[u]) \/ IsCommitted(disk'[u]) => disk'[u] = disk[u]
  PROVE  Durable!UpdateStore
<1>1. \A u \in Tsn : disk[u] \in Txn \cup {NoTxn} /\ disk'[u] \in Txn \cup {NoTxn}
  BY DEF TypeOK, Log
<1>2. ASSUME NEW u \in Tsn
      PROVE  Store'[u] = Store[u] \/ Durable!ComesOrGoes(u)
  <2>1. CASE disk'[u] = disk[u]
    BY <2>1 DEF Store
  <2>2. CASE ~IsCommitted(disk[u]) /\ ~IsCommitted(disk'[u])
    BY <1>1, <2>2, ViewFacts DEF Store, Durable!ComesOrGoes
  <2> QED BY <2>1, <2>2
<1>3. ASSUME NEW u \in Tsn, Durable!Commits(u)
      PROVE  FALSE
  <2>1. Store[u] = Durable!Open /\ Store'[u] \in Durable!Committed
    BY <1>3 DEF Durable!Commits, Store
  <2>2. Store'[u] # Durable!Open /\ Store'[u] # Durable!Absent
    BY <2>1 DEF Durable!Committed, Durable!Open, Durable!Absent
  <2> QED BY <1>2, <2>1, <2>2 DEF Durable!ComesOrGoes, Store
<1> QED BY <1>2, <1>3 DEF Durable!UpdateStore, Store

\* Appending a block for the transaction the running handler commits, which
\* .server.log calls WRITING.
LEMMA AppendRefines ==
  ASSUME SafeInv, step = "write", NEW b \in Blocks, b.tsn = cur, disk' = disk,
         files' = [files EXCEPT ![log[cur].file] = Append(@, b)]
  PROVE  Durable!AppendBlock
<1>1. /\ cur \in Tsn /\ log[cur] \in Txn /\ log[cur] # NoTxn /\ disk[cur] = log[cur]
      /\ log[cur].status = "WRITING"
  BY DEF SafeInv, InProgress, TypeOK, Log
<1>2. log[cur].file \in Files
  BY <1>1 DEF Txn
<1>3. Store[cur] = Durable!Open /\ Store' = Store
  BY <1>1, ViewFacts DEF Store, IsCommitted
<1> QED BY <1>2, <1>3 DEF Durable!AppendBlock, Store

\* Marking a transaction COMMITTED is the abstract commit.
LEMMA MarkRefines ==
  ASSUME SafeInv, SafeInv', MarkCommitted
  PROVE  Durable!UpdateStore
<1>1. /\ step = "mark" /\ step' = "ack" /\ cur' = cur /\ files' = files /\ disk' = log'
      /\ log' = [log EXCEPT ![cur].status = "COMMITTED"]
  BY DEF MarkCommitted
<1>2. /\ cur \in Tsn /\ disk = log /\ log \in Log /\ log[cur] \in Txn /\ log[cur] # NoTxn
      /\ ~IsCommitted(log[cur])
  BY <1>1 DEF SafeInv, InProgress, TypeOK, Log, IsCommitted
<1>3. \A u \in Tsn \ {cur} : disk'[u] = disk[u]
  BY <1>1, <1>2 DEF Log
<1>4. disk'[cur] \in Txn /\ IsCommitted(disk'[cur]) /\ InFiles(files', cur, disk'[cur])
  <2>1. disk'[cur] = [log[cur] EXCEPT !.status = "COMMITTED"] /\ disk' \in Log
    BY <1>1, <1>2 DEF SafeInv, TypeOK, Log
  <2>2. disk'[cur] # NoTxn /\ disk'[cur].status = "COMMITTED"
    BY <1>2, <2>1, NoTxnAssumption DEF Txn, Status
  <2>3. IsCommitted(disk'[cur])
    BY <2>2 DEF IsCommitted
  <2>4. CommittedInFile' /\ cur \in Tsn
    BY <1>2 DEF SafeInv
  <2>5. InFiles(files', cur, disk'[cur])
    BY <2>3, <2>4 DEF CommittedInFile, InFile, InFiles
  <2> QED BY <1>2, <2>1, <2>2, <2>3, <2>5 DEF Log
<1>5. Durable!Commits(cur)
  <2>1. Store[cur] = Durable!Open
    BY <1>2, ViewFacts DEF Store
  <2>2. /\ Store'[cur] \in Durable!Committed
        /\ Store'[cur].file = disk'[cur].file
        /\ Store'[cur].block = Block(cur, disk'[cur], disk'[cur].data)
    BY <1>2, <1>4, ViewFacts DEF Store
  <2>3. \E i \in DOMAIN files[Store'[cur].file] : files[Store'[cur].file][i] = Store'[cur].block
    BY <1>1, <1>4, <2>2 DEF InFiles
  <2> QED BY <2>1, <2>2, <2>3 DEF Durable!Commits, Store
<1>6. \A u \in Tsn \ {cur} : Store'[u] = Store[u]
  BY <1>3 DEF Store
<1>7. \A u \in Tsn \ {cur} : ~Durable!Commits(u)
  BY <1>6 DEF Durable!Commits, Durable!Committed, Durable!Open, Store
<1> QED BY <1>1, <1>5, <1>6, <1>7 DEF Durable!UpdateStore, Store

\* Every step of the server is a step of DurableStore or leaves it alone.
LEMMA DurableStep ==
  ASSUME ~TornSaves, SafeInv, SafeInv', [Next]_vars
  PROVE  [Durable!Next]_(Durable!vars)
<1>1. CASE UNCHANGED vars
  BY <1>1 DEF vars, Durable!vars
<1>2. CASE WriteFile
  <2> DEFINE b == Block(cur, log[cur], log[cur].data)
  <2>1. step = "write" /\ disk' = disk /\ cur \in Tsn /\ log[cur] \in Txn /\ log[cur].data \in Int
    BY <1>2 DEF WriteFile, SafeInv, InProgress, TypeOK, Log, Txn
  <2>2. b \in Blocks /\ b.tsn = cur
    BY <2>1, BlockType DEF Block
  <2>3. files' = [files EXCEPT ![log[cur].file] = Append(@, b)]
    BY <1>2 DEF WriteFile
  <2> HIDE DEF b
  <2>4. Durable!AppendBlock
    BY <2>1, <2>2, <2>3, AppendRefines
  <2> QED BY <2>4 DEF Durable!Next
<1>3. CASE \E k \in 0..MaxSeq, torn \in BOOLEAN : CrashInWrite(k, torn)
  <2>1. PICK k \in 0..MaxSeq, torn \in BOOLEAN : CrashInWrite(k, torn)
    BY <1>3
  <2> DEFINE whole == Block(cur, log[cur], k)
             b == [whole EXCEPT !.torn = torn]
  <2>2. step = "write" /\ disk' = disk /\ cur \in Tsn /\ log[cur] \in Txn
    BY <2>1 DEF CrashInWrite, SafeInv, InProgress, TypeOK, Log
  <2>3. whole \in Blocks /\ whole.tsn = cur
    BY <2>2, BlockType DEF Block
  <2>4. files' = [files EXCEPT ![log[cur].file] = Append(@, b)]
    BY <2>1 DEF CrashInWrite
  <2> HIDE DEF whole
  <2>5. b \in Blocks /\ b.tsn = cur
    BY <2>3, TornBlockType
  <2> HIDE DEF b
  <2>6. Durable!AppendBlock
    BY <2>2, <2>4, <2>5, AppendRefines
  <2> QED BY <2>6 DEF Durable!Next
<1>4. CASE MarkCommitted
  BY <1>4, MarkRefines DEF Durable!Next
<1>5. CASE Crash
  <2>1. Durable!UpdateStore
    BY <1>5, QuietUpdate DEF Crash, SafeInv
  <2> QED BY <2>1 DEF Durable!Next
<1>6. CASE Next /\ ~Failure /\ ~WriteFile /\ ~MarkCommitted
  <2>1. files' = files /\ (disk' = disk \/ disk' = log')
    BY <1>6 DEF Next, Request, NewTxn, Write, StartCommit, Commit, CommitIncomplete, CommitAgain,
      Abort, FinishCommit, Replicate, WriteFails, AckCommit, Save, Sweep, SwitchRole
  <2>2. ASSUME NEW u \in Tsn, IsCommitted(disk[u]) \/ IsCommitted(disk'[u])
        PROVE  disk'[u] = disk[u]
    <3>1. Moves(log[u], log'[u])
      BY <1>6, StepMoves
    <3>2. IsCommitted(log[u]) \/ IsCommitted(log'[u]) => log'[u] = log[u]
      BY <3>1 DEF Moves, IsCommitted
    <3>3. /\ IsCommitted(disk[u]) => log[u] = disk[u]
          /\ IsCommitted(log[u]) => disk[u] = log[u]
      BY DEF SafeInv, DiskBehind, CommitsOnDisk
    <3> QED BY <2>1, <2>2, <3>2, <3>3
  <2>3. Durable!UpdateStore
    BY <2>1, <2>2, QuietUpdate DEF SafeInv
  <2> QED BY <2>3 DEF Durable!Next
<1>7. ~CrashInSave
  BY DEF CrashInSave
<1> QED BY <1>1, <1>2, <1>3, <1>4, <1>5, <1>6, <1>7 DEF Failure

\* As long as no crash hits save(), .server.log and the files behave as
\* DurableStore: a committed transaction is fixed for good.
THEOREM RefinesDurableStore ==
  ASSUME ~TornSaves
  PROVE  Spec => ImplementsDurableStore
<1>1. Init => Durable!Init
  <2> SUFFICES ASSUME Init PROVE Durable!Init
    OBVIOUS
  <2>1. \A t \in Tsn : DurableView(disk[t], t) = Durable!Absent
    BY DEF Init, EmptyLog, DurableView, Durable!Absent
  <2> QED BY <2>1 DEF Init, Durable!Init
<1>2. SafeInv /\ SafeInv' /\ [Next]_vars => [Durable!Next]_(Durable!vars)
  BY DurableStep
<1> QED BY <1>1, <1>2, Safety, PTL DEF Spec, ImplementsDurableStore, Durable!Spec
=============================================================================
