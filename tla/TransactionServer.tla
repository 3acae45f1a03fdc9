-------------------------- MODULE TransactionServer --------------------------
(***************************************************************************)
(* One server: the request handlers of Session, the TransactionManager     *)
(* daemon, the transaction log in memory and on disk, the files the        *)
(* transactions write, and crashes.                                        *)
(*                                                                         *)
(* io_service.run() is called from one thread, so handlers do not          *)
(* interleave; what may happen between two steps of one handler is a       *)
(* crash.  A commit is therefore split where a crash makes a difference    *)
(* (step), and every other handler is one action.  Requests the code       *)
(* refuses change nothing and are left out.                                *)
(*                                                                         *)
(* The other server is seen only through what it makes this one do: the    *)
(* answer of ReplicationManager::commit, MAKE_TXN, and a change of role.   *)
(***************************************************************************)
EXTENDS LogHandler, Sequences

CONSTANTS
  MaxCrashes,   \* bound on crashes
  TornSaves     \* whether a crash may hit save() between truncate and write

ASSUME MaxCrashesAssumption == MaxCrashes \in Nat
ASSUME TornSavesAssumption == TornSaves \in BOOLEAN

VARIABLES
  log,      \* log_trans, in memory
  disk,     \* what .server.log holds
  files,    \* the files on disk, as the blocks appended to each
  role,     \* entry 0 of log_trans: "primary" or "backup"
  step,     \* where the handler of a commit is; "idle": no handler runs
  cur,      \* the transaction it is about
  acked,    \* history: transactions whose commit a client saw acknowledged
  touched,  \* history: transactions with activity since the last sweep
  crashes   \* crashes so far

vars == <<log, disk, files, role, step, cur, acked, touched, crashes>>

Roles == {"primary", "backup"}

Steps == {"idle", "replicate", "write", "mark", "ack"}

\* The shape of the state, which getStatus, getData and the other accessors of
\* LogHandler.h take for granted: they dereference find() unchecked.
TypeOK ==
  /\ log \in Log
  /\ disk \in Log
  /\ files \in [Files -> Seq(Blocks)]
  /\ role \in Roles
  /\ step \in Steps
  /\ cur \in Tsn \cup {NoTxn}
  /\ acked \in SUBSET Tsn
  /\ touched \in SUBSET Tsn
  /\ crashes \in Nat

\* A first start, with an empty working directory.
Init ==
  /\ log = EmptyLog
  /\ disk = EmptyLog
  /\ files = [f \in Files |-> <<>>]
  /\ role \in Roles
  /\ step = "idle"
  /\ cur = NoTxn
  /\ acked = {}
  /\ touched = {}
  /\ crashes = 0

-----------------------------------------------------------------------------
(***************************************************************************)
(* Requests.                                                               *)
(***************************************************************************)

\* NEW_TXN and MAKE_TXN (whose number comes from the primary): insert and save.
NewTxn(t, f) ==
  /\ step = "idle"
  /\ log[t] = NoTxn
  /\ log' = [log EXCEPT ![t] = NewEntry(f)]
  /\ disk' = log'
  /\ touched' = touched \cup {t}
  /\ UNCHANGED <<files, role, step, cur, acked, crashes>>

\* The part of commit() that found every packet: record the number, save, and
\* ask the backup first if this is the primary.
StartCommit(t, x, n) ==
  /\ log' = [log EXCEPT ![t] = MarkedFor(x, "WRITING", n)]
  /\ disk' = log'
  /\ step' = IF role = "primary" THEN "replicate" ELSE "write"
  /\ cur' = t

\* WRITE.  Nothing is saved, unless it completes a commit that waits for it.
Write(t, n, d) ==
  /\ step = "idle"
  /\ AddLogEntryCode(log[t], n) = "ok"
  /\ LET x == Logged(log[t], n, d)
     IN  \/ /\ x.status = "WAITING" /\ CanCommit(x, x.data)
            /\ StartCommit(t, x, x.data)
         \/ /\ ~(x.status = "WAITING" /\ CanCommit(x, x.data))
            /\ log' = [log EXCEPT ![t] = x]
            /\ UNCHANGED <<disk, step, cur>>
  /\ touched' = touched \cup {t}
  /\ UNCHANGED <<files, role, acked, crashes>>

\* COMMIT of a transaction whose packets are all there.
Commit(t, n) ==
  /\ step = "idle"
  /\ CommitCode(log[t], n) = "committed"
  /\ StartCommit(t, log[t], n)
  /\ UNCHANGED <<files, role, acked, touched, crashes>>

\* COMMIT with packets missing: wait for them.
CommitIncomplete(t, n) ==
  /\ step = "idle"
  /\ CommitCode(log[t], n) = "incomplete"
  /\ log' = [log EXCEPT ![t] = MarkedFor(log[t], "WAITING", n)]
  /\ disk' = log'
  /\ UNCHANGED <<files, role, step, cur, acked, touched, crashes>>

\* COMMIT repeated: acknowledged again.
CommitAgain(t, n) ==
  /\ step = "idle"
  /\ CommitCode(log[t], n) = "already"
  /\ acked' = acked \cup {t}
  /\ UNCHANGED <<log, disk, files, role, step, cur, touched, crashes>>

\* ABORT: erased in memory only.
Abort(t) ==
  /\ step = "idle"
  /\ AbortCode(log[t]) = "ok"
  /\ log' = [log EXCEPT ![t] = NoTxn]
  /\ UNCHANGED <<disk, files, role, step, cur, acked, touched, crashes>>

-----------------------------------------------------------------------------
(***************************************************************************)
(* The rest of a commit: doCommit on a primary, the end of commit() on a   *)
(* backup.                                                                 *)
(***************************************************************************)

\* Mutant of Replicate: once the backup has committed, the primary marks the
\* transaction without writing its own file.
ReplicateOnly(ok) ==
  /\ step = "replicate"
  /\ step' = IF ok THEN "mark" ELSE "idle"
  /\ cur' = IF ok THEN cur ELSE NoTxn
  /\ UNCHANGED <<log, disk, files, role, acked, touched, crashes>>

\* ReplicationManager::commit answers.  On failure the client gets error 205
\* and the transaction stays as it is.
Replicate(ok) ==
  /\ step = "replicate"
  /\ step' = IF ok THEN "write" ELSE "idle"
  /\ cur' = IF ok THEN cur ELSE NoTxn
  /\ UNCHANGED <<log, disk, files, role, acked, touched, crashes>>

\* writeFile appends the lines 1 to getStatusData(cur).
WriteFile ==
  /\ step = "write"
  /\ LET x == log[cur]
     IN  files' = [files EXCEPT ![x.file] = Append(@, Block(cur, x, x.data))]
  /\ step' = "mark"
  /\ UNCHANGED <<log, disk, role, cur, acked, touched, crashes>>

\* writeFile cannot open the file.  A backup waits for another COMMIT; a
\* primary exits, which is a crash.
WriteFails ==
  /\ step = "write"
  /\ role = "backup"
  /\ log' = [log EXCEPT ![cur].status = "WAITING"]
  /\ disk' = log'
  /\ step' = "idle"
  /\ cur' = NoTxn
  /\ UNCHANGED <<files, role, acked, touched, crashes>>

\* Mutant of MarkCommitted: save() is left to the daemon.
MarkCommittedUnsaved ==
  /\ step = "mark"
  /\ log' = [log EXCEPT ![cur].status = "COMMITTED"]
  /\ step' = "ack"
  /\ UNCHANGED <<disk, files, role, cur, acked, touched, crashes>>

MarkCommitted ==
  /\ step = "mark"
  /\ log' = [log EXCEPT ![cur].status = "COMMITTED"]
  /\ disk' = log'
  /\ step' = "ack"
  /\ UNCHANGED <<files, role, cur, acked, touched, crashes>>

AckCommit ==
  /\ step = "ack"
  /\ acked' = acked \cup {cur}
  /\ step' = "idle"
  /\ cur' = NoTxn
  /\ UNCHANGED <<log, disk, files, role, touched, crashes>>

-----------------------------------------------------------------------------
(***************************************************************************)
(* TransactionManager::check, every 5 seconds: save, and every 30th time   *)
(* sweep the log first.                                                    *)
(***************************************************************************)
Save ==
  /\ step = "idle"
  /\ disk' = log
  /\ UNCHANGED <<log, files, role, step, cur, acked, touched, crashes>>

Sweep ==
  /\ step = "idle"
  /\ log' \in SweptLogs(log)
  /\ disk' = log'
  /\ touched' = {}
  /\ UNCHANGED <<files, role, step, cur, acked, crashes>>

\* switchToPrimary, switchToBackup: entry 0 is rewritten in memory.
SwitchRole ==
  /\ step = "idle"
  /\ role' \in Roles \ {role}
  /\ UNCHANGED <<log, disk, files, step, cur, acked, touched, crashes>>

-----------------------------------------------------------------------------
(***************************************************************************)
(* Crashes, each with the restart that follows: the log is loaded, and the *)
(* operator starts the server in either role.                              *)
(***************************************************************************)
Restart ==
  /\ crashes < MaxCrashes
  /\ crashes' = crashes + 1
  /\ role' \in Roles
  /\ step' = "idle"
  /\ cur' = NoTxn
  /\ touched' = {}
  /\ UNCHANGED acked

Crash ==
  /\ Restart
  /\ log' = disk
  /\ UNCHANGED <<disk, files>>

\* The server dies inside writeFile after the first k lines, and perhaps a
\* fragment of the next one, reached the file.
CrashInWrite(k, torn) ==
  /\ step = "write"
  /\ k < log[cur].data
  /\ k > 0 \/ torn
  /\ Restart
  /\ files' = [files EXCEPT ![log[cur].file] =
                 Append(@, [Block(cur, log[cur], k) EXCEPT !.torn = torn])]
  /\ log' = disk
  /\ UNCHANGED disk

\* The server dies inside save(), which truncates .server.log and then writes
\* it.  The next start finds it corrupt, keeps what it could read, and moves
\* the file away.  Every action that saves leaves log as save() writes it, so
\* this is a crash right after such an action (or in the daemon's save); no
\* save() runs between WriteFile and MarkCommitted.
CrashInSave ==
  /\ TornSaves
  /\ step # "mark"
  /\ Restart
  /\ log' \in Prefixes(log)
  /\ disk' = EmptyLog
  /\ UNCHANGED files

-----------------------------------------------------------------------------
Request ==
  \/ \E t \in Tsn, f \in Files : NewTxn(t, f)
  \/ \E t \in Tsn, n \in SeqNo, d \in Data : Write(t, n, d)
  \/ \E t \in Tsn, n \in SeqNo : Commit(t, n) \/ CommitIncomplete(t, n) \/ CommitAgain(t, n)
  \/ \E t \in Tsn : Abort(t)

FinishCommit ==
  \/ \E ok \in BOOLEAN : Replicate(ok)
  \/ WriteFile
  \/ WriteFails
  \/ MarkCommitted
  \/ AckCommit

Failure ==
  \/ Crash
  \/ \E k \in 0..MaxSeq, torn \in BOOLEAN : CrashInWrite(k, torn)
  \/ CrashInSave

Next == Request \/ FinishCommit \/ Save \/ Sweep \/ SwitchRole \/ Failure

Spec == Init /\ [][Next]_vars

\* The daemon's timer is armed again after every check and io_service serves
\* what is ready in order, so a sweep happens if the thread keeps coming back
\* for work, however busy clients keep it; and the local steps of a commit run
\* to their end.  Clients, crashes and the answer of the backup owe nothing.
FairSpec ==
  Spec /\ SF_vars(Sweep) /\ WF_vars(WriteFile) /\ WF_vars(MarkCommitted) /\ WF_vars(AckCommit)

-----------------------------------------------------------------------------
(***************************************************************************)
(* Properties.                                                             *)
(***************************************************************************)
\* All the lines of transaction t, as logged in x, are in its file (the first of
\* them may stand behind the fragment of a line that an earlier crash left).
InFile(t, x) == \E i \in DOMAIN files[x.file] : files[x.file][i] = Block(t, x, x.data)

\* A transaction the log calls COMMITTED (after any number of crashes and
\* restarts, in memory or on disk) has every packet up to its commit number
\* and its lines are in the file: commit() and doCommit write first and mark
\* COMMITTED after.
CommittedInFile ==
  \A t \in Tsn : \A x \in {log[t], disk[t]} :
    IsCommitted(x) => /\ \A n \in 1..x.data : x.writes[n] # NoData
                      /\ InFile(t, x)

\* A commit some client saw acknowledged survives every crash that does not
\* hit save(): it is COMMITTED in .server.log and its lines are in the file.
AckedDurable ==
  \A t \in acked : IsCommitted(disk[t]) /\ InFile(t, disk[t])

\* As long as nothing crashed, whatever the order of requests, sweeps, failed
\* replications and role changes, a file holds the lines of a transaction at
\* most once, all of them, and only if the transaction is committed (or about
\* to be marked so by the handler that runs).
ExactlyOnceWithoutCrash ==
  crashes = 0 =>
    \A f \in Files : \A i \in DOMAIN files[f] :
      LET b == files[f][i]
      IN  /\ IsCommitted(log[b.tsn]) \/ (step = "mark" /\ cur = b.tsn)
          /\ b = Block(b.tsn, log[b.tsn], log[b.tsn].data) /\ f = log[b.tsn].file
          /\ \A j \in DOMAIN files[f] : files[f][j].tsn = b.tsn => j = i

\* The packet a live transaction holds under a sequence number is never
\* replaced by another one, by a duplicate WRITE or by the older log a restart
\* loads; a restart can only lose it.
WriteOnce ==
  [][\A t \in Tsn, n \in SeqNo :
       /\ log[t] # NoTxn /\ log'[t] # NoTxn
       /\ log[t].writes[n] # NoData
       => log'[t].writes[n] \in {log[t].writes[n], NoData}]_vars

\* "expired transactions are still known for a while and server will notify on
\* them but ignore it": from EXPIRED a transaction is only ever deleted; no
\* request revives it and no restart brings back an earlier status.
ExpiredIsFinal ==
  [][\A t \in Tsn : IsExpired(log[t]) => log'[t] \in {log[t], NoTxn}]_vars

\* Transactions are created again and again.
KeepCreating == []<><< \E t \in Tsn : log[t] = NoTxn /\ log'[t] # NoTxn >>_vars

\* Unless new transactions keep coming, one that nobody writes to is swept away
\* in the end, except when its commit began (WRITING) or finished, or the server
\* hangs in replication.  New ones can save it for ever: a sweep that erases
\* one transaction of timeouts()'s map may skip others, and if every sweep
\* finds one to erase, the same transaction may be skipped each time.
IdleIsCollected ==
  \/ KeepCreating
  \/ \A t \in Tsn :
       []<>( \/ t \in touched
             \/ log[t] = NoTxn
             \/ log[t] # NoTxn /\ log[t].status \in {"COMMITTED", "WRITING"}
             \/ step = "replicate")

\* "delete transactions that haven't had any activity since last check": what
\* a sweep deletes had no WRITE and was not created since the sweep before.
SweepSparesActive ==
  [][ Sweep => \A t \in touched : log[t] # NoTxn => log'[t] # NoTxn ]_vars

\* A WAITING transaction's commit number is the "number of highest write
\* expected" (comment in commit()), so what the server then asks for with
\* ACK_RESEND is what its WRITE handler accepts.
ResendsAccepted ==
  \A t \in Tsn :
    log[t] # NoTxn /\ log[t].status = "WAITING" =>
      \A n \in Fetch(log[t], log[t].data) : AddLogEntryCode(log[t], n) = "ok"

\* The server implements DurableStore: the store is what .server.log says.
\* Once it says COMMITTED, no retry of the COMMIT, no sweep and no recovery
\* touches the transaction or appends its lines again, and it says so only
\* after the lines are in the file.
DurableView(x, t) ==
  IF x = NoTxn THEN [state |-> "absent"]
  ELSE IF x.status # "COMMITTED" THEN [state |-> "open"]
  ELSE [state |-> "committed", file |-> x.file, block |-> Block(t, x, x.data)]

Durable == INSTANCE DurableStore WITH store <- [t \in Tsn |-> DurableView(disk[t], t)]

ImplementsDurableStore == Durable!Spec

\* "you can continue a transaction after a failure, keeps track of commits":
\* doing so never writes all the lines of a transaction twice.
NoDuplicateLines ==
  \A f \in Files : \A i, j \in DOMAIN files[f] :
    /\ files[f][i] = files[f][j]
    /\ files[f][i].of \in {n \in SeqNo : files[f][i].lines[n] # NoData}
    => i = j

\* "you can continue a transaction after a failure": the lines of a transaction
\* are never appended behind a fragment of a line that a crash inside writeFile
\* left, which would glue the two into one line.
NoGluedLines ==
  \A f \in Files : \A i \in DOMAIN files[f] : files[f][i].torn => i = Len(files[f])

=============================================================================
