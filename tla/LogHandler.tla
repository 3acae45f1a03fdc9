----------------------------- MODULE LogHandler -----------------------------
(***************************************************************************)
(* The transaction log of one server (class LogHandler), as pure operators *)
(* on the value of log_trans.                                              *)
(*                                                                         *)
(* log_trans maps a transaction number to the entries logged for it.  The  *)
(* entries of one transaction are, in the code, a map from a sequence      *)
(* number to a (header, data) pair of strings, in which key -1 holds the   *)
(* status and the number being committed, key 0 a second status word and   *)
(* the name of the target file, and the keys from 1 up the written         *)
(* packets.  Here they are the fields of a record.  The entries 0 and -1   *)
(* of log_trans itself (the server's own role and address, the address of  *)
(* its backup) are not transactions; they are variables of the modules     *)
(* that use this one.                                                      *)
(***************************************************************************)
EXTENDS Integers

CONSTANTS
  Tsn,      \* transaction numbers (1..100000 in newTxn)
  MaxSeq,   \* bound on sequence numbers (an int in the code)
  Data,     \* payloads of a WRITE
  Files,    \* names of the files transactions write to
  NoData,   \* no packet logged under this sequence number
  NoTxn     \* no entry in log_trans under this transaction number

SeqNo == 1..MaxSeq

Status == {"ACTIVE", "FLAG", "EXPIRED", "WAITING", "WRITING", "COMMITTED"}

ZStatus == {"NEW_TXN", "FLAG", "EXPIRED"}

Txn == [ status : Status,                        \* key -1, first
         data   : 0..MaxSeq,                     \* key -1, second
         z      : ZStatus,                       \* key  0, first
         file   : Files,                         \* key  0, second
         writes : [SeqNo -> Data \cup {NoData}] ] \* keys 1, 2, ...

Log == [Tsn -> Txn \cup {NoTxn}]

EmptyLog == [t \in Tsn |-> NoTxn]

ASSUME TsnAssumption == Tsn \subseteq Nat \ {0}
ASSUME MaxSeqAssumption == MaxSeq \in Nat
ASSUME NoDataAssumption == NoData \notin Data
ASSUME NoTxnAssumption == NoTxn \notin Txn

-----------------------------------------------------------------------------
\* The entries newTxn and makeTxn insert for a transaction on file f.
NewEntry(f) == [ status |-> "ACTIVE", data |-> 0, z |-> "NEW_TXN", file |-> f,
                 writes |-> [n \in SeqNo |-> NoData] ]

Written(x) == {n \in SeqNo : x.writes[n] # NoData}

\* Mutant of Fetch: the loop after the walk is missing, so packets above the
\* last one that was logged are not missed.
FetchNoTail(x, n) == {i \in SeqNo \ Written(x) : \E j \in Written(x) : i < j}

\* What canCommit collects in fetch: every hole below the highest packet that
\* was logged, and everything from there up to the number being committed.
Fetch(x, n) == {i \in SeqNo \ Written(x) : i <= n \/ \E j \in Written(x) : i < j}

CanCommit(x, n) == Fetch(x, n) = {} /\ n # 0

(***************************************************************************)
(* The outcome of each request, in the order the code tests: a reply code, *)
(* or what the rest of the handler acts on.                                *)
(***************************************************************************)
\* Mutants of AddLogEntryCode: no check for a packet that was received before,
\* and none for an expired transaction.
AddLogEntryCodeOverwrites(x, n) ==
  IF n < 1                                     THEN "204"
  ELSE IF x = NoTxn                            THEN "201"
  ELSE IF x.status = "COMMITTED"               THEN "202"
  ELSE IF x.status = "EXPIRED"                 THEN "220"
  ELSE IF x.status = "WAITING" /\ x.data < n   THEN "202"
  ELSE "ok"

AddLogEntryCodeRevives(x, n) ==
  IF n < 1                                     THEN "204"
  ELSE IF x = NoTxn                            THEN "201"
  ELSE IF x.status = "COMMITTED"               THEN "202"
  ELSE IF x.writes[n] # NoData                 THEN "301"
  ELSE IF x.status = "WAITING" /\ x.data < n   THEN "202"
  ELSE "ok"

AddLogEntryCode(x, n) ==
  IF n < 1                                     THEN "204"
  ELSE IF x = NoTxn                            THEN "201"
  ELSE IF x.status = "COMMITTED"               THEN "202"
  ELSE IF x.status = "EXPIRED"                 THEN "220"
  ELSE IF x.writes[n] # NoData                 THEN "301"
  ELSE IF x.status = "WAITING" /\ x.data < n   THEN "202"
  ELSE "ok"

\* Mutant of CommitCode: a COMMIT that is repeated is carried out again.
CommitCodeRepeats(x, n) ==
  IF x = NoTxn                                                      THEN "201"
  ELSE IF x.status = "EXPIRED"                                      THEN "220"
  ELSE IF x.status \in {"WAITING", "COMMITTED"} /\ x.data # n       THEN "202"
  ELSE IF n < 1                                                     THEN "404"
  ELSE IF CanCommit(x, n)                                           THEN "committed"
  ELSE "incomplete"

CommitCode(x, n) ==
  IF x = NoTxn                                                      THEN "201"
  ELSE IF x.status = "COMMITTED" /\ x.data = n                      THEN "already"
  ELSE IF x.status = "EXPIRED"                                      THEN "220"
  ELSE IF x.status \in {"WAITING", "COMMITTED"} /\ x.data # n       THEN "202"
  ELSE IF n < 1                                                     THEN "404"
  ELSE IF CanCommit(x, n)                                           THEN "committed"
  ELSE "incomplete"

AbortCode(x) ==
  IF x = NoTxn                    THEN "201"
  ELSE IF x.status = "COMMITTED"  THEN "202"
  ELSE IF x.status = "EXPIRED"    THEN "220"
  ELSE "ok"

\* addLogEntry's insertion, and the status it leaves: a WAITING transaction
\* keeps waiting (its commit may now be possible), any other is ACTIVE again.
Logged(x, n, d) ==
  [x EXCEPT !.writes = [@ EXCEPT ![n] = d],
            !.status = IF x.status = "WAITING" THEN "WAITING" ELSE "ACTIVE"]

\* Mutant of MarkedFor: the number of the next packet is recorded.
MarkedForNext(x, s, n) == [x EXCEPT !.status = s, !.data = n + 1]

\* changeStatus and changeStatusData as commit uses them.
MarkedFor(x, s, n) == [x EXCEPT !.status = s, !.data = n]

(***************************************************************************)
(* One visit of timeouts() to a transaction.  NoTxn: it is erased.  A      *)
(* WAITING one is aged through its second status word, which no request    *)
(* ever resets.                                                            *)
(***************************************************************************)
AgedWaiting(x) ==
  CASE x.z = "NEW_TXN" -> [x EXCEPT !.z = "FLAG"]
    [] x.z = "FLAG"    -> [x EXCEPT !.z = "EXPIRED"]
    [] x.z = "EXPIRED" -> NoTxn

Aged(x) ==
  IF x = NoTxn THEN NoTxn
  ELSE CASE x.status = "ACTIVE"  -> [x EXCEPT !.status = "FLAG"]
         [] x.status = "FLAG"    -> [x EXCEPT !.status = "EXPIRED"]
         [] x.status = "EXPIRED" -> NoTxn
         [] x.status = "WAITING" -> AgedWaiting(x)
         [] x.status \in {"COMMITTED", "WRITING"} -> x

\* The transactions of l that a sweep erases when it visits them.
ErasedBy(l) == {t \in Tsn : l[t] # NoTxn /\ Aged(l[t]) = NoTxn}

(***************************************************************************)
(* The logs a sweep over l can leave.  If it erases nothing, every         *)
(* transaction is visited once.  Otherwise the loop increments an iterator *)
(* to the erased node, which is undefined: with the library's red-black    *)
(* tree the walk resumes past its successor or at the start of its left    *)
(* subtree, so a transaction may be skipped or be visited again.  Up to    *)
(* the first erasure (in map order) each one has been visited once.  A     *)
(* walk that faults instead is a crash of the server.                      *)
(***************************************************************************)
SweptLogs(l) ==
  IF ErasedBy(l) = {}
  THEN { [t \in Tsn |-> Aged(l[t])] }
  ELSE LET first == CHOOSE e \in ErasedBy(l) : \A u \in ErasedBy(l) : e <= u
           Visited(x) == {Aged(x), Aged(Aged(x)), Aged(Aged(Aged(x)))}
       IN  {m \in [Tsn -> UNION {Visited(l[t]) \cup {l[t]} : t \in Tsn}] :
              \A t \in Tsn : m[t] \in Visited(l[t]) \cup (IF t <= first THEN {} ELSE {l[t]})}

\* What a load leaves of log l when its file was cut short: the map is read
\* in key order, so a prefix of the transactions.
Prefixes(l) == { [t \in Tsn |-> IF t < k THEN l[t] ELSE NoTxn] : k \in Tsn \cup {0} }

-----------------------------------------------------------------------------
\* What writeFile appends for transaction x, cut after its first k lines.
\* of is the number of lines that were to be written; torn: a fragment of the
\* line after them was written too, with no newline behind it.
Block(t, x, k) ==
  [ tsn |-> t, of |-> x.data, torn |-> FALSE,
    lines |-> [n \in SeqNo |-> IF n <= k THEN x.writes[n] ELSE NoData] ]

Blocks == [ tsn : Tsn, of : 0..MaxSeq, torn : BOOLEAN,
            lines : [SeqNo -> Data \cup {NoData}] ]

-----------------------------------------------------------------------------
\* What the properties of the modules that use this one speak of.
IsCommitted(x) == x # NoTxn /\ x.status = "COMMITTED"

IsExpired(x) == x # NoTxn /\ x.status = "EXPIRED"
=============================================================================
