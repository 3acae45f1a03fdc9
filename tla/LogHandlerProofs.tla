-------------------------- MODULE LogHandlerProofs --------------------------
(***************************************************************************)
(* Lemmas about the operators of LogHandler, for TransactionServerProofs   *)
(* and ReplicationProofs.                                                  *)
(***************************************************************************)
EXTENDS LogHandler, TLAPS

\* newTxn inserts a well-formed, uncommitted, empty transaction.
LEMMA NewEntryType ==
  ASSUME NEW f \in Files
  PROVE  /\ NewEntry(f) \in Txn
         /\ NewEntry(f).status = "ACTIVE"
BY MaxSeqAssumption DEF NewEntry, Txn, Status, ZStatus

\* What becomes of transaction x in one or more visits of timeouts().
AgesTo(x, y) ==
  \/ y = NoTxn /\ ~IsCommitted(x)
  \/ /\ x \in Txn /\ y \in Txn
     /\ y.file = x.file /\ y.writes = x.writes /\ y.data = x.data
     /\ IsCommitted(x) \/ IsCommitted(y) \/ IsExpired(x) => y = x

\* A visit of timeouts() never touches packets, the file name or the commit
\* number, and leaves a COMMITTED transaction as it is.
LEMMA AgedOnce ==
  ASSUME NEW x \in Txn \cup {NoTxn}
  PROVE  Aged(x) \in Txn \cup {NoTxn} /\ AgesTo(x, Aged(x))
<1>1. CASE x = NoTxn
  BY <1>1 DEF Aged, AgesTo, IsCommitted
<1>2. CASE x # NoTxn
  <2>1. x \in Txn /\ x.status \in Status /\ x.z \in ZStatus
    BY <1>2 DEF Txn
  <2>2. CASE x.status = "ACTIVE"
    <3>1. Aged(x) = [x EXCEPT !.status = "FLAG"]
      BY <1>2, <2>2 DEF Aged
    <3> QED BY <2>1, <2>2, <3>1, NoTxnAssumption DEF Txn, Status, AgesTo, IsCommitted, IsExpired
  <2>3. CASE x.status = "FLAG"
    <3>1. Aged(x) = [x EXCEPT !.status = "EXPIRED"]
      BY <1>2, <2>3 DEF Aged
    <3> QED BY <2>1, <2>3, <3>1, NoTxnAssumption DEF Txn, Status, AgesTo, IsCommitted, IsExpired
  <2>4. CASE x.status = "EXPIRED"
    BY <1>2, <2>4 DEF Aged, AgesTo, IsCommitted
  <2>5. CASE x.status \in {"COMMITTED", "WRITING"}
    <3>1. Aged(x) = x
      BY <1>2, <2>5 DEF Aged
    <3> QED BY <2>1, <2>5, <3>1, NoTxnAssumption DEF AgesTo, IsCommitted, IsExpired
  <2>6. CASE x.status = "WAITING"
    <3>1. Aged(x) = AgedWaiting(x)
      BY <1>2, <2>6 DEF Aged
    <3>2. CASE x.z = "NEW_TXN"
      <4>1. Aged(x) = [x EXCEPT !.z = "FLAG"]
        BY <3>1, <3>2 DEF AgedWaiting
      <4> QED BY <2>1, <2>6, <4>1, NoTxnAssumption DEF Txn, ZStatus, AgesTo, IsCommitted, IsExpired
    <3>3. CASE x.z = "FLAG"
      <4>1. Aged(x) = [x EXCEPT !.z = "EXPIRED"]
        BY <3>1, <3>3 DEF AgedWaiting
      <4> QED BY <2>1, <2>6, <4>1, NoTxnAssumption DEF Txn, ZStatus, AgesTo, IsCommitted, IsExpired
    <3>4. CASE x.z = "EXPIRED"
      BY <2>6, <3>1, <3>4 DEF AgedWaiting, AgesTo, IsCommitted
    <3> QED BY <2>1, <3>2, <3>3, <3>4 DEF ZStatus
  <2> QED BY <2>1, <2>2, <2>3, <2>4, <2>5, <2>6 DEF Status
<1> QED BY <1>1, <1>2

\* Several visits add up to one: a sweep may reach a transaction more than once.
LEMMA AgesToTransitive ==
  ASSUME NEW x, NEW y, NEW z, AgesTo(x, y), AgesTo(y, z)
  PROVE  AgesTo(x, z)
BY NoTxnAssumption DEF AgesTo, IsCommitted, IsExpired

\* Whatever the walk of a sweep skips or visits again, the log it leaves is a
\* log, and each of its transactions is an aged one.
LEMMA SweepAges ==
  ASSUME NEW l \in Log, NEW m \in SweptLogs(l)
  PROVE  m \in Log /\ \A t \in Tsn : AgesTo(l[t], m[t])
<1> DEFINE V(x) == {Aged(x), Aged(Aged(x)), Aged(Aged(Aged(x)))}
<1>1. ASSUME NEW x \in Txn \cup {NoTxn}
      PROVE  \A y \in V(x) \cup {x} : y \in Txn \cup {NoTxn} /\ AgesTo(x, y)
  <2>1. AgesTo(x, x)
    BY NoTxnAssumption DEF AgesTo, IsCommitted, IsExpired
  <2>2. Aged(x) \in Txn \cup {NoTxn} /\ AgesTo(x, Aged(x))
    BY AgedOnce
  <2>3. Aged(Aged(x)) \in Txn \cup {NoTxn} /\ AgesTo(x, Aged(Aged(x)))
    BY <2>2, AgedOnce, AgesToTransitive
  <2>4. Aged(Aged(Aged(x))) \in Txn \cup {NoTxn} /\ AgesTo(x, Aged(Aged(Aged(x))))
    BY <2>3, AgedOnce, AgesToTransitive
  <2> QED BY <2>1, <2>2, <2>3, <2>4
<1>2. m \in [Tsn -> UNION {V(l[t]) \cup {l[t]} : t \in Tsn}] \/ m = [t \in Tsn |-> Aged(l[t])]
  BY DEF SweptLogs
<1>3. m = [t \in Tsn |-> m[t]]
  BY <1>2
<1>4. ASSUME NEW t \in Tsn PROVE m[t] \in V(l[t]) \cup {l[t]}
  BY DEF SweptLogs
<1> HIDE DEF V
<1>5. ASSUME NEW t \in Tsn PROVE m[t] \in Txn \cup {NoTxn} /\ AgesTo(l[t], m[t])
  <2>1. l[t] \in Txn \cup {NoTxn}
    BY DEF Log
  <2> QED BY <1>1, <1>4, <2>1
<1> QED BY <1>3, <1>5 DEF Log

\* The updates the handlers make keep a transaction well-formed, and do to it
\* what they say and nothing else.
LEMMA LoggedFacts ==
  ASSUME NEW x \in Txn, NEW n \in SeqNo, NEW d \in Data
  PROVE  /\ Logged(x, n, d) \in Txn
         /\ Logged(x, n, d).status \in {"WAITING", "ACTIVE"}
         /\ Logged(x, n, d).writes = [x.writes EXCEPT ![n] = d]
         /\ Logged(x, n, d).data = x.data
<1> DEFINE w == [x.writes EXCEPT ![n] = d]
           s == IF x.status = "WAITING" THEN "WAITING" ELSE "ACTIVE"
<1>1. w \in [SeqNo -> Data \cup {NoData}]
  BY DEF Txn
<1>2. s \in Status /\ s \in {"WAITING", "ACTIVE"}
  BY DEF Status
<1>3. Logged(x, n, d) = [x EXCEPT !.writes = w, !.status = s]
  BY DEF Logged
<1> HIDE DEF w, s
<1>4. /\ Logged(x, n, d) \in Txn
      /\ Logged(x, n, d).status \in {"WAITING", "ACTIVE"}
      /\ Logged(x, n, d).writes = w
      /\ Logged(x, n, d).data = x.data
  BY <1>1, <1>2, <1>3 DEF Txn
<1> QED BY <1>4 DEF w

\* changeStatus and changeStatusData touch the status and the commit number only.
LEMMA MarkedFacts ==
  ASSUME NEW x \in Txn, NEW n \in SeqNo, NEW s \in Status
  PROVE  /\ MarkedFor(x, s, n) \in Txn
         /\ MarkedFor(x, s, n).status = s
         /\ MarkedFor(x, s, n).data = n
         /\ MarkedFor(x, s, n).writes = x.writes
<1>1. n \in 0..MaxSeq
  BY MaxSeqAssumption DEF SeqNo
<1> QED BY <1>1 DEF MarkedFor, Txn

\* changeStatus touches nothing but the status.
LEMMA StatusFacts ==
  ASSUME NEW x \in Txn, NEW s \in Status, NEW y, y = [x EXCEPT !.status = s]
  PROVE  /\ y \in Txn /\ y.status = s
         /\ y.data = x.data /\ y.writes = x.writes /\ y.file = x.file
BY DEF Txn

\* What canCommit accepts has every packet up to the commit number.
LEMMA CanCommitComplete ==
  ASSUME NEW x \in Txn, NEW n \in SeqNo, CanCommit(x, n)
  PROVE  \A k \in 1..n : x.writes[k] # NoData
BY MaxSeqAssumption DEF CanCommit, Fetch, Written, SeqNo

\* What writeFile appends is a block.
LEMMA BlockType ==
  ASSUME NEW t \in Tsn, NEW x \in Txn, NEW k \in Int
  PROVE  Block(t, x, k) \in Blocks
BY DEF Block, Blocks, Txn

\* The same with a fragment of a line behind it.
LEMMA TornBlockType ==
  ASSUME NEW b \in Blocks, NEW torn \in BOOLEAN
  PROVE  [b EXCEPT !.torn = torn] \in Blocks /\ [b EXCEPT !.torn = torn].tsn = b.tsn
BY DEF Blocks
=============================================================================
