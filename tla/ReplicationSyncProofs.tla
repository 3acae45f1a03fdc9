------------------------ MODULE ReplicationSyncProofs ------------------------
(***************************************************************************)
(* Theorems about Replication while nothing goes wrong: no server crashed, *)
(* no write failed and nothing expired.  Then whatever the clients do, for *)
(* any number of transactions, packets and requests and however the steps  *)
(* of the two servers interleave, the backup commits first and the same.   *)
(*                                                                         *)
(* It is assumed of the constants that payloads have more than one byte    *)
(* (genEcho loses shorter ones) and that newTxn does not draw a number     *)
(* that is still in use; finding_one_byte.cfg and finding_reuse.cfg show   *)
(* what happens otherwise.                                                 *)
(***************************************************************************)
EXTENDS ReplicationProofs

Backup == Other(Main)

(***************************************************************************)
(* p and b are the states of the primary and of the backup, l is the       *)
(* connection of the one that is spoken of, pl and bl are the two logs.    *)
(***************************************************************************)
Runs(p, op) == p.stack # <<>> /\ Head(p.stack).op = op

Awaits(p) == Runs(p, "commit") /\ Head(p.stack).at = "await"

\* What the primary still has to send: in primaryOps() the packet that the
\* backup has served is still the first of the queue.
Remaining(p, l) == IF Runs(p, "sync") /\ l.requests = <<>> THEN Tail(p.queue) ELSE p.queue

\* The roles do not change, and no connection is given up with a request.
RolesKept ==
  /\ srv[Main].up /\ srv[Main].role = "primary"
  /\ srv[Backup].up /\ srv[Backup].role = "backup"
  /\ primaryTxt = Main
  /\ orphans = [s \in Servers |-> {}]

Ping == Packet("PING", 0, 0, Backup)

\* The backup finds the primary, checks once, while it has no transactions,
\* and then it pings.
BackupThread(b, l, registered) ==
  /\ b.target \in {Nobody, Main}
  /\ b.target = Nobody => b.tries = 0 /\ ~b.backup_did_sync
  /\ b.stack \in {<<>>, <<CheckFrame({}, "start")>>, <<CheckFrame({}, "go")>>, <<PingFrame>>}
  /\ \/ l.requests = <<>>
     \/ l.requests = <<Ping>> /\ l.replies = <<>>
  /\ b.stack # <<PingFrame>> => l.requests = <<>>
  /\ b.stack = <<PingFrame>> => l.state = "open"
  /\ ~l.serving
  /\ b.stack = <<CheckFrame({}, "start")>> \/ (~b.backup_did_sync /\ ~b.restarted)
     => registered = Nobody /\ l.requests = <<>>

\* One request is under way, or its reply.
Exchange(l, m) ==
  \/ l.requests = <<m>> /\ l.replies = <<>>
  \/ l.requests = <<>> /\ \E a \in Replies : l.replies = <<a>>

\* The primary connects once, after the first PING, and stays connected.
PrimaryLink(p, l, bl) ==
  /\ p.backup \in {Nobody, Backup}
  /\ p.backup = Nobody => ~p.alive
  /\ ~p.alive => bl = EmptyLog /\ l = Closed
  /\ p.alive => l.state = "open"
  /\ Runs(p, "sync") => p.alive /\ Exchange(l, Head(p.queue))
  /\ Awaits(p) =>
       /\ p.alive /\ p.queue = <<>>
       /\ Exchange(l, Packet("COMMIT", Head(p.stack).tsn, Head(p.stack).seq, NoData))
       /\ l.requests = <<>> => l.replies = <<"ACK">> /\ IsCommitted(bl[Head(p.stack).tsn])
  /\ ~Runs(p, "sync") /\ ~Awaits(p) => l.requests = <<>> /\ l.replies = <<>>

\* What each packet still to be sent says of the two logs and of the others.
PacketOK(m, i, pl, bl, rest) ==
  LET x == pl[m.tsn]
      y == bl[m.tsn]
  IN  /\ m.type = "MAKE_TXN" =>
           /\ m.data \in Files /\ y = NoTxn /\ (x # NoTxn => x.file = m.data)
           /\ \A j \in 1..Len(rest) : rest[j].tsn = m.tsn /\ j # i => i < j
      /\ m.type = "WRITE" =>
           /\ m.data \in Data /\ (x # NoTxn => x.writes[m.seq] = m.data)
           /\ y # NoTxn => y.writes[m.seq] = NoData /\ y.status # "COMMITTED"
           /\ \A j \in 1..Len(rest) :
                rest[j].type = "WRITE" /\ rest[j].tsn = m.tsn /\ j # i => rest[j].seq # m.seq
      /\ m.type = "COMMIT" =>
           /\ x # NoTxn /\ x.status \in {"WRITING", "COMMITTED"} /\ x.data = m.seq
           /\ \A j \in 1..Len(rest) : rest[j].tsn = m.tsn /\ i < j => rest[j].type = "COMMIT"
      /\ m.type = "ABORT" => x = NoTxn

\* What the two logs have of t: the backup is behind by the packets to be sent.
TxnOK(t, x, y, rest) ==
  /\ x # NoTxn /\ y = NoTxn =>
       \E i \in 1..Len(rest) : rest[i].type = "MAKE_TXN" /\ rest[i].tsn = t
  /\ y # NoTxn => y.status \in {"ACTIVE", "COMMITTED"}
  /\ x # NoTxn /\ y # NoTxn =>
       y.file = x.file /\ \A n \in SeqNo : y.writes[n] \in {NoData, x.writes[n]}
  /\ x # NoTxn => \A n \in SeqNo :
       \/ x.writes[n] = NoData
       \/ y # NoTxn /\ y.writes[n] = x.writes[n]
       \/ \E i \in 1..Len(rest) :
            rest[i].type = "WRITE" /\ rest[i].tsn = t /\ rest[i].seq = n
  /\ IsCommitted(y) => x # NoTxn /\ x.status \in {"WRITING", "COMMITTED"} /\ x.data = y.data
  /\ x # NoTxn /\ x.status \in {"WRITING", "COMMITTED"} => CanCommit(x, x.data)
  /\ IsCommitted(x) =>
       \/ IsCommitted(y)
       \/ \E i \in 1..Len(rest) : rest[i].type = "COMMIT" /\ rest[i].tsn = t

Mirrors(pl, bl, rest) ==
  /\ \A i \in 1..Len(rest) : PacketOK(rest[i], i, pl, bl, rest)
  /\ \A t \in Tsn : TxnOK(t, pl[t], bl[t], rest)

\* Where the primary's thread is: the commits an integrity check has behind it
\* and the one that doCommit() is told of are on the backup.
FrameOK(f, pl, bl, alive, rest) ==
  /\ f.op # "ping"
  /\ f.op = "check" =>
       /\ alive /\ f.ret \in {"go", "yes"}
       /\ \A t \in Tsn : IsCommitted(pl[t]) => t \in f.holder \/ IsCommitted(bl[t])
       /\ f.ret = "yes" => f.holder # {} /\ IsCommitted(bl[Highest(f.holder)])
  /\ f.op = "doCommit" =>
       /\ f.ret # "no"
       /\ f.ret = "yes" =>
            \/ IsCommitted(bl[f.tsn])
            \/ ~alive /\ \E i \in 1..Len(rest) : rest[i].type = "COMMIT" /\ rest[i].tsn = f.tsn

\* f is called by g.  commit() is called for the highest transaction of the
\* check, or for the one of doCommit(); while it waits it calls nothing.
CallOK(f, g) ==
  /\ g.op = "commit" => g.at # "await"
  /\ f.op = "commit" =>
       /\ g.op = "check" => g.ret = "go" /\ g.holder # {} /\ f.tsn = Highest(g.holder)
       /\ g.op = "doCommit" => g.ret = "wait" /\ f.tsn = g.tsn

PrimaryStack(stack, pl, bl, alive, rest) ==
  /\ \A i \in 1..Len(stack) : FrameOK(stack[i], pl, bl, alive, rest)
  /\ \A i \in 1..Len(stack) : i < Len(stack) => CallOK(stack[i], stack[i + 1])
  /\ \A t \in Tsn : pl[t] # NoTxn /\ pl[t].status = "WRITING" =>
       \E i \in 1..Len(stack) : stack[i].op = "doCommit" /\ stack[i].tsn = t

PrimarySide(p, l, bl) ==
  LET rest == Remaining(p, l)
  IN  /\ PrimaryLink(p, l, bl)
      /\ Mirrors(p.log, bl, rest)
      /\ PrimaryStack(p.stack, p.log, bl, p.alive, rest)

SyncInv ==
  /\ RolesKept
  /\ BackupThread(srv[Backup], link[Backup], srv[Main].backup)
  /\ PrimarySide(srv[Main], link[Main], srv[Backup].log)

InStep == NoFault => SyncInv

-----------------------------------------------------------------------------
(***************************************************************************)
(* The packets to be sent: one is served, one is queued.                   *)
(***************************************************************************)
\* The packets after the first one.
LEMMA TailFacts ==
  ASSUME NEW rest \in Seq(Forwarded), rest # <<>>
  PROVE  /\ Len(rest) \in Nat \ {0} /\ rest[1] \in Forwarded /\ Head(rest) = rest[1]
         /\ Tail(rest) \in Seq(Forwarded) /\ Len(Tail(rest)) = Len(rest) - 1
         /\ \A i \in 1..Len(Tail(rest)) : i + 1 \in 1..Len(rest) /\ Tail(rest)[i] = rest[i + 1]
         /\ \A i \in 1..Len(rest) : i # 1 => i - 1 \in 1..Len(Tail(rest)) /\ Tail(rest)[i - 1] = rest[i]
<1> DEFINE tl == Tail(rest)
<1>1. Len(rest) \in Nat \ {0} /\ rest[1] \in Forwarded /\ Head(rest) = rest[1]
  BY EmptySeq
<1>2. tl \in Seq(Forwarded) /\ Len(tl) = Len(rest) - 1 /\ \A i \in 1..Len(tl) : tl[i] = rest[i + 1]
  BY HeadTailProperties
<1> HIDE DEF tl
<1>3. \A i \in 1..Len(tl) : i + 1 \in 1..Len(rest) /\ tl[i] = rest[i + 1]
  BY <1>1, <1>2
<1>4. ASSUME NEW i \in 1..Len(rest), i # 1
      PROVE  i - 1 \in 1..Len(tl) /\ tl[i - 1] = rest[i]
  <2>1. i - 1 \in 1..Len(tl) /\ (i - 1) + 1 = i
    BY <1>1, <1>2, <1>4
  <2>2. QED
    BY <1>2, <2>1
<1>5. QED
  BY <1>1, <1>2, <1>3, <1>4 DEF tl

LEMMA AppendFacts ==
  ASSUME NEW rest \in Seq(Forwarded), NEW m \in Forwarded
  PROVE  /\ Len(rest) \in Nat
         /\ Append(rest, m) \in Seq(Forwarded) /\ Len(Append(rest, m)) = Len(rest) + 1
         /\ Append(rest, m)[Len(rest) + 1] = m
         /\ \A i \in 1..Len(rest) : Append(rest, m)[i] = rest[i] /\ i \in 1..(Len(rest) + 1)
         /\ \A i \in 1..(Len(rest) + 1) : i = Len(rest) + 1 \/ i \in 1..Len(rest)
BY AppendProperties

\* A packet after the first is as it was, with the first one gone.
LEMMA PacketAfter ==
  ASSUME NEW pl, NEW bl, NEW rest \in Seq(Forwarded), rest # <<>>,
         \A i \in 1..Len(rest) : PacketOK(rest[i], i, pl, bl, rest),
         NEW k \in 1..Len(Tail(rest))
  PROVE  PacketOK(Tail(rest)[k], k, pl, bl, Tail(rest))
<1> DEFINE tl == Tail(rest)
           m == tl[k]
<1>1. /\ \A i \in 1..Len(tl) : i + 1 \in 1..Len(rest) /\ tl[i] = rest[i + 1]
      /\ Len(tl) \in Nat
  BY TailFacts
<1> HIDE DEF tl
<1>2. k \in 1..Len(tl) /\ k + 1 \in 1..Len(rest) /\ m = rest[k + 1]
  BY <1>1 DEF tl
<1>3. PacketOK(m, k + 1, pl, bl, rest)
  BY <1>2
<1> HIDE DEF m
<1>4. m.type = "MAKE_TXN" => \A j \in 1..Len(tl) : tl[j].tsn = m.tsn /\ j # k => k < j
  BY <1>1, <1>2, <1>3 DEF PacketOK
<1>5. m.type = "WRITE" => \A j \in 1..Len(tl) :
        tl[j].type = "WRITE" /\ tl[j].tsn = m.tsn /\ j # k => tl[j].seq # m.seq
  BY <1>1, <1>2, <1>3 DEF PacketOK
<1>6. m.type = "COMMIT" => \A j \in 1..Len(tl) : tl[j].tsn = m.tsn /\ k < j => tl[j].type = "COMMIT"
  BY <1>1, <1>2, <1>3 DEF PacketOK
<1>7. PacketOK(m, k, pl, bl, tl)
  BY <1>3, <1>4, <1>5, <1>6 DEF PacketOK
<1>8. QED
  BY <1>7 DEF m, tl

\* A transaction that the first packet is not for.
LEMMA TxnAfter ==
  ASSUME NEW u \in Tsn, NEW x, NEW y, NEW rest \in Seq(Forwarded), rest # <<>>,
         TxnOK(u, x, y, rest), Head(rest).tsn # u
  PROVE  TxnOK(u, x, y, Tail(rest))
<1> DEFINE tl == Tail(rest)
<1>1. /\ Head(rest) = rest[1]
      /\ \A i \in 1..Len(rest) : i # 1 => i - 1 \in 1..Len(tl) /\ tl[i - 1] = rest[i]
  BY TailFacts
<1> HIDE DEF tl
<1>2. \A i \in 1..Len(rest) : rest[i].tsn = u => i - 1 \in 1..Len(tl) /\ tl[i - 1] = rest[i]
  BY <1>1
<1>3. (\E i \in 1..Len(rest) : rest[i].type = "MAKE_TXN" /\ rest[i].tsn = u)
        => \E i \in 1..Len(tl) : tl[i].type = "MAKE_TXN" /\ tl[i].tsn = u
  BY <1>2
<1>4. (\E i \in 1..Len(rest) : rest[i].type = "COMMIT" /\ rest[i].tsn = u)
        => \E i \in 1..Len(tl) : tl[i].type = "COMMIT" /\ tl[i].tsn = u
  BY <1>2
<1>5. \A n \in SeqNo :
        (\E i \in 1..Len(rest) : rest[i].type = "WRITE" /\ rest[i].tsn = u /\ rest[i].seq = n)
        => \E i \in 1..Len(tl) : tl[i].type = "WRITE" /\ tl[i].tsn = u /\ tl[i].seq = n
  BY <1>2
<1>6. TxnOK(u, x, y, tl)
  BY <1>3, <1>4, <1>5 DEF TxnOK
<1>7. QED
  BY <1>6 DEF tl

\* The first packet m is served, and the backup's entry for m.tsn becomes y.
LEMMA MirrorsAfter ==
  ASSUME NEW pl \in Log, NEW bl \in Log, NEW rest \in Seq(Forwarded), rest # <<>>,
         Mirrors(pl, bl, rest), NEW y \in Txn \cup {NoTxn},
         \A i \in 1..Len(Tail(rest)) :
           LET m == Tail(rest)[i]
           IN  m.tsn = Head(rest).tsn =>
                 /\ m.type = "MAKE_TXN" => y = NoTxn
                 /\ m.type = "WRITE" /\ y # NoTxn =>
                      y.writes[m.seq] = NoData /\ y.status # "COMMITTED",
         TxnOK(Head(rest).tsn, pl[Head(rest).tsn], y, Tail(rest))
  PROVE  Mirrors(pl, [bl EXCEPT ![Head(rest).tsn] = y], Tail(rest))
<1> DEFINE tl == Tail(rest)
           t == Head(rest).tsn
           new == [bl EXCEPT ![t] = y]
<1>1. t \in Tsn /\ tl \in Seq(Forwarded)
  BY TailFacts DEF Forwarded, WellFormed
<1>2. new[t] = y /\ \A u \in Tsn : u # t => new[u] = bl[u]
  BY <1>1 DEF Log
<1>3. ASSUME NEW i \in 1..Len(tl) PROVE PacketOK(tl[i], i, pl, new, tl)
  <2>1. PacketOK(tl[i], i, pl, bl, tl)
    BY PacketAfter DEF Mirrors
  <2>2. tl[i].tsn \in Tsn
    BY <1>1, ElementOfSeq DEF Forwarded, WellFormed
  <2>3. CASE tl[i].tsn # t
    <3>1. new[tl[i].tsn] = bl[tl[i].tsn]
      BY <1>2, <2>2, <2>3
    <3> HIDE DEF new, tl, t
    <3>2. QED
      BY <2>1, <3>1 DEF PacketOK
  <2>4. CASE tl[i].tsn = t
    <3>1. new[tl[i].tsn] = y
      BY <1>2, <2>4
    <3>2. /\ tl[i].type = "MAKE_TXN" => y = NoTxn
          /\ tl[i].type = "WRITE" /\ y # NoTxn =>
               y.writes[tl[i].seq] = NoData /\ y.status # "COMMITTED"
      BY <2>4
    <3> HIDE DEF new, tl, t
    <3>3. QED
      BY <2>1, <3>1, <3>2 DEF PacketOK
  <2>5. QED
    BY <2>3, <2>4
<1>4. ASSUME NEW u \in Tsn PROVE TxnOK(u, pl[u], new[u], tl)
  <2>1. CASE u = t
    BY <1>2, <2>1
  <2>2. CASE u # t
    <3>1. TxnOK(u, pl[u], bl[u], rest)
      BY DEF Mirrors
    <3>2. TxnOK(u, pl[u], bl[u], tl)
      BY <2>2, <3>1, TxnAfter
    <3>3. new[u] = bl[u]
      BY <1>2, <2>2
    <3> HIDE DEF new, tl, t
    <3>4. QED
      BY <3>2, <3>3
  <2>3. QED
    BY <2>1, <2>2
<1> HIDE DEF new, tl, t
<1>5. Mirrors(pl, new, tl)
  BY <1>3, <1>4 DEF Mirrors
<1>6. QED
  BY <1>5 DEF new, tl, t

\* What is known of the first packet.
LEMMA FirstFacts ==
  ASSUME NEW pl \in Log, NEW bl \in Log, NEW rest \in Seq(Forwarded), rest # <<>>,
         Mirrors(pl, bl, rest)
  PROVE  LET h == Head(rest)
             t == h.tsn
             tl == Tail(rest)
         IN  /\ h \in Forwarded /\ t \in Tsn
             /\ h.type \in {"WRITE", "COMMIT", "ABORT", "MAKE_TXN"}
             /\ h.type \in {"WRITE", "COMMIT"} => h.seq \in SeqNo
             /\ PacketOK(h, 1, pl, bl, rest)
             /\ TxnOK(t, pl[t], bl[t], rest)
             /\ pl[t] \in Txn \cup {NoTxn} /\ bl[t] \in Txn \cup {NoTxn}
             /\ \A i \in 1..Len(tl) : tl[i].tsn = t => tl[i].type # "MAKE_TXN"
             /\ h.type # "MAKE_TXN" /\ pl[t] # NoTxn => bl[t] # NoTxn
             /\ \A i \in 1..Len(rest) : \/ rest[i] = h
                                        \/ i - 1 \in 1..Len(tl) /\ tl[i - 1] = rest[i]
<1> DEFINE h == Head(rest)
           t == h.tsn
           tl == Tail(rest)
<1>1. /\ Len(rest) \in Nat \ {0} /\ h = rest[1] /\ h \in Forwarded
      /\ \A i \in 1..Len(tl) : i + 1 \in 1..Len(rest) /\ tl[i] = rest[i + 1]
      /\ \A i \in 1..Len(rest) : i # 1 => i - 1 \in 1..Len(tl) /\ tl[i - 1] = rest[i]
      /\ Len(tl) \in Nat
  BY TailFacts
<1> HIDE DEF h, tl
<1>2. /\ t \in Tsn /\ h.type \in {"WRITE", "COMMIT", "ABORT", "MAKE_TXN"}
      /\ h.type \in {"WRITE", "COMMIT"} => h.seq \in SeqNo
  BY <1>1 DEF Forwarded, WellFormed
<1>3. 1 \in 1..Len(rest) /\ PacketOK(h, 1, pl, bl, rest)
  BY <1>1 DEF Mirrors
<1>4. TxnOK(t, pl[t], bl[t], rest) /\ pl[t] \in Txn \cup {NoTxn} /\ bl[t] \in Txn \cup {NoTxn}
  BY <1>2 DEF Mirrors, Log
<1>5. ASSUME NEW i \in 1..Len(rest), i # 1, rest[i].tsn = t PROVE rest[i].type # "MAKE_TXN"
  <2>1. PacketOK(rest[i], i, pl, bl, rest)
    BY DEF Mirrors
  <2>2. rest[i].type = "MAKE_TXN" => i < 1
    BY <1>1, <1>3, <1>5, <2>1 DEF PacketOK
  <2>3. QED
    BY <1>1, <2>2
<1>6. \A i \in 1..Len(tl) : tl[i].tsn = t => tl[i].type # "MAKE_TXN"
  BY <1>1, <1>5
<1>7. h.type # "MAKE_TXN" /\ pl[t] # NoTxn => bl[t] # NoTxn
  BY <1>1, <1>4, <1>5 DEF TxnOK
<1>8. \A i \in 1..Len(rest) : rest[i] = h \/ (i - 1 \in 1..Len(tl) /\ tl[i - 1] = rest[i])
  BY <1>1
<1>9. QED
  BY <1>1, <1>2, <1>3, <1>4, <1>6, <1>7, <1>8 DEF h, tl

\* The backup creates a transaction.
LEMMA ServedMake ==
  ASSUME NEW pl \in Log, NEW bl \in Log, NEW rest \in Seq(Forwarded), rest # <<>>,
         Mirrors(pl, bl, rest), Head(rest).type = "MAKE_TXN"
  PROVE  /\ Head(rest).data \in Files /\ bl[Head(rest).tsn] = NoTxn
         /\ Mirrors(pl, [bl EXCEPT ![Head(rest).tsn] = NewEntry(Head(rest).data)], Tail(rest))
<1> DEFINE h == Head(rest)
           t == h.tsn
           tl == Tail(rest)
           x == pl[t]
           y == NewEntry(h.data)
<1>1. /\ t \in Tsn /\ PacketOK(h, 1, pl, bl, rest) /\ TxnOK(t, x, bl[t], rest)
      /\ \A i \in 1..Len(tl) : tl[i].tsn = t => tl[i].type # "MAKE_TXN"
      /\ \A i \in 1..Len(rest) : rest[i] = h \/ (i - 1 \in 1..Len(tl) /\ tl[i - 1] = rest[i])
      /\ \A i \in 1..Len(tl) : tl[i] \in Forwarded
  BY FirstFacts, TailFacts, ElementOfSeq
<1> HIDE DEF h, tl
<1>2. h.type = "MAKE_TXN"
  BY DEF h
<1>3. h.data \in Files /\ bl[t] = NoTxn /\ (x # NoTxn => x.file = h.data)
  BY <1>1, <1>2 DEF PacketOK
<1>4. y \in Txn /\ y.status = "ACTIVE" /\ y.file = h.data /\ y # NoTxn
      /\ \A n \in SeqNo : y.writes[n] = NoData
  BY <1>3, NewEntryType, NoTxnAssumption DEF NewEntry
<1> HIDE DEF y
<1>5. ASSUME NEW n \in SeqNo, x # NoTxn, x.writes[n] # NoData
      PROVE  \E i \in 1..Len(tl) : tl[i].type = "WRITE" /\ tl[i].tsn = t /\ tl[i].seq = n
  <2>1. PICK i \in 1..Len(rest) : rest[i].type = "WRITE" /\ rest[i].tsn = t /\ rest[i].seq = n
    BY <1>1, <1>3, <1>5 DEF TxnOK
  <2>2. i - 1 \in 1..Len(tl) /\ tl[i - 1] = rest[i]
    BY <1>1, <1>2, <2>1
  <2>3. QED
    BY <2>1, <2>2
<1>6. IsCommitted(x) => \E i \in 1..Len(tl) : tl[i].type = "COMMIT" /\ tl[i].tsn = t
  <2>1. SUFFICES ASSUME IsCommitted(x)
                 PROVE  \E i \in 1..Len(tl) : tl[i].type = "COMMIT" /\ tl[i].tsn = t
    OBVIOUS
  <2>2. PICK i \in 1..Len(rest) : rest[i].type = "COMMIT" /\ rest[i].tsn = t
    BY <1>1, <1>3, <2>1 DEF TxnOK, IsCommitted
  <2>3. i - 1 \in 1..Len(tl) /\ tl[i - 1] = rest[i]
    BY <1>1, <1>2, <2>2
  <2>4. QED
    BY <2>2, <2>3
<1>7. TxnOK(t, x, y, tl)
  BY <1>1, <1>3, <1>4, <1>5, <1>6 DEF TxnOK, IsCommitted
<1>8. ASSUME NEW i \in 1..Len(tl), tl[i].tsn = t
      PROVE  /\ tl[i].type = "MAKE_TXN" => y = NoTxn
             /\ tl[i].type = "WRITE" /\ y # NoTxn =>
                  y.writes[tl[i].seq] = NoData /\ y.status # "COMMITTED"
  <2>1. tl[i].type = "WRITE" => tl[i].seq \in SeqNo
    BY <1>1 DEF Forwarded, WellFormed
  <2>2. QED
    BY <1>1, <1>4, <1>8, <2>1
<1>9. Mirrors(pl, [bl EXCEPT ![t] = y], tl)
  BY <1>4, <1>7, <1>8, MirrorsAfter DEF h, tl
<1>10. QED
  BY <1>3, <1>9 DEF h, tl, y

\* What addLogEntry and changeStatus do to an entry that is not WAITING.
LEMMA EntryFacts ==
  ASSUME NEW x \in Txn, NEW n \in SeqNo
  PROVE  /\ \A d \in Data :
              /\ Logged(x, n, d) \in Txn /\ Logged(x, n, d) # NoTxn
              /\ Logged(x, n, d).file = x.file /\ Logged(x, n, d).data = x.data
              /\ Logged(x, n, d).status = IF x.status = "WAITING" THEN "WAITING" ELSE "ACTIVE"
              /\ Logged(x, n, d).writes[n] = d
              /\ \A k \in SeqNo : k # n => Logged(x, n, d).writes[k] = x.writes[k]
         /\ \A s \in Status :
              /\ MarkedFor(x, s, n) \in Txn /\ MarkedFor(x, s, n) # NoTxn
              /\ MarkedFor(x, s, n).file = x.file /\ MarkedFor(x, s, n).writes = x.writes
              /\ MarkedFor(x, s, n).status = s /\ MarkedFor(x, s, n).data = n
<1>1. ASSUME NEW d \in Data
      PROVE  /\ Logged(x, n, d).file = x.file
             /\ Logged(x, n, d).status = IF x.status = "WAITING" THEN "WAITING" ELSE "ACTIVE"
  BY DEF Logged, Txn
<1>2. ASSUME NEW d \in Data
      PROVE  /\ Logged(x, n, d) \in Txn /\ Logged(x, n, d).data = x.data
             /\ Logged(x, n, d).writes = [x.writes EXCEPT ![n] = d]
  BY LoggedFacts
<1>3. x.writes \in [SeqNo -> Data \cup {NoData}]
  BY DEF Txn
<1>4. ASSUME NEW s \in Status PROVE MarkedFor(x, s, n).file = x.file
  BY DEF MarkedFor, Txn
<1>5. ASSUME NEW d \in Data
      PROVE  /\ Logged(x, n, d) \in Txn /\ Logged(x, n, d) # NoTxn
             /\ Logged(x, n, d).writes[n] = d
             /\ \A k \in SeqNo : k # n => Logged(x, n, d).writes[k] = x.writes[k]
  BY <1>2, <1>3, NoTxnAssumption
<1>6. ASSUME NEW s \in Status
      PROVE  /\ MarkedFor(x, s, n) \in Txn /\ MarkedFor(x, s, n) # NoTxn
             /\ MarkedFor(x, s, n).writes = x.writes
             /\ MarkedFor(x, s, n).status = s /\ MarkedFor(x, s, n).data = n
  BY MarkedFacts, NoTxnAssumption
<1>7. QED
  BY <1>1, <1>2, <1>4, <1>5, <1>6

\* The backup logs a packet, or knows nothing of the transaction any more, and
\* then the primary does not either.
LEMMA ServedWrite ==
  ASSUME NEW pl \in Log, NEW bl \in Log, NEW rest \in Seq(Forwarded), rest # <<>>,
         Mirrors(pl, bl, rest), Head(rest).type = "WRITE"
  PROVE  LET h == Head(rest)
             y == bl[h.tsn]
         IN  /\ h.data \in Data
             /\ y = NoTxn => Mirrors(pl, bl, Tail(rest))
             /\ y # NoTxn =>
                  /\ AddLogEntryCode(y, h.seq) = "ok" /\ y.status = "ACTIVE"
                  /\ Mirrors(pl, [bl EXCEPT ![h.tsn] = Logged(y, h.seq, h.data)], Tail(rest))
<1> DEFINE h == Head(rest)
           t == h.tsn
           n == h.seq
           tl == Tail(rest)
           x == pl[t]
           y == bl[t]
<1>1. /\ t \in Tsn /\ PacketOK(h, 1, pl, bl, rest) /\ TxnOK(t, x, y, rest)
      /\ y \in Txn \cup {NoTxn}
      /\ \A i \in 1..Len(tl) : tl[i].tsn = t => tl[i].type # "MAKE_TXN"
      /\ \A i \in 1..Len(rest) : rest[i] = h \/ (i - 1 \in 1..Len(tl) /\ tl[i - 1] = rest[i])
      /\ h.type # "MAKE_TXN" /\ pl[t] # NoTxn => bl[t] # NoTxn
      /\ h.type \in {"WRITE", "COMMIT"} => n \in SeqNo
  BY FirstFacts
<1>2. /\ \A i \in 1..Len(tl) : i + 1 \in 1..Len(rest) /\ tl[i] = rest[i + 1]
      /\ \A i \in 1..Len(tl) : tl[i] \in Forwarded
  BY TailFacts, ElementOfSeq
<1>3. h.type = "WRITE"
  OBVIOUS
<1> HIDE DEF h, tl
<1>4. /\ n \in SeqNo /\ h.data \in Data /\ (x # NoTxn => x.writes[n] = h.data /\ y # NoTxn)
      /\ y # NoTxn => y.writes[n] = NoData /\ y.status # "COMMITTED"
  BY <1>1, <1>3 DEF PacketOK
<1>5. y = NoTxn => Mirrors(pl, bl, tl)
  <2>1. SUFFICES ASSUME y = NoTxn PROVE Mirrors(pl, bl, tl)
    OBVIOUS
  <2>2. x = NoTxn
    BY <1>4, <2>1
  <2>3. TxnOK(t, x, NoTxn, tl)
    BY <2>2 DEF TxnOK, IsCommitted
  <2>4. Mirrors(pl, [bl EXCEPT ![t] = NoTxn], tl)
    BY <1>1, <2>3, MirrorsAfter DEF h, tl
  <2>5. [bl EXCEPT ![t] = NoTxn] = bl
    BY <1>1, <2>1 DEF Log
  <2>6. QED
    BY <2>4, <2>5
<1>6. ASSUME y # NoTxn
      PROVE  /\ AddLogEntryCode(y, n) = "ok" /\ y.status = "ACTIVE"
             /\ Mirrors(pl, [bl EXCEPT ![t] = Logged(y, n, h.data)], tl)
  <2> DEFINE z == Logged(y, n, h.data)
  <2>1. y.status = "ACTIVE" /\ y \in Txn
    BY <1>1, <1>4, <1>6 DEF TxnOK
  <2>2. AddLogEntryCode(y, n) = "ok"
    BY <1>4, <1>6, <2>1, MaxSeqAssumption DEF AddLogEntryCode, SeqNo
  <2>3. /\ z \in Txn /\ z.status = "ACTIVE" /\ z.file = y.file /\ z.writes[n] = h.data /\ z # NoTxn
        /\ \A k \in SeqNo : k # n => z.writes[k] = y.writes[k]
    BY <1>4, <2>1, EntryFacts
  <2> HIDE DEF z
  <2>4. ASSUME NEW k \in SeqNo, x # NoTxn, x.writes[k] # NoData, z.writes[k] # x.writes[k]
        PROVE  \E i \in 1..Len(tl) : tl[i].type = "WRITE" /\ tl[i].tsn = t /\ tl[i].seq = k
    <3>1. k # n /\ z.writes[k] = y.writes[k]
      BY <1>4, <2>3, <2>4
    <3>2. PICK i \in 1..Len(rest) : rest[i].type = "WRITE" /\ rest[i].tsn = t /\ rest[i].seq = k
      BY <1>1, <1>6, <2>4, <3>1 DEF TxnOK
    <3>3. i - 1 \in 1..Len(tl) /\ tl[i - 1] = rest[i]
      BY <1>1, <3>1, <3>2
    <3>4. QED
      BY <3>2, <3>3
  <2>5. IsCommitted(x) => \E i \in 1..Len(tl) : tl[i].type = "COMMIT" /\ tl[i].tsn = t
    <3>1. SUFFICES ASSUME IsCommitted(x)
                   PROVE  \E i \in 1..Len(tl) : tl[i].type = "COMMIT" /\ tl[i].tsn = t
      OBVIOUS
    <3>2. PICK i \in 1..Len(rest) : rest[i].type = "COMMIT" /\ rest[i].tsn = t
      BY <1>1, <2>1, <3>1 DEF TxnOK, IsCommitted
    <3>3. i - 1 \in 1..Len(tl) /\ tl[i - 1] = rest[i]
      BY <1>1, <1>3, <3>2
    <3>4. QED
      BY <3>2, <3>3
  <2>6. x # NoTxn => /\ z.file = x.file
                     /\ \A k \in SeqNo : z.writes[k] \in {NoData, x.writes[k]}
    BY <1>1, <1>4, <1>6, <2>3 DEF TxnOK
  <2>7. x # NoTxn /\ x.status \in {"WRITING", "COMMITTED"} => CanCommit(x, x.data)
    BY <1>1 DEF TxnOK
  <2>8. TxnOK(t, x, z, tl)
    BY <2>3, <2>4, <2>5, <2>6, <2>7 DEF TxnOK, IsCommitted
  <2>9. ASSUME NEW i \in 1..Len(tl), tl[i].tsn = t
        PROVE  /\ tl[i].type = "MAKE_TXN" => z = NoTxn
               /\ tl[i].type = "WRITE" /\ z # NoTxn =>
                    z.writes[tl[i].seq] = NoData /\ z.status # "COMMITTED"
    <3>1. SUFFICES ASSUME tl[i].type = "WRITE" PROVE z.writes[tl[i].seq] = NoData
      BY <1>1, <2>3, <2>9
    <3>2. tl[i].seq \in SeqNo
      BY <1>2, <3>1 DEF Forwarded, WellFormed
    <3>3. i + 1 \in 1..Len(rest) /\ i + 1 # 1 /\ rest[i + 1] = tl[i]
      BY <1>2
    <3>4. tl[i].seq # n
      BY <1>1, <1>3, <2>9, <3>1, <3>3 DEF PacketOK
    <3>5. PacketOK(rest[i + 1], i + 1, pl, bl, rest)
      BY <3>3 DEF Mirrors
    <3>6. y.writes[tl[i].seq] = NoData
      BY <1>6, <2>9, <3>1, <3>3, <3>5 DEF PacketOK
    <3>7. QED
      BY <2>3, <3>2, <3>4, <3>6
  <2>10. Mirrors(pl, [bl EXCEPT ![t] = z], tl)
    BY <2>3, <2>8, <2>9, MirrorsAfter DEF h, tl
  <2>11. QED
    BY <2>1, <2>2, <2>10 DEF z
<1>7. QED
  BY <1>4, <1>5, <1>6 DEF h, tl

\* With no packet of t to be sent but COMMIT, the backup has all of it: it can
\* commit what the primary can.
LEMMA CaughtUp ==
  ASSUME NEW t \in Tsn, NEW x \in Txn, NEW y \in Txn \cup {NoTxn}, NEW rest, NEW later,
         TxnOK(t, x, y, rest), x.status \in {"WRITING", "COMMITTED"}, x.data \in SeqNo,
         \A i \in 1..Len(rest) : rest[i].tsn = t => rest[i].type = "COMMIT"
  PROVE  /\ y \in Txn /\ y # NoTxn
         /\ y.writes = x.writes /\ y.file = x.file
         /\ CommitCode(y, x.data) = IF IsCommitted(y) THEN "already" ELSE "committed"
         /\ CanCommit(y, x.data)
         /\ IsCommitted(y) => y.data = x.data /\ TxnOK(t, x, y, later)
         /\ IsCommitted(MarkedFor(y, "COMMITTED", x.data))
         /\ TxnOK(t, x, MarkedFor(y, "COMMITTED", x.data), later)
<1>1. x # NoTxn
  BY NoTxnAssumption
<1>2. y # NoTxn /\ y \in Txn
  BY <1>1 DEF TxnOK
<1>3. \A n \in SeqNo : y.writes[n] = x.writes[n]
  BY <1>1, <1>2 DEF TxnOK
<1>4. y.writes \in [SeqNo -> Data \cup {NoData}] /\ x.writes \in [SeqNo -> Data \cup {NoData}]
  BY <1>2 DEF Txn
<1>5. y.writes = x.writes
  BY <1>3, <1>4
<1>6. CanCommit(x, x.data) /\ y.file = x.file /\ y.status \in {"ACTIVE", "COMMITTED"}
  BY <1>1, <1>2 DEF TxnOK
<1>7. CanCommit(y, x.data)
  BY <1>5, <1>6 DEF CanCommit, Fetch, Written
<1>8. IsCommitted(y) => y.data = x.data
  BY DEF TxnOK
<1>9. CommitCode(y, x.data) = IF IsCommitted(y) THEN "already" ELSE "committed"
  <2>1. x.data >= 1
    BY MaxSeqAssumption DEF SeqNo
  <2>2. QED
    <3>1. CASE IsCommitted(y)
      BY <1>2, <1>8, <3>1 DEF CommitCode, IsCommitted
    <3>2. CASE ~IsCommitted(y)
      <4>1. y.status = "ACTIVE" /\ ~(x.data < 1)
        BY <1>2, <1>6, <2>1, <3>2, MaxSeqAssumption DEF IsCommitted, SeqNo
      <4>2. QED
        BY <1>2, <1>7, <3>2, <4>1 DEF CommitCode
    <3>3. QED
      BY <3>1, <3>2
<1> DEFINE z == MarkedFor(y, "COMMITTED", x.data)
<1>10. /\ z \in Txn /\ z # NoTxn /\ z.file = y.file /\ z.writes = y.writes
       /\ z.status = "COMMITTED" /\ z.data = x.data
  <2>1. "COMMITTED" \in Status
    BY DEF Status
  <2>2. QED
    BY <1>2, <2>1, EntryFacts
<1> HIDE DEF z
<1>11. IsCommitted(z)
  BY <1>10 DEF IsCommitted
<1>12. TxnOK(t, x, z, later)
  BY <1>1, <1>5, <1>6, <1>10, <1>11 DEF TxnOK
<1>13. IsCommitted(y) => TxnOK(t, x, y, later)
  BY <1>1, <1>2, <1>5, <1>6, <1>8 DEF TxnOK
<1>14. QED
  BY <1>2, <1>5, <1>6, <1>7, <1>8, <1>9, <1>11, <1>12, <1>13 DEF z

\* The backup carries out a COMMIT, or has done so before.
LEMMA ServedCommit ==
  ASSUME NEW pl \in GoodLog, NEW bl \in Log, NEW rest \in Seq(Forwarded), rest # <<>>,
         Mirrors(pl, bl, rest), Head(rest).type = "COMMIT"
  PROVE  LET h == Head(rest)
             y == bl[h.tsn]
         IN  /\ y \in Txn /\ y # NoTxn /\ y.status \in {"ACTIVE", "COMMITTED"}
             /\ CommitCode(y, h.seq) = IF IsCommitted(y) THEN "already" ELSE "committed"
             /\ IsCommitted(y) => Mirrors(pl, bl, Tail(rest))
             /\ Mirrors(pl, [bl EXCEPT ![h.tsn] = MarkedFor(y, "COMMITTED", h.seq)], Tail(rest))
<1> DEFINE h == Head(rest)
           t == h.tsn
           tl == Tail(rest)
           x == pl[t]
           y == bl[t]
<1>a. pl \in Log
  BY DEF GoodLog
<1>1. /\ t \in Tsn /\ PacketOK(h, 1, pl, bl, rest) /\ TxnOK(t, x, y, rest)
      /\ x \in Txn \cup {NoTxn} /\ y \in Txn \cup {NoTxn}
      /\ h.type \in {"WRITE", "COMMIT"} => h.seq \in SeqNo
  BY <1>a, FirstFacts
<1>2. /\ \A i \in 1..Len(tl) : i + 1 \in 1..Len(rest) /\ tl[i] = rest[i + 1]
      /\ \A i \in 1..Len(rest) : i # 1 => i - 1 \in 1..Len(tl) /\ tl[i - 1] = rest[i]
      /\ Len(rest) \in Nat /\ h = rest[1]
  BY TailFacts
<1>3. h.type = "COMMIT"
  OBVIOUS
<1> HIDE DEF h, tl
<1>4. /\ h.seq \in SeqNo /\ x # NoTxn /\ x \in Txn /\ x.status \in {"WRITING", "COMMITTED"}
      /\ x.data = h.seq
      /\ \A j \in 1..Len(rest) : rest[j].tsn = t /\ 1 < j => rest[j].type = "COMMIT"
  BY <1>1, <1>3 DEF PacketOK
<1>5. \A j \in 1..Len(rest) : rest[j].tsn = t => rest[j].type = "COMMIT"
  BY <1>2, <1>3, <1>4
<1>6. \A i \in 1..Len(tl) : tl[i].tsn = t => tl[i].type = "COMMIT"
  BY <1>2, <1>5
<1> DEFINE z == MarkedFor(y, "COMMITTED", h.seq)
<1>7. /\ y \in Txn /\ y # NoTxn
      /\ CommitCode(y, h.seq) = IF IsCommitted(y) THEN "already" ELSE "committed"
      /\ IsCommitted(y) => TxnOK(t, x, y, tl)
      /\ TxnOK(t, x, z, tl)
  <2> HIDE DEF x, y, t
  <2>1. x.data \in SeqNo
    BY <1>4
  <2>2. /\ y \in Txn /\ y # NoTxn
        /\ CommitCode(y, x.data) = IF IsCommitted(y) THEN "already" ELSE "committed"
        /\ IsCommitted(y) => TxnOK(t, x, y, tl)
        /\ TxnOK(t, x, MarkedFor(y, "COMMITTED", x.data), tl)
    BY <1>1, <1>4, <1>5, <2>1, CaughtUp
  <2>3. QED
    BY <1>4, <2>2
<1>8. z \in Txn
  <2>1. "COMMITTED" \in Status
    BY DEF Status
  <2>2. QED
    BY <1>4, <1>7, <2>1, EntryFacts
<1> HIDE DEF z
<1>9. Mirrors(pl, [bl EXCEPT ![t] = z], tl)
  BY <1>a, <1>6, <1>7, <1>8, MirrorsAfter DEF h, tl
<1>10. IsCommitted(y) => Mirrors(pl, bl, tl)
  <2>1. SUFFICES ASSUME IsCommitted(y) PROVE Mirrors(pl, bl, tl)
    OBVIOUS
  <2>2. Mirrors(pl, [bl EXCEPT ![t] = y], tl)
    BY <1>a, <1>6, <1>7, <2>1, MirrorsAfter DEF h, tl
  <2>3. [bl EXCEPT ![t] = y] = bl
    BY <1>1 DEF Log
  <2>4. QED
    BY <2>2, <2>3
<1>11. y.status \in {"ACTIVE", "COMMITTED"}
  BY <1>1, <1>7 DEF TxnOK
<1>12. QED
  BY <1>7, <1>9, <1>10, <1>11 DEF h, tl, z

\* The backup drops a transaction that the primary dropped.
LEMMA ServedAbort ==
  ASSUME NEW pl \in Log, NEW bl \in Log, NEW rest \in Seq(Forwarded), rest # <<>>,
         Mirrors(pl, bl, rest), Head(rest).type = "ABORT"
  PROVE  /\ ~IsCommitted(bl[Head(rest).tsn])
         /\ Mirrors(pl, [bl EXCEPT ![Head(rest).tsn] = NoTxn], Tail(rest))
         /\ bl[Head(rest).tsn] = NoTxn => Mirrors(pl, bl, Tail(rest))
<1> DEFINE h == Head(rest)
           t == h.tsn
           tl == Tail(rest)
<1>1. t \in Tsn /\ PacketOK(h, 1, pl, bl, rest) /\ TxnOK(t, pl[t], bl[t], rest)
  BY FirstFacts
<1>2. h.type = "ABORT"
  OBVIOUS
<1> HIDE DEF h, tl
<1>3. pl[t] = NoTxn
  BY <1>1, <1>2 DEF PacketOK
<1>4. ~IsCommitted(bl[t]) /\ TxnOK(t, pl[t], NoTxn, tl)
  BY <1>1, <1>3 DEF TxnOK, IsCommitted
<1>5. Mirrors(pl, [bl EXCEPT ![t] = NoTxn], tl)
  BY <1>4, MirrorsAfter DEF h, tl
<1>6. bl[t] = NoTxn => [bl EXCEPT ![t] = NoTxn] = bl
  BY <1>1 DEF Log
<1>7. QED
  BY <1>4, <1>5, <1>6 DEF h, tl

-----------------------------------------------------------------------------
(***************************************************************************)
(* The primary changes its entry for t to z and queues a packet, or only   *)
(* changes the entry.                                                      *)
(***************************************************************************)
\* A packet of t agrees with entry z for t.
Agrees(m, z) ==
  /\ m.type = "MAKE_TXN" /\ z # NoTxn => z.file = m.data
  /\ m.type = "WRITE" /\ z # NoTxn => z.writes[m.seq] = m.data
  /\ m.type = "COMMIT" => z # NoTxn /\ z.status \in {"WRITING", "COMMITTED"} /\ z.data = m.seq
  /\ m.type = "ABORT" => z = NoTxn

LEMMA MirrorsChanged ==
  ASSUME NEW pl \in Log, NEW bl \in Log, NEW rest \in Seq(Forwarded), Mirrors(pl, bl, rest),
         NEW t \in Tsn, NEW z,
         \A i \in 1..Len(rest) : rest[i].tsn = t => Agrees(rest[i], z),
         TxnOK(t, z, bl[t], rest)
  PROVE  Mirrors([pl EXCEPT ![t] = z], bl, rest)
<1> DEFINE new == [pl EXCEPT ![t] = z]
<1>1. new[t] = z /\ \A u \in Tsn : u # t => new[u] = pl[u]
  BY DEF Log
<1> HIDE DEF new
<1>2. ASSUME NEW i \in 1..Len(rest) PROVE PacketOK(rest[i], i, new, bl, rest)
  <2>1. PacketOK(rest[i], i, pl, bl, rest)
    BY DEF Mirrors
  <2>2. rest[i].tsn \in Tsn
    BY ElementOfSeq DEF Forwarded, WellFormed
  <2>3. CASE rest[i].tsn = t
    BY <1>1, <2>1, <2>3 DEF PacketOK, Agrees
  <2>4. CASE rest[i].tsn # t
    <3>1. new[rest[i].tsn] = pl[rest[i].tsn]
      BY <1>1, <2>2, <2>4
    <3>2. QED
      BY <2>1, <3>1 DEF PacketOK
  <2>5. QED
    BY <2>3, <2>4
<1>3. ASSUME NEW u \in Tsn PROVE TxnOK(u, new[u], bl[u], rest)
  <2>1. CASE u = t
    BY <1>1, <2>1
  <2>2. CASE u # t
    <3>1. TxnOK(u, pl[u], bl[u], rest) /\ new[u] = pl[u]
      BY <1>1, <2>2 DEF Mirrors
    <3>2. QED
      BY <3>1
  <2>3. QED
    BY <2>1, <2>2
<1>4. Mirrors(new, bl, rest)
  BY <1>2, <1>3 DEF Mirrors
<1>5. QED
  BY <1>4 DEF new

\* One packet more to be sent.
LEMMA TxnMore ==
  ASSUME NEW u \in Tsn, NEW x, NEW y, NEW rest \in Seq(Forwarded), NEW m \in Forwarded,
         TxnOK(u, x, y, rest)
  PROVE  TxnOK(u, x, y, Append(rest, m))
<1> DEFINE all == Append(rest, m)
<1>1. Len(rest) \in Nat /\ Len(all) = Len(rest) + 1 /\ \A i \in 1..Len(rest) : all[i] = rest[i]
  BY AppendFacts
<1> HIDE DEF all
<1>2. \A i \in 1..Len(rest) : i \in 1..Len(all) /\ all[i] = rest[i]
  BY <1>1
<1>3. (\E i \in 1..Len(rest) : rest[i].type = "MAKE_TXN" /\ rest[i].tsn = u)
        => \E i \in 1..Len(all) : all[i].type = "MAKE_TXN" /\ all[i].tsn = u
  BY <1>2
<1>4. (\E i \in 1..Len(rest) : rest[i].type = "COMMIT" /\ rest[i].tsn = u)
        => \E i \in 1..Len(all) : all[i].type = "COMMIT" /\ all[i].tsn = u
  BY <1>2
<1>5. \A n \in SeqNo :
        (\E i \in 1..Len(rest) : rest[i].type = "WRITE" /\ rest[i].tsn = u /\ rest[i].seq = n)
        => \E i \in 1..Len(all) : all[i].type = "WRITE" /\ all[i].tsn = u /\ all[i].seq = n
  BY <1>2
<1>6. TxnOK(u, x, y, all)
  BY <1>3, <1>4, <1>5 DEF TxnOK
<1>7. QED
  BY <1>6 DEF all

\* The packets that are there when m is queued.
LEMMA PacketMore ==
  ASSUME NEW pl, NEW bl, NEW rest \in Seq(Forwarded), NEW m \in Forwarded,
         NEW i \in 1..Len(rest), PacketOK(rest[i], i, pl, bl, rest),
         rest[i].tsn = m.tsn =>
           /\ rest[i].type = "WRITE" /\ m.type = "WRITE" => m.seq # rest[i].seq
           /\ rest[i].type = "COMMIT" => m.type = "COMMIT"
  PROVE  PacketOK(Append(rest, m)[i], i, pl, bl, Append(rest, m))
<1> DEFINE all == Append(rest, m)
<1>1. /\ Len(rest) \in Nat /\ Len(all) = Len(rest) + 1 /\ all[Len(rest) + 1] = m
      /\ \A j \in 1..Len(rest) : all[j] = rest[j]
      /\ \A j \in 1..(Len(rest) + 1) : j = Len(rest) + 1 \/ j \in 1..Len(rest)
  BY AppendFacts
<1> HIDE DEF all
<1>2. \A j \in 1..Len(all) : (j \in 1..Len(rest) /\ all[j] = rest[j]) \/ (i < j /\ j # i /\ all[j] = m)
  BY <1>1
<1>3. all[i] = rest[i]
  BY <1>1
<1>4. PacketOK(rest[i], i, pl, bl, all)
  BY <1>2 DEF PacketOK
<1>5. QED
  BY <1>3, <1>4 DEF all

\* Packet m of t is queued.
LEMMA MirrorsQueued ==
  ASSUME NEW pl \in Log, NEW bl \in Log, NEW rest \in Seq(Forwarded), NEW m \in Forwarded,
         Mirrors(pl, bl, rest), NEW z,
         \A i \in 1..Len(rest) : rest[i].tsn = m.tsn =>
           /\ Agrees(rest[i], z)
           /\ rest[i].type = "WRITE" /\ m.type = "WRITE" => m.seq # rest[i].seq
           /\ rest[i].type = "COMMIT" => m.type = "COMMIT"
           /\ m.type # "MAKE_TXN",
         Agrees(m, z),
         m.type = "MAKE_TXN" => m.data \in Files /\ bl[m.tsn] = NoTxn,
         m.type = "WRITE" =>
           /\ m.data \in Data
           /\ bl[m.tsn] # NoTxn => bl[m.tsn].writes[m.seq] = NoData /\ ~IsCommitted(bl[m.tsn]),
         TxnOK(m.tsn, z, bl[m.tsn], Append(rest, m))
  PROVE  Mirrors([pl EXCEPT ![m.tsn] = z], bl, Append(rest, m))
<1> DEFINE new == [pl EXCEPT ![m.tsn] = z]
           all == Append(rest, m)
<1>1. m.tsn \in Tsn
  BY DEF Forwarded, WellFormed
<1>2. new[m.tsn] = z /\ \A u \in Tsn : u # m.tsn => new[u] = pl[u]
  BY <1>1 DEF Log
<1>3. /\ Len(rest) \in Nat /\ Len(all) = Len(rest) + 1 /\ all[Len(rest) + 1] = m
      /\ \A j \in 1..Len(rest) : all[j] = rest[j]
      /\ \A j \in 1..(Len(rest) + 1) : j = Len(rest) + 1 \/ j \in 1..Len(rest)
  BY AppendFacts
<1> HIDE DEF new
<1>4. ASSUME NEW i \in 1..Len(rest) PROVE PacketOK(all[i], i, new, bl, all)
  <2>1. PacketOK(rest[i], i, pl, bl, rest)
    BY DEF Mirrors
  <2>2. rest[i].tsn \in Tsn
    BY ElementOfSeq DEF Forwarded, WellFormed
  <2>3. PacketOK(rest[i], i, new, bl, rest)
    <3>1. CASE rest[i].tsn = m.tsn
      BY <1>2, <2>1, <3>1 DEF PacketOK, Agrees
    <3>2. CASE rest[i].tsn # m.tsn
      <4>1. new[rest[i].tsn] = pl[rest[i].tsn]
        BY <1>2, <2>2, <3>2
      <4>2. QED
        BY <2>1, <4>1 DEF PacketOK
    <3>3. QED
      BY <3>1, <3>2
  <2>4. QED
    BY <2>3, PacketMore
<1> HIDE DEF all
<1>5. PacketOK(m, Len(rest) + 1, new, bl, all)
  <2>1. \A j \in 1..Len(all) : j = Len(rest) + 1 \/ (j \in 1..Len(rest) /\ all[j] = rest[j])
    BY <1>3
  <2>2. m.type = "MAKE_TXN" =>
          \A j \in 1..Len(all) : all[j].tsn = m.tsn /\ j # Len(rest) + 1 => Len(rest) + 1 < j
    BY <2>1
  <2>3. m.type = "WRITE" =>
          \A j \in 1..Len(all) : all[j].type = "WRITE" /\ all[j].tsn = m.tsn /\ j # Len(rest) + 1
                                 => all[j].seq # m.seq
    BY <2>1
  <2>4. \A j \in 1..Len(all) : ~(Len(rest) + 1 < j)
    BY <1>3
  <2>5. bl[m.tsn] # NoTxn /\ ~IsCommitted(bl[m.tsn]) => bl[m.tsn].status # "COMMITTED"
    BY DEF IsCommitted
  <2>6. QED
    BY <1>2, <2>2, <2>3, <2>4, <2>5 DEF PacketOK, Agrees
<1>6. ASSUME NEW i \in 1..Len(all) PROVE PacketOK(all[i], i, new, bl, all)
  BY <1>3, <1>4, <1>5
<1>7. ASSUME NEW u \in Tsn PROVE TxnOK(u, new[u], bl[u], all)
  <2>1. CASE u = m.tsn
    BY <1>2, <2>1 DEF all
  <2>2. CASE u # m.tsn
    <3>1. TxnOK(u, pl[u], bl[u], rest) /\ new[u] = pl[u]
      BY <1>2, <2>2 DEF Mirrors
    <3>2. TxnOK(u, pl[u], bl[u], all)
      BY <3>1, TxnMore DEF all
    <3>3. QED
      BY <3>1, <3>2
  <2>3. QED
    BY <2>1, <2>2
<1>8. Mirrors(new, bl, all)
  BY <1>6, <1>7 DEF Mirrors
<1>9. QED
  BY <1>8 DEF new, all

-----------------------------------------------------------------------------
(***************************************************************************)
(* What a primary does to its own log.  Between two requests no entry is   *)
(* WRITING.                                                                *)
(***************************************************************************)
NoneWriting(pl) == \A t \in Tsn : pl[t] # NoTxn => pl[t].status # "WRITING"

\* An entry that is neither WRITING nor COMMITTED: the backup did not commit
\* it either and is not told to.
LEMMA OpenEntry ==
  ASSUME NEW pl \in Log, NEW bl \in Log, NEW rest \in Seq(Forwarded), Mirrors(pl, bl, rest),
         NEW t \in Tsn, pl[t] # NoTxn, pl[t].status \notin {"WRITING", "COMMITTED"}
  PROVE  /\ pl[t] \in Txn /\ bl[t] \in Txn \cup {NoTxn}
         /\ TxnOK(t, pl[t], bl[t], rest) /\ ~IsCommitted(bl[t]) /\ ~IsCommitted(pl[t])
         /\ \A i \in 1..Len(rest) : rest[i].tsn = t =>
              /\ rest[i].type \in {"MAKE_TXN", "WRITE"}
              /\ rest[i].type = "MAKE_TXN" => pl[t].file = rest[i].data
              /\ rest[i].type = "WRITE" =>
                   /\ rest[i].data \in Data /\ rest[i].seq \in SeqNo
                   /\ pl[t].writes[rest[i].seq] = rest[i].data
<1>1. pl[t] \in Txn /\ bl[t] \in Txn \cup {NoTxn}
  BY DEF Log
<1>2. TxnOK(t, pl[t], bl[t], rest)
  BY DEF Mirrors
<1>3. ~IsCommitted(bl[t]) /\ ~IsCommitted(pl[t])
  BY <1>2 DEF TxnOK, IsCommitted
<1>4. ASSUME NEW i \in 1..Len(rest), rest[i].tsn = t
      PROVE  /\ rest[i].type \in {"MAKE_TXN", "WRITE"}
             /\ rest[i].type = "MAKE_TXN" => pl[t].file = rest[i].data
             /\ rest[i].type = "WRITE" =>
                  /\ rest[i].data \in Data /\ rest[i].seq \in SeqNo
                  /\ pl[t].writes[rest[i].seq] = rest[i].data
  <2>1. PacketOK(rest[i], i, pl, bl, rest)
    BY DEF Mirrors
  <2>2. rest[i] \in Forwarded
    BY ElementOfSeq
  <2>3. /\ rest[i].type \in {"WRITE", "COMMIT", "ABORT", "MAKE_TXN"}
        /\ rest[i].type = "WRITE" => rest[i].seq \in SeqNo
    BY <2>2 DEF Forwarded, WellFormed
  <2> QED
    BY <1>4, <2>1, <2>3 DEF PacketOK
<1> QED
  BY <1>1, <1>2, <1>3, <1>4

\* NEW_TXN.
LEMMA QueuesMakeTxn ==
  ASSUME NEW pl \in Log, NEW bl \in Log, NEW rest \in Seq(Forwarded), Mirrors(pl, bl, rest),
         NEW t \in Tsn, NEW f \in Files, pl[t] = NoTxn, bl[t] = NoTxn,
         \A i \in 1..Len(rest) : rest[i].tsn # t
  PROVE  Mirrors([pl EXCEPT ![t] = NewEntry(f)], bl, Append(rest, Packet("MAKE_TXN", t, 0, f)))
<1> DEFINE m == Packet("MAKE_TXN", t, 0, f)
           z == NewEntry(f)
           all == Append(rest, m)
<1>1. m \in Forwarded
  BY MaxSeqAssumption DEF Packet, Forwarded, WellFormed, Packets
<1>2. m.type = "MAKE_TXN" /\ m.tsn = t /\ m.data = f
  BY DEF Packet
<1>3. z \in Txn /\ z # NoTxn /\ z.status = "ACTIVE"
  BY NewEntryType, NoTxnAssumption
<1>4. z.file = f /\ \A n \in SeqNo : z.writes[n] = NoData
  BY DEF NewEntry
<1> HIDE DEF m, z
<1>5. Len(all) \in 1..Len(all) /\ all[Len(all)] = m
  BY <1>1, AppendFacts
<1> HIDE DEF all
<1>6. TxnOK(t, z, bl[t], all)
  BY <1>2, <1>3, <1>4, <1>5 DEF TxnOK, IsCommitted
<1>7. Mirrors([pl EXCEPT ![m.tsn] = z], bl, all)
  <2>1. Agrees(m, z)
    BY <1>2, <1>4 DEF Agrees
  <2>2. /\ m.type = "MAKE_TXN" => m.data \in Files /\ bl[m.tsn] = NoTxn
        /\ m.type # "WRITE"
        /\ TxnOK(m.tsn, z, bl[m.tsn], all)
        /\ \A i \in 1..Len(rest) : rest[i].tsn # m.tsn
    BY <1>2, <1>6
  <2> QED
    BY <1>1, <2>1, <2>2, MirrorsQueued DEF all
<1> QED
  BY <1>2, <1>7 DEF m, z, all

\* A WRITE that addLogEntry takes.
LEMMA QueuesWrite ==
  ASSUME NEW pl \in Log, NEW bl \in Log, NEW rest \in Seq(Forwarded), Mirrors(pl, bl, rest),
         NEW m \in Forwarded, m.type = "WRITE", m.data \in Data,
         pl[m.tsn] # NoTxn, pl[m.tsn].status # "WRITING", AddLogEntryCode(pl[m.tsn], m.seq) = "ok"
  PROVE  Mirrors([pl EXCEPT ![m.tsn] = Logged(pl[m.tsn], m.seq, m.data)], bl, Append(rest, m))
<1> DEFINE t == m.tsn
           n == m.seq
           x == pl[t]
           y == bl[t]
           z == Logged(x, n, m.data)
           all == Append(rest, m)
<1>1. t \in Tsn /\ n \in SeqNo
  BY DEF Forwarded, WellFormed
<1>2. x.status # "COMMITTED" /\ x.writes[n] = NoData
  BY DEF AddLogEntryCode
<1>3. /\ x \in Txn /\ y \in Txn \cup {NoTxn}
      /\ TxnOK(t, x, y, rest) /\ ~IsCommitted(y) /\ ~IsCommitted(x)
      /\ \A i \in 1..Len(rest) : rest[i].tsn = t =>
           /\ rest[i].type \in {"MAKE_TXN", "WRITE"}
           /\ rest[i].type = "MAKE_TXN" => x.file = rest[i].data
           /\ rest[i].type = "WRITE" =>
                rest[i].data \in Data /\ rest[i].seq \in SeqNo /\ x.writes[rest[i].seq] = rest[i].data
  BY <1>1, <1>2, OpenEntry
<1>4. /\ z \in Txn /\ z # NoTxn /\ z.file = x.file /\ z.data = x.data
      /\ z.status \in {"WAITING", "ACTIVE"} /\ z.writes[n] = m.data
      /\ \A k \in SeqNo : k # n => z.writes[k] = x.writes[k]
  BY <1>1, <1>3, EntryFacts
<1>5. /\ Len(rest) \in Nat /\ Len(all) = Len(rest) + 1 /\ all[Len(rest) + 1] = m
      /\ \A j \in 1..Len(rest) : all[j] = rest[j]
  BY AppendFacts
<1>6. TxnOK(t, x, y, all)
  BY <1>1, <1>3, TxnMore
<1>7. x # NoTxn /\ (y # NoTxn => y.writes[n] = NoData)
  BY <1>1, <1>2, <1>3 DEF TxnOK
<1> HIDE DEF z, all, x, y, t, n
<1>8. TxnOK(t, z, y, all)
  <2>1. Len(all) \in 1..Len(all) /\ all[Len(all)] = m /\ m.type = "WRITE" /\ m.tsn = t /\ m.seq = n
    BY <1>5 DEF t, n
  <2>2. y # NoTxn => y.file = z.file /\ \A k \in SeqNo : y.writes[k] \in {NoData, z.writes[k]}
    BY <1>4, <1>6, <1>7 DEF TxnOK
  <2>3. ASSUME NEW k \in SeqNo
        PROVE  \/ z.writes[k] = NoData
               \/ y # NoTxn /\ y.writes[k] = z.writes[k]
               \/ \E i \in 1..Len(all) : all[i].type = "WRITE" /\ all[i].tsn = t /\ all[i].seq = k
    BY <1>4, <1>6, <1>7, <2>1 DEF TxnOK
  <2> QED
    BY <1>3, <1>4, <1>6, <1>7, <2>2, <2>3 DEF TxnOK, IsCommitted
<1>9. ASSUME NEW i \in 1..Len(rest), rest[i].tsn = t
      PROVE  /\ Agrees(rest[i], z) /\ rest[i].type # "COMMIT"
             /\ rest[i].type = "WRITE" => rest[i].seq # n
  <2>1. rest[i].type = "WRITE" => rest[i].seq # n
    BY <1>2, <1>3, <1>9, NoDataAssumption
  <2> QED
    BY <1>3, <1>4, <1>9, <2>1 DEF Agrees
<1>10. Agrees(m, z)
  BY <1>4 DEF Agrees, n
<1>11. Mirrors([pl EXCEPT ![m.tsn] = z], bl, all)
  <2>1. ASSUME NEW i \in 1..Len(rest), rest[i].tsn = m.tsn
        PROVE  /\ Agrees(rest[i], z)
               /\ rest[i].type = "WRITE" /\ m.type = "WRITE" => m.seq # rest[i].seq
               /\ rest[i].type = "COMMIT" => m.type = "COMMIT"
               /\ m.type # "MAKE_TXN"
    BY <1>9, <2>1 DEF t, n
  <2>2. /\ bl[m.tsn] # NoTxn => bl[m.tsn].writes[m.seq] = NoData /\ ~IsCommitted(bl[m.tsn])
        /\ TxnOK(m.tsn, z, bl[m.tsn], all)
    BY <1>3, <1>7, <1>8 DEF t, n, y
  <2> QED
    BY <1>10, <2>1, <2>2, MirrorsQueued DEF all
<1> QED
  BY <1>11 DEF z, all, x, t, n

\* An ABORT of a transaction that is not COMMITTED.
LEMMA QueuesAbort ==
  ASSUME NEW pl \in Log, NEW bl \in Log, NEW rest \in Seq(Forwarded), Mirrors(pl, bl, rest),
         NEW m \in Forwarded, m.type = "ABORT",
         pl[m.tsn] # NoTxn, pl[m.tsn].status # "WRITING", AbortCode(pl[m.tsn]) = "ok"
  PROVE  Mirrors([pl EXCEPT ![m.tsn] = NoTxn], bl, Append(rest, m))
<1> DEFINE t == m.tsn
           all == Append(rest, m)
<1>1. t \in Tsn /\ pl[t].status # "COMMITTED"
  BY DEF Forwarded, WellFormed, AbortCode
<1>2. /\ TxnOK(t, pl[t], bl[t], rest) /\ ~IsCommitted(bl[t])
      /\ \A i \in 1..Len(rest) : rest[i].tsn = t => rest[i].type \in {"MAKE_TXN", "WRITE"}
  BY <1>1, OpenEntry
<1> HIDE DEF all
<1>3. TxnOK(t, NoTxn, bl[t], all)
  BY <1>2 DEF TxnOK, IsCommitted
<1>4. /\ Agrees(m, NoTxn)
      /\ \A i \in 1..Len(rest) : rest[i].tsn = t => Agrees(rest[i], NoTxn) /\ rest[i].type # "COMMIT"
  BY <1>2 DEF Agrees
<1>5. Mirrors([pl EXCEPT ![t] = NoTxn], bl, all)
  BY <1>3, <1>4, MirrorsQueued DEF all
<1> QED
  BY <1>5 DEF all

\* commit() marks an entry WAITING, or WRITING when it can be committed.
LEMMA MarksEntry ==
  ASSUME NEW pl \in Log, NEW bl \in Log, NEW rest \in Seq(Forwarded), Mirrors(pl, bl, rest),
         NEW t \in Tsn, NEW n \in SeqNo, NEW s \in {"WAITING", "WRITING"},
         pl[t] # NoTxn, pl[t].status \notin {"WRITING", "COMMITTED"},
         s = "WRITING" => CanCommit(pl[t], n)
  PROVE  Mirrors([pl EXCEPT ![t] = MarkedFor(pl[t], s, n)], bl, rest)
<1> DEFINE x == pl[t]
           y == bl[t]
           z == MarkedFor(x, s, n)
<1>1. /\ x \in Txn /\ y \in Txn \cup {NoTxn}
      /\ TxnOK(t, x, y, rest) /\ ~IsCommitted(y) /\ ~IsCommitted(x)
      /\ \A i \in 1..Len(rest) : rest[i].tsn = t =>
           /\ rest[i].type \in {"MAKE_TXN", "WRITE"}
           /\ rest[i].type = "MAKE_TXN" => x.file = rest[i].data
           /\ rest[i].type = "WRITE" => x.writes[rest[i].seq] = rest[i].data
  BY OpenEntry
<1>2. s \in Status
  BY DEF Status
<1>3. /\ z \in Txn /\ z # NoTxn /\ z.file = x.file /\ z.writes = x.writes
      /\ z.status = s /\ z.data = n
  BY <1>1, <1>2, EntryFacts
<1>4. x # NoTxn /\ (s = "WRITING" => CanCommit(x, n))
  OBVIOUS
<1> HIDE DEF x, y, z
<1>5. s = "WRITING" => CanCommit(z, z.data)
  BY <1>3, <1>4 DEF CanCommit, Fetch, Written
<1>6. TxnOK(t, z, y, rest)
  BY <1>1, <1>3, <1>4, <1>5 DEF TxnOK, IsCommitted
<1>7. \A i \in 1..Len(rest) : rest[i].tsn = t => Agrees(rest[i], z)
  BY <1>1, <1>3 DEF Agrees
<1>8. Mirrors([pl EXCEPT ![t] = z], bl, rest)
  BY <1>6, <1>7, MirrorsChanged DEF y
<1> QED
  BY <1>8 DEF x, z

\* commit() queues a COMMIT, for an entry that is to be committed.
LEMMA QueuesCommit ==
  ASSUME NEW pl \in Log, NEW bl \in Log, NEW rest \in Seq(Forwarded), Mirrors(pl, bl, rest),
         NEW m \in Forwarded, m.type = "COMMIT", pl[m.tsn] # NoTxn,
         pl[m.tsn].status \in {"WRITING", "COMMITTED"}, pl[m.tsn].data = m.seq
  PROVE  Mirrors(pl, bl, Append(rest, m))
<1> DEFINE t == m.tsn
           x == pl[t]
<1>1. t \in Tsn
  BY DEF Forwarded, WellFormed
<1>2. TxnOK(t, x, bl[t], Append(rest, m))
  BY <1>1, TxnMore DEF Mirrors
<1>3. Agrees(m, x)
  BY DEF Agrees
<1>4. ASSUME NEW i \in 1..Len(rest), rest[i].tsn = t PROVE Agrees(rest[i], x)
  <2>1. PacketOK(rest[i], i, pl, bl, rest)
    BY DEF Mirrors
  <2> QED
    BY <1>4, <2>1 DEF PacketOK, Agrees
<1>5. [pl EXCEPT ![t] = x] = pl
  BY <1>1 DEF Log
<1> HIDE DEF x
<1>6. Mirrors([pl EXCEPT ![t] = x], bl, Append(rest, m))
  BY <1>2, <1>3, <1>4, MirrorsQueued
<1> QED
  BY <1>5, <1>6

\* doCommit() commits what the backup committed or will be told to commit.
LEMMA CommitsEntry ==
  ASSUME NEW pl \in Log, NEW bl \in Log, NEW rest \in Seq(Forwarded), Mirrors(pl, bl, rest),
         NEW t \in Tsn, pl[t] # NoTxn, pl[t].status = "WRITING",
         \/ IsCommitted(bl[t])
         \/ \E i \in 1..Len(rest) : rest[i].type = "COMMIT" /\ rest[i].tsn = t
  PROVE  Mirrors([pl EXCEPT ![t].status = "COMMITTED"], bl, rest)
<1> DEFINE x == pl[t]
           y == bl[t]
           z == [x EXCEPT !.status = "COMMITTED"]
<1>1. x \in Txn /\ x # NoTxn /\ TxnOK(t, x, y, rest) /\ x.status = "WRITING"
  BY DEF Log, Mirrors
<1>2. "COMMITTED" \in Status
  BY DEF Status
<1>3. /\ z \in Txn /\ z.status = "COMMITTED" /\ z.data = x.data /\ z.writes = x.writes
      /\ z.file = x.file
  BY <1>1, <1>2, StatusFacts
<1>4. z # NoTxn
  BY <1>3, NoTxnAssumption
<1>5. [pl EXCEPT ![t].status = "COMMITTED"] = [pl EXCEPT ![t] = z]
  BY DEF Log
<1> HIDE DEF x, z
<1>6. CanCommit(z, z.data)
  BY <1>1, <1>3 DEF TxnOK, CanCommit, Fetch, Written
<1>7. TxnOK(t, z, y, rest)
  BY <1>1, <1>3, <1>4, <1>6 DEF TxnOK
<1>8. ASSUME NEW i \in 1..Len(rest), rest[i].tsn = t PROVE Agrees(rest[i], z)
  <2>1. PacketOK(rest[i], i, pl, bl, rest)
    BY DEF Mirrors
  <2>2. pl[rest[i].tsn] = x
    BY <1>8 DEF x
  <2> QED
    BY <1>1, <1>3, <1>4, <2>1, <2>2 DEF PacketOK, Agrees
<1>9. Mirrors([pl EXCEPT ![t] = z], bl, rest)
  BY <1>7, <1>8, MirrorsChanged
<1> QED
  BY <1>5, <1>9

-----------------------------------------------------------------------------
(***************************************************************************)
(* The primary's call stack.                                               *)
(***************************************************************************)
\* A stack and the one below its innermost frame.
LEMMA FramesBelow ==
  ASSUME NEW stack \in Seq(Frames), stack # <<>>
  PROVE  /\ Len(stack) \in Nat \ {0} /\ Head(stack) = stack[1]
         /\ Tail(stack) \in Seq(Frames) /\ Len(Tail(stack)) = Len(stack) - 1
         /\ \A i \in 1..Len(Tail(stack)) : i + 1 \in 1..Len(stack) /\ Tail(stack)[i] = stack[i + 1]
         /\ \A i \in 1..Len(stack) :
              i # 1 => i - 1 \in 1..Len(Tail(stack)) /\ Tail(stack)[i - 1] = stack[i]
         /\ Tail(stack) # <<>> => Head(Tail(stack)) = stack[2] /\ 1 < Len(stack)
<1> DEFINE below == Tail(stack)
<1>1. Len(stack) \in Nat \ {0} /\ Head(stack) = stack[1]
  BY EmptySeq
<1>2. /\ below \in Seq(Frames) /\ Len(below) = Len(stack) - 1
      /\ \A i \in 1..Len(below) : below[i] = stack[i + 1]
  BY HeadTailProperties
<1>3. below # <<>> => Len(below) # 0 /\ Head(below) = below[1]
  BY <1>2, EmptySeq
<1> HIDE DEF below
<1>4. \A i \in 1..Len(below) : i + 1 \in 1..Len(stack) /\ below[i] = stack[i + 1]
  BY <1>1, <1>2
<1>5. ASSUME NEW i \in 1..Len(stack), i # 1 PROVE i - 1 \in 1..Len(below) /\ below[i - 1] = stack[i]
  <2>1. i - 1 \in 1..Len(below) /\ (i - 1) + 1 = i
    BY <1>1, <1>2, <1>5
  <2> QED
    BY <1>2, <2>1
<1>6. below # <<>> => Head(below) = stack[2] /\ 1 < Len(stack)
  <2> SUFFICES ASSUME below # <<>> PROVE Head(below) = stack[2] /\ 1 < Len(stack)
    OBVIOUS
  <2>1. 1 \in 1..Len(below) /\ 1 + 1 = 2 /\ 1 < Len(stack)
    BY <1>1, <1>2, <1>3
  <2> QED
    BY <1>2, <1>3, <2>1
<1> QED
  BY <1>1, <1>2, <1>4, <1>5, <1>6 DEF below

\* A stack with one more frame.
LEMMA FramesAbove ==
  ASSUME NEW stack \in Seq(Frames), NEW f \in Frames
  PROVE  LET all == <<f>> \o stack
         IN  /\ Len(stack) \in Nat /\ all \in Seq(Frames) /\ Len(all) = Len(stack) + 1
             /\ all[1] = f /\ Head(all) = f /\ Tail(all) = stack /\ all # <<>>
             /\ \A i \in 1..Len(stack) : i + 1 \in 1..Len(all) /\ all[i + 1] = stack[i]
             /\ \A i \in 1..Len(all) : i # 1 => i - 1 \in 1..Len(stack) /\ all[i] = stack[i - 1]
             /\ stack # <<>> => Head(stack) = all[2]
             /\ 1 < Len(all) => stack # <<>>
<1> DEFINE all == <<f>> \o stack
<1>1. /\ all \in Seq(Frames) /\ Len(all) = Len(stack) + 1
      /\ \A i \in 1..(Len(stack) + 1) : all[i] = IF i <= 1 THEN f ELSE stack[i - 1]
      /\ Len(stack) \in Nat
  <2>1. <<f>> \in Seq(Frames) /\ Len(<<f>>) = 1 /\ <<f>>[1] = f
    OBVIOUS
  <2> QED
    BY <2>1, ConcatProperties, LenProperties
<1>2. (stack = <<>> <=> Len(stack) = 0) /\ (stack # <<>> => Head(stack) = stack[1])
  BY EmptySeq
<1>3. Head(all) = f /\ all # <<>>
  OBVIOUS
<1>4. Tail(all) = stack
  <2>1. /\ Tail(all) \in Seq(Frames) /\ Len(Tail(all)) = Len(all) - 1
        /\ \A i \in 1..Len(Tail(all)) : Tail(all)[i] = all[i + 1]
    BY <1>1, <1>3, HeadTailProperties
  <2> DEFINE tl == Tail(all)
  <2> HIDE DEF all, tl
  <2>2. tl \in Seq(Frames) /\ Len(tl) = Len(stack)
    BY <1>1, <2>1 DEF tl
  <2>3. ASSUME NEW i \in 1..Len(tl) PROVE tl[i] = stack[i]
    <3>1. i + 1 \in 1..(Len(stack) + 1) /\ ~(i + 1 <= 1) /\ (i + 1) - 1 = i
      BY <1>1, <2>2
    <3>2. tl[i] = all[i + 1]
      BY <2>1 DEF tl
    <3> QED
      BY <1>1, <3>1, <3>2
  <2>4. tl = stack
    BY <2>2, <2>3, SeqEqual
  <2> QED
    BY <2>4 DEF tl
<1> HIDE DEF all
<1>5. all[1] = f /\ (stack # <<>> => Head(stack) = all[2]) /\ (1 < Len(all) => stack # <<>>)
  BY <1>1, <1>2
<1>6. ASSUME NEW i \in 1..Len(stack) PROVE i + 1 \in 1..Len(all) /\ all[i + 1] = stack[i]
  <2>1. i + 1 \in 1..(Len(stack) + 1) /\ ~(i + 1 <= 1) /\ (i + 1) - 1 = i
    BY <1>1
  <2> QED
    BY <1>1, <2>1
<1>7. ASSUME NEW i \in 1..Len(all), i # 1 PROVE i - 1 \in 1..Len(stack) /\ all[i] = stack[i - 1]
  BY <1>1, <1>7
<1> QED
  BY <1>1, <1>3, <1>4, <1>5, <1>6, <1>7 DEF all

\* A call.
LEMMA Calls ==
  ASSUME NEW stack \in Seq(Frames), NEW f \in Frames, NEW pl, NEW bl, NEW alive, NEW rest,
         PrimaryStack(stack, pl, bl, alive, rest), FrameOK(f, pl, bl, alive, rest),
         stack # <<>> => CallOK(f, Head(stack))
  PROVE  PrimaryStack(<<f>> \o stack, pl, bl, alive, rest)
<1> DEFINE all == <<f>> \o stack
<1>1. /\ Len(stack) \in Nat /\ Len(all) = Len(stack) + 1 /\ all[1] = f
      /\ \A i \in 1..Len(stack) : i + 1 \in 1..Len(all) /\ all[i + 1] = stack[i]
      /\ \A i \in 1..Len(all) : i # 1 => i - 1 \in 1..Len(stack) /\ all[i] = stack[i - 1]
      /\ stack # <<>> => Head(stack) = all[2]
      /\ 1 < Len(all) => stack # <<>>
  BY FramesAbove
<1> HIDE DEF all
<1>2. \A i \in 1..Len(all) : FrameOK(all[i], pl, bl, alive, rest)
  BY <1>1 DEF PrimaryStack
<1>3. ASSUME NEW i \in 1..Len(all), i < Len(all) PROVE CallOK(all[i], all[i + 1])
  <2>1. CASE i = 1
    BY <1>1, <1>3, <2>1
  <2>2. CASE i # 1
    <3>1. i - 1 \in 1..Len(stack) /\ i - 1 < Len(stack) /\ (i - 1) + 1 = i /\ i \in 1..Len(stack)
      BY <1>1, <1>3, <2>2
    <3>2. all[i] = stack[i - 1] /\ all[i + 1] = stack[i]
      BY <1>1, <2>2, <3>1
    <3> QED
      BY <3>1, <3>2 DEF PrimaryStack
  <2> QED
    BY <2>1, <2>2
<1>4. ASSUME NEW t \in Tsn, pl[t] # NoTxn, pl[t].status = "WRITING"
      PROVE  \E i \in 1..Len(all) : all[i].op = "doCommit" /\ all[i].tsn = t
  <2>1. PICK i \in 1..Len(stack) : stack[i].op = "doCommit" /\ stack[i].tsn = t
    BY <1>4 DEF PrimaryStack
  <2>2. i + 1 \in 1..Len(all) /\ all[i + 1] = stack[i]
    BY <1>1
  <2> QED
    BY <2>1, <2>2
<1>5. PrimaryStack(all, pl, bl, alive, rest)
  BY <1>2, <1>3, <1>4 DEF PrimaryStack
<1> QED
  BY <1>5 DEF all

\* What the stack says of the innermost frame, and the stack after a return
\* from a function other than doCommit().
LEMMA Returns ==
  ASSUME NEW stack \in Seq(Frames), stack # <<>>, NEW pl, NEW bl, NEW alive, NEW rest,
         PrimaryStack(stack, pl, bl, alive, rest)
  PROVE  /\ FrameOK(Head(stack), pl, bl, alive, rest)
         /\ Tail(stack) # <<>> => CallOK(Head(stack), Head(Tail(stack)))
         /\ Head(stack).op # "doCommit" => PrimaryStack(Tail(stack), pl, bl, alive, rest)
<1> DEFINE below == Tail(stack)
<1>1. /\ Len(stack) \in Nat \ {0} /\ Head(stack) = stack[1]
      /\ Len(below) = Len(stack) - 1
      /\ \A i \in 1..Len(below) : i + 1 \in 1..Len(stack) /\ below[i] = stack[i + 1]
      /\ \A i \in 1..Len(stack) : i # 1 => i - 1 \in 1..Len(below) /\ below[i - 1] = stack[i]
      /\ below # <<>> => Head(below) = stack[2] /\ 1 < Len(stack)
  BY FramesBelow
<1> HIDE DEF below
<1>2. 1 \in 1..Len(stack) /\ 1 + 1 = 2
  BY <1>1
<1>3. FrameOK(stack[1], pl, bl, alive, rest) /\ (1 < Len(stack) => CallOK(stack[1], stack[2]))
  BY <1>2 DEF PrimaryStack
<1>4. ASSUME Head(stack).op # "doCommit" PROVE PrimaryStack(below, pl, bl, alive, rest)
  <2>1. \A i \in 1..Len(below) : FrameOK(below[i], pl, bl, alive, rest)
    BY <1>1 DEF PrimaryStack
  <2>2. ASSUME NEW i \in 1..Len(below), i < Len(below) PROVE CallOK(below[i], below[i + 1])
    <3>1. i + 1 \in 1..Len(stack) /\ i + 1 < Len(stack) /\ i + 1 \in 1..Len(below)
      BY <1>1, <2>2
    <3>2. below[i] = stack[i + 1] /\ below[i + 1] = stack[(i + 1) + 1]
      BY <1>1, <3>1
    <3> QED
      BY <3>1, <3>2 DEF PrimaryStack
  <2>3. ASSUME NEW t \in Tsn, pl[t] # NoTxn, pl[t].status = "WRITING"
        PROVE  \E i \in 1..Len(below) : below[i].op = "doCommit" /\ below[i].tsn = t
    <3>1. PICK i \in 1..Len(stack) : stack[i].op = "doCommit" /\ stack[i].tsn = t
      BY <2>3 DEF PrimaryStack
    <3>2. i # 1
      BY <1>1, <1>4, <3>1
    <3> QED
      BY <1>1, <3>1, <3>2
  <2> QED
    BY <2>1, <2>2, <2>3 DEF PrimaryStack
<1> QED
  BY <1>1, <1>3, <1>4 DEF below

\* The innermost frame changes, not what it is a frame of.
LEMMA Continues ==
  ASSUME NEW stack \in Seq(Frames), stack # <<>>, NEW pl, NEW bl, NEW alive, NEW rest,
         PrimaryStack(stack, pl, bl, alive, rest),
         NEW f \in Frames, f.op = Head(stack).op, f.op = "doCommit" => f.tsn = Head(stack).tsn,
         FrameOK(f, pl, bl, alive, rest),
         Tail(stack) # <<>> => CallOK(f, Head(Tail(stack)))
  PROVE  PrimaryStack(<<f>> \o Tail(stack), pl, bl, alive, rest)
<1> DEFINE below == Tail(stack)
           all == <<f>> \o below
<1>1. CASE f.op # "doCommit"
  BY <1>1, Returns, FramesBelow, Calls
<1>2. CASE f.op = "doCommit"
  <2>1. /\ Len(stack) \in Nat \ {0} /\ Head(stack) = stack[1] /\ below \in Seq(Frames)
        /\ Len(below) = Len(stack) - 1
        /\ \A i \in 1..Len(stack) : i # 1 => i - 1 \in 1..Len(below) /\ below[i - 1] = stack[i]
        /\ Len(below) # 0 => below # <<>>
        /\ below # <<>> => Head(below) = stack[2]
    BY FramesBelow, EmptySeq
  <2>2. /\ Len(all) = Len(below) + 1 /\ all[1] = f
        /\ \A i \in 1..Len(all) : i # 1 => i - 1 \in 1..Len(below) /\ all[i] = below[i - 1]
    BY <2>1, FramesAbove
  <2> HIDE DEF all, below
  <2>3. Len(all) = Len(stack)
    BY <2>1, <2>2
  <2>4. \A i \in 1..Len(all) : i \in 1..Len(stack) /\ (i # 1 => all[i] = stack[i])
    BY <2>1, <2>2, <2>3
  <2>5. \A i \in 1..Len(all) : FrameOK(all[i], pl, bl, alive, rest)
    BY <2>2, <2>4 DEF PrimaryStack
  <2>6. ASSUME NEW i \in 1..Len(all), i < Len(all) PROVE CallOK(all[i], all[i + 1])
    <3>1. i + 1 \in 1..Len(all) /\ i + 1 # 1
      BY <2>1, <2>3, <2>6
    <3>2. all[i + 1] = stack[i + 1]
      BY <2>4, <3>1
    <3>3. CASE i = 1
      <4>1. below # <<>> /\ all[1 + 1] = Head(below)
        BY <2>1, <2>2, <2>3, <2>6, <3>2, <3>3
      <4>2. CallOK(f, Head(below))
        BY <4>1 DEF below
      <4> QED
        BY <2>2, <3>3, <4>1, <4>2
    <3>4. CASE i # 1
      BY <2>3, <2>4, <2>6, <3>2, <3>4 DEF PrimaryStack
    <3> QED
      BY <3>3, <3>4
  <2>7. \A i \in 1..Len(stack) : stack[i].op = "doCommit" =>
          i \in 1..Len(all) /\ all[i].op = "doCommit" /\ all[i].tsn = stack[i].tsn
    BY <1>2, <2>1, <2>2, <2>3, <2>4
  <2>8. \A t \in Tsn : pl[t] # NoTxn /\ pl[t].status = "WRITING" =>
          \E i \in 1..Len(all) : all[i].op = "doCommit" /\ all[i].tsn = t
    BY <2>7 DEF PrimaryStack
  <2>9. PrimaryStack(all, pl, bl, alive, rest)
    BY <2>5, <2>6, <2>8 DEF PrimaryStack
  <2> QED
    BY <2>9 DEF all, below
<1> QED
  BY <1>1, <1>2

\* While the primary is connected, its stack does not depend on what is to be
\* sent, and the backup may commit more.
LEMMA StackKept ==
  ASSUME NEW stack, NEW pl, NEW bl, NEW new, NEW rest, NEW later,
         PrimaryStack(stack, pl, bl, TRUE, rest),
         \A i \in 1..Len(stack) : stack[i] \in Frames,
         \A t \in Tsn : IsCommitted(bl[t]) => IsCommitted(new[t])
  PROVE  PrimaryStack(stack, pl, new, TRUE, later)
<1>1. ASSUME NEW i \in 1..Len(stack) PROVE FrameOK(stack[i], pl, new, TRUE, later)
  <2> DEFINE f == stack[i]
  <2>1. FrameOK(f, pl, bl, TRUE, rest)
    BY DEF PrimaryStack
  <2>2. f \in Frames
    OBVIOUS
  <2> HIDE DEF f
  <2>3. f.op = "check" /\ f.ret = "yes" => Highest(f.holder) \in Tsn
    <3> SUFFICES ASSUME f.op = "check", f.ret = "yes" PROVE Highest(f.holder) \in Tsn
      OBVIOUS
    <3>1. f.holder \in SUBSET Tsn /\ f.holder # {}
      BY <2>1, <2>2 DEF FrameOK, Frames
    <3> QED
      BY <3>1, HighestIn
  <2>4. f.op = "doCommit" => f.tsn \in Tsn
    BY <2>2 DEF Frames
  <2>5. FrameOK(f, pl, new, TRUE, later)
    BY <2>1, <2>3, <2>4 DEF FrameOK
  <2> QED
    BY <2>5 DEF f
<1> QED
  BY <1>1 DEF PrimaryStack

\* Between two requests.
LEMMA IdleStack ==
  ASSUME NEW pl, NEW bl, NEW alive, NEW rest
  PROVE  PrimaryStack(<<>>, pl, bl, alive, rest) <=> NoneWriting(pl)
BY DEF PrimaryStack, NoneWriting

-----------------------------------------------------------------------------
(***************************************************************************)
(* The backup serves a packet of the primary.                              *)
(***************************************************************************)
LEMMA BackupFacts ==
  /\ Main \in Servers /\ Backup \in Servers /\ Backup # Main /\ Other(Backup) = Main
  /\ Servers = {Main, Backup} /\ Nobody \notin {Main, Backup}
BY ServersAssumption, OtherServer, NobodyAssumption DEF Backup

Answered(l, a) == [l EXCEPT !.requests = Tail(@), !.replies = @ \o <<a>>, !.serving = FALSE]

LEMMA PeerReceived ==
  ASSUME NetworkOK, NEW r \in Servers, NEW m, NEW a, Received(r, m, "peer", <<a>>, FALSE)
  PROVE  link' = [link EXCEPT ![Other(r)] = Answered(link[Other(r)], a)] /\ orphans' = orphans
<1> DEFINE s == Other(r)
<1>1. /\ link' = [link EXCEPT ![s].requests = Tail(@), ![s].replies = @ \o <<a>>,
                              ![s].serving = FALSE]
      /\ orphans' = orphans
  BY DEF Received
<1>2. s \in Servers
  BY OtherServer
<1> HIDE DEF s
<1>3. link' = [link EXCEPT ![s] = Answered(link[s], a)]
  BY <1>1, <1>2 DEF NetworkOK, Answered
<1> QED
  BY <1>1, <1>3 DEF s

\* Only the log of a backup changes.
LEMMA BackupLogs ==
  ASSUME ServersOK, srv[Backup].role = "backup", NEW l, NEW m,
         \/ srv' = [srv EXCEPT ![Backup].log = l, ![Backup].queue = Queued(Backup, m)]
         \/ srv' = [srv EXCEPT ![Backup].log = l]
         \/ srv' = srv /\ l = srv[Backup].log
  PROVE  srv' = [srv EXCEPT ![Backup] = [srv[Backup] EXCEPT !.log = l]]
<1>1. Backup \in Servers /\ srv[Backup] \in ServerStates /\ srv \in [Servers -> ServerStates]
  BY BackupFacts, ServerFacts DEF ServersOK
<1>2. Queued(Backup, m) = srv[Backup].queue
  BY DEF Queued
<1> DEFINE q == srv[Backup].queue
           v == [srv[Backup] EXCEPT !.log = l]
<1>3. CASE srv' = [srv EXCEPT ![Backup].log = l, ![Backup].queue = Queued(Backup, m)]
  <2>1. srv' = [srv EXCEPT ![Backup].log = l, ![Backup].queue = q]
    BY <1>2, <1>3
  <2>2. srv' = [srv EXCEPT ![Backup] = [srv[Backup] EXCEPT !.log = l, !.queue = q]]
    BY <1>1, <2>1
  <2>3. [srv[Backup] EXCEPT !.log = l, !.queue = q] = v
    BY <1>1 DEF ServerStates
  <2> QED
    BY <2>2, <2>3
<1>4. CASE srv' = [srv EXCEPT ![Backup].log = l]
  BY <1>1, <1>4
<1>5. CASE srv' = srv /\ l = srv[Backup].log
  <2>1. v = srv[Backup]
    BY <1>1, <1>5 DEF ServerStates
  <2> QED
    BY <1>1, <1>5, <2>1
<1> QED
  BY <1>3, <1>4, <1>5

\* Without faults a packet that is to be sent, here the first one, has the
\* effect on the backup that it had on the primary.
LEMMA BackupServes ==
  ASSUME TypeInv, srv[Backup].role = "backup", NoFault, NoFault',
         NEW rest \in Seq(Forwarded), rest # <<>>,
         Mirrors(srv[Main].log, srv[Backup].log, rest), Handle(Backup, Head(rest), "peer")
  PROVE  \E l \in Log, a \in Replies :
           /\ srv' = [srv EXCEPT ![Backup] = [srv[Backup] EXCEPT !.log = l]]
           /\ link' = [link EXCEPT ![Main] = Answered(link[Main], a)]
           /\ orphans' = orphans
           /\ Mirrors(srv[Main].log, l, Tail(rest))
           /\ \A t \in Tsn : IsCommitted(srv[Backup].log[t]) => IsCommitted(l[t])
           /\ Head(rest).type = "COMMIT" => a = "ACK" /\ IsCommitted(l[Head(rest).tsn])
<1> DEFINE m == Head(rest)
           t == m.tsn
           pl == srv[Main].log
           bl == srv[Backup].log
           y == bl[t]
<1>1. /\ ServersOK /\ NetworkOK /\ pl \in GoodLog /\ pl \in Log /\ bl \in Log
      /\ Backup \in Servers /\ Other(Backup) = Main
  BY BackupFacts, ServerFacts DEF TypeInv
<1>2. m \in Forwarded /\ t \in Tsn /\ y \in Txn \cup {NoTxn}
  <2>1. m \in Forwarded
    BY HeadTailProperties
  <2>2. t \in Tsn
    BY <2>1 DEF Forwarded, WellFormed
  <2> QED
    BY <1>1, <2>1, <2>2 DEF Log
<1>3. m.type \in {"WRITE", "COMMIT", "ABORT", "MAKE_TXN"}
  BY <1>2 DEF Forwarded
<1>4. ASSUME NEW x \in Txn \cup {NoTxn}, NEW l, l = [bl EXCEPT ![t] = x], IsCommitted(y) => IsCommitted(x)
      PROVE  l \in Log /\ l[t] = x /\ \A u \in Tsn : IsCommitted(bl[u]) => IsCommitted(l[u])
  BY <1>1, <1>2, <1>4 DEF Log
<1>5. "ACK" \in Replies /\ \A c : ReplyFor(c) \in Replies
  BY DEF Replies, ReplyFor
<1>6. ASSUME NEW a, Received(Backup, m, "peer", <<a>>, FALSE)
      PROVE  link' = [link EXCEPT ![Main] = Answered(link[Main], a)] /\ orphans' = orphans
  BY <1>1, <1>6, PeerReceived
<1> HIDE DEF m
<1>7. CASE m.type = "WRITE"
  <2>1. /\ m.data \in Data
        /\ y = NoTxn => Mirrors(pl, bl, Tail(rest))
        /\ y # NoTxn =>
             /\ AddLogEntryCode(y, m.seq) = "ok" /\ y.status = "ACTIVE"
             /\ Mirrors(pl, [bl EXCEPT ![t] = Logged(y, m.seq, m.data)], Tail(rest))
    BY <1>1, <1>7, ServedWrite DEF m
  <2>2. m.data # NoData /\ m.seq \in SeqNo
    BY <1>2, <1>7, <2>1, NoDataAssumption DEF Forwarded, WellFormed
  <2>3. CASE Refuse(Backup, m, "peer")
    <3>1. PICK code : Refused(Backup, m, code) /\ Received(Backup, m, "peer", <<ReplyFor(code)>>, FALSE)
      BY <2>3 DEF Refuse
    <3>2. y = NoTxn
      BY <1>7, <2>1, <2>2, <3>1 DEF Refused
    <3>3. srv' = srv
      BY <2>3 DEF Refuse
    <3>4. srv' = [srv EXCEPT ![Backup] = [srv[Backup] EXCEPT !.log = bl]]
      BY <1>1, <3>3, BackupLogs
    <3> QED
      BY <1>1, <1>5, <1>6, <1>7, <2>1, <3>1, <3>2, <3>4 DEF m
  <2>4. CASE HandleWrite(Backup, m, "peer")
    <3> DEFINE x == Logged(y, m.seq, m.data)
               l == [bl EXCEPT ![t] = x]
    <3>1. AddLogEntryCode(y, m.seq) = "ok"
      BY <2>4 DEF HandleWrite
    <3>2. y # NoTxn
      BY <3>1 DEF AddLogEntryCode
    <3>3. x \in Txn /\ x.status = "ACTIVE" /\ ~IsCommitted(y)
      BY <1>2, <2>1, <2>2, <3>2, EntryFacts DEF IsCommitted
    <3>4. /\ srv' = [srv EXCEPT ![Backup].log = With(Backup, t, x), ![Backup].queue = Queued(Backup, m)]
          /\ Received(Backup, m, "peer", <<"ACK">>, FALSE)
      BY <2>4, <3>3 DEF HandleWrite
    <3>5. With(Backup, t, x) = l
      BY DEF With
    <3> HIDE DEF x
    <3>6. l \in Log /\ \A u \in Tsn : IsCommitted(bl[u]) => IsCommitted(l[u])
      BY <1>4, <3>3
    <3>7. Mirrors(pl, l, Tail(rest))
      BY <2>1, <3>2 DEF x
    <3> HIDE DEF l
    <3>8. srv' = [srv EXCEPT ![Backup] = [srv[Backup] EXCEPT !.log = l]]
      BY <1>1, <3>4, <3>5, BackupLogs
    <3> QED
      BY <1>5, <1>6, <1>7, <3>4, <3>6, <3>7, <3>8 DEF m
  <2> QED
    BY <1>7, <2>3, <2>4 DEF Handle, HandleCommit, HandleAbort, HandleMakeTxn, HandlePing, m
<1>8. CASE m.type = "MAKE_TXN"
  <2>1. /\ y = NoTxn /\ m.data \in Files
        /\ Mirrors(pl, [bl EXCEPT ![t] = NewEntry(m.data)], Tail(rest))
    BY <1>1, <1>8, ServedMake DEF m
  <2> DEFINE x == NewEntry(m.data)
             l == [bl EXCEPT ![t] = x]
  <2>2. x \in Txn /\ m.data # NoData /\ ~IsCommitted(y)
    BY <2>1, NewEntryType, NoPayloadAssumption DEF IsCommitted
  <2>3. ~Refuse(Backup, m, "peer")
    BY <1>8, <2>2 DEF Refuse, Refused
  <2>4. HandleMakeTxn(Backup, m, "peer")
    BY <1>8, <2>3 DEF Handle, HandleCommit, HandleAbort, HandleWrite, HandlePing, m
  <2>5. /\ srv' = [srv EXCEPT ![Backup].log = With(Backup, t, x)]
        /\ Received(Backup, m, "peer", <<"ACK">>, FALSE)
    BY <2>1, <2>4 DEF HandleMakeTxn
  <2>6. With(Backup, t, x) = l
    BY DEF With
  <2> HIDE DEF x
  <2>7. l \in Log /\ \A u \in Tsn : IsCommitted(bl[u]) => IsCommitted(l[u])
    BY <1>4, <2>2
  <2>8. Mirrors(pl, l, Tail(rest))
    BY <2>1 DEF x
  <2> HIDE DEF l
  <2>9. srv' = [srv EXCEPT ![Backup] = [srv[Backup] EXCEPT !.log = l]]
    BY <1>1, <2>5, <2>6, BackupLogs
  <2> QED
    BY <1>5, <1>6, <1>8, <2>5, <2>7, <2>8, <2>9 DEF m
<1>9. CASE m.type = "ABORT"
  <2>1. /\ ~IsCommitted(y)
        /\ Mirrors(pl, [bl EXCEPT ![t] = NoTxn], Tail(rest))
        /\ y = NoTxn => Mirrors(pl, bl, Tail(rest))
    BY <1>1, <1>9, ServedAbort DEF m
  <2>2. CASE Refuse(Backup, m, "peer")
    <3>1. PICK code : Refused(Backup, m, code) /\ Received(Backup, m, "peer", <<ReplyFor(code)>>, FALSE)
      BY <2>2 DEF Refuse
    <3>2. TxnOK(t, pl[t], y, rest)
      BY <1>2 DEF Mirrors
    <3>3. y = NoTxn
      BY <1>9, <2>1, <3>1, <3>2 DEF Refused, NeedsData, AbortCode, TxnOK, IsCommitted
    <3>4. srv' = [srv EXCEPT ![Backup] = [srv[Backup] EXCEPT !.log = bl]]
      <4>1. srv' = srv
        BY <2>2 DEF Refuse
      <4> QED
        BY <1>1, <4>1, BackupLogs
    <3> QED
      BY <1>1, <1>5, <1>6, <1>9, <2>1, <3>1, <3>3, <3>4 DEF m
  <2>3. CASE HandleAbort(Backup, m, "peer")
    <3> DEFINE l == [bl EXCEPT ![t] = NoTxn]
    <3>1. /\ srv' = [srv EXCEPT ![Backup].log = With(Backup, t, NoTxn), ![Backup].queue = Queued(Backup, m)]
          /\ Received(Backup, m, "peer", <<"ACK">>, FALSE)
      BY <2>3 DEF HandleAbort
    <3>2. With(Backup, t, NoTxn) = l
      BY DEF With
    <3>3. l \in Log /\ \A u \in Tsn : IsCommitted(bl[u]) => IsCommitted(l[u])
      BY <1>4, <2>1
    <3>4. Mirrors(pl, l, Tail(rest))
      BY <2>1
    <3> HIDE DEF l
    <3>5. srv' = [srv EXCEPT ![Backup] = [srv[Backup] EXCEPT !.log = l]]
      BY <1>1, <3>1, <3>2, BackupLogs
    <3> QED
      BY <1>5, <1>6, <1>9, <3>1, <3>3, <3>4, <3>5 DEF m
  <2> QED
    BY <1>9, <2>2, <2>3 DEF Handle, HandleCommit, HandleWrite, HandleMakeTxn, HandlePing, m
<1>10. CASE m.type = "COMMIT"
  <2>1. /\ y \in Txn /\ y # NoTxn
        /\ CommitCode(y, m.seq) = IF IsCommitted(y) THEN "already" ELSE "committed"
        /\ IsCommitted(y) => Mirrors(pl, bl, Tail(rest))
        /\ Mirrors(pl, [bl EXCEPT ![t] = MarkedFor(y, "COMMITTED", m.seq)], Tail(rest))
    BY <1>1, <1>10, ServedCommit DEF m
  <2>2. ~Refuse(Backup, m, "peer")
    BY <1>10, <2>1 DEF Refuse, Refused, NeedsData
  <2>3. HandleCommit(Backup, m, "peer")
    BY <1>10, <2>2 DEF Handle, HandleAbort, HandleWrite, HandleMakeTxn, HandlePing, m
  <2>4. CASE IsCommitted(y)
    <3>1. srv' = srv /\ Received(Backup, m, "peer", <<"ACK">>, FALSE)
      BY <2>1, <2>3, <2>4 DEF HandleCommit
    <3>2. srv' = [srv EXCEPT ![Backup] = [srv[Backup] EXCEPT !.log = bl]]
      BY <1>1, <3>1, BackupLogs
    <3> QED
      BY <1>1, <1>5, <1>6, <2>1, <2>4, <3>1, <3>2 DEF m
  <2>5. CASE ~IsCommitted(y)
    <3> DEFINE x == MarkedFor(y, "COMMITTED", m.seq)
               l == [bl EXCEPT ![t] = x]
    <3>1. StartCommit(Backup, m, "peer", y, m.seq, srv[Backup].queue)
      BY <2>1, <2>3, <2>5 DEF HandleCommit
    <3>2. used.errors = 0 /\ used'.errors = 0
      BY DEF NoFault
    <3>3. used' # [used EXCEPT !.errors = @ + 1]
      <4>1. used \in UsedTypes
        BY DEF TypeInv, RestOK, UsedTypes
      <4> QED
        BY <3>2, <4>1 DEF UsedTypes
    <3>4. /\ srv' = [srv EXCEPT ![Backup].log = With(Backup, t, x)]
          /\ Received(Backup, m, "peer", <<"ACK">>, FALSE)
      BY <3>1, <3>3 DEF StartCommit
    <3>5. With(Backup, t, x) = l
      BY DEF With
    <3>6. x \in Txn /\ IsCommitted(x)
      <4>1. m.seq \in SeqNo /\ "COMMITTED" \in Status
        BY <1>2, <1>10 DEF Forwarded, WellFormed, Status
      <4> QED
        BY <2>1, <4>1, EntryFacts DEF IsCommitted
    <3> HIDE DEF x
    <3>7. l \in Log /\ IsCommitted(l[t]) /\ \A u \in Tsn : IsCommitted(bl[u]) => IsCommitted(l[u])
      <4>1. x \in Txn \cup {NoTxn} /\ (IsCommitted(y) => IsCommitted(x))
        BY <3>6
      <4>2. l \in Log /\ l[t] = x /\ \A u \in Tsn : IsCommitted(bl[u]) => IsCommitted(l[u])
        <5> HIDE DEF y
        <5>1. y = bl[t]
          BY DEF y
        <5> QED
          BY <1>1, <1>2, <4>1, <5>1 DEF Log
      <4> QED
        BY <3>6, <4>2, Zenon
    <3>8. Mirrors(pl, l, Tail(rest))
      BY <2>1 DEF x
    <3> HIDE DEF l
    <3>9. srv' = [srv EXCEPT ![Backup] = [srv[Backup] EXCEPT !.log = l]]
      BY <1>1, <3>4, <3>5, BackupLogs
    <3> QED
      BY <1>5, <1>6, <3>4, <3>7, <3>8, <3>9 DEF m
  <2> QED
    BY <2>4, <2>5
<1> QED
  BY <1>3, <1>7, <1>8, <1>9, <1>10

-----------------------------------------------------------------------------
(***************************************************************************)
(* Steps of the backup's thread.                                           *)
(***************************************************************************)
\* A step that changes the backup to v and its connection to l.
LEMMA BackupStep ==
  ASSUME TypeInv, SyncInv, NEW v, NEW l,
         srv' = [srv EXCEPT ![Backup] = v], link' = [link EXCEPT ![Backup] = l],
         orphans' = orphans, primaryTxt' = primaryTxt,
         v.up, v.role = "backup", v.log = srv[Backup].log,
         BackupThread(v, l, srv[Main].backup)
  PROVE  SyncInv'
<1>1. /\ srv'[Main] = srv[Main] /\ srv'[Backup] = v
      /\ link'[Main] = link[Main] /\ link'[Backup] = l
  BY BackupFacts DEF TypeInv, ServersOK, NetworkOK
<1>2. RolesKept'
  BY <1>1 DEF SyncInv, RolesKept, Backup
<1>3. BackupThread(srv'[Backup], link'[Backup], srv'[Main].backup)
  BY <1>1
<1>4. PrimarySide(srv'[Main], link'[Main], srv'[Backup].log)
  BY <1>1 DEF SyncInv
<1> QED
  BY <1>2, <1>3, <1>4 DEF SyncInv, BackupThread, PrimarySide, PrimaryLink, Backup, Ping, Packet

\* A connection without a request leaves nothing behind when it is closed.
LEMMA NothingLeft ==
  ASSUME TypeInv, SyncInv, NEW s \in Servers, link[s].requests = <<>>
  PROVE  [orphans EXCEPT ![s] = Orphaned(s)] = orphans
BY DEF SyncInv, RolesKept, Orphaned

\* What is known of the backup's thread.
LEMMA BackupNow ==
  ASSUME TypeInv, SyncInv
  PROVE  /\ srv[Backup] \in ServerStates /\ srv[Backup].up /\ srv[Backup].role = "backup"
         /\ BackupThread(srv[Backup], link[Backup], srv[Main].backup)
         /\ srv[Main].up /\ srv[Main].role = "primary" /\ primaryTxt = Main
         /\ Reachable(Main) /\ ~Reachable(Nobody)
BY BackupFacts, ServerFacts DEF TypeInv, SyncInv, RolesKept, Reachable

LEMMA BackupCheckSync ==
  ASSUME TypeInv, SyncInv, BackupCheck(Backup)
  PROVE  SyncInv'
<1> DEFINE b == srv[Backup]
<1>1. /\ srv[Backup] \in ServerStates /\ b.up /\ b.role = "backup"
      /\ BackupThread(b, link[Backup], srv[Main].backup) /\ Reachable(Main) /\ ~Reachable(Nobody)
  BY BackupNow
<1>2. /\ b.stack = <<>> /\ Reachable(b.target) /\ primaryTxt' = primaryTxt
      /\ orphans' = [orphans EXCEPT ![Backup] = Orphaned(Backup)]
  BY DEF BackupCheck, Fires, Idle
<1>3. b.target = Main /\ b.stack # <<PingFrame>> /\ link[Backup].requests = <<>>
  BY <1>1, <1>2 DEF BackupThread
<1>4. orphans' = orphans
  BY <1>2, <1>3, BackupFacts, NothingLeft
<1>5. CASE /\ ~b.backup_did_sync /\ ~b.restarted
           /\ srv' = [srv EXCEPT ![Backup].backup_did_sync = TRUE,
                                 ![Backup].stack = << CheckFrame({}, "start") >>]
           /\ link' = [link EXCEPT ![Backup] = Open]
  <2> DEFINE v == [b EXCEPT !.backup_did_sync = TRUE, !.stack = << CheckFrame({}, "start") >>]
  <2>1. srv' = [srv EXCEPT ![Backup] = v]
    BY <1>5, BackupFacts DEF TypeInv, ServersOK
  <2>2. /\ v.up /\ v.role = "backup" /\ v.log = b.log /\ v.target = b.target
        /\ v.stack = << CheckFrame({}, "start") >>
    BY <1>1 DEF ServerStates
  <2> HIDE DEF v
  <2>3. v.stack # <<PingFrame>>
    BY <2>2 DEF CheckFrame, PingFrame
  <2>4. Open.requests = <<>> /\ ~Open.serving
    BY DEF Open, Closed
  <2>5. srv[Main].backup = Nobody
    BY <1>1, <1>5 DEF BackupThread
  <2>6. BackupThread(v, Open, srv[Main].backup)
    BY <1>3, <2>2, <2>3, <2>4, <2>5, BackupFacts DEF BackupThread
  <2> QED
    BY <1>2, <1>4, <1>5, <2>1, <2>2, <2>6, BackupStep
<1>6. CASE /\ b.backup_did_sync \/ b.restarted
           /\ srv' = [srv EXCEPT ![Backup].stack = << PingFrame >>]
           /\ link' = [link EXCEPT ![Backup] = Put(Open, Packet("PING", 0, 0, Backup))]
  <2> DEFINE v == [b EXCEPT !.stack = << PingFrame >>]
             l == Put(Open, Ping)
  <2>1. srv' = [srv EXCEPT ![Backup] = v] /\ link' = [link EXCEPT ![Backup] = l]
    BY <1>6, BackupFacts DEF TypeInv, ServersOK, Ping
  <2>2. /\ v.up /\ v.role = "backup" /\ v.log = b.log /\ v.target = b.target
        /\ v.stack = << PingFrame >> /\ v.backup_did_sync = b.backup_did_sync
        /\ v.restarted = b.restarted
    BY <1>1 DEF ServerStates
  <2>3. l.requests = <<Ping>> /\ l.replies = <<>> /\ l.state = "open" /\ ~l.serving
    BY DEF Put, Open, Closed
  <2> HIDE DEF v, l
  <2>4. v.stack # <<CheckFrame({}, "start")>>
    BY <2>2 DEF CheckFrame, PingFrame
  <2>5. BackupThread(v, l, srv[Main].backup)
    BY <1>3, <1>6, <2>2, <2>3, <2>4, BackupFacts DEF BackupThread
  <2> QED
    BY <1>2, <1>4, <2>1, <2>2, <2>5, BackupStep
<1> QED
  BY <1>5, <1>6 DEF BackupCheck

LEMMA BackupNoPrimarySync ==
  ASSUME TypeInv, SyncInv, BackupNoPrimary(Backup)
  PROVE  SyncInv'
<1> DEFINE b == srv[Backup]
           v == [b EXCEPT !.role = "backup", !.tries = 1, !.target = Main, !.backup_did_sync = FALSE]
<1>1. /\ srv[Backup] \in ServerStates /\ b.up /\ b.role = "backup" /\ primaryTxt = Main
      /\ BackupThread(b, link[Backup], srv[Main].backup) /\ Reachable(Main) /\ ~Reachable(Nobody)
  BY BackupNow
<1>2. b.stack = <<>> /\ ~Reachable(b.target)
  BY DEF BackupNoPrimary, Fires, Idle
<1>3. /\ b.target = Nobody /\ b.tries = 0 /\ ~b.backup_did_sync
      /\ b.stack # <<PingFrame>> /\ link[Backup].requests = <<>>
  BY <1>1, <1>2 DEF BackupThread
<1>4. ~GivesUp(Backup) /\ Counted(Backup) = 1
  BY <1>3 DEF GivesUp, Counted
<1>5. primaryTxt' = primaryTxt /\ LoadedTarget(Backup, primaryTxt') = Main
  BY <1>1, <1>4, BackupFacts DEF BackupNoPrimary, LoadedTarget
<1>6. srv' = [srv EXCEPT ![Backup].role = @, ![Backup].tries = 1, ![Backup].target = Main,
                         ![Backup].backup_did_sync = FALSE]
  BY <1>4, <1>5 DEF BackupNoPrimary
<1>7. srv' = [srv EXCEPT ![Backup] = v]
  BY <1>1, <1>6, BackupFacts DEF TypeInv, ServersOK
<1>8. /\ v.up /\ v.role = "backup" /\ v.log = b.log /\ v.target = Main /\ v.stack = b.stack
      /\ ~v.backup_did_sync /\ v.restarted = b.restarted
  BY <1>1 DEF ServerStates
<1> HIDE DEF v
<1>9. link' = [link EXCEPT ![Backup] = Closed] /\ orphans' = orphans
  BY <1>3, BackupFacts, NothingLeft DEF BackupNoPrimary, Connected
<1>10. Closed.requests = <<>> /\ ~Closed.serving
  BY DEF Closed
<1>11. BackupThread(v, Closed, srv[Main].backup)
  BY <1>1, <1>2, <1>3, <1>8, <1>10, BackupFacts DEF BackupThread
<1> QED
  BY <1>5, <1>7, <1>8, <1>9, <1>11, BackupStep

LEMMA FramesDiffer ==
  ASSUME NEW h, NEW r
  PROVE  /\ <<CheckFrame(h, r)>> # <<>> /\ Head(<<CheckFrame(h, r)>>) = CheckFrame(h, r)
         /\ Tail(<<CheckFrame(h, r)>>) = <<>>
         /\ CheckFrame(h, r).op = "check" /\ CheckFrame(h, r).ret = r /\ CheckFrame(h, r).holder = h
         /\ <<PingFrame>> # <<>> /\ Head(<<PingFrame>>) = PingFrame /\ PingFrame.op = "ping"
         /\ <<PingFrame>> # <<CheckFrame(h, r)>>
BY DEF CheckFrame, PingFrame

LEMMA CheckStartSync ==
  ASSUME TypeInv, SyncInv, CheckStart(Backup)
  PROVE  SyncInv'
<1> DEFINE b == srv[Backup]
<1>1. /\ srv[Backup] \in ServerStates /\ b.up /\ b.role = "backup"
      /\ BackupThread(b, link[Backup], srv[Main].backup) /\ Reachable(Main) /\ ~Reachable(Nobody)
  BY BackupNow
<1>2. b.stack # <<>> /\ Head(b.stack).op = "check" /\ Head(b.stack).ret = "start"
  BY DEF CheckStart, In, Top
<1>3. b.stack = <<CheckFrame({}, "start")>>
  <2>1. b.stack \in {<<>>, <<CheckFrame({}, "start")>>, <<CheckFrame({}, "go")>>, <<PingFrame>>}
    BY <1>1 DEF BackupThread
  <2>2. b.stack # <<PingFrame>> /\ b.stack # <<CheckFrame({}, "go")>>
    BY <1>2, FramesDiffer
  <2> QED
    BY <1>2, <2>1, <2>2
<1>4. b.stack # <<PingFrame>> /\ Below(Backup) = <<>>
  BY <1>3, FramesDiffer DEF Below
<1>5. srv[Main].backup = Nobody /\ link[Backup].requests = <<>>
  BY <1>1, <1>3 DEF BackupThread
<1>6. b.log = EmptyLog
  BY <1>5 DEF SyncInv, PrimarySide, PrimaryLink
<1>7. Commits(Backup) = {}
  BY <1>6 DEF Commits, EmptyLog
<1>8. orphans' = orphans /\ primaryTxt' = primaryTxt
  BY <1>5, BackupFacts, NothingLeft DEF CheckStart, Connected
<1>9. b.target \in {Nobody, Main}
  BY <1>1 DEF BackupThread
<1> DEFINE ok == Reachable(b.target)
           w == [b EXCEPT !.alive = @ \/ ok, !.stack = << CheckFrame({}, "go") >>]
           l == IF ok THEN Open ELSE Closed
<1>10. /\ srv' = [srv EXCEPT ![Backup].alive = @ \/ ok,
                             ![Backup].stack = << CheckFrame(Commits(Backup), "go") >> \o Below(Backup)]
       /\ link' = [link EXCEPT ![Backup] = l]
  BY DEF CheckStart, Connected
<1>11. << CheckFrame({}, "go") >> \o <<>> = << CheckFrame({}, "go") >>
  <2> DEFINE f == CheckFrame({}, "go")
  <2> HIDE DEF f
  <2>1. <<f>> \o <<>> = <<f>>
    OBVIOUS
  <2> QED
    BY <2>1 DEF f
<1>12. srv' = [srv EXCEPT ![Backup] = w]
  <2> HIDE DEF ok
  <2>1. srv' = [srv EXCEPT ![Backup].alive = @ \/ ok, ![Backup].stack = << CheckFrame({}, "go") >>]
    BY <1>4, <1>7, <1>10, <1>11
  <2> QED
    BY <2>1, BackupFacts DEF TypeInv, ServersOK
<1>13. /\ w.up /\ w.role = "backup" /\ w.log = b.log /\ w.target = b.target /\ w.tries = b.tries
       /\ w.stack = << CheckFrame({}, "go") >> /\ w.backup_did_sync = b.backup_did_sync
  BY <1>1 DEF ServerStates
<1>14. l.requests = <<>> /\ ~l.serving
  BY DEF Open, Closed
<1> HIDE DEF w, l
<1>15. w.stack # <<PingFrame>>
  BY <1>13, FramesDiffer
<1>16. BackupThread(w, l, srv[Main].backup)
  BY <1>1, <1>5, <1>13, <1>14, <1>15 DEF BackupThread
<1> QED
  BY <1>8, <1>10, <1>12, <1>13, <1>16, BackupStep

\* The integrity check of the backup has nothing to check.
LEMMA CheckEndSync ==
  ASSUME TypeInv, SyncInv, CheckEnd(Backup)
  PROVE  SyncInv'
<1> DEFINE b == srv[Backup]
           v == [b EXCEPT !.stack = <<>>, !.alive = FALSE]
<1>1. /\ srv[Backup] \in ServerStates /\ b.up /\ b.role = "backup"
      /\ BackupThread(b, link[Backup], srv[Main].backup)
  BY BackupNow
<1>2. b.stack # <<>> /\ Head(b.stack).op = "check"
  BY DEF CheckEnd, In, Top
<1>3. b.stack \in {<<CheckFrame({}, "start")>>, <<CheckFrame({}, "go")>>} /\ b.stack # <<PingFrame>>
  BY <1>1, <1>2, FramesDiffer DEF BackupThread
<1>4. Below(Backup) = <<>> /\ link[Backup].requests = <<>>
  <2>1. Tail(<<CheckFrame({}, "start")>>) = <<>> /\ Tail(<<CheckFrame({}, "go")>>) = <<>>
    BY FramesDiffer
  <2>2. Tail(b.stack) = <<>>
    BY <1>3, <2>1
  <2> QED
    BY <1>1, <1>3, <2>2 DEF Below, BackupThread
<1>5. /\ srv' = [srv EXCEPT ![Backup].stack = Below(Backup), ![Backup].alive = FALSE]
      /\ Connected(Backup, Closed) /\ primaryTxt' = primaryTxt
  BY <1>1 DEF CheckEnd
<1>6. srv' = [srv EXCEPT ![Backup] = v]
  BY <1>4, <1>5, BackupFacts DEF TypeInv, ServersOK
<1>7. /\ v.up /\ v.role = "backup" /\ v.log = b.log /\ v.target = b.target /\ v.tries = b.tries
      /\ v.stack = <<>> /\ v.backup_did_sync = b.backup_did_sync /\ v.restarted = b.restarted
  BY <1>1 DEF ServerStates
<1> HIDE DEF v
<1>8. link' = [link EXCEPT ![Backup] = Closed] /\ orphans' = orphans
  BY <1>4, <1>5, BackupFacts, NothingLeft DEF Connected
<1>9. Closed.requests = <<>> /\ ~Closed.serving
  BY DEF Closed
<1>10. BackupThread(v, Closed, srv[Main].backup)
  BY <1>1, <1>7, <1>9, FramesDiffer DEF BackupThread
<1> QED
  BY <1>5, <1>6, <1>7, <1>8, <1>10, BackupStep

LEMMA PingReplySync ==
  ASSUME TypeInv, SyncInv, PingReply(Backup)
  PROVE  SyncInv'
<1> DEFINE b == srv[Backup]
           v == [b EXCEPT !.stack = <<>>]
<1>1. /\ srv[Backup] \in ServerStates /\ b.up /\ b.role = "backup"
      /\ BackupThread(b, link[Backup], srv[Main].backup)
  BY BackupNow
<1>2. link[Backup].replies # <<>> /\ primaryTxt' = primaryTxt
  BY DEF PingReply
<1>3. link[Backup].requests = <<>>
  BY <1>1, <1>2 DEF BackupThread
<1>4. srv' = [srv EXCEPT ![Backup] = v]
  BY BackupFacts DEF PingReply, TypeInv, ServersOK
<1>5. /\ v.up /\ v.role = "backup" /\ v.log = b.log /\ v.target = b.target /\ v.tries = b.tries
      /\ v.stack = <<>> /\ v.backup_did_sync = b.backup_did_sync /\ v.restarted = b.restarted
  BY <1>1 DEF ServerStates
<1> HIDE DEF v
<1>6. link' = [link EXCEPT ![Backup] = Closed] /\ orphans' = orphans
  BY <1>3, BackupFacts, NothingLeft DEF PingReply, Connected
<1>7. Closed.requests = <<>> /\ ~Closed.serving
  BY DEF Closed
<1>8. BackupThread(v, Closed, srv[Main].backup)
  BY <1>1, <1>5, <1>7, FramesDiffer DEF BackupThread
<1> QED
  BY <1>2, <1>4, <1>5, <1>6, <1>8, BackupStep

-----------------------------------------------------------------------------
(***************************************************************************)
(* Requests that the servers send to each other.                           *)
(***************************************************************************)
\* The primary serves a PING, and knows its backup from then on.
LEMMA ServePingSync ==
  ASSUME TypeInv, SyncInv, Serve(Main)
  PROVE  SyncInv'
<1> DEFINE p == srv[Main]
           k == IF p.backup = Nobody THEN Backup ELSE p.backup
           v == [p EXCEPT !.backup = k]
           l == Answered(link[Backup], "ACK")
<1>1. /\ p \in ServerStates /\ p.up /\ p.role = "primary" /\ p.backup \in {Nobody, Backup}
      /\ srv[Backup] \in ServerStates
      /\ BackupThread(srv[Backup], link[Backup], p.backup) /\ PrimarySide(p, link[Main], srv[Backup].log)
  BY BackupFacts, BackupNow, ServerFacts DEF TypeInv, SyncInv, PrimarySide, PrimaryLink
<1>2. Other(Main) = Backup /\ link[Backup] \in Links
  BY BackupFacts, LinkFacts DEF Backup, TypeInv
<1>3. link[Backup].requests # <<>> /\ Handle(Main, Head(link[Backup].requests), "peer")
  BY <1>2 DEF Serve
<1>4. link[Backup].requests = <<Ping>> /\ link[Backup].replies = <<>>
  BY <1>1, <1>3 DEF BackupThread
<1>5. Handle(Main, Ping, "peer")
  BY <1>3, <1>4
<1>6. Ping.type = "PING" /\ Ping.data = Backup /\ Backup # NoData
  BY BackupFacts, NoPayloadAssumption DEF Ping, Packet
<1>7. HandlePing(Main, Ping, "peer") /\ primaryTxt' = primaryTxt
  <2>1. ~Refuse(Main, Ping, "peer")
    BY <1>6 DEF Refuse, Refused
  <2> QED
    BY <1>5, <1>6, <2>1 DEF Handle, HandleWrite, HandleCommit, HandleAbort, HandleMakeTxn
<1>8. srv' = [srv EXCEPT ![Main] = v]
  BY <1>6, <1>7, BackupFacts DEF HandlePing, TypeInv, ServersOK
<1>9. link' = [link EXCEPT ![Backup] = l] /\ orphans' = orphans
  BY <1>2, <1>7, BackupFacts, PeerReceived DEF HandlePing, TypeInv
<1>10. /\ v.up /\ v.role = "primary" /\ v.backup = k /\ v.log = p.log /\ v.queue = p.queue
       /\ v.stack = p.stack /\ v.alive = p.alive
  BY <1>1 DEF ServerStates
<1>11. l.requests = <<>> /\ l.serving = FALSE /\ l.state = link[Backup].state
  BY <1>2, <1>4 DEF Answered, Links
<1>12. k = Backup /\ Backup # Nobody
  BY <1>1, BackupFacts
<1> HIDE DEF v, l, k
<1>13. /\ srv'[Main] = v /\ srv'[Backup] = srv[Backup]
       /\ link'[Main] = link[Main] /\ link'[Backup] = l
  BY <1>8, <1>9, BackupFacts DEF TypeInv, ServersOK, NetworkOK
<1>14. BackupThread(srv[Backup], l, k)
  <2>1. /\ srv[Backup].stack # <<CheckFrame({}, "start")>>
        /\ srv[Backup].backup_did_sync \/ srv[Backup].restarted
    BY <1>1, <1>4 DEF BackupThread
  <2> QED
    BY <1>1, <1>11, <2>1 DEF BackupThread
<1>15. PrimarySide(v, link[Main], srv[Backup].log)
  <2>1. /\ Runs(v, "sync") <=> Runs(p, "sync")
        /\ Awaits(v) <=> Awaits(p)
        /\ Remaining(v, link[Main]) = Remaining(p, link[Main])
    BY <1>10 DEF Runs, Awaits, Remaining
  <2>2. PrimaryLink(v, link[Main], srv[Backup].log)
    BY <1>1, <1>10, <1>12, <2>1 DEF PrimarySide, PrimaryLink
  <2> QED
    BY <1>1, <1>10, <2>1, <2>2 DEF PrimarySide
<1>16. RolesKept'
  BY <1>7, <1>9, <1>10, <1>13 DEF SyncInv, RolesKept, Backup
<1>17. /\ BackupThread(srv'[Backup], link'[Backup], srv'[Main].backup)
       /\ PrimarySide(srv'[Main], link'[Main], srv'[Backup].log)
  BY <1>10, <1>13, <1>14, <1>15
<1> QED
  BY <1>16, <1>17 DEF SyncInv, Backup

\* commit() of frame f is called by g, in a check or as the only call of
\* doCommit().
CalledBy(f, g, last, alive) ==
  \/ /\ g.op = "check" /\ alive
     /\ g.ret = "go" /\ g.holder # {} /\ f.tsn = Highest(g.holder)
  \/ g.op = "doCommit" /\ g.ret = "wait" /\ f.tsn = g.tsn /\ last

\* What is known of the transaction that commit() was called for, and of the
\* call.
LEMMA CommitCalled ==
  ASSUME NEW stack \in Seq(Frames), stack # <<>>, Head(stack).op = "commit",
         NEW pl \in GoodLog, NEW bl, NEW alive, NEW rest,
         StackOK(stack, pl), PrimaryStack(stack, pl, bl, alive, rest)
  PROVE  LET f == Head(stack)
             g == Head(Tail(stack))
         IN  /\ f.tsn \in Tsn /\ f.seq \in SeqNo /\ pl[f.tsn] # NoTxn
             /\ pl[f.tsn].status \in {"WRITING", "COMMITTED"} /\ pl[f.tsn].data = f.seq
             /\ Tail(stack) # <<>> /\ Tail(stack) \in Seq(Frames) /\ g \in Frames
             /\ PrimaryStack(Tail(stack), pl, bl, alive, rest)
             /\ CalledBy(f, g, Tail(Tail(stack)) = <<>>, alive)
<1> DEFINE f == Head(stack)
           below == Tail(stack)
           g == Head(below)
<1>1. /\ f \in Frames /\ below \in Seq(Frames) /\ StackOK(below, pl)
      /\ below # <<>> /\ g.op \in {"check", "doCommit"}
      /\ pl[f.tsn] # NoTxn /\ pl[f.tsn].data = f.seq
  BY TopFrame
<1>2. CallOK(f, g) /\ PrimaryStack(below, pl, bl, alive, rest)
  BY <1>1, Returns
<1>3. f.tsn \in Tsn /\ f.seq \in SeqNo /\ f.op = "commit"
  BY <1>1 DEF Frames
<1> HIDE DEF f, below
<1>4. /\ g \in Frames
      /\ g.op = "check" => \A t \in g.holder : IsCommitted(pl[t])
      /\ g.op = "doCommit" => Tail(below) = <<>> /\ pl[g.tsn].status = "WRITING"
  BY <1>1, TopFrame
<1>5. FrameOK(g, pl, bl, alive, rest)
  BY <1>1, <1>2, Returns
<1>6. CASE g.op = "check"
  <2>1. g.ret = "go" /\ g.holder # {} /\ f.tsn = Highest(g.holder) /\ alive
    BY <1>2, <1>3, <1>5, <1>6 DEF CallOK, FrameOK
  <2>2. g.holder \in SUBSET Tsn
    BY <1>4, <1>6 DEF Frames
  <2>3. f.tsn \in g.holder
    BY <2>1, <2>2, HighestIn
  <2>4. pl[f.tsn].status = "COMMITTED"
    BY <1>4, <1>6, <2>3 DEF IsCommitted
  <2>5. CalledBy(f, g, Tail(below) = <<>>, alive)
    BY <1>6, <2>1 DEF CalledBy
  <2> QED
    BY <1>1, <1>2, <1>3, <1>4, <2>4, <2>5 DEF f, below
<1>7. CASE g.op = "doCommit"
  <2>1. g.ret = "wait" /\ f.tsn = g.tsn
    BY <1>2, <1>3, <1>7 DEF CallOK
  <2>2. CalledBy(f, g, Tail(below) = <<>>, alive)
    BY <1>4, <1>7, <2>1 DEF CalledBy
  <2> QED
    BY <1>1, <1>2, <1>3, <1>4, <1>7, <2>1, <2>2 DEF f, below
<1> QED
  BY <1>1, <1>6, <1>7

\* What is known of the primary.
LEMMA MainNow ==
  ASSUME TypeInv, SyncInv
  PROVE  LET p == srv[Main]
             l == link[Main]
         IN  /\ p \in ServerStates /\ p.up /\ p.role = "primary" /\ l \in Links
             /\ p.log \in GoodLog /\ p.log \in Log /\ p.queue \in Seq(Forwarded)
             /\ p.stack \in Seq(Frames) /\ p.alive \in BOOLEAN
             /\ StackOK(p.stack, p.log) /\ SyncOK(p.stack, p.queue)
             /\ PrimarySide(p, l, srv[Backup].log) /\ PrimaryLink(p, l, srv[Backup].log)
             /\ Remaining(p, l) \in Seq(Forwarded)
             /\ ~Runs(p, "sync") => Remaining(p, l) = p.queue
             /\ Mirrors(p.log, srv[Backup].log, Remaining(p, l))
             /\ PrimaryStack(p.stack, p.log, srv[Backup].log, p.alive, Remaining(p, l))
             /\ srv[Backup].log \in Log
<1> DEFINE p == srv[Main]
           l == link[Main]
<1>1. /\ p \in ServerStates /\ p.up /\ p.role = "primary" /\ l \in Links
      /\ p.log \in GoodLog /\ p.log \in Log /\ p.queue \in Seq(Forwarded)
      /\ p.stack \in Seq(Frames) /\ p.alive \in BOOLEAN
      /\ StackOK(p.stack, p.log) /\ SyncOK(p.stack, p.queue)
      /\ PrimarySide(p, l, srv[Backup].log) /\ srv[Backup].log \in Log
  BY BackupFacts, ServerFacts, LinkFacts DEF TypeInv, SyncInv, RolesKept
<1> HIDE DEF p, l
<1>2. Remaining(p, l) \in Seq(Forwarded)
  <2>1. CASE Runs(p, "sync") /\ l.requests = <<>>
    <3>1. p.queue # <<>>
      BY <1>1, <2>1 DEF Runs, SyncOK
    <3> QED
      BY <1>1, <2>1, <3>1, TailFacts DEF Remaining
  <2>2. CASE ~(Runs(p, "sync") /\ l.requests = <<>>)
    BY <1>1, <2>2 DEF Remaining
  <2> QED
    BY <2>1, <2>2
<1> QED
  BY <1>1, <1>2 DEF p, l, PrimarySide, Remaining

\* The backup serves a packet of primaryOps() or the COMMIT of commit().
LEMMA ServePacketSync ==
  ASSUME TypeInv, SyncInv, NoFault, NoFault', Serve(Backup)
  PROVE  SyncInv'
<1> DEFINE p == srv[Main]
           l == link[Main]
           b == srv[Backup]
           f == Head(p.stack)
           commit == Packet("COMMIT", f.tsn, f.seq, NoData)
<1>1. /\ p \in ServerStates /\ l \in Links /\ p.log \in GoodLog /\ p.log \in Log
      /\ p.queue \in Seq(Forwarded) /\ p.stack \in Seq(Frames)
      /\ StackOK(p.stack, p.log) /\ SyncOK(p.stack, p.queue)
      /\ PrimaryLink(p, l, b.log)
      /\ Mirrors(p.log, b.log, Remaining(p, l))
      /\ PrimaryStack(p.stack, p.log, b.log, p.alive, Remaining(p, l))
      /\ b.log \in Log
  BY MainNow
<1>2. b \in ServerStates /\ b.up /\ b.role = "backup" /\ BackupThread(b, link[Backup], p.backup)
  BY BackupNow
<1>3. /\ l.requests # <<>> /\ Handle(Backup, Head(l.requests), "peer") /\ primaryTxt' = primaryTxt
  BY BackupFacts DEF Serve, Handle
<1>4. Runs(p, "sync") \/ Awaits(p)
  BY <1>1, <1>3 DEF PrimaryLink
<1>5. p.alive = TRUE /\ l.state = "open"
  BY <1>1, <1>4 DEF PrimaryLink, ServerStates
<1>6. ASSUME NEW rest \in Seq(Forwarded), rest # <<>>, Mirrors(p.log, b.log, rest),
             l.requests = <<Head(rest)>>, l.replies = <<>>,
             NEW bl, NEW a, NEW k,
             srv' = [srv EXCEPT ![Backup] = [b EXCEPT !.log = bl]],
             link' = [link EXCEPT ![Main] = k], orphans' = orphans,
             PrimarySide(p, k, bl)
      PROVE  SyncInv'
  <2> DEFINE v == [b EXCEPT !.log = bl]
  <2>1. /\ v.up = b.up /\ v.role = b.role /\ v.target = b.target /\ v.tries = b.tries
        /\ v.stack = b.stack /\ v.backup_did_sync = b.backup_did_sync /\ v.restarted = b.restarted
        /\ v.log = bl
    BY <1>2 DEF ServerStates
  <2>2. srv' = [srv EXCEPT ![Backup] = v]
    BY <1>6
  <2> HIDE DEF v
  <2>3. /\ srv'[Main] = p /\ srv'[Backup] = v /\ link'[Main] = k /\ link'[Backup] = link[Backup]
    BY <1>6, <2>2, BackupFacts DEF TypeInv, ServersOK, NetworkOK
  <2>4. BackupThread(v, link[Backup], p.backup)
    BY <1>2, <2>1 DEF BackupThread
  <2>5. RolesKept'
    BY <1>3, <1>6, <2>1, <2>3 DEF SyncInv, RolesKept, Backup
  <2>6. /\ BackupThread(srv'[Backup], link'[Backup], srv'[Main].backup)
        /\ PrimarySide(srv'[Main], link'[Main], srv'[Backup].log)
    BY <1>6, <2>1, <2>3, <2>4
  <2> QED
    BY <2>5, <2>6 DEF SyncInv, Backup
<1>7. ASSUME NEW a, l.replies = <<>>, NEW m, l.requests = <<m>>
      PROVE  /\ Answered(l, a).requests = <<>> /\ Answered(l, a).replies = <<a>>
             /\ Answered(l, a).state = "open"
  BY <1>1, <1>5, <1>7 DEF Answered, Links
<1>8. CASE Runs(p, "sync")
  <2> DEFINE q == p.queue
  <2>1. q # <<>>
    BY <1>1, <1>8 DEF Runs, SyncOK
  <2>2. l.requests = <<Head(q)>> /\ l.replies = <<>>
    BY <1>1, <1>3, <1>8 DEF PrimaryLink, Exchange
  <2>3. Remaining(p, l) = q
    BY <1>3 DEF Remaining
  <2>4. Handle(Backup, Head(q), "peer") /\ Mirrors(p.log, b.log, q)
    BY <1>1, <1>3, <2>2, <2>3
  <2>5. \E bl \in Log, a \in Replies :
           /\ srv' = [srv EXCEPT ![Backup] = [b EXCEPT !.log = bl]]
           /\ link' = [link EXCEPT ![Main] = Answered(l, a)]
           /\ orphans' = orphans
           /\ Mirrors(p.log, bl, Tail(q))
           /\ \A t \in Tsn : IsCommitted(b.log[t]) => IsCommitted(bl[t])
    BY <1>1, <1>2, <2>1, <2>4, BackupServes
  <2>6. PICK bl \in Log, a \in Replies :
           /\ srv' = [srv EXCEPT ![Backup] = [b EXCEPT !.log = bl]]
           /\ link' = [link EXCEPT ![Main] = Answered(l, a)]
           /\ orphans' = orphans
           /\ Mirrors(p.log, bl, Tail(q))
           /\ \A t \in Tsn : IsCommitted(b.log[t]) => IsCommitted(bl[t])
    BY <2>5
  <2> DEFINE k == Answered(l, a)
  <2>7. k.requests = <<>> /\ k.replies = <<a>> /\ k.state = "open"
    BY <1>7, <2>2
  <2> HIDE DEF k
  <2>8. Remaining(p, k) = Tail(q)
    BY <1>8, <2>7 DEF Remaining
  <2>9. ~Awaits(p)
    BY <1>8 DEF Awaits, Runs
  <2>10. PrimaryLink(p, k, bl)
    BY <1>1, <1>5, <1>8, <2>7, <2>9 DEF PrimaryLink, Exchange
  <2>11. PrimaryStack(p.stack, p.log, bl, p.alive, Tail(q))
    <3>1. PrimaryStack(p.stack, p.log, b.log, TRUE, Remaining(p, l))
      BY <1>1, <1>5
    <3>2. \A i \in 1..Len(p.stack) : p.stack[i] \in Frames
      BY <1>1, ElementOfSeq
    <3>3. PrimaryStack(p.stack, p.log, bl, TRUE, Tail(q))
      BY <2>6, <3>1, <3>2, StackKept
    <3> QED
      BY <1>5, <3>3
  <2>12. PrimarySide(p, k, bl)
    BY <2>6, <2>8, <2>10, <2>11 DEF PrimarySide
  <2> QED
    BY <1>1, <1>6, <2>1, <2>2, <2>4, <2>6, <2>12 DEF k
<1>9. CASE Awaits(p)
  <2>1. p.queue = <<>> /\ l.requests = <<commit>> /\ l.replies = <<>> /\ ~Runs(p, "sync")
    BY <1>1, <1>3, <1>9 DEF PrimaryLink, Exchange, Awaits, Runs
  <2>2. /\ f.tsn \in Tsn /\ f.seq \in SeqNo /\ p.log[f.tsn] # NoTxn
        /\ p.log[f.tsn].status \in {"WRITING", "COMMITTED"} /\ p.log[f.tsn].data = f.seq
    BY <1>1, <1>9, CommitCalled DEF Awaits, Runs
  <2>3. commit \in Forwarded
    BY <2>2, MaxSeqAssumption DEF Packet, Forwarded, WellFormed, Packets, SeqNo
  <2>4. commit.type = "COMMIT" /\ commit.tsn = f.tsn /\ commit.seq = f.seq
    BY DEF Packet
  <2> HIDE DEF commit
  <2>5. Mirrors(p.log, b.log, <<>>) /\ <<>> \in Seq(Forwarded)
    BY <1>1, <2>1 DEF Remaining
  <2>6. Mirrors(p.log, b.log, Append(<<>>, commit))
    BY <1>1, <2>2, <2>3, <2>4, <2>5, QueuesCommit
  <2> DEFINE rest == <<commit>>
  <2>7. /\ Append(<<>>, commit) = rest /\ rest \in Seq(Forwarded) /\ rest # <<>>
        /\ Head(rest) = commit /\ Tail(rest) = <<>>
    BY <2>3
  <2> HIDE DEF rest
  <2>8. Handle(Backup, Head(rest), "peer") /\ Mirrors(p.log, b.log, rest)
    BY <1>3, <2>1, <2>6, <2>7
  <2>9. \E bl \in Log, a \in Replies :
           /\ srv' = [srv EXCEPT ![Backup] = [b EXCEPT !.log = bl]]
           /\ link' = [link EXCEPT ![Main] = Answered(l, a)]
           /\ orphans' = orphans
           /\ Mirrors(p.log, bl, Tail(rest))
           /\ \A t \in Tsn : IsCommitted(b.log[t]) => IsCommitted(bl[t])
           /\ Head(rest).type = "COMMIT" => a = "ACK" /\ IsCommitted(bl[Head(rest).tsn])
    BY <1>2, <2>7, <2>8, BackupServes
  <2>10. PICK bl \in Log, a \in Replies :
           /\ srv' = [srv EXCEPT ![Backup] = [b EXCEPT !.log = bl]]
           /\ link' = [link EXCEPT ![Main] = Answered(l, a)]
           /\ orphans' = orphans
           /\ Mirrors(p.log, bl, <<>>)
           /\ \A t \in Tsn : IsCommitted(b.log[t]) => IsCommitted(bl[t])
           /\ a = "ACK" /\ IsCommitted(bl[f.tsn])
    BY <2>4, <2>7, <2>9
  <2> DEFINE k == Answered(l, a)
  <2>11. k.requests = <<>> /\ k.replies = <<"ACK">> /\ k.state = "open"
    BY <1>7, <2>1, <2>10
  <2> HIDE DEF k
  <2>12. Remaining(p, k) = <<>>
    BY <2>1 DEF Remaining
  <2>13. PrimaryLink(p, k, bl)
    <3>1. "ACK" \in Replies
      BY DEF Replies
    <3> QED
      BY <1>1, <1>5, <1>9, <2>1, <2>10, <2>11, <3>1 DEF PrimaryLink, Exchange
  <2>14. PrimaryStack(p.stack, p.log, bl, p.alive, <<>>)
    <3>1. PrimaryStack(p.stack, p.log, b.log, TRUE, Remaining(p, l))
      BY <1>1, <1>5
    <3>2. \A i \in 1..Len(p.stack) : p.stack[i] \in Frames
      BY <1>1, ElementOfSeq
    <3>3. PrimaryStack(p.stack, p.log, bl, TRUE, <<>>)
      BY <2>10, <3>1, <3>2, StackKept
    <3> QED
      BY <1>5, <3>3
  <2>15. PrimarySide(p, k, bl)
    BY <2>10, <2>12, <2>13, <2>14 DEF PrimarySide
  <2>16. l.requests = <<Head(rest)>>
    BY <2>1, <2>7
  <2> QED
    BY <1>6, <2>1, <2>7, <2>8, <2>10, <2>15, <2>16 DEF k
<1> QED
  BY <1>4, <1>8, <1>9

-----------------------------------------------------------------------------
(***************************************************************************)
(* Steps of the primary's thread.                                          *)
(***************************************************************************)
\* A step that changes the primary to v and its connection to l.
LEMMA MainStep ==
  ASSUME TypeInv, SyncInv, NEW v, NEW l,
         srv' = [srv EXCEPT ![Main] = v], link' = [link EXCEPT ![Main] = l],
         orphans' = orphans, primaryTxt' = primaryTxt,
         v.up, v.role = "primary", v.backup = srv[Main].backup,
         PrimarySide(v, l, srv[Backup].log)
  PROVE  SyncInv'
<1>1. /\ srv'[Main] = v /\ srv'[Backup] = srv[Backup]
      /\ link'[Main] = l /\ link'[Backup] = link[Backup]
  BY BackupFacts DEF TypeInv, ServersOK, NetworkOK
<1>2. RolesKept'
  BY <1>1 DEF SyncInv, RolesKept, Backup
<1>3. /\ BackupThread(srv'[Backup], link'[Backup], srv'[Main].backup)
      /\ PrimarySide(srv'[Main], link'[Main], srv'[Backup].log)
  BY <1>1 DEF SyncInv
<1> QED
  BY <1>2, <1>3 DEF SyncInv, Backup

\* Nothing that matters here changes.
LEMMA NothingChanges ==
  ASSUME SyncInv, UNCHANGED <<srv, link, orphans, primaryTxt>>
  PROVE  SyncInv'
<1>1. RolesKept'
  BY DEF SyncInv, RolesKept, Backup
<1>2. /\ BackupThread(srv'[Backup], link'[Backup], srv'[Main].backup)
      /\ PrimarySide(srv'[Main], link'[Main], srv'[Backup].log)
  BY DEF SyncInv
<1> QED
  BY <1>1, <1>2 DEF SyncInv, Backup

\* No call has been told that the commit is queued: then the stack does not
\* depend on the queue, nor on a connection that is made now.
LEMMA StackConnects ==
  ASSUME NEW stack, NEW pl, NEW bl, NEW alive \in BOOLEAN, NEW now \in BOOLEAN, alive => now,
         NEW rest, NEW later, PrimaryStack(stack, pl, bl, alive, rest),
         \A i \in 1..Len(stack) : stack[i].op = "doCommit" => stack[i].ret # "yes"
  PROVE  PrimaryStack(stack, pl, bl, now, later)
<1>1. ASSUME NEW i \in 1..Len(stack) PROVE FrameOK(stack[i], pl, bl, now, later)
  <2>1. FrameOK(stack[i], pl, bl, alive, rest)
    BY DEF PrimaryStack
  <2> QED
    BY <2>1 DEF FrameOK
<1> QED
  BY <1>1 DEF PrimaryStack

\* primaryOps() called with stack below it.
LEMMA PrimaryOpsSync ==
  ASSUME TypeInv, SyncInv, Tiny = {}, NEW stack \in Seq(Frames),
         PrimaryOps(Main, stack), primaryTxt' = primaryTxt,
         ~Runs(srv[Main], "sync"), ~Awaits(srv[Main]),
         PrimaryStack(stack, srv[Main].log, srv[Backup].log, srv[Main].alive, srv[Main].queue),
         stack # <<>> =>
           Head(stack).op # "sync" /\ (Head(stack).op = "commit" => Head(stack).at # "await"),
         ~srv[Main].alive =>
           \A i \in 1..Len(stack) : stack[i].op = "doCommit" => stack[i].ret # "yes"
  PROVE  SyncInv'
<1> DEFINE p == srv[Main]
           l == link[Main]
           bl == srv[Backup].log
<1>1. /\ p \in ServerStates /\ p.up /\ p.role = "primary" /\ l \in Links /\ p.alive \in BOOLEAN
      /\ p.queue \in Seq(Forwarded) /\ PrimaryLink(p, l, bl) /\ Mirrors(p.log, bl, p.queue)
  <2>1. Remaining(p, l) = p.queue
    BY MainNow
  <2> QED
    BY <2>1, MainNow
<1>2. l.requests = <<>> /\ l.replies = <<>>
  BY <1>1 DEF PrimaryLink
<1>3. Main \in Servers /\ srv \in [Servers -> ServerStates] /\ link \in [Servers -> Links]
  BY BackupFacts DEF TypeInv, ServersOK, NetworkOK
<1>4. CASE /\ p.alive /\ p.queue # <<>>
           /\ srv' = [srv EXCEPT ![Main].stack = << SyncFrame >> \o stack]
           /\ link' = [link EXCEPT ![Main] = Put(@, Echo(Head(p.queue)))]
           /\ orphans' = orphans
  <2> DEFINE m == Head(p.queue)
             all == << SyncFrame >> \o stack
             v == [p EXCEPT !.stack = all]
             k == Put(l, m)
  <2>1. srv' = [srv EXCEPT ![Main] = v]
    BY <1>3, <1>4
  <2>2. link' = [link EXCEPT ![Main] = k]
    <3>1. Echo(m) = m
      BY DEF Echo
    <3> QED
      BY <1>3, <1>4, <3>1
  <2>3. k.requests = <<m>> /\ k.replies = <<>> /\ k.state = "open"
    <3>1. l.state = "open"
      BY <1>1, <1>4 DEF PrimaryLink
    <3>2. Append(l.requests, m) = <<m>>
      BY <1>2
    <3>3. k = [l EXCEPT !.requests = <<m>>]
      BY <3>1, <3>2 DEF Put
    <3> QED
      BY <1>1, <1>2, <3>1, <3>3 DEF Links
  <2>4. SyncFrame \in Frames /\ SyncFrame.op = "sync"
    BY DEF SyncFrame, Frames
  <2>5. PrimaryStack(all, p.log, bl, p.alive, p.queue)
    <3>1. FrameOK(SyncFrame, p.log, bl, p.alive, p.queue)
      BY <2>4 DEF FrameOK
    <3>2. stack # <<>> => CallOK(SyncFrame, Head(stack))
      BY <2>4 DEF CallOK
    <3> QED
      BY <2>4, <3>1, <3>2, Calls
  <2>6. all # <<>> /\ Head(all) = SyncFrame
    BY <2>4, FramesAbove
  <2> HIDE DEF all
  <2>7. /\ v.up /\ v.role = "primary" /\ v.backup = p.backup /\ v.log = p.log /\ v.queue = p.queue
        /\ v.alive = p.alive /\ v.stack = all
    BY <1>1 DEF ServerStates
  <2> HIDE DEF v, k, m
  <2>8. Runs(v, "sync") /\ ~Awaits(v)
    BY <2>4, <2>6, <2>7 DEF Runs, Awaits
  <2>9. Remaining(v, k) = p.queue
    BY <2>3, <2>7 DEF Remaining
  <2>10. PrimaryLink(v, k, bl)
    BY <1>1, <1>4, <2>3, <2>7, <2>8 DEF PrimaryLink, Exchange, m
  <2>11. PrimarySide(v, k, bl)
    BY <1>1, <2>5, <2>7, <2>9, <2>10 DEF PrimarySide
  <2> QED
    BY <1>4, <2>1, <2>2, <2>7, <2>11, MainStep
<1>5. CASE ~p.alive /\ p.backup # Nobody
  <2>1. p.backup = Backup /\ Reachable(p.backup) /\ l = Closed
    BY <1>1, <1>5, BackupFacts, BackupNow DEF PrimaryLink, Reachable
  <2> DEFINE c == CheckFrame(Commits(Main), "go")
             all == <<c>> \o stack
             v == [p EXCEPT !.target = Backup, !.alive = TRUE, !.stack = all]
  <2>2. /\ srv' = [srv EXCEPT ![Main].target = p.backup, ![Main].alive = TRUE, ![Main].stack = all]
        /\ Connected(Main, Open)
    BY <1>5, <2>1 DEF PrimaryOps
  <2>3. link' = [link EXCEPT ![Main] = Open] /\ orphans' = orphans
    BY <1>2, <1>3, <2>2, NothingLeft DEF Connected
  <2>4. srv' = [srv EXCEPT ![Main] = v]
    BY <1>3, <2>1, <2>2
  <2>5. c \in Frames /\ c.op = "check" /\ c.ret = "go" /\ c.holder = Commits(Main)
    BY CommitsAre DEF CheckFrame, Frames
  <2>6. \A t \in Tsn : IsCommitted(p.log[t]) => t \in Commits(Main)
    BY DEF Commits, IsCommitted
  <2> HIDE DEF c
  <2>7. PrimaryStack(all, p.log, bl, TRUE, p.queue)
    <3>1. PrimaryStack(stack, p.log, bl, TRUE, p.queue)
      BY <1>1, <1>5, StackConnects
    <3>2. FrameOK(c, p.log, bl, TRUE, p.queue)
      BY <2>5, <2>6 DEF FrameOK
    <3>3. stack # <<>> => CallOK(c, Head(stack))
      BY <2>5 DEF CallOK
    <3> QED
      BY <2>5, <3>1, <3>2, <3>3, Calls
  <2>8. all # <<>> /\ Head(all) = c
    BY <2>5, FramesAbove
  <2> HIDE DEF all
  <2>9. /\ v.up /\ v.role = "primary" /\ v.backup = p.backup /\ v.log = p.log /\ v.queue = p.queue
        /\ v.alive = TRUE /\ v.stack = all
    BY <1>1 DEF ServerStates
  <2> HIDE DEF v
  <2>10. ~Runs(v, "sync") /\ ~Awaits(v)
    BY <2>5, <2>8, <2>9 DEF Runs, Awaits
  <2>11. Open.requests = <<>> /\ Open.replies = <<>> /\ Open.state = "open"
    BY DEF Open, Closed
  <2>12. PrimaryLink(v, Open, bl) /\ Remaining(v, Open) = p.queue
    BY <1>1, <1>5, <2>9, <2>10, <2>11 DEF PrimaryLink, Remaining
  <2>13. PrimarySide(v, Open, bl)
    BY <1>1, <2>7, <2>9, <2>12 DEF PrimarySide
  <2> QED
    BY <2>3, <2>4, <2>9, <2>13, MainStep
<1>6. CASE /\ srv' = [srv EXCEPT ![Main].stack = stack] /\ stack # <<>>
           /\ UNCHANGED <<link, orphans>>
  <2> DEFINE v == [p EXCEPT !.stack = stack]
  <2>1. srv' = [srv EXCEPT ![Main] = v] /\ link' = [link EXCEPT ![Main] = l]
    BY <1>3, <1>6
  <2>2. /\ v.up /\ v.role = "primary" /\ v.backup = p.backup /\ v.log = p.log /\ v.queue = p.queue
        /\ v.alive = p.alive /\ v.stack = stack
    BY <1>1 DEF ServerStates
  <2> HIDE DEF v
  <2>3. ~Runs(v, "sync") /\ ~Awaits(v)
    BY <1>6, <2>2 DEF Runs, Awaits
  <2>4. PrimaryLink(v, l, bl) /\ Remaining(v, l) = p.queue
    BY <1>1, <1>2, <2>2, <2>3 DEF PrimaryLink, Remaining
  <2>5. PrimarySide(v, l, bl)
    BY <1>1, <2>2, <2>4 DEF PrimarySide
  <2> QED
    BY <1>6, <2>1, <2>2, <2>5, MainStep
<1> QED
  BY <1>4, <1>5, <1>6 DEF PrimaryOps

LEMMA PrimaryCheckSync ==
  ASSUME TypeInv, SyncInv, Tiny = {}, PrimaryCheck(Main)
  PROVE  SyncInv'
<1>1. srv[Main].stack = <<>> /\ PrimaryOps(Main, <<>>) /\ primaryTxt' = primaryTxt
  BY DEF PrimaryCheck, Fires, Idle
<1>2. ~Runs(srv[Main], "sync") /\ ~Awaits(srv[Main])
  BY <1>1 DEF Runs, Awaits
<1>3. PrimaryStack(<<>>, srv[Main].log, srv[Backup].log, srv[Main].alive, srv[Main].queue)
  BY <1>1, <1>2, MainNow
<1>4. <<>> \in Seq(Frames)
  OBVIOUS
<1> DEFINE stack == <<>>
<1>5. \A i \in 1..Len(stack) : stack[i].op = "doCommit" => stack[i].ret # "yes"
  OBVIOUS
<1> QED
  BY <1>1, <1>2, <1>3, <1>4, <1>5, PrimaryOpsSync

\* The connection after a single reply was read.
LEMMA ReplyRead ==
  ASSUME NEW s \in Servers, link[s] \in Links, NEW a, link[s].replies = <<a>>, NEW k \in AfterRead(s)
  PROVE  /\ k.requests = link[s].requests /\ k.replies = <<>> /\ k.state = link[s].state
         /\ Head(link[s].replies) = a
<1>1. PICK j \in DOMAIN link[s].replies : k = [link[s] EXCEPT !.replies = SubSeq(@, j + 1, Len(@))]
  BY DEF AfterRead
<1>2. DOMAIN <<a>> = {1} /\ Len(<<a>>) = 1 /\ Head(<<a>>) = a
  OBVIOUS
<1>3. j = 1 /\ k = [link[s] EXCEPT !.replies = SubSeq(<<a>>, 2, 1)]
  BY <1>1, <1>2
<1>4. SubSeq(<<a>>, 2, 1) = <<>>
  OBVIOUS
<1> QED
  BY <1>2, <1>3, <1>4 DEF Links

LEMMA SyncReplySync ==
  ASSUME TypeInv, SyncInv, Tiny = {}, SyncReply(Main)
  PROVE  SyncInv'
<1> DEFINE p == srv[Main]
           l == link[Main]
           bl == srv[Backup].log
           tl == Tail(p.queue)
<1>1. /\ p \in ServerStates /\ p.up /\ p.role = "primary" /\ l \in Links
      /\ p.queue \in Seq(Forwarded) /\ p.stack \in Seq(Frames)
      /\ StackOK(p.stack, p.log) /\ SyncOK(p.stack, p.queue)
      /\ PrimaryLink(p, l, bl) /\ Mirrors(p.log, bl, Remaining(p, l))
      /\ PrimaryStack(p.stack, p.log, bl, p.alive, Remaining(p, l))
  BY MainNow
<1>2. Main \in Servers /\ srv \in [Servers -> ServerStates] /\ link \in [Servers -> Links]
  BY BackupFacts DEF TypeInv, ServersOK, NetworkOK
<1>3. p.stack # <<>> /\ Runs(p, "sync") /\ ~Awaits(p) /\ Head(p.stack).op = "sync"
  BY DEF SyncReply, In, Top, Runs, Awaits
<1>4. PICK k \in AfterRead(Main) :
         \/ /\ tl # <<>>
            /\ link' = [link EXCEPT ![Main] = Put(k, Echo(Head(tl)))]
            /\ srv' = [srv EXCEPT ![Main].queue = tl]
         \/ /\ tl = <<>>
            /\ link' = [link EXCEPT ![Main] = k]
            /\ srv' = [srv EXCEPT ![Main].queue = tl, ![Main].stack = Below(Main)]
  BY DEF SyncReply
<1>5. UNCHANGED <<orphans, primaryTxt>>
  BY DEF SyncReply
<1>6. p.alive /\ l.state = "open" /\ Exchange(l, Head(p.queue))
  BY <1>1, <1>3 DEF PrimaryLink
<1>7. l.replies # <<>>
  BY <1>4 DEF AfterRead
<1>8. l.requests = <<>> /\ \E a \in Replies : l.replies = <<a>>
  BY <1>6, <1>7 DEF Exchange
<1>9. k.requests = <<>> /\ k.replies = <<>> /\ k.state = "open"
  BY <1>1, <1>2, <1>4, <1>6, <1>8, ReplyRead
<1>10. Remaining(p, l) = tl
  BY <1>3, <1>8 DEF Remaining
<1>11. tl \in Seq(Forwarded) /\ p.queue # <<>>
  <2>1. p.queue # <<>>
    BY <1>1, <1>3 DEF SyncOK
  <2> QED
    BY <1>1, <2>1, TailFacts
<1> HIDE DEF tl
<1>12. CASE /\ tl # <<>>
            /\ link' = [link EXCEPT ![Main] = Put(k, Echo(Head(tl)))]
            /\ srv' = [srv EXCEPT ![Main].queue = tl]
  <2> DEFINE m == Head(tl)
             c == Put(k, m)
             v == [p EXCEPT !.queue = tl]
  <2>1. srv' = [srv EXCEPT ![Main] = v]
    BY <1>2, <1>12
  <2>2. link' = [link EXCEPT ![Main] = c]
    <3>1. Echo(m) = m
      BY DEF Echo
    <3> QED
      BY <1>12, <3>1
  <2>3. c.requests = <<m>> /\ c.replies = <<>> /\ c.state = "open"
    <3>1. k \in Links
      BY <1>2, <1>4, AfterReadType DEF TypeInv
    <3>2. Append(k.requests, m) = <<m>>
      BY <1>9
    <3>3. c = [k EXCEPT !.requests = <<m>>]
      BY <1>9, <3>2 DEF Put
    <3> QED
      BY <1>9, <3>1, <3>3 DEF Links
  <2>4. /\ v.up /\ v.role = "primary" /\ v.backup = p.backup /\ v.log = p.log /\ v.queue = tl
        /\ v.alive = p.alive /\ v.stack = p.stack
    BY <1>1 DEF ServerStates
  <2> HIDE DEF v, c, m
  <2>5. Runs(v, "sync") /\ ~Awaits(v)
    BY <1>3, <2>4 DEF Runs, Awaits
  <2>6. PrimaryLink(v, c, bl) /\ Remaining(v, c) = tl
    BY <1>1, <1>6, <2>3, <2>4, <2>5 DEF PrimaryLink, Exchange, Remaining, m
  <2>7. PrimarySide(v, c, bl)
    BY <1>1, <1>10, <2>4, <2>6 DEF PrimarySide
  <2> QED
    BY <1>5, <2>1, <2>2, <2>4, <2>7, MainStep
<1>13. CASE /\ tl = <<>>
            /\ link' = [link EXCEPT ![Main] = k]
            /\ srv' = [srv EXCEPT ![Main].queue = tl, ![Main].stack = Below(Main)]
  <2> DEFINE below == Tail(p.stack)
             v == [p EXCEPT !.queue = tl, !.stack = below]
  <2>1. srv' = [srv EXCEPT ![Main] = v]
    BY <1>2, <1>13 DEF Below
  <2>2. /\ PrimaryStack(below, p.log, bl, p.alive, tl)
        /\ below # <<>> => CallOK(Head(p.stack), Head(below))
    BY <1>1, <1>3, <1>10, Returns
  <2>3. below # <<>> => Head(below).op \notin {"ping", "sync"}
    BY <1>1, <1>3, TopFrame
  <2> HIDE DEF below
  <2>4. /\ v.up /\ v.role = "primary" /\ v.backup = p.backup /\ v.log = p.log /\ v.queue = tl
        /\ v.alive = p.alive /\ v.stack = below
    BY <1>1 DEF ServerStates
  <2> HIDE DEF v
  <2>5. ~Runs(v, "sync") /\ ~Awaits(v)
    BY <2>2, <2>3, <2>4 DEF Runs, Awaits, CallOK
  <2>6. PrimaryLink(v, k, bl) /\ Remaining(v, k) = tl
    BY <1>1, <1>6, <1>9, <2>4, <2>5 DEF PrimaryLink, Remaining
  <2>7. PrimarySide(v, k, bl)
    BY <1>1, <1>10, <2>2, <2>4, <2>6 DEF PrimarySide
  <2> QED
    BY <1>5, <1>13, <2>1, <2>4, <2>7, MainStep
<1> QED
  BY <1>4, <1>12, <1>13

\* The state of the primary in commit(), before it waits for the answer.
LEMMA InCommit ==
  ASSUME TypeInv, SyncInv, Runs(srv[Main], "commit"), NEW pc \in {"enter", "decide", "await"}
  PROVE  LET p == srv[Main]
             f == Head(p.stack)
             h == [f EXCEPT !.at = pc]
             g == Head(Tail(p.stack))
             bl == srv[Backup].log
             stack == <<h>> \o Tail(p.stack)
         IN  /\ ~Runs(p, "sync") /\ Remaining(p, link[Main]) = p.queue
             /\ f \in Frames /\ h \in Frames
             /\ h.op = "commit" /\ h.tsn = f.tsn /\ h.seq = f.seq /\ h.at = pc
             /\ stack \in Seq(Frames) /\ stack # <<>> /\ Head(stack) = h
             /\ PrimaryStack(stack, p.log, bl, p.alive, p.queue)
             /\ ~p.alive =>
                  /\ g.op = "doCommit" /\ Tail(Tail(p.stack)) = <<>>
                  /\ \A i \in 1..Len(stack) : stack[i].op = "doCommit" => stack[i].ret # "yes"
                  /\ \A i \in 1..Len(p.stack) : p.stack[i].op = "doCommit" => p.stack[i].ret # "yes"
<1> DEFINE p == srv[Main]
           below == Tail(p.stack)
           f == Head(p.stack)
           h == [f EXCEPT !.at = pc]
           g == Head(below)
           bl == srv[Backup].log
           stack == <<h>> \o below
<1>1. ~Runs(p, "sync") /\ p.stack # <<>> /\ f.op = "commit"
  BY DEF Runs
<1>2. /\ Remaining(p, link[Main]) = p.queue /\ p.log \in GoodLog
      /\ p.stack \in Seq(Frames) /\ p.alive \in BOOLEAN /\ StackOK(p.stack, p.log)
      /\ PrimaryStack(p.stack, p.log, bl, p.alive, p.queue)
  BY <1>1, MainNow
<1>3. /\ below # <<>> /\ below \in Seq(Frames) /\ g \in Frames
      /\ \/ g.op = "check" /\ p.alive
         \/ g.op = "doCommit" /\ g.ret = "wait" /\ f.tsn = g.tsn /\ Tail(below) = <<>>
  <2>1. /\ below # <<>> /\ below \in Seq(Frames) /\ g \in Frames
        /\ CalledBy(f, g, Tail(below) = <<>>, p.alive)
    BY <1>1, <1>2, CommitCalled
  <2> HIDE DEF f, g, below, p
  <2> QED
    BY <2>1 DEF CalledBy
<1>4. f \in Frames /\ CallOK(f, g)
  BY <1>1, <1>2, <1>3, TopFrame, Returns
<1>5. h \in Frames /\ h.op = "commit" /\ h.tsn = f.tsn /\ h.seq = f.seq /\ h.at = pc
  BY <1>1, <1>4 DEF Frames
<1> HIDE DEF h, f
<1>6. PrimaryStack(stack, p.log, bl, p.alive, p.queue)
  <2>1. FrameOK(h, p.log, bl, p.alive, p.queue) /\ CallOK(h, g)
    BY <1>1, <1>4, <1>5 DEF FrameOK, CallOK
  <2>2. h.op = Head(p.stack).op
    BY <1>1, <1>5 DEF f
  <2> QED
    BY <1>1, <1>2, <1>5, <2>1, <2>2, Continues
<1>7. /\ stack \in Seq(Frames) /\ stack # <<>> /\ Head(stack) = h /\ stack[1] = h
      /\ \A i \in 1..Len(stack) : i # 1 => i - 1 \in 1..Len(below) /\ stack[i] = below[i - 1]
  BY <1>3, <1>5, FramesAbove
<1>8. /\ Len(p.stack) \in Nat /\ p.stack[1] = f
      /\ \A i \in 1..Len(p.stack) : i # 1 => i - 1 \in 1..Len(below) /\ below[i - 1] = p.stack[i]
  BY <1>1, <1>2, FramesBelow DEF f
<1>9. Len(below) \in Nat /\ below[1] = g /\ (Tail(below) = <<>> => Len(below) = 1)
  <2> DEFINE tl == Tail(below)
  <2> HIDE DEF below
  <2>1. /\ Len(below) \in Nat \ {0} /\ Len(tl) = Len(below) - 1 /\ below[1] = g
    BY <1>3, FramesBelow
  <2> HIDE DEF tl
  <2>2. tl = <<>> => Len(tl) = 0
    OBVIOUS
  <2>3. Len(below) \in Nat /\ below[1] = g /\ (tl = <<>> => Len(below) = 1)
    BY <2>1, <2>2
  <2> QED
    BY <2>3 DEF tl
<1> HIDE DEF stack, below
<1>10. ~p.alive => \A i \in 1..Len(stack) : stack[i].op = "doCommit" => stack[i].ret # "yes"
  BY <1>3, <1>5, <1>7, <1>9
<1>11. ~p.alive => \A i \in 1..Len(p.stack) : p.stack[i].op = "doCommit" => p.stack[i].ret # "yes"
  BY <1>1, <1>3, <1>8, <1>9
<1> QED
  BY <1>1, <1>2, <1>3, <1>4, <1>5, <1>6, <1>7, <1>10, <1>11 DEF stack, below, h, f

LEMMA CommitEnterSync ==
  ASSUME TypeInv, SyncInv, Tiny = {}, CommitEnter(Main)
  PROVE  SyncInv'
<1> DEFINE p == srv[Main]
           f == Head(p.stack)
           h == [f EXCEPT !.at = "decide"]
           stack == <<h>> \o Tail(p.stack)
<1>1. p.role = "primary"
  BY MainNow
<1>2. /\ Runs(p, "commit") /\ f.at = "enter" /\ PrimaryOps(Main, stack) /\ primaryTxt' = primaryTxt
  BY <1>1 DEF CommitEnter, At, In, Top, Below, Runs
<1>3. ~Runs(p, "sync") /\ ~Awaits(p)
  BY <1>2 DEF Runs, Awaits
<1>4. /\ h.op = "commit" /\ h.at = "decide"
      /\ stack \in Seq(Frames) /\ stack # <<>> /\ Head(stack) = h
      /\ PrimaryStack(stack, p.log, srv[Backup].log, p.alive, p.queue)
      /\ ~p.alive => \A i \in 1..Len(stack) : stack[i].op = "doCommit" => stack[i].ret # "yes"
  BY <1>2, InCommit
<1> HIDE DEF stack, h
<1> QED
  BY <1>2, <1>3, <1>4, PrimaryOpsSync


\* A step of the primary that changes its log, its queue or its stack, and
\* leaves it with nothing under way on its connection.
LEMMA MainMoves ==
  ASSUME TypeInv, SyncInv, NEW log, NEW queue, NEW stack, NEW c,
         \/ srv' = [srv EXCEPT ![Main].log = log, ![Main].queue = queue, ![Main].stack = stack]
         \/ /\ srv' = [srv EXCEPT ![Main].log = log, ![Main].queue = queue]
            /\ stack = srv[Main].stack
         \/ /\ srv' = [srv EXCEPT ![Main].log = log]
            /\ queue = srv[Main].queue /\ stack = srv[Main].stack
         \/ /\ srv' = [srv EXCEPT ![Main].log = log, ![Main].stack = stack]
            /\ queue = srv[Main].queue
         \/ /\ srv' = [srv EXCEPT ![Main].queue = queue, ![Main].stack = stack]
            /\ log = srv[Main].log
         \/ /\ srv' = [srv EXCEPT ![Main].stack = stack]
            /\ log = srv[Main].log /\ queue = srv[Main].queue,
         link' = [link EXCEPT ![Main] = c], orphans' = orphans, primaryTxt' = primaryTxt,
         c = link[Main] \/ (srv[Main].alive /\ c.state = link[Main].state),
         c.requests = <<>>, c.replies = <<>>,
         stack # <<>> =>
           Head(stack).op # "sync" /\ (Head(stack).op = "commit" => Head(stack).at # "await"),
         Mirrors(log, srv[Backup].log, queue),
         PrimaryStack(stack, log, srv[Backup].log, srv[Main].alive, queue)
  PROVE  SyncInv'
<1> DEFINE p == srv[Main]
           v == [p EXCEPT !.log = log, !.queue = queue, !.stack = stack]
           bl == srv[Backup].log
<1>1. /\ p \in ServerStates /\ p.up /\ p.role = "primary" /\ PrimaryLink(p, link[Main], bl)
  BY MainNow
<1>2. Main \in Servers /\ srv \in [Servers -> ServerStates]
  BY BackupFacts DEF TypeInv, ServersOK
<1>3. srv' = [srv EXCEPT ![Main] = v]
  <2>1. /\ queue = p.queue => v = [p EXCEPT !.log = log, !.stack = stack]
        /\ stack = p.stack => v = [p EXCEPT !.log = log, !.queue = queue]
        /\ log = p.log => v = [p EXCEPT !.queue = queue, !.stack = stack]
    BY <1>1 DEF ServerStates
  <2>2. /\ queue = p.queue /\ stack = p.stack => v = [p EXCEPT !.log = log]
        /\ log = p.log /\ queue = p.queue => v = [p EXCEPT !.stack = stack]
    BY <1>1 DEF ServerStates
  <2> QED
    BY <1>2, <2>1, <2>2
<1>4. /\ v.up /\ v.role = "primary" /\ v.backup = p.backup /\ v.alive = p.alive
      /\ v.log = log /\ v.queue = queue /\ v.stack = stack
  BY <1>1 DEF ServerStates
<1> HIDE DEF v
<1>5. ~Runs(v, "sync") /\ ~Awaits(v)
  BY <1>4 DEF Runs, Awaits
<1>6. PrimaryLink(v, c, bl) /\ Remaining(v, c) = queue
  BY <1>1, <1>4, <1>5 DEF PrimaryLink, Remaining
<1>7. PrimarySide(v, c, bl)
  BY <1>4, <1>6 DEF PrimarySide
<1> QED
  BY <1>3, <1>4, <1>7, MainStep

\* commit() returns that the transaction is committed, to a caller that may
\* be told so.
LEMMA ReturnsYes ==
  ASSUME NEW stack \in Seq(Frames), stack # <<>>, Head(stack).op = "commit",
         NEW pl \in GoodLog, NEW bl, NEW alive, NEW rest,
         StackOK(stack, pl), PrimaryStack(stack, pl, bl, alive, rest),
         \/ IsCommitted(bl[Head(stack).tsn])
         \/ ~alive /\ \E i \in 1..Len(rest) :
                        rest[i].type = "COMMIT" /\ rest[i].tsn = Head(stack).tsn
  PROVE  LET g == Head(Tail(stack))
             after == << [g EXCEPT !.ret = "yes"] >> \o Tail(Tail(stack))
         IN  /\ PrimaryStack(after, pl, bl, alive, rest)
             /\ after # <<>> /\ Head(after).op \notin {"sync", "commit"}
<1> DEFINE f == Head(stack)
           below == Tail(stack)
           g == Head(below)
           h == [g EXCEPT !.ret = "yes"]
<1>a. /\ below # <<>> /\ below \in Seq(Frames) /\ g \in Frames
      /\ PrimaryStack(below, pl, bl, alive, rest)
      /\ CalledBy(f, g, Tail(below) = <<>>, alive)
  BY CommitCalled
<1> HIDE DEF f, below
<1>1. /\ below # <<>> /\ below \in Seq(Frames) /\ g \in Frames
      /\ PrimaryStack(below, pl, bl, alive, rest)
      /\ \/ /\ g.op = "check" /\ alive
            /\ g.ret = "go" /\ g.holder # {} /\ f.tsn = Highest(g.holder)
         \/ g.op = "doCommit" /\ g.ret = "wait" /\ f.tsn = g.tsn /\ Tail(below) = <<>>
  BY <1>a DEF CalledBy
<1>2. /\ h \in Frames /\ h.op = g.op /\ h.ret = "yes"
      /\ g.op = "check" => h.holder = g.holder
      /\ g.op = "doCommit" => h.tsn = g.tsn
  BY <1>1 DEF Frames
<1>3. /\ FrameOK(g, pl, bl, alive, rest)
      /\ Tail(below) # <<>> => CallOK(g, Head(Tail(below)))
  BY <1>1, Returns
<1> HIDE DEF h, g
<1>4. FrameOK(h, pl, bl, alive, rest)
  BY <1>1, <1>2, <1>3 DEF FrameOK, f
<1>5. Tail(below) # <<>> => CallOK(h, Head(Tail(below)))
  BY <1>1, <1>2, <1>3 DEF CallOK
<1>6. PrimaryStack(<<h>> \o Tail(below), pl, bl, alive, rest)
  BY <1>1, <1>2, <1>4, <1>5, Continues DEF g
<1>7. Tail(below) \in Seq(Frames)
  BY <1>1, FramesBelow
<1>8. <<h>> \o Tail(below) # <<>> /\ Head(<<h>> \o Tail(below)) = h
  BY <1>2, <1>7, FramesAbove
<1>9. h.op \notin {"sync", "commit"}
  BY <1>1, <1>2
<1> QED
  BY <1>6, <1>8, <1>9 DEF h, g, below

LEMMA CommitDecideSync ==
  ASSUME TypeInv, SyncInv, CommitDecide(Main)
  PROVE  SyncInv'
<1> DEFINE p == srv[Main]
           f == Head(p.stack)
           bl == srv[Backup].log
           Goto(pc) == << [f EXCEPT !.at = pc] >> \o Tail(p.stack)
           m == Packet("COMMIT", f.tsn, f.seq, NoData)
<1>1. /\ p \in ServerStates /\ p.role = "primary" /\ link[Main] \in Links
      /\ p.log \in GoodLog /\ p.log \in Log /\ p.queue \in Seq(Forwarded)
      /\ p.stack \in Seq(Frames) /\ p.alive \in BOOLEAN /\ StackOK(p.stack, p.log)
      /\ PrimaryLink(p, link[Main], bl)
      /\ Mirrors(p.log, bl, Remaining(p, link[Main]))
      /\ PrimaryStack(p.stack, p.log, bl, p.alive, Remaining(p, link[Main]))
      /\ bl \in Log
  BY MainNow
<1>2. /\ Runs(p, "commit") /\ f.at = "decide" /\ f.op = "commit" /\ p.stack # <<>>
      /\ orphans' = orphans /\ primaryTxt' = primaryTxt
  BY DEF CommitDecide, At, In, Top, Runs
<1>3. ~Awaits(p) /\ CommitPacket(Main) = m
  BY <1>2 DEF Awaits, CommitPacket, Top
<1>4. \A pc \in {"enter", "decide", "await"} :
        /\ ~Runs(p, "sync") /\ Remaining(p, link[Main]) = p.queue
        /\ Goto(pc) \in Seq(Frames) /\ Goto(pc) # <<>>
        /\ Head(Goto(pc)).op = "commit" /\ Head(Goto(pc)).tsn = f.tsn
        /\ Head(Goto(pc)).seq = f.seq /\ Head(Goto(pc)).at = pc
        /\ PrimaryStack(Goto(pc), p.log, bl, p.alive, p.queue)
        /\ ~p.alive => \A i \in 1..Len(p.stack) : p.stack[i].op = "doCommit" => p.stack[i].ret # "yes"
  <2> TAKE pc \in {"enter", "decide", "await"}
  <2> DEFINE h == [f EXCEPT !.at = pc]
             stack == <<h>> \o Tail(p.stack)
  <2>1. /\ ~Runs(p, "sync") /\ Remaining(p, link[Main]) = p.queue
        /\ h.op = "commit" /\ h.tsn = f.tsn /\ h.seq = f.seq /\ h.at = pc
        /\ stack \in Seq(Frames) /\ stack # <<>> /\ Head(stack) = h
        /\ PrimaryStack(stack, p.log, bl, p.alive, p.queue)
        /\ ~p.alive => \A i \in 1..Len(p.stack) : p.stack[i].op = "doCommit" => p.stack[i].ret # "yes"
    BY <1>2, InCommit
  <2> HIDE DEF h
  <2> QED
    BY <2>1 DEF h
<1>5. link[Main].requests = <<>> /\ link[Main].replies = <<>>
  BY <1>1, <1>3, <1>4 DEF PrimaryLink
<1>6. /\ f.tsn \in Tsn /\ f.seq \in SeqNo /\ p.log[f.tsn] # NoTxn
      /\ p.log[f.tsn].status \in {"WRITING", "COMMITTED"} /\ p.log[f.tsn].data = f.seq
  BY <1>1, <1>2, CommitCalled
<1>7. CASE /\ p.alive /\ p.queue = <<>>
           /\ srv' = [srv EXCEPT ![Main].stack = Goto("await")]
           /\ link' = [link EXCEPT ![Main] = Put(link[Main], m)]
  <2> DEFINE stack == Goto("await")
             c == Put(link[Main], m)
             v == [p EXCEPT !.stack = stack]
  <2>1. srv' = [srv EXCEPT ![Main] = v]
    BY <1>7, BackupFacts DEF TypeInv, ServersOK
  <2>2. c.requests = <<m>> /\ c.replies = <<>> /\ c.state = "open"
    <3>1. link[Main].state = "open"
      BY <1>1, <1>7 DEF PrimaryLink
    <3>2. Append(link[Main].requests, m) = <<m>>
      BY <1>5
    <3>3. c = [link[Main] EXCEPT !.requests = <<m>>]
      BY <3>1, <3>2 DEF Put
    <3> QED
      BY <1>1, <1>5, <3>1, <3>3 DEF Links
  <2>3. /\ stack # <<>> /\ Head(stack).op = "commit" /\ Head(stack).tsn = f.tsn
        /\ Head(stack).seq = f.seq /\ Head(stack).at = "await"
        /\ PrimaryStack(stack, p.log, bl, p.alive, p.queue)
    BY <1>4
  <2> HIDE DEF stack
  <2>4. /\ v.up /\ v.role = "primary" /\ v.backup = p.backup /\ v.log = p.log /\ v.queue = p.queue
        /\ v.alive = p.alive /\ v.stack = stack
    BY <1>1, MainNow DEF ServerStates
  <2> HIDE DEF v, c
  <2>5. ~Runs(v, "sync") /\ Awaits(v)
    BY <2>3, <2>4 DEF Runs, Awaits
  <2>6. Exchange(c, m) /\ c.requests # <<>>
    BY <2>2 DEF Exchange
  <2>7. PrimaryLink(v, c, bl) /\ Remaining(v, c) = p.queue
    BY <1>1, <1>7, <2>2, <2>3, <2>4, <2>5, <2>6 DEF PrimaryLink, Remaining
  <2>8. PrimarySide(v, c, bl)
    BY <1>1, <1>4, <2>3, <2>4, <2>7 DEF PrimarySide
  <2> QED
    BY <1>2, <1>7, <2>1, <2>4, <2>8, MainStep DEF c
<1>8. CASE /\ srv' = [srv EXCEPT ![Main].stack = Goto("enter")]
           /\ link' = link
  <2> DEFINE stack == Goto("enter")
  <2>1. /\ Head(stack).op = "commit" /\ Head(stack).at = "enter"
        /\ PrimaryStack(stack, p.log, bl, p.alive, p.queue)
    BY <1>4
  <2>2. link' = [link EXCEPT ![Main] = link[Main]] /\ Mirrors(p.log, bl, p.queue)
    BY <1>1, <1>4, <1>8, BackupFacts DEF TypeInv, NetworkOK
  <2>3. srv' = [srv EXCEPT ![Main].stack = stack]
    BY <1>8
  <2> HIDE DEF stack
  <2> QED
    BY <1>2, <1>5, <2>1, <2>2, <2>3, MainMoves
<1>9. CASE /\ ~p.alive
           /\ srv' = [srv EXCEPT ![Main].queue = Append(p.queue, m),
                                 ![Main].stack = Returned(Main, TRUE)]
           /\ link' = link
  <2> DEFINE rest == Append(p.queue, m)
             stack == Returned(Main, TRUE)
  <2>1. m \in Forwarded /\ m.type = "COMMIT" /\ m.tsn = f.tsn /\ m.seq = f.seq
    BY <1>6, TsnAssumption DEF Packet, Forwarded, WellFormed, Packets, SeqNo
  <2> HIDE DEF m
  <2>2. Mirrors(p.log, bl, rest)
    BY <1>1, <1>4, <1>6, <2>1, QueuesCommit
  <2>3. \E i \in 1..Len(rest) : rest[i].type = "COMMIT" /\ rest[i].tsn = f.tsn
    <3>1. Len(p.queue) \in Nat /\ Len(rest) = Len(p.queue) + 1 /\ rest[Len(p.queue) + 1] = m
      BY <1>1, <2>1, AppendFacts
    <3> HIDE DEF rest
    <3> QED
      BY <2>1, <3>1
  <2> HIDE DEF rest
  <2>4. PrimaryStack(p.stack, p.log, bl, p.alive, rest)
    BY <1>1, <1>4, <1>9, StackConnects
  <2>5. PrimaryStack(stack, p.log, bl, p.alive, rest) /\ Head(stack).op \notin {"sync", "commit"}
    BY <1>1, <1>2, <1>9, <2>3, <2>4, ReturnsYes DEF Returned, Below
  <2>6. link' = [link EXCEPT ![Main] = link[Main]]
    BY <1>9, BackupFacts DEF TypeInv, NetworkOK
  <2>7. srv' = [srv EXCEPT ![Main].queue = rest, ![Main].stack = stack]
    BY <1>9 DEF rest
  <2> HIDE DEF stack
  <2> QED
    BY <1>2, <1>5, <2>2, <2>5, <2>6, <2>7, MainMoves
<1> HIDE DEF m
<1> QED
  BY <1>1, <1>2, <1>3, <1>7, <1>8, <1>9 DEF CommitDecide, Top, Below, Queued


LEMMA CommitReplySync ==
  ASSUME TypeInv, SyncInv, CommitReply(Main)
  PROVE  SyncInv'
<1> DEFINE p == srv[Main]
           f == Head(p.stack)
           bl == srv[Backup].log
           l == link[Main]
           stack == Returned(Main, TRUE)
<1>1. /\ p \in ServerStates /\ p.role = "primary" /\ l \in Links
      /\ p.log \in GoodLog /\ p.log \in Log /\ p.queue \in Seq(Forwarded)
      /\ p.stack \in Seq(Frames) /\ p.alive \in BOOLEAN /\ StackOK(p.stack, p.log)
      /\ PrimaryLink(p, l, bl)
      /\ Mirrors(p.log, bl, Remaining(p, l))
      /\ PrimaryStack(p.stack, p.log, bl, p.alive, Remaining(p, l))
  BY MainNow
<1>2. /\ Awaits(p) /\ p.stack # <<>> /\ f.op = "commit"
      /\ orphans' = orphans /\ primaryTxt' = primaryTxt
  BY DEF CommitReply, At, In, Top, Awaits, Runs
<1>3. PICK k \in AfterRead(Main) : link' = [link EXCEPT ![Main] = k]
  BY DEF CommitReply
<1>4. l.replies # <<>>
  <2>1. DOMAIN l.replies # {}
    BY <1>3 DEF AfterRead
  <2> QED
    BY <1>1, <2>1, EmptySeq DEF Links
<1>5. /\ p.alive /\ l.requests = <<>> /\ l.replies = <<"ACK">> /\ IsCommitted(bl[f.tsn])
      /\ l.state = "open"
  BY <1>1, <1>2, <1>4 DEF PrimaryLink, Exchange
<1>6. k.requests = <<>> /\ k.replies = <<>> /\ k.state = l.state /\ Head(l.replies) = "ACK"
  BY <1>1, <1>3, <1>5, BackupFacts, ReplyRead
<1>7. srv' = [srv EXCEPT ![Main].stack = stack]
  <2>1. Head(l.replies) \notin {"ACK_RESEND", "201", "ERROR"}
    BY <1>6
  <2> HIDE DEF stack
  <2> QED
    BY <2>1 DEF CommitReply, stack
<1>8. ~Runs(p, "sync") /\ Remaining(p, l) = p.queue
  BY <1>2, MainNow DEF Runs
<1>9. PrimaryStack(stack, p.log, bl, p.alive, p.queue) /\ Head(stack).op \notin {"sync", "commit"}
  BY <1>1, <1>2, <1>5, <1>8, ReturnsYes DEF Returned, Below
<1> HIDE DEF stack
<1>10. Mirrors(p.log, bl, p.queue)
  BY <1>1, <1>8
<1> QED
  BY <1>2, <1>3, <1>5, <1>6, <1>7, <1>9, <1>10, MainMoves

LEMMA FinishDoCommitSync ==
  ASSUME TypeInv, SyncInv, FinishDoCommit(Main)
  PROVE  SyncInv'
<1> DEFINE p == srv[Main]
           f == Head(p.stack)
           t == f.tsn
           bl == srv[Backup].log
           l == link[Main]
           new == [p.log EXCEPT ![t].status = "COMMITTED"]
<1>1. /\ p \in ServerStates /\ p.role = "primary" /\ l \in Links
      /\ p.log \in GoodLog /\ p.log \in Log /\ p.queue \in Seq(Forwarded)
      /\ p.stack \in Seq(Frames) /\ p.alive \in BOOLEAN /\ StackOK(p.stack, p.log)
      /\ PrimaryLink(p, l, bl) /\ bl \in Log
      /\ Mirrors(p.log, bl, Remaining(p, l))
      /\ PrimaryStack(p.stack, p.log, bl, p.alive, Remaining(p, l))
  BY MainNow
<1>2. /\ p.stack # <<>> /\ f.op = "doCommit" /\ f.ret # "wait"
      /\ orphans' = orphans /\ primaryTxt' = primaryTxt
  BY DEF FinishDoCommit, In, Top
<1>3. ~Runs(p, "sync") /\ ~Awaits(p) /\ Remaining(p, l) = p.queue
  BY <1>2, MainNow DEF Runs, Awaits
<1>4. /\ f \in Frames /\ Tail(p.stack) = <<>>
      /\ p.log[t] # NoTxn /\ p.log[t].status = "WRITING"
  BY <1>1, <1>2, TopFrame
<1>5. t \in Tsn /\ f.ret \in {"wait", "yes", "no"}
  BY <1>2, <1>4 DEF Frames
<1>6. /\ f.ret = "yes"
      /\ \/ IsCommitted(bl[t])
         \/ \E i \in 1..Len(p.queue) : p.queue[i].type = "COMMIT" /\ p.queue[i].tsn = t
  BY <1>1, <1>2, <1>3, <1>5, Returns DEF FrameOK
<1>7. srv' = [srv EXCEPT ![Main].log = new, ![Main].stack = <<>>]
  BY <1>6 DEF FinishDoCommit, Top
<1>8. link' = link
  <2>1. ~link[Other(Main)].serving
    BY BackupNow DEF BackupThread, Backup
  <2> QED
    BY <2>1 DEF FinishDoCommit
<1>9. Mirrors(new, bl, p.queue)
  BY <1>1, <1>3, <1>4, <1>5, <1>6, CommitsEntry
<1>10. NoneWriting(new)
  <2>1. Len(p.stack) = 1 /\ p.stack[1] = f
    <3> DEFINE tl == Tail(p.stack)
    <3>1. Len(p.stack) \in Nat \ {0} /\ Len(tl) = Len(p.stack) - 1 /\ p.stack[1] = f
      BY <1>1, <1>2, FramesBelow
    <3>2. tl = <<>>
      BY <1>4
    <3> HIDE DEF tl
    <3>3. Len(tl) = 0
      BY <3>2
    <3> QED
      BY <3>1, <3>3
  <2>2. \A u \in Tsn : p.log[u] # NoTxn /\ p.log[u].status = "WRITING" => u = t
    BY <1>1, <2>1 DEF PrimaryStack
  <2>3. \A u \in Tsn : u # t => new[u] = p.log[u]
    BY <1>1 DEF Log
  <2>4. new[t].status = "COMMITTED"
    BY <1>1, <1>4, <1>5 DEF Log, Txn
  <2> HIDE DEF new
  <2> QED
    BY <2>2, <2>3, <2>4 DEF NoneWriting
<1>11. PrimaryStack(<<>>, new, bl, p.alive, p.queue)
  BY <1>10, IdleStack
<1>12. link' = [link EXCEPT ![Main] = l] /\ l.requests = <<>> /\ l.replies = <<>>
  BY <1>1, <1>3, <1>8, BackupFacts DEF TypeInv, NetworkOK, PrimaryLink
<1> HIDE DEF new
<1> QED
  BY <1>2, <1>7, <1>9, <1>11, <1>12, MainMoves

LEMMA CheckNextSync ==
  ASSUME TypeInv, SyncInv, CheckNext(Main)
  PROVE  SyncInv'
<1> DEFINE p == srv[Main]
           f == Head(p.stack)
           bl == srv[Backup].log
           l == link[Main]
           todo == IF f.ret = "go" THEN f.holder ELSE f.holder \ {Highest(f.holder)}
           t == Highest(todo)
           c == CommitFrame(t, p.log[t].data)
           k == CheckFrame(todo, "go")
           below == Tail(p.stack)
           stack == <<c, k>> \o below
<1>1. /\ p \in ServerStates /\ p.role = "primary" /\ l \in Links
      /\ p.log \in GoodLog /\ p.log \in Log /\ p.queue \in Seq(Forwarded)
      /\ p.stack \in Seq(Frames) /\ p.alive \in BOOLEAN /\ StackOK(p.stack, p.log)
      /\ PrimaryLink(p, l, bl)
      /\ Mirrors(p.log, bl, Remaining(p, l))
      /\ PrimaryStack(p.stack, p.log, bl, p.alive, Remaining(p, l))
  BY MainNow
<1>2. /\ p.stack # <<>> /\ f.op = "check" /\ f.ret \in {"go", "yes"}
      /\ todo # {} /\ srv' = [srv EXCEPT ![Main].stack = stack]
      /\ link' = link /\ orphans' = orphans /\ primaryTxt' = primaryTxt
  BY DEF CheckNext, In, Top, Below
<1>3. ~Runs(p, "sync") /\ ~Awaits(p) /\ Remaining(p, l) = p.queue
  BY <1>2, MainNow DEF Runs, Awaits
<1>4. f \in Frames /\ below \in Seq(Frames) /\ \A u \in f.holder : IsCommitted(p.log[u])
  BY <1>1, <1>2, TopFrame
<1>5. /\ FrameOK(f, p.log, bl, p.alive, p.queue)
      /\ below # <<>> => CallOK(f, Head(below))
  BY <1>1, <1>2, <1>3, Returns
<1>6. f.holder \in SUBSET Tsn
  BY <1>2, <1>4 DEF Frames
<1>7. todo \in SUBSET Tsn /\ \A u \in f.holder : u \in todo \/ IsCommitted(bl[u])
  BY <1>2, <1>5, <1>6 DEF FrameOK
<1> HIDE DEF todo
<1>8. t \in todo
  BY <1>2, <1>7, HighestIn
<1>9. t \in Tsn /\ p.log[t].data \in SeqNo
  <2>1. t \in f.holder
    BY <1>8 DEF todo
  <2> QED
    BY <1>1, <1>4, <1>6, <2>1 DEF GoodLog, GoodTxn, HasAll, IsCommitted
<1>10. /\ c \in Frames /\ c.op = "commit" /\ c.tsn = t /\ c.at = "enter"
  BY <1>9 DEF CommitFrame, Frames
<1>11. /\ k \in Frames /\ k.op = "check" /\ k.holder = todo /\ k.ret = "go"
  BY <1>7 DEF CheckFrame, Frames
<1>12. stack = <<c>> \o (<<k>> \o below)
  BY <1>4, <1>10, <1>11, TwoFrames
<1> HIDE DEF c, k, stack, below
<1>13. FrameOK(k, p.log, bl, p.alive, p.queue)
  BY <1>2, <1>5, <1>7, <1>11 DEF FrameOK
<1>14. PrimaryStack(<<k>> \o below, p.log, bl, p.alive, p.queue)
  <2>1. below # <<>> => CallOK(k, Head(below))
    BY <1>2, <1>5, <1>11 DEF CallOK
  <2> QED
    BY <1>1, <1>2, <1>3, <1>11, <1>13, <2>1, Continues DEF below
<1>15. /\ FrameOK(c, p.log, bl, p.alive, p.queue) /\ CallOK(c, k)
  BY <1>2, <1>10, <1>11 DEF FrameOK, CallOK
<1>16. /\ <<k>> \o below \in Seq(Frames) /\ Head(<<k>> \o below) = k
  BY <1>4, <1>11, FramesAbove DEF below
<1>17. PrimaryStack(stack, p.log, bl, p.alive, p.queue) /\ Head(stack) = c
  <2> DEFINE caller == <<k>> \o below
  <2>1. PrimaryStack(<<c>> \o caller, p.log, bl, p.alive, p.queue)
    BY <1>10, <1>14, <1>15, <1>16, Calls
  <2>2. Head(<<c>> \o caller) = c
    BY <1>10, <1>16, FramesAbove
  <2> QED
    BY <1>12, <2>1, <2>2
<1>18. /\ link' = [link EXCEPT ![Main] = l] /\ l.requests = <<>> /\ l.replies = <<>>
       /\ Mirrors(p.log, bl, p.queue)
  BY <1>1, <1>2, <1>3, BackupFacts DEF TypeInv, NetworkOK, PrimaryLink
<1> QED
  BY <1>2, <1>10, <1>17, <1>18, MainMoves

LEMMA CheckEndMainSync ==
  ASSUME TypeInv, SyncInv, CheckEnd(Main)
  PROVE  SyncInv'
<1> DEFINE p == srv[Main]
           f == Head(p.stack)
           bl == srv[Backup].log
           l == link[Main]
           below == Tail(p.stack)
<1>1. /\ p \in ServerStates /\ p.role = "primary" /\ l \in Links
      /\ p.stack \in Seq(Frames) /\ StackOK(p.stack, p.log)
      /\ PrimaryLink(p, l, bl)
      /\ Mirrors(p.log, bl, Remaining(p, l))
      /\ PrimaryStack(p.stack, p.log, bl, p.alive, Remaining(p, l))
  BY MainNow
<1>2. /\ p.stack # <<>> /\ f.op = "check"
      /\ srv' = [srv EXCEPT ![Main].stack = below]
      /\ link' = link /\ orphans' = orphans /\ primaryTxt' = primaryTxt
  BY <1>1 DEF CheckEnd, In, Top, Below
<1>3. ~Runs(p, "sync") /\ ~Awaits(p) /\ Remaining(p, l) = p.queue
  BY <1>2, MainNow DEF Runs, Awaits
<1>4. /\ PrimaryStack(below, p.log, bl, p.alive, p.queue)
      /\ below # <<>> => CallOK(f, Head(below))
  BY <1>1, <1>2, <1>3, Returns
<1>5. below # <<>> => Head(below).op \notin {"ping", "sync"}
  BY <1>1, <1>2, TopFrame
<1>6. below # <<>> => (Head(below).op = "commit" => Head(below).at # "await")
  BY <1>4 DEF CallOK
<1>7. /\ link' = [link EXCEPT ![Main] = l] /\ l.requests = <<>> /\ l.replies = <<>>
      /\ Mirrors(p.log, bl, p.queue)
  BY <1>1, <1>2, <1>3, BackupFacts DEF TypeInv, NetworkOK, PrimaryLink
<1> HIDE DEF below
<1> QED
  BY <1>2, <1>4, <1>5, <1>6, <1>7, MainMoves


-----------------------------------------------------------------------------
(***************************************************************************)
(* Requests of clients, which the primary serves while its thread is idle. *)
(***************************************************************************)
LEMMA ClientFacts ==
  ASSUME NEW m \in ClientPackets
  PROVE  /\ m \in Forwarded /\ m.type \in {"WRITE", "COMMIT", "ABORT"} /\ m.tsn \in Tsn
         /\ m.type \in {"WRITE", "COMMIT"} => m.seq \in SeqNo
         /\ m.type = "WRITE" => m.data \in Data
<1>1. m \in WellFormed
  BY ClientPacketsType
<1>2. m.type \in {"WRITE", "COMMIT", "ABORT"} /\ (m.type = "WRITE" => m.data \in Data)
  BY DEF ClientPackets, Packet
<1> QED
  BY <1>1, <1>2 DEF Forwarded, WellFormed

\* The primary while it waits in io_service.run().
LEMMA MainIdle ==
  ASSUME TypeInv, SyncInv, srv[Main].stack = <<>>
  PROVE  LET p == srv[Main]
             bl == srv[Backup].log
         IN  /\ p.role = "primary" /\ p.log \in Log /\ bl \in Log /\ p.queue \in Seq(Forwarded)
             /\ Mirrors(p.log, bl, p.queue) /\ NoneWriting(p.log)
             /\ link[Main].requests = <<>> /\ link[Main].replies = <<>>
             /\ link = [link EXCEPT ![Main] = link[Main]]
<1> DEFINE p == srv[Main]
           bl == srv[Backup].log
<1>1. ~Runs(p, "sync") /\ ~Awaits(p)
  BY DEF Runs, Awaits
<1>2. /\ p.role = "primary" /\ p.log \in Log /\ bl \in Log /\ p.queue \in Seq(Forwarded)
      /\ Mirrors(p.log, bl, p.queue)
      /\ PrimaryLink(p, link[Main], bl) /\ PrimaryStack(p.stack, p.log, bl, p.alive, p.queue)
  BY <1>1, MainNow
<1>3. link[Main].requests = <<>> /\ link[Main].replies = <<>>
  BY <1>1, <1>2 DEF PrimaryLink
<1>4. NoneWriting(p.log)
  BY <1>2, IdleStack
<1>5. link = [link EXCEPT ![Main] = link[Main]]
  BY BackupFacts DEF TypeInv, NetworkOK
<1> QED
  BY <1>2, <1>3, <1>4, <1>5

\* A request that changes the log and the queue, and calls nothing.
LEMMA MainServes ==
  ASSUME TypeInv, SyncInv, srv[Main].stack = <<>>, NEW log, NEW queue,
         \/ srv' = [srv EXCEPT ![Main].log = log, ![Main].queue = queue]
         \/ srv' = [srv EXCEPT ![Main].log = log] /\ queue = srv[Main].queue,
         UNCHANGED <<link, orphans, primaryTxt>>,
         Mirrors(log, srv[Backup].log, queue), NoneWriting(log)
  PROVE  SyncInv'
<1>1. /\ link[Main].requests = <<>> /\ link[Main].replies = <<>>
      /\ link' = [link EXCEPT ![Main] = link[Main]]
  BY MainIdle
<1>2. PrimaryStack(srv[Main].stack, log, srv[Backup].log, srv[Main].alive, queue)
  BY IdleStack
<1> QED
  BY <1>1, <1>2, MainMoves

LEMMA NewTxnSync ==
  ASSUME TypeInv, SyncInv, FreshNumbers = TRUE, NEW t \in Tsn, NEW f \in Files, NewTxn(Main, t, f)
  PROVE  SyncInv'
<1> DEFINE p == srv[Main]
           bl == srv[Backup].log
           log == [p.log EXCEPT ![t] = NewEntry(f)]
           queue == Append(p.queue, Packet("MAKE_TXN", t, 0, f))
<1>1. /\ p.stack = <<>> /\ Unused(t)
      /\ srv' = [srv EXCEPT ![Main].log = log, ![Main].queue = queue]
      /\ UNCHANGED <<link, orphans, primaryTxt>>
  BY DEF NewTxn, Idle, With
<1>2. /\ p.log \in Log /\ bl \in Log /\ p.queue \in Seq(Forwarded)
      /\ Mirrors(p.log, bl, p.queue) /\ NoneWriting(p.log)
  BY <1>1, MainIdle
<1>3. p.log[t] = NoTxn /\ bl[t] = NoTxn /\ \A i \in 1..Len(p.queue) : p.queue[i].tsn # t
  BY <1>1, <1>2, BackupFacts DEF Unused
<1>4. Mirrors(log, bl, queue)
  BY <1>2, <1>3, QueuesMakeTxn
<1>5. NoneWriting(log)
  BY <1>2, NewEntryType DEF NoneWriting, Log
<1> HIDE DEF log, queue
<1> QED
  BY <1>1, <1>4, <1>5, MainServes

\* The stack with which doCommit() begins.
LEMMA CommitStack ==
  ASSUME NEW t \in Tsn, NEW n \in SeqNo, NEW pl, NEW bl, NEW alive, NEW rest,
         \A u \in Tsn : pl[u] # NoTxn /\ pl[u].status = "WRITING" => u = t
  PROVE  LET stack == << CommitFrame(t, n), DoCommitFrame(t, "client") >>
         IN  /\ PrimaryStack(stack, pl, bl, alive, rest)
             /\ Head(stack).op = "commit" /\ Head(stack).at = "enter"
<1> DEFINE c == CommitFrame(t, n)
           d == DoCommitFrame(t, "client")
           stack == <<c, d>>
<1>1. c.op = "commit" /\ c.tsn = t /\ c.at = "enter"
  BY DEF CommitFrame
<1>2. d.op = "doCommit" /\ d.tsn = t /\ d.ret = "wait"
  BY DEF DoCommitFrame
<1> HIDE DEF c, d
<1>3. Len(stack) = 2 /\ stack[1] = c /\ stack[2] = d /\ Head(stack) = c
  OBVIOUS
<1> HIDE DEF stack
<1>4. \A i \in 1..Len(stack) : i = 1 \/ i = 2
  BY <1>3
<1>5. FrameOK(c, pl, bl, alive, rest) /\ FrameOK(d, pl, bl, alive, rest) /\ CallOK(c, d)
  BY <1>1, <1>2 DEF FrameOK, CallOK
<1>6. \A i \in 1..Len(stack) : FrameOK(stack[i], pl, bl, alive, rest)
  BY <1>3, <1>4, <1>5
<1>7. \A i \in 1..Len(stack) : i < Len(stack) => CallOK(stack[i], stack[i + 1])
  <2> TAKE i \in 1..Len(stack)
  <2>1. i < Len(stack) => i = 1 /\ i + 1 = 2
    BY <1>3, <1>4
  <2> QED
    BY <1>3, <1>5, <2>1
<1>8. 2 \in 1..Len(stack)
  BY <1>3
<1>9. PrimaryStack(stack, pl, bl, alive, rest)
  BY <1>2, <1>3, <1>6, <1>7, <1>8 DEF PrimaryStack
<1> QED
  BY <1>1, <1>3, <1>9 DEF stack, c, d

\* x is the entry of the transaction when every packet of it is there.
LEMMA StartCommitSync ==
  ASSUME TypeInv, SyncInv, srv[Main].stack = <<>>, NEW m \in Forwarded, NEW x \in Txn,
         NEW n \in SeqNo, NEW queue \in Seq(Forwarded),
         StartCommit(Main, m, "client", x, n, queue), primaryTxt' = primaryTxt,
         x.status \notin {"WRITING", "COMMITTED"}, CanCommit(x, n),
         Mirrors([srv[Main].log EXCEPT ![m.tsn] = x], srv[Backup].log, queue)
  PROVE  SyncInv'
<1> DEFINE p == srv[Main]
           bl == srv[Backup].log
           t == m.tsn
           pl == [p.log EXCEPT ![t] = x]
           z == MarkedFor(x, "WRITING", n)
           log == [p.log EXCEPT ![t] = z]
           stack == << CommitFrame(t, n), DoCommitFrame(t, "client") >>
<1>1. /\ p.role = "primary" /\ p.log \in Log /\ bl \in Log /\ NoneWriting(p.log)
      /\ link[Main].requests = <<>> /\ link[Main].replies = <<>>
      /\ link = [link EXCEPT ![Main] = link[Main]]
  BY MainIdle
<1>2. /\ srv' = [srv EXCEPT ![Main].log = log, ![Main].queue = queue, ![Main].stack = stack]
      /\ UNCHANGED <<link, orphans>>
  BY <1>1 DEF StartCommit, With, Received
<1>3. t \in Tsn
  BY DEF Forwarded, WellFormed
<1>4. pl \in Log /\ pl[t] = x /\ x # NoTxn
  BY <1>1, <1>3, NoTxnAssumption DEF Log
<1>5. [pl EXCEPT ![t] = MarkedFor(pl[t], "WRITING", n)] = log
  BY <1>1, <1>3, <1>4 DEF Log
<1>6. \A u \in Tsn : log[u] # NoTxn /\ log[u].status = "WRITING" => u = t
  BY <1>1 DEF Log, NoneWriting
<1> HIDE DEF pl, log
<1>7. Mirrors([pl EXCEPT ![t] = MarkedFor(pl[t], "WRITING", n)], bl, queue)
  <2>1. Mirrors(pl, bl, queue) /\ "WRITING" \in {"WAITING", "WRITING"} /\ CanCommit(pl[t], n)
    BY <1>4 DEF pl
  <2> QED
    BY <1>1, <1>3, <1>4, <2>1, MarksEntry
<1>8. Mirrors(log, bl, queue)
  BY <1>5, <1>7
<1>9. /\ PrimaryStack(stack, log, bl, p.alive, queue)
      /\ Head(stack).op = "commit" /\ Head(stack).at = "enter"
  BY <1>3, <1>6, CommitStack
<1> HIDE DEF stack
<1>10. link' = [link EXCEPT ![Main] = link[Main]]
  BY <1>1, <1>2
<1> QED
  BY <1>1, <1>2, <1>8, <1>9, <1>10, MainMoves

LEMMA ClientWriteSync ==
  ASSUME TypeInv, SyncInv, srv[Main].stack = <<>>, NEW m \in ClientPackets,
         srv[Main].log[m.tsn] # NoTxn, HandleWrite(Main, m, "client"), primaryTxt' = primaryTxt
  PROVE  SyncInv'
<1> DEFINE p == srv[Main]
           bl == srv[Backup].log
           t == m.tsn
           x == Logged(p.log[t], m.seq, m.data)
           log == [p.log EXCEPT ![t] = x]
           queue == Append(p.queue, m)
<1>1. /\ p.role = "primary" /\ p.log \in Log /\ bl \in Log /\ p.queue \in Seq(Forwarded)
      /\ Mirrors(p.log, bl, p.queue) /\ NoneWriting(p.log)
  BY MainIdle
<1>2. m.type = "WRITE" /\ AddLogEntryCode(p.log[t], m.seq) = "ok"
  BY DEF HandleWrite
<1>3. m \in Forwarded /\ t \in Tsn /\ m.seq \in SeqNo /\ m.data \in Data
  BY <1>2, ClientFacts
<1>4. p.log[t] \in Txn /\ p.log[t].status # "WRITING"
  BY <1>1, <1>3 DEF Log, NoneWriting
<1>5. x \in Txn /\ x.status \in {"WAITING", "ACTIVE"}
  BY <1>3, <1>4, LoggedFacts
<1>6. Mirrors(log, bl, queue)
  BY <1>1, <1>2, <1>3, <1>4, QueuesWrite
<1>7. queue \in Seq(Forwarded) /\ Queued(Main, m) = queue
  BY <1>1, <1>3, AppendFacts DEF Queued
<1>8. \/ CanCommit(x, x.data) /\ StartCommit(Main, m, "client", x, x.data, queue)
      \/ /\ srv' = [srv EXCEPT ![Main].log = log, ![Main].queue = queue]
         /\ UNCHANGED <<link, orphans>>
  <2> HIDE DEF x
  <2>1. \/ CanCommit(x, x.data) /\ StartCommit(Main, m, "client", x, x.data, Queued(Main, m))
        \/ /\ srv' = [srv EXCEPT ![Main].log = With(Main, m.tsn, x), ![Main].queue = Queued(Main, m)]
           /\ Received(Main, m, "client", <<"ACK">>, FALSE)
    BY DEF HandleWrite, x
  <2> QED
    BY <1>7, <2>1 DEF Received, With
<1>9. NoneWriting(log)
  BY <1>1, <1>5 DEF NoneWriting, Log
<1> HIDE DEF queue, x
<1>10. CASE CanCommit(x, x.data) /\ StartCommit(Main, m, "client", x, x.data, queue)
  <2>1. x.data \in SeqNo
    BY <1>5, <1>10, MaxSeqAssumption DEF CanCommit, Txn, SeqNo
  <2> QED
    BY <1>3, <1>5, <1>6, <1>7, <1>10, <2>1, StartCommitSync
<1>11. CASE /\ srv' = [srv EXCEPT ![Main].log = log, ![Main].queue = queue]
            /\ UNCHANGED <<link, orphans>>
  <2> HIDE DEF log
  <2> QED
    BY <1>6, <1>9, <1>11, MainServes
<1> QED
  BY <1>8, <1>10, <1>11

LEMMA ClientCommitSync ==
  ASSUME TypeInv, SyncInv, srv[Main].stack = <<>>, NEW m \in ClientPackets,
         srv[Main].log[m.tsn] # NoTxn, HandleCommit(Main, m, "client"), primaryTxt' = primaryTxt
  PROVE  SyncInv'
<1> DEFINE p == srv[Main]
           bl == srv[Backup].log
           t == m.tsn
           x == p.log[t]
           z == MarkedFor(x, "WAITING", m.seq)
           log == [p.log EXCEPT ![t] = z]
<1>1. /\ p.role = "primary" /\ p.log \in Log /\ bl \in Log /\ p.queue \in Seq(Forwarded)
      /\ Mirrors(p.log, bl, p.queue) /\ NoneWriting(p.log)
  BY MainIdle
<1>2. m \in Forwarded /\ t \in Tsn /\ m.seq \in SeqNo
  BY ClientFacts DEF HandleCommit
<1>3. x \in Txn /\ x.status # "WRITING"
  BY <1>1, <1>2 DEF Log, NoneWriting
<1>4. CASE CommitCode(x, m.seq) = "committed" /\ StartCommit(Main, m, "client", x, m.seq, p.queue)
  <2>1. x.status # "COMMITTED" /\ CanCommit(x, m.seq)
    BY <1>4 DEF CommitCode
  <2>2. Mirrors([p.log EXCEPT ![t] = x], bl, p.queue)
    <3>1. [p.log EXCEPT ![t] = x] = p.log
      BY <1>1, <1>2 DEF Log
    <3> QED
      BY <1>1, <3>1
  <2> QED
    BY <1>1, <1>2, <1>3, <1>4, <2>1, <2>2, StartCommitSync
<1>5. CASE /\ CommitCode(x, m.seq) = "incomplete"
           /\ srv' = [srv EXCEPT ![Main].log = log]
           /\ UNCHANGED <<link, orphans>>
  <2>1. x.status # "COMMITTED" /\ "WAITING" \in {"WAITING", "WRITING"} /\ "WAITING" \in Status
    BY <1>5 DEF CommitCode, Status
  <2>2. Mirrors(log, bl, p.queue)
    BY <1>1, <1>2, <1>3, <2>1, MarksEntry
  <2>3. NoneWriting(log)
    <3>1. z.status = "WAITING"
      BY <1>2, <1>3, <2>1, MarkedFacts
    <3> HIDE DEF z
    <3> QED
      BY <1>1, <3>1 DEF NoneWriting, Log
  <2> HIDE DEF log
  <2> QED
    BY <1>5, <2>2, <2>3, MainServes
<1>6. CASE UNCHANGED <<srv, link, orphans>>
  BY <1>6, NothingChanges
<1> QED
  BY <1>4, <1>5, <1>6 DEF HandleCommit, Received, With

LEMMA ClientAbortSync ==
  ASSUME TypeInv, SyncInv, srv[Main].stack = <<>>, NEW m \in ClientPackets,
         srv[Main].log[m.tsn] # NoTxn, HandleAbort(Main, m, "client"), primaryTxt' = primaryTxt
  PROVE  SyncInv'
<1> DEFINE p == srv[Main]
           bl == srv[Backup].log
           t == m.tsn
           log == [p.log EXCEPT ![t] = NoTxn]
           queue == Append(p.queue, m)
<1>1. /\ p.role = "primary" /\ p.log \in Log /\ bl \in Log /\ p.queue \in Seq(Forwarded)
      /\ Mirrors(p.log, bl, p.queue) /\ NoneWriting(p.log)
  BY MainIdle
<1>2. /\ m \in Forwarded /\ t \in Tsn /\ m.type = "ABORT" /\ AbortCode(p.log[t]) = "ok"
      /\ p.log[t].status # "WRITING"
  BY <1>1, ClientFacts DEF HandleAbort, NoneWriting
<1>3. Mirrors(log, bl, queue)
  BY <1>1, <1>2, QueuesAbort
<1>4. NoneWriting(log)
  BY <1>1 DEF NoneWriting, Log
<1>5. /\ srv' = [srv EXCEPT ![Main].log = log, ![Main].queue = queue]
      /\ UNCHANGED <<link, orphans>>
  BY <1>1 DEF HandleAbort, Received, With, Queued
<1> HIDE DEF log, queue
<1> QED
  BY <1>3, <1>4, <1>5, MainServes

LEMMA ClientRequestSync ==
  ASSUME TypeInv, SyncInv, NEW m \in ClientPackets, ClientRequest(Main, m)
  PROVE  SyncInv'
<1>1. /\ srv[Main].stack = <<>> /\ srv[Main].log[m.tsn] # NoTxn
      /\ Handle(Main, m, "client") /\ primaryTxt' = primaryTxt
  BY DEF ClientRequest, Idle, Handle
<1>2. m.type \in {"WRITE", "COMMIT", "ABORT"}
  BY ClientFacts
<1>3. CASE Refuse(Main, m, "client")
  <2>1. UNCHANGED <<srv, link, orphans>>
    BY <1>3 DEF Refuse, Received
  <2> QED
    BY <1>1, <2>1, NothingChanges
<1>4. CASE HandleWrite(Main, m, "client")
  BY <1>1, <1>4, ClientWriteSync
<1>5. CASE HandleCommit(Main, m, "client")
  BY <1>1, <1>5, ClientCommitSync
<1>6. CASE HandleAbort(Main, m, "client")
  BY <1>1, <1>6, ClientAbortSync
<1>7. ~HandleMakeTxn(Main, m, "client") /\ ~HandlePing(Main, m, "client")
  BY <1>2 DEF HandleMakeTxn, HandlePing
<1> QED
  BY <1>1, <1>3, <1>4, <1>5, <1>6, <1>7 DEF Handle


-----------------------------------------------------------------------------
(***************************************************************************)
(* Every step.  Much of what a server can do cannot happen here: nothing   *)
(* breaks the connections, and the roles stay.                             *)
(***************************************************************************)
\* What the innermost call of the primary cannot be doing.
LEMMA MainCannot ==
  ASSUME TypeInv, SyncInv
  PROVE  /\ ~SyncFails(Main) /\ ~KillPrimary(Main) /\ ~CommitFails(Main) /\ ~CheckStart(Main)
         /\ ~PingReply(Main) /\ ~PingFails(Main) /\ ~CommitRecurses(Main)
         /\ ~BackupCheck(Main) /\ ~BackupNoPrimary(Main)
<1> DEFINE p == srv[Main]
           f == Head(p.stack)
           bl == srv[Backup].log
           l == link[Main]
<1>1. /\ p.role = "primary" /\ p.stack \in Seq(Frames)
      /\ PrimaryLink(p, l, bl)
      /\ PrimaryStack(p.stack, p.log, bl, p.alive, Remaining(p, l))
  BY MainNow
<1>2. p.stack # <<>> => FrameOK(f, p.log, bl, p.alive, Remaining(p, l))
  BY <1>1, Returns
<1>3. Runs(p, "sync") \/ Awaits(p) => l.state = "open"
  BY <1>1 DEF PrimaryLink
<1>4. ~SyncFails(Main) /\ ~CommitFails(Main)
  BY <1>1, <1>3 DEF SyncFails, CommitFails, In, At, Top, ReadFails, Runs, Awaits
<1>5. ~KillPrimary(Main) /\ ~CommitRecurses(Main) /\ ~BackupCheck(Main) /\ ~BackupNoPrimary(Main)
  BY <1>1 DEF KillPrimary, CommitRecurses, BackupCheck, BackupNoPrimary
<1>6. ~CheckStart(Main) /\ ~PingReply(Main) /\ ~PingFails(Main)
  BY <1>2 DEF CheckStart, PingReply, PingFails, In, Top, FrameOK
<1> QED
  BY <1>4, <1>5, <1>6

LEMMA BackupCannot ==
  ASSUME TypeInv, SyncInv
  PROVE  /\ ~SyncReply(Backup) /\ ~SyncFails(Backup) /\ ~CommitEnter(Backup)
         /\ ~CommitDecide(Backup) /\ ~CommitReply(Backup) /\ ~KillPrimary(Backup)
         /\ ~CommitFails(Backup) /\ ~FinishDoCommit(Backup) /\ ~CheckNext(Backup)
         /\ ~PingFails(Backup) /\ ~CommitRecurses(Backup)
         /\ ~PrimaryIdles(Backup) /\ ~PrimaryCheck(Backup)
<1> DEFINE b == srv[Backup]
           f == Head(b.stack)
<1>1. b.role = "backup" /\ BackupThread(b, link[Backup], srv[Main].backup)
  BY BackupNow
<1>2. \/ b.stack = <<>>
      \/ b.stack = <<PingFrame>> /\ link[Backup].state = "open"
      \/ \E r \in {"start", "go"} : b.stack = <<CheckFrame({}, r)>>
  BY <1>1 DEF BackupThread
<1>3. \/ b.stack = <<>>
      \/ f.op = "ping" /\ link[Backup].state = "open"
      \/ f.op = "check" /\ f.holder = {} /\ f.ret \in {"start", "go"}
  BY <1>2, FramesDiffer
<1>4. /\ ~SyncReply(Backup) /\ ~SyncFails(Backup) /\ ~CommitEnter(Backup)
      /\ ~CommitDecide(Backup) /\ ~CommitReply(Backup) /\ ~KillPrimary(Backup)
      /\ ~CommitFails(Backup) /\ ~FinishDoCommit(Backup) /\ ~CommitRecurses(Backup)
  BY <1>3 DEF SyncReply, SyncFails, CommitEnter, CommitDecide, CommitReply, KillPrimary,
              CommitFails, FinishDoCommit, CommitRecurses, At, In, Top
<1>5. ~CheckNext(Backup) /\ ~PingFails(Backup)
  BY <1>3 DEF CheckNext, PingFails, In, Top, ReadFails
<1>6. ~PrimaryIdles(Backup) /\ ~PrimaryCheck(Backup)
  BY <1>1 DEF PrimaryIdles, PrimaryCheck
<1> QED
  BY <1>4, <1>5, <1>6

LEMMA RunningSync ==
  ASSUME TypeInv, SyncInv, Tiny = {}, NEW s \in Servers, Running(s) \/ Timer(s)
  PROVE  SyncInv'
<1>1. CASE s = Main
  <2>1. \/ SyncReply(Main) \/ CommitEnter(Main) \/ CommitDecide(Main) \/ CommitReply(Main)
        \/ FinishDoCommit(Main) \/ CheckNext(Main) \/ CheckEnd(Main)
        \/ PrimaryIdles(Main) \/ PrimaryCheck(Main)
    BY <1>1, MainCannot DEF Running, Timer
  <2>2. PrimaryIdles(Main) => UNCHANGED <<srv, link, orphans, primaryTxt>>
    BY DEF PrimaryIdles
  <2> QED
    BY <2>1, <2>2, SyncReplySync, CommitEnterSync, CommitDecideSync, CommitReplySync,
       FinishDoCommitSync, CheckNextSync, CheckEndMainSync, NothingChanges, PrimaryCheckSync
<1>2. CASE s = Backup
  <2>1. \/ CheckStart(Backup) \/ CheckEnd(Backup) \/ PingReply(Backup)
        \/ BackupCheck(Backup) \/ BackupNoPrimary(Backup)
    BY <1>2, BackupCannot DEF Running, Timer
  <2> QED
    BY <2>1, CheckStartSync, CheckEndSync, PingReplySync, BackupCheckSync, BackupNoPrimarySync
<1> QED
  BY <1>1, <1>2, BackupFacts

\* A fault is not forgotten.
LEMMA FaultsStay ==
  ASSUME TypeInv, [Next]_vars, NoFault'
  PROVE  NoFault
<1> USE DEF NoFault
<1>1. used.crashes \in Nat /\ used.errors \in Nat /\ used.sweeps \in Nat
  BY BoundsAssumption DEF TypeInv, RestOK
<1>2. used \in [crashes : 0..MaxCrashes, errors : 0..MaxIOErrors, sweeps : 0..MaxSweeps]
  BY DEF TypeInv, RestOK
<1>3. CASE used' = used
  BY <1>3
<1>4. CASE used' = [used EXCEPT !.errors = @ + 1]
  BY <1>1, <1>2, <1>4
<1>5. ASSUME NEW s \in Servers, Running(s) PROVE used' = used
  BY <1>5 DEF Running, SyncReply, SyncFails, CommitEnter, CommitDecide, CommitReply, KillPrimary,
              CommitFails, FinishDoCommit, CheckStart, CheckNext, CheckEnd, PingReply, PingFails,
              CommitRecurses
<1>6. ASSUME NEW s \in Servers, Timer(s) PROVE used' = used
  BY <1>6 DEF Timer, PrimaryIdles, PrimaryCheck, BackupCheck, BackupNoPrimary
<1>7. ASSUME NEW r, NEW m, NEW src, Handle(r, m, src)
      PROVE  used' = used \/ used' = [used EXCEPT !.errors = @ + 1]
  BY <1>7 DEF Handle, Refuse, HandleWrite, HandleCommit, HandleAbort, HandleMakeTxn, HandlePing,
              StartCommit
<1>8. ASSUME NEW s \in Servers, Serve(s) PROVE NoFault
  BY <1>3, <1>4, <1>7, <1>8 DEF Serve
<1>9. ASSUME NEW s \in Servers, ServeLate(s) PROVE NoFault
  <2>1. PICK m : Handle(s, m, "late") \/ HandleKill(s, m)
    BY <1>9 DEF ServeLate
  <2>2. HandleKill(s, m) => used' = used
    BY DEF HandleKill
  <2> QED
    BY <1>3, <1>4, <1>7, <2>1, <2>2
<1>10. ASSUME NEW s \in Servers, NEW m, ClientRequest(s, m) PROVE NoFault
  BY <1>3, <1>4, <1>7, <1>10 DEF ClientRequest
<1>11. ASSUME NEW s \in Servers, NEW t, NEW f, NewTxn(s, t, f) PROVE NoFault
  BY <1>3, <1>11 DEF NewTxn
<1>12. ASSUME NEW s \in Servers, Save(s) PROVE NoFault
  BY <1>3, <1>12 DEF Save
<1>13. ASSUME NEW s \in Servers, Sweep(s) PROVE FALSE
  <2>1. used' = [used EXCEPT !.sweeps = @ + 1]
    BY <1>13 DEF Sweep
  <2> QED
    BY <1>1, <1>2, <2>1
<1>14. ASSUME NEW s \in Servers, Crash(s) PROVE FALSE
  <2>1. used' = [used EXCEPT !.crashes = @ + 1]
    BY <1>14 DEF Crash
  <2> QED
    BY <1>1, <1>2, <2>1
<1>15. ASSUME NEW s, NEW r, Start(s, r) PROVE NoFault
  BY <1>3, <1>15 DEF Start
<1>16. CASE UNCHANGED vars
  BY <1>3, <1>16 DEF vars
<1> QED
  BY <1>3, <1>5, <1>6, <1>8, <1>9, <1>10, <1>11, <1>12, <1>13, <1>14, <1>15, <1>16 DEF Next

LEMMA StepSync ==
  ASSUME TypeInv, InStep, Tiny = {}, FreshNumbers = TRUE, [Next]_vars
  PROVE  InStep'
<1> SUFFICES ASSUME NoFault' PROVE SyncInv'
  BY DEF InStep
<1>1. NoFault
  BY FaultsStay
<1>2. SyncInv
  BY <1>1 DEF InStep
<1>3. /\ srv[Main].up /\ srv[Main].role = "primary" /\ srv[Backup].up
      /\ srv[Backup].role = "backup" /\ \A s \in Servers : orphans[s] = {}
  BY <1>2 DEF SyncInv, RolesKept
<1>4. ASSUME NEW s \in Servers, Running(s) \/ Timer(s) PROVE SyncInv'
  BY <1>2, <1>4, RunningSync
<1>5. ASSUME NEW s \in Servers, Serve(s) PROVE SyncInv'
  BY <1>1, <1>2, <1>5, BackupFacts, ServePingSync, ServePacketSync
<1>6. ASSUME NEW s \in Servers, ServeLate(s) PROVE FALSE
  <2>1. Other(s) \in Servers
    BY OtherServer
  <2> QED
    BY <1>3, <1>6, <2>1 DEF ServeLate
<1>7. ASSUME NEW s \in Servers, NEW m \in ClientPackets, ClientRequest(s, m) PROVE SyncInv'
  <2>1. s = Main
    BY <1>3, <1>7, BackupFacts DEF ClientRequest
  <2> QED
    BY <1>2, <1>7, <2>1, ClientRequestSync
<1>8. ASSUME NEW s \in Servers, NEW t \in Tsn, NEW f \in Files, NewTxn(s, t, f) PROVE SyncInv'
  <2>1. s = Main
    BY <1>3, <1>8, BackupFacts DEF NewTxn
  <2> QED
    BY <1>2, <1>8, <2>1, NewTxnSync
<1>9. ASSUME NEW s \in Servers, Save(s) PROVE SyncInv'
  <2>1. UNCHANGED <<srv, link, orphans, primaryTxt>>
    BY <1>9 DEF Save
  <2> QED
    BY <1>2, <2>1, NothingChanges
<1>10. ASSUME NEW s \in Servers, Sweep(s) \/ Crash(s) PROVE FALSE
  <2>1. used \in [crashes : 0..MaxCrashes, errors : 0..MaxIOErrors, sweeps : 0..MaxSweeps]
    BY DEF TypeInv, RestOK
  <2>2. CASE used' = [used EXCEPT !.sweeps = @ + 1]
    BY <1>1, <2>1, <2>2 DEF NoFault
  <2>3. CASE used' = [used EXCEPT !.crashes = @ + 1]
    BY <1>1, <2>1, <2>3 DEF NoFault
  <2> QED
    BY <1>10, <2>2, <2>3 DEF Sweep, Crash
<1>11. ASSUME NEW s \in Servers, NEW r \in RestartRoles, Start(s, r) PROVE FALSE
  BY <1>3, <1>11, BackupFacts DEF Start
<1>12. CASE UNCHANGED vars
  BY <1>2, <1>12, NothingChanges DEF vars
<1> QED
  BY <1>4, <1>5, <1>6, <1>7, <1>8, <1>9, <1>10, <1>11, <1>12 DEF Next

\* Both servers start with nothing to send.
LEMMA InitSync ==
  ASSUME Init
  PROVE  InStep
<1>1. /\ srv[Main] = Started(EmptyLog, Nobody, "primary")
      /\ srv[Backup] = Started(EmptyLog, Nobody, "backup")
      /\ link[Main] = Closed /\ link[Backup] = Closed
      /\ primaryTxt = Main /\ orphans = [s \in Servers |-> {}]
  BY BackupFacts DEF Init, InitWith
<1> DEFINE p == srv[Main]
           b == srv[Backup]
<1>2. /\ p.up /\ p.role = "primary" /\ p.log = EmptyLog /\ p.backup = Nobody /\ p.queue = <<>>
      /\ p.stack = <<>> /\ ~p.alive
  BY <1>1 DEF Started
<1>3. /\ b.up /\ b.role = "backup" /\ b.log = EmptyLog /\ b.stack = <<>> /\ b.target = Nobody
      /\ b.tries = 0 /\ ~b.backup_did_sync
  BY <1>1 DEF Started
<1>4. Closed.requests = <<>> /\ Closed.replies = <<>> /\ ~Closed.serving
  BY DEF Closed
<1> HIDE DEF p, b
<1>5. RolesKept
  BY <1>1, <1>2, <1>3 DEF RolesKept, p, b
<1>6. BackupThread(b, Closed, Nobody)
  BY <1>3, <1>4 DEF BackupThread, PingFrame
<1>7. ~Runs(p, "sync") /\ ~Awaits(p) /\ Remaining(p, Closed) = <<>>
  BY <1>2 DEF Runs, Awaits, Remaining
<1>8. PrimaryLink(p, Closed, EmptyLog)
  BY <1>2, <1>4, <1>7 DEF PrimaryLink
<1>9. Mirrors(EmptyLog, EmptyLog, <<>>)
  <2>1. \A t \in Tsn : EmptyLog[t] = NoTxn /\ TxnOK(t, NoTxn, NoTxn, <<>>)
    BY DEF EmptyLog, TxnOK, IsCommitted
  <2> QED
    BY <2>1 DEF Mirrors
<1>10. NoneWriting(EmptyLog)
  BY DEF NoneWriting, EmptyLog
<1>11. PrimarySide(p, Closed, EmptyLog)
  BY <1>2, <1>7, <1>8, <1>9, <1>10, IdleStack DEF PrimarySide
<1> QED
  BY <1>1, <1>2, <1>3, <1>5, <1>6, <1>11 DEF InStep, SyncInv, p, b


-----------------------------------------------------------------------------
(***************************************************************************)
(* What it is good for.                                                    *)
(***************************************************************************)
\* Of a transaction that the backup committed the primary has the same lines.
LEMMA LinesAgree ==
  ASSUME TypeInv, SyncInv, NEW t \in Tsn, Committed(Backup, t)
  PROVE  /\ srv[Main].log[t] # NoTxn /\ srv[Main].log[t].file = srv[Backup].log[t].file
         /\ Lines(Main, t) = Lines(Backup, t)
<1> DEFINE pl == srv[Main].log
           bl == srv[Backup].log
           rest == Remaining(srv[Main], link[Main])
           x == pl[t]
           y == bl[t]
<1>1. pl \in Log /\ bl \in Log /\ rest \in Seq(Forwarded) /\ Mirrors(pl, bl, rest)
  BY MainNow
<1> HIDE DEF rest
<1>2. IsCommitted(y) /\ y # NoTxn /\ y.status = "COMMITTED"
  BY DEF Committed, Done, IsCommitted
<1>3. TxnOK(t, x, y, rest)
  BY <1>1 DEF Mirrors
<1>4. /\ x # NoTxn /\ x.data = y.data /\ y.file = x.file /\ CanCommit(x, x.data)
      /\ \A n \in SeqNo : \/ x.writes[n] = NoData
                          \/ y.writes[n] = x.writes[n]
                          \/ \E i \in 1..Len(rest) :
                               rest[i].type = "WRITE" /\ rest[i].tsn = t /\ rest[i].seq = n
  BY <1>2, <1>3 DEF TxnOK
<1>5. \A i \in 1..Len(rest) : ~(rest[i].type = "WRITE" /\ rest[i].tsn = t)
  BY <1>1, <1>2 DEF Mirrors, PacketOK
<1>6. x \in Txn /\ x.data \in SeqNo
  BY <1>1, <1>4, MaxSeqAssumption DEF Log, Txn, CanCommit, SeqNo
<1>7. \A n \in 1..x.data : n \in SeqNo /\ x.writes[n] # NoData
  BY <1>4, <1>6, CanCommitComplete, MaxSeqAssumption DEF SeqNo
<1>8. \A n \in 1..x.data : y.writes[n] = x.writes[n]
  BY <1>4, <1>5, <1>7
<1> QED
  BY <1>4, <1>8 DEF Lines

\* While commit() waits the backup has every packet.
LEMMA SyncedWhileWaiting ==
  ASSUME TypeInv, SyncInv
  PROVE  CommitSyncs
<1> SUFFICES ASSUME NEW s \in Servers, At(s, "await"), srv[s].role = "primary"
             PROVE  LET t == Top(s).tsn
                    IN  /\ srv[Other(s)].log[t] # NoTxn
                        /\ \A n \in 1..Top(s).seq :
                             srv[Other(s)].log[t].writes[n] = srv[s].log[t].writes[n]
  BY DEF CommitSyncs
<1> DEFINE p == srv[Main]
           f == Head(p.stack)
           bl == srv[Backup].log
           x == p.log[f.tsn]
           y == bl[f.tsn]
<1>1. s = Main /\ Other(s) = Backup
  BY BackupFacts, BackupNow DEF Backup
<1>2. Awaits(p) /\ f.op = "commit" /\ p.stack # <<>> /\ ~Runs(p, "sync")
  BY <1>1 DEF At, In, Top, Awaits, Runs
<1>3. /\ p.log \in GoodLog /\ p.log \in Log /\ bl \in Log /\ p.stack \in Seq(Frames)
      /\ StackOK(p.stack, p.log) /\ PrimaryLink(p, link[Main], bl)
      /\ Mirrors(p.log, bl, p.queue)
      /\ PrimaryStack(p.stack, p.log, bl, p.alive, p.queue)
  BY <1>2, MainNow
<1>4. p.queue = <<>>
  BY <1>2, <1>3 DEF PrimaryLink
<1>5. /\ f.tsn \in Tsn /\ f.seq \in SeqNo /\ x # NoTxn
      /\ x.status \in {"WRITING", "COMMITTED"} /\ x.data = f.seq
  BY <1>2, <1>3, CommitCalled
<1>6. TxnOK(f.tsn, x, y, <<>>)
  BY <1>3, <1>4, <1>5 DEF Mirrors
<1>7. \A i \in 1..Len(<<>>) : FALSE
  OBVIOUS
<1>8. /\ y # NoTxn /\ CanCommit(x, f.seq)
      /\ \A n \in SeqNo : x.writes[n] = NoData \/ y.writes[n] = x.writes[n]
  BY <1>5, <1>6, <1>7 DEF TxnOK
<1>9. x \in Txn
  BY <1>3, <1>5 DEF Log
<1>10. \A n \in 1..f.seq : n \in SeqNo /\ x.writes[n] # NoData
  <2> HIDE DEF x, f
  <2>1. \A n \in 1..f.seq : x.writes[n] # NoData
    BY <1>5, <1>8, <1>9, CanCommitComplete
  <2>2. \A n \in 1..f.seq : n \in SeqNo
    BY <1>5, MaxSeqAssumption DEF SeqNo
  <2> QED
    BY <2>1, <2>2
<1> QED
  BY <1>1, <1>8, <1>10 DEF Top

\* What doCommit() and integrityCheck() go by is on the backup.
LEMMA BackupHasIt ==
  ASSUME TypeInv, SyncInv
  PROVE  BackupFirst /\ CheckIsSound
<1> DEFINE p == srv[Main]
           f == Head(p.stack)
           bl == srv[Backup].log
           rest == Remaining(p, link[Main])
<1>1. /\ p.stack \in Seq(Frames) /\ StackOK(p.stack, p.log)
      /\ PrimaryStack(p.stack, p.log, bl, p.alive, rest)
  BY MainNow
<1>2. p.stack # <<>> => f \in Frames /\ FrameOK(f, p.log, bl, p.alive, rest)
  BY <1>1, TopFrame, Returns
<1>3. srv[Backup].role = "backup" /\ ~In(Backup, "doCommit")
  <2>1. \/ srv[Backup].stack = <<>>
        \/ srv[Backup].stack = <<PingFrame>>
        \/ \E r \in {"start", "go"} : srv[Backup].stack = <<CheckFrame({}, r)>>
    BY BackupNow DEF BackupThread
  <2>2. srv[Backup].stack = <<>> \/ Head(srv[Backup].stack).op \in {"ping", "check"}
    BY <2>1, FramesDiffer
  <2> QED
    BY <2>2, BackupNow DEF In, Top
<1>4. Other(Main) = Backup
  BY DEF Backup
<1>5. BackupFirst
  <2> SUFFICES ASSUME NEW s \in Servers, In(s, "doCommit"), Top(s).ret = "yes", Connection(s)
               PROVE  LET t == Top(s).tsn
                      IN  Committed(Other(s), t) /\ Lines(Other(s), t) = Lines(s, t)
    BY DEF BackupFirst
  <2>1. s = Main
    BY <1>3, BackupFacts
  <2>2. p.stack # <<>> /\ f.op = "doCommit" /\ f.ret = "yes" /\ p.alive
    BY <2>1 DEF In, Top, Connection
  <2>3. f.tsn \in Tsn /\ IsCommitted(bl[f.tsn])
    BY <1>2, <2>2 DEF FrameOK, Frames
  <2>4. Committed(Backup, f.tsn)
    BY <2>3 DEF Committed, Done, IsCommitted
  <2>5. Lines(Main, f.tsn) = Lines(Backup, f.tsn)
    BY <2>3, <2>4, LinesAgree
  <2> QED
    BY <1>4, <2>1, <2>4, <2>5 DEF Top
<1>6. CheckIsSound
  <2> SUFFICES ASSUME NEW s \in Servers, In(s, "check"), srv[s].role = "primary", Connection(s),
                      NEW t \in Done(s) \ (Top(s).holder \ {u \in Top(s).holder :
                                  Top(s).ret = "yes" /\ u = Highest(Top(s).holder)})
               PROVE  t \in Done(Other(s))
    BY DEF CheckIsSound
  <2>1. s = Main
    BY <1>3, BackupFacts
  <2>2. p.stack # <<>> /\ f.op = "check"
    BY <2>1 DEF In, Top
  <2>3. t \in Tsn /\ IsCommitted(p.log[t])
    BY <2>1 DEF Done, IsCommitted
  <2>4. t \notin f.holder \/ (f.ret = "yes" /\ t = Highest(f.holder))
    BY <2>1 DEF Top
  <2>5. IsCommitted(bl[t])
    BY <1>2, <2>2, <2>3, <2>4 DEF FrameOK
  <2> QED
    BY <1>4, <2>1, <2>3, <2>5 DEF Done, IsCommitted
<1> QED
  BY <1>5, <1>6

LEMMA SameLines ==
  ASSUME TypeInv, SyncInv
  PROVE  Agreement
<1> SUFFICES ASSUME NEW t \in Tsn, \A s \in Servers : Committed(s, t),
                    NEW s \in Servers, NEW r \in Servers
             PROVE  Lines(s, t) = Lines(r, t) /\ srv[s].log[t].file = srv[r].log[t].file
  BY DEF Agreement
<1>1. Committed(Backup, t)
  BY BackupFacts
<1>2. Lines(Main, t) = Lines(Backup, t) /\ srv[Main].log[t].file = srv[Backup].log[t].file
  BY <1>1, LinesAgree
<1>3. s \in {Main, Backup} /\ r \in {Main, Backup}
  BY BackupFacts
<1> QED
  BY <1>2, <1>3

\* The backup is behind the primary by exactly the packets that are still to
\* be sent, and the primary's thread stands only on commits the backup has
\* (InStep), at every moment before something goes wrong.
THEOREM BackupIsInStep ==
  ASSUME Tiny = {}, FreshNumbers = TRUE
  PROVE  Spec => []InStep
<1>1. Init => InStep
  BY InitSync
<1>2. TypeInv /\ InStep /\ [Next]_vars => InStep'
  BY StepSync
<1> QED
  BY <1>1, <1>2, CallsNest, PTL DEF Spec

\* A commit forces a sync: while commit() waits for the backup's answer the
\* backup has every packet of the transaction.  Premises: no payload and no
\* file name has one byte (genEcho forwards those without it), newTxn draws no
\* number that is still in use, and, beside the crashes and sweeps CommitSyncs
\* excludes, no writeFile failed so far.
THEOREM CommitForcesSync ==
  ASSUME Tiny = {}, FreshNumbers = TRUE
  PROVE  Spec => [](used.errors = 0 => CommitSyncs)
<1>1. TypeInv /\ InStep => (used.errors = 0 => CommitSyncs)
  <2>1. ~NoFault /\ used.errors = 0 => CommitSyncs
    BY DEF NoFault, CommitSyncs
  <2> QED
    BY <2>1, SyncedWhileWaiting DEF InStep
<1> QED
  BY <1>1, CallsNest, BackupIsInStep, PTL

\* doCommit() of a connected primary commits only what the backup has
\* committed, with the same lines, as long as no server crashed, no sweep ran
\* and no writeFile failed.  Premises: no payload and no file name has one byte,
\* and newTxn draws no number that is still in use.  (After a fault a backup
\* can answer one COMMIT with several ACK_RESENDs, and the guarantee is lost.)
THEOREM BackupCommitsFirst ==
  ASSUME Tiny = {}, FreshNumbers = TRUE
  PROVE  Spec => []BackupFirstUntilFault
<1>1. TypeInv /\ InStep => BackupFirstUntilFault
  BY BackupHasIt DEF InStep, BackupFirstUntilFault
<1> QED
  BY <1>1, CallsNest, BackupIsInStep, PTL

\* integrityCheck() on the primary leaves behind only transactions that the
\* backup committed, as long as no server crashed, no sweep ran and no writeFile
\* failed: this is the check of a backup that registers late, on its own or
\* inside another commit(), not the one after a crash.  Premises: no payload and
\* no file name has one byte, and newTxn draws no number that is still in use.
THEOREM ChecksAreSound ==
  ASSUME Tiny = {}, FreshNumbers = TRUE
  PROVE  Spec => []CheckIsSoundUntilFault
<1>1. TypeInv /\ InStep => CheckIsSoundUntilFault
  BY BackupHasIt DEF InStep, CheckIsSoundUntilFault
<1> QED
  BY <1>1, CallsNest, BackupIsInStep, PTL

\* What both servers committed has the same lines in the same file on both,
\* whichever way the packets came, as long as no server crashed, no sweep ran
\* and no writeFile failed.  Premises: no payload and no file name has one byte,
\* and newTxn draws no number that is still in use.  (PacketsAgree is what holds
\* after faults.)
THEOREM ServersAgree ==
  ASSUME Tiny = {}, FreshNumbers = TRUE
  PROVE  Spec => [](NoFault => Agreement)
<1>1. TypeInv /\ InStep => (NoFault => Agreement)
  BY SameLines DEF InStep
<1> QED
  BY <1>1, CallsNest, BackupIsInStep, PTL

\* The roles stay as they were started, for any pace of the two timers: a
\* backup gives a primary up only if that is gone, and no connection is closed
\* with a request on it.
THEOREM RolesStay ==
  ASSUME Tiny = {}, FreshNumbers = TRUE
  PROVE  Spec => [](NoFault => RolesKept /\ OnePrimary)
<1>1. InStep => (NoFault => RolesKept /\ OnePrimary)
  <2>1. RolesKept => ~IsPrimary(Backup)
    BY DEF RolesKept, IsPrimary
  <2> QED
    BY <2>1, BackupFacts DEF InStep, SyncInv, OnePrimary
<1> QED
  BY <1>1, BackupIsInStep, PTL
=============================================================================
