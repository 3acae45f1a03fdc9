-------------------------- MODULE ReplicationProofs --------------------------
(***************************************************************************)
(* Theorems about Replication, for any number of transactions, packets,    *)
(* requests, crashes, I/O errors and sweeps.                               *)
(***************************************************************************)
EXTENDS Replication, LogHandlerProofs, SequenceTheorems, FiniteSetTheorems

(***************************************************************************)
(* The inductive invariant: the types, and with them what packets carry,   *)
(* what a COMMITTED transaction has, and how calls nest.                   *)
(***************************************************************************)
WellFormed ==
  {m \in Packets :
     /\ m.type \in {"WRITE", "COMMIT", "ABORT", "MAKE_TXN"} => m.tsn \in Tsn
     /\ m.type \in {"WRITE", "COMMIT"} => m.seq \in SeqNo
     /\ m.type = "WRITE" => m.data \in Data \cup {NoData} /\ m.data \in Payloads[m.seq] \cup {NoData}
     /\ m.type = "MAKE_TXN" => m.data \in Files \cup {NoData}
     /\ m.type = "PING" => m.data \in Servers}

\* What a primary queues for its backup.
Forwarded == {m \in WellFormed : m.type \in {"WRITE", "COMMIT", "ABORT", "MAKE_TXN"}}

\* The number to be committed is one of a packet, and all packets up to it are
\* there.
HasAll(x) == x.data \in SeqNo /\ \A n \in 1..x.data : x.writes[n] # NoData

\* Every packet that is logged is what a client sent under its number, and a
\* commit was carried out with all packets.
GoodTxn(x) ==
  x # NoTxn =>
    /\ \A n \in SeqNo : x.writes[n] \in Payloads[n] \cup {NoData}
    /\ IsCommitted(x) => HasAll(x)

GoodLog == {l \in Log : \A t \in Tsn : GoodTxn(l[t])}

ServerStates ==
  [ up : BOOLEAN, role : {"primary", "backup"}, log : GoodLog, backup : Servers \cup {Nobody},
    queue : Seq(Forwarded), stack : Seq(Frames), alive : BOOLEAN, tries : -10..4,
    backup_did_sync : BOOLEAN, restarted : BOOLEAN, target : Servers \cup {Nobody} ]

DiskStates == [log : GoodLog, backup : Servers \cup {Nobody}]

Links == [ state : {"closed", "open", "lost"}, requests : Seq(WellFormed),
           replies : Seq(Replies), serving : BOOLEAN ]

\* commit() is called by integrityCheck() or by doCommit(), for a transaction
\* that is logged with the number to be committed; doCommit() is called by
\* io_service only, and primaryOps() and ping() call nothing.
StackOK(stack, l) ==
  \A i \in 1..Len(stack) :
    /\ stack[i].op \in {"ping", "sync"} => i = 1
    /\ stack[i].op = "commit" =>
         /\ i < Len(stack) /\ stack[i + 1].op \in {"check", "doCommit"}
         /\ l[stack[i].tsn] # NoTxn /\ l[stack[i].tsn].data = stack[i].seq
    /\ stack[i].op = "check" => \A t \in stack[i].holder : IsCommitted(l[t])
    /\ stack[i].op = "doCommit" =>
         /\ i = Len(stack)
         /\ l[stack[i].tsn] # NoTxn /\ l[stack[i].tsn].status = "WRITING"
         /\ HasAll(l[stack[i].tsn])

\* primaryOps() waits for the answer to the first packet of its queue.
SyncOK(stack, queue) == stack # <<>> /\ Head(stack).op = "sync" => queue # <<>>

ServersOK ==
  /\ srv \in [Servers -> ServerStates]
  /\ \A s \in Servers : StackOK(srv[s].stack, srv[s].log) /\ SyncOK(srv[s].stack, srv[s].queue)

NetworkOK ==
  /\ link \in [Servers -> Links]
  /\ orphans \in [Servers -> SUBSET (Seq(WellFormed) \ {<<>>})]

RestOK ==
  /\ primaryTxt \in Servers
  /\ ticks \in [Servers -> 0..Drift]
  /\ requests \in 0..MaxRequests
  /\ used \in [crashes : 0..MaxCrashes, errors : 0..MaxIOErrors, sweeps : 0..MaxSweeps]

DiskOK == disk \in [Servers -> DiskStates]

TypeInv == ServersOK /\ DiskOK /\ NetworkOK /\ RestOK

-----------------------------------------------------------------------------
LEMMA OtherServer ==
  ASSUME NEW s \in Servers
  PROVE  /\ Other(s) \in Servers /\ Other(s) # s /\ Other(Other(s)) = s
         /\ Servers = {s, Other(s)}
<1>1. PICK r \in Servers : Servers = {Main, r} /\ r # Main
  BY ServersAssumption
<1>2. \E q \in Servers : q # s
  BY <1>1, ServersAssumption
<1>3. Other(s) \in Servers /\ Other(s) # s
  BY <1>2 DEF Other
<1>4. \E q \in Servers : q # Other(s)
  BY <1>3
<1>5. Other(Other(s)) \in Servers /\ Other(Other(s)) # Other(s)
  BY <1>4 DEF Other
<1> QED
  BY <1>1, <1>3, <1>5, ServersAssumption

LEMMA HighestIn ==
  ASSUME NEW S \in SUBSET Tsn, S # {}
  PROVE  Highest(S) \in S /\ \A t \in S : t <= Highest(S)
<1>1. PICK m \in Tsn \cup {0} : \A t \in Tsn : t <= m
  BY TsnBoundAssumption
<1>2. m \in Nat /\ \A t \in S : t \in Nat /\ t <= m
  BY <1>1, TsnAssumption
<1> DEFINE D == {m - t : t \in S}
<1>3. D \subseteq Nat /\ D # {}
  <2>1. PICK u \in S : TRUE
    OBVIOUS
  <2>2. m - u \in D
    OBVIOUS
  <2>3. \A t \in S : m - t \in Nat
    BY <1>2
  <2> QED
    BY <2>2, <2>3
<1> DEFINE R == {p \in Nat \X Nat : p[1] < p[2]}
<1>a. IsWellFoundedOn(R, Nat)
  BY NatLessThanWellFounded DEF OpToRel
<1> HIDE DEF D, R
<1>4. \E d \in D : \A e \in D : ~(<<e, d>> \in R)
  BY <1>3, <1>a, WFMin
<1>5. PICK d \in D : \A e \in D : ~(e < d)
  BY <1>3, <1>4 DEF R
<1>6. PICK t \in S : d = m - t
  BY DEF D
<1>7. \A u \in S : ~(m - u < d)
  BY <1>5 DEF D
<1>8. \A u \in S : u <= t
  BY <1>2, <1>6, <1>7
<1> QED
  BY <1>8 DEF Highest

-----------------------------------------------------------------------------
(***************************************************************************)
(* Calls and returns.                                                      *)
(***************************************************************************)
\* What the call stack says of its innermost frame and of the one below.
LEMMA TopFrame ==
  ASSUME NEW stack \in Seq(Frames), NEW l, StackOK(stack, l), stack # <<>>
  PROVE  /\ Head(stack) \in Frames /\ Tail(stack) \in Seq(Frames)
         /\ StackOK(Tail(stack), l)
         /\ Head(stack).op = "commit" =>
              /\ Tail(stack) # <<>> /\ Head(Tail(stack)).op \in {"check", "doCommit"}
              /\ l[Head(stack).tsn] # NoTxn /\ l[Head(stack).tsn].data = Head(stack).seq
         /\ Head(stack).op = "check" => \A t \in Head(stack).holder : IsCommitted(l[t])
         /\ Head(stack).op = "doCommit" =>
              /\ Tail(stack) = <<>>
              /\ l[Head(stack).tsn] # NoTxn /\ l[Head(stack).tsn].status = "WRITING"
              /\ HasAll(l[Head(stack).tsn])
         /\ Tail(stack) # <<>> => Head(Tail(stack)).op \notin {"ping", "sync"}
<1>a. Len(stack) \in Nat \ {0} /\ Head(stack) = stack[1]
  BY EmptySeq
<1>1. /\ Head(stack) \in Frames /\ Tail(stack) \in Seq(Frames)
      /\ Len(Tail(stack)) = Len(stack) - 1
      /\ \A i \in 1..Len(Tail(stack)) : Tail(stack)[i] = stack[i + 1]
      /\ Len(stack) \in Nat \ {0} /\ Head(stack) = stack[1]
  <2>1. /\ Head(stack) \in Frames /\ Tail(stack) \in Seq(Frames)
        /\ Len(Tail(stack)) = Len(stack) - 1
        /\ \A i \in 1..Len(Tail(stack)) : Tail(stack)[i] = stack[i + 1]
    BY HeadTailProperties
  <2> QED
    BY <1>a, <2>1
<1>2. Tail(stack) # <<>> => Len(Tail(stack)) \in Nat \ {0} /\ Head(Tail(stack)) = stack[2]
  <2> SUFFICES ASSUME Tail(stack) # <<>>
               PROVE  Len(Tail(stack)) \in Nat \ {0} /\ Head(Tail(stack)) = stack[2]
    OBVIOUS
  <2>1. Len(Tail(stack)) \in Nat \ {0}
    BY <1>1, EmptySeq
  <2>2. Head(Tail(stack)) = Tail(stack)[1]
    BY <1>1
  <2> QED
    BY <1>1, <2>1, <2>2
<1> DEFINE below == Tail(stack)
<1>b. below = <<>> <=> Len(below) = 0
  BY <1>1, EmptySeq
<1>c. /\ below \in Seq(Frames) /\ Len(below) = Len(stack) - 1 /\ Len(stack) \in Nat \ {0}
      /\ \A i \in 1..Len(below) : below[i] = stack[i + 1]
  BY <1>1
<1> HIDE DEF below
<1>3. StackOK(below, l)
  <2> SUFFICES ASSUME NEW i \in 1..Len(below)
               PROVE  /\ below[i].op \in {"ping", "sync"} => i = 1
                      /\ below[i].op = "commit" =>
                           /\ i < Len(below) /\ below[i + 1].op \in {"check", "doCommit"}
                           /\ l[below[i].tsn] # NoTxn /\ l[below[i].tsn].data = below[i].seq
                      /\ below[i].op = "check" => \A t \in below[i].holder : IsCommitted(l[t])
                      /\ below[i].op = "doCommit" =>
                           /\ i = Len(below)
                           /\ l[below[i].tsn] # NoTxn /\ l[below[i].tsn].status = "WRITING"
                           /\ HasAll(l[below[i].tsn])
    BY DEF StackOK
  <2>1. i + 1 \in 1..Len(stack) /\ i + 1 # 1 /\ below[i] = stack[i + 1]
    BY <1>c
  <2>2. i + 1 < Len(stack) => i < Len(below) /\ below[i + 1] = stack[(i + 1) + 1]
    BY <1>c
  <2>3. i + 1 = Len(stack) => i = Len(below)
    BY <1>c
  <2> QED
    BY <2>1, <2>2, <2>3 DEF StackOK
<1>4. below = <<>> => Len(stack) = 1
  BY <1>b, <1>c
<1>5. 1 \in 1..Len(stack) /\ (below # <<>> => 2 \in 1..Len(stack)) /\ 1 + 1 = 2
  BY <1>b, <1>c
<1>6. 1 < Len(stack) => below # <<>>
  BY <1>b, <1>c
<1>7. 1 = Len(stack) => below = <<>>
  BY <1>b, <1>c
<1>8. below # <<>> => Head(below) = stack[2]
  BY <1>2 DEF below
<1>9. below # <<>> => Head(below).op \notin {"ping", "sync"}
  BY <1>5, <1>8 DEF StackOK
<1>10. Head(stack).op = "commit" =>
              /\ below # <<>> /\ Head(below).op \in {"check", "doCommit"}
              /\ l[Head(stack).tsn] # NoTxn /\ l[Head(stack).tsn].data = Head(stack).seq
  BY <1>1, <1>5, <1>6, <1>8 DEF StackOK
<1>11. /\ Head(stack).op = "check" => \A t \in Head(stack).holder : IsCommitted(l[t])
       /\ Head(stack).op = "doCommit" =>
              /\ below = <<>>
              /\ l[Head(stack).tsn] # NoTxn /\ l[Head(stack).tsn].status = "WRITING"
              /\ HasAll(l[Head(stack).tsn])
  BY <1>1, <1>5, <1>7, <1>8 DEF StackOK
<1> QED
  BY <1>1, <1>3, <1>9, <1>10, <1>11 DEF below

\* A call.
LEMMA Push ==
  ASSUME NEW stack \in Seq(Frames), NEW l, StackOK(stack, l), NEW f \in Frames,
         stack # <<>> => Head(stack).op \notin {"ping", "sync"},
         f.op = "commit" =>
           /\ stack # <<>> /\ Head(stack).op \in {"check", "doCommit"}
           /\ l[f.tsn] # NoTxn /\ l[f.tsn].data = f.seq,
         f.op = "check" => \A t \in f.holder : IsCommitted(l[t]),
         f.op = "doCommit" =>
           /\ stack = <<>> /\ l[f.tsn] # NoTxn /\ l[f.tsn].status = "WRITING"
           /\ HasAll(l[f.tsn])
  PROVE  /\ <<f>> \o stack \in Seq(Frames) /\ StackOK(<<f>> \o stack, l)
         /\ <<f>> \o stack # <<>> /\ Head(<<f>> \o stack) = f
<1> DEFINE new == <<f>> \o stack
<1>1. /\ new \in Seq(Frames) /\ Len(new) = Len(stack) + 1
      /\ \A i \in 1..(Len(stack) + 1) : new[i] = IF i <= 1 THEN f ELSE stack[i - 1]
      /\ Len(stack) \in Nat
  <2>1. <<f>> \in Seq(Frames) /\ Len(<<f>>) = 1 /\ <<f>>[1] = f
    OBVIOUS
  <2> QED
    BY <2>1, ConcatProperties, LenProperties
<1>2. stack # <<>> => Len(stack) > 0 /\ Head(stack) = stack[1]
  BY EmptySeq
<1>3. stack = <<>> => Len(stack) = 0
  BY EmptySeq
<1> HIDE DEF new
<1>4. ASSUME NEW i \in 1..Len(new)
      PROVE  /\ new[i].op \in {"ping", "sync"} => i = 1
             /\ new[i].op = "commit" =>
                  /\ i < Len(new) /\ new[i + 1].op \in {"check", "doCommit"}
                  /\ l[new[i].tsn] # NoTxn /\ l[new[i].tsn].data = new[i].seq
             /\ new[i].op = "check" => \A t \in new[i].holder : IsCommitted(l[t])
             /\ new[i].op = "doCommit" =>
                  /\ i = Len(new)
                  /\ l[new[i].tsn] # NoTxn /\ l[new[i].tsn].status = "WRITING"
                  /\ HasAll(l[new[i].tsn])
  <2>1. CASE i = 1
    BY <1>1, <1>2, <1>3, <2>1
  <2>2. CASE i # 1
    <3>1. i - 1 \in 1..Len(stack) /\ new[i] = stack[i - 1]
      BY <1>1, <2>2
    <3>2. i < Len(new) => new[i + 1] = stack[(i - 1) + 1]
      BY <1>1, <2>2
    <3>3. i - 1 = 1 => stack # <<>>
      BY <1>3, <3>1
    <3> QED
      BY <1>1, <1>2, <2>2, <3>1, <3>2, <3>3 DEF StackOK
  <2> QED
    BY <2>1, <2>2
<1>5. StackOK(new, l)
  BY <1>4 DEF StackOK
<1>6. new # <<>> /\ Head(new) = f
  BY DEF new
<1> QED
  BY <1>1, <1>5, <1>6 DEF new

-----------------------------------------------------------------------------
(***************************************************************************)
(* Parts of a step.                                                        *)
(***************************************************************************)
LEMMA ServerFacts ==
  ASSUME ServersOK, NEW s \in Servers
  PROVE  /\ srv[s] \in ServerStates
         /\ srv[s].up \in BOOLEAN /\ srv[s].role \in {"primary", "backup"}
         /\ srv[s].log \in GoodLog /\ srv[s].log \in Log
         /\ srv[s].backup \in Servers \cup {Nobody} /\ srv[s].target \in Servers \cup {Nobody}
         /\ srv[s].queue \in Seq(Forwarded) /\ srv[s].stack \in Seq(Frames)
         /\ srv[s].alive \in BOOLEAN /\ srv[s].tries \in -10..4
         /\ StackOK(srv[s].stack, srv[s].log) /\ SyncOK(srv[s].stack, srv[s].queue)
BY DEF ServersOK, ServerStates, GoodLog

\* A step that changes server s to v.
LEMMA ServerStep ==
  ASSUME ServersOK, NEW s \in Servers, NEW v \in ServerStates,
         StackOK(v.stack, v.log), SyncOK(v.stack, v.queue),
         srv' = [srv EXCEPT ![s] = v]
  PROVE  ServersOK'
BY DEF ServersOK

\* What can be said of a running server's innermost frame.
LEMMA TopFacts ==
  ASSUME ServersOK, NEW s \in Servers, srv[s].stack # <<>>
  PROVE  /\ Top(s) \in Frames /\ Below(s) \in Seq(Frames)
         /\ StackOK(Below(s), srv[s].log)
         /\ Top(s).op = "commit" =>
              /\ Below(s) # <<>> /\ Head(Below(s)).op \in {"check", "doCommit"}
              /\ Top(s).tsn \in Tsn /\ Top(s).seq \in SeqNo
              /\ srv[s].log[Top(s).tsn] # NoTxn /\ srv[s].log[Top(s).tsn].data = Top(s).seq
         /\ Top(s).op = "check" =>
              /\ Top(s).holder \in SUBSET Tsn
              /\ \A t \in Top(s).holder : IsCommitted(srv[s].log[t])
         /\ Top(s).op = "doCommit" =>
              /\ Below(s) = <<>> /\ Top(s).tsn \in Tsn
              /\ srv[s].log[Top(s).tsn] # NoTxn
              /\ srv[s].log[Top(s).tsn].status = "WRITING"
              /\ HasAll(srv[s].log[Top(s).tsn])
         /\ Below(s) # <<>> => Head(Below(s)).op \notin {"ping", "sync"}
         /\ Top(s).op = "sync" => srv[s].queue # <<>>
         /\ \A queue : SyncOK(Below(s), queue)
<1>1. srv[s].stack \in Seq(Frames) /\ StackOK(srv[s].stack, srv[s].log)
      /\ SyncOK(srv[s].stack, srv[s].queue)
  BY ServerFacts
<1>2. Top(s) = Head(srv[s].stack) /\ Below(s) = Tail(srv[s].stack)
  BY DEF Top, Below
<1>3. Top(s) \in Frames
  BY <1>1, <1>2, TopFrame
<1>4. /\ Top(s).op = "commit" => Top(s).tsn \in Tsn /\ Top(s).seq \in SeqNo
      /\ Top(s).op = "check" => Top(s).holder \in SUBSET Tsn
      /\ Top(s).op = "doCommit" => Top(s).tsn \in Tsn
  BY <1>3 DEF Frames
<1>5. Below(s) # <<>> => Head(Below(s)).op \notin {"ping", "sync"}
  BY <1>1, <1>2, TopFrame
<1>6. /\ Top(s).op = "sync" => srv[s].queue # <<>>
      /\ \A queue : SyncOK(Below(s), queue)
  BY <1>1, <1>2, <1>5 DEF SyncOK
<1> QED
  BY <1>1, <1>2, <1>4, <1>6, TopFrame

\* The stack after a return from commit().
LEMMA ReturnedFacts ==
  ASSUME ServersOK, NEW s \in Servers, srv[s].stack # <<>>, Top(s).op = "commit", NEW ok \in BOOLEAN
  PROVE  /\ Returned(s, ok) \in Seq(Frames) /\ StackOK(Returned(s, ok), srv[s].log)
         /\ \A queue : SyncOK(Returned(s, ok), queue)
<1> DEFINE l == srv[s].log
           below == Below(s)
           f == [Head(below) EXCEPT !.ret = IF ok THEN "yes" ELSE "no"]
<1>1. /\ below \in Seq(Frames) /\ StackOK(below, l) /\ below # <<>>
      /\ Head(below).op \in {"check", "doCommit"}
  BY TopFacts
<1> HIDE DEF below, l
<1>2. /\ Head(below) \in Frames /\ Tail(below) \in Seq(Frames) /\ StackOK(Tail(below), l)
      /\ Head(below).op = "check" => \A t \in Head(below).holder : IsCommitted(l[t])
      /\ Head(below).op = "doCommit" =>
           /\ Tail(below) = <<>> /\ l[Head(below).tsn] # NoTxn
           /\ l[Head(below).tsn].status = "WRITING" /\ HasAll(l[Head(below).tsn])
      /\ Tail(below) # <<>> => Head(Tail(below)).op \notin {"ping", "sync"}
  BY <1>1, TopFrame
<1>3. /\ f \in Frames /\ f.op = Head(below).op
      /\ f.op = "check" => f.holder = Head(below).holder
      /\ f.op = "doCommit" => f.tsn = Head(below).tsn
  BY <1>1, <1>2 DEF Frames
<1> HIDE DEF f
<1>4. /\ <<f>> \o Tail(below) \in Seq(Frames) /\ StackOK(<<f>> \o Tail(below), l)
      /\ Head(<<f>> \o Tail(below)) = f
  BY <1>1, <1>2, <1>3, Push
<1>5. Returned(s, ok) = <<f>> \o Tail(below)
  BY DEF Returned, f, below
<1> QED
  BY <1>1, <1>3, <1>4, <1>5 DEF l, SyncOK

\* The stack after a jump inside commit().
LEMMA JumpFacts ==
  ASSUME ServersOK, NEW s \in Servers, srv[s].stack # <<>>, Top(s).op = "commit",
         NEW pc \in {"enter", "decide", "await"}
  PROVE  LET stack == << [Top(s) EXCEPT !.at = pc] >> \o Below(s)
         IN  /\ stack \in Seq(Frames) /\ StackOK(stack, srv[s].log) /\ stack # <<>>
             /\ Head(stack).op = "commit" /\ \A queue : SyncOK(stack, queue)
<1> DEFINE f == [Top(s) EXCEPT !.at = pc]
<1>1. /\ Top(s) \in Frames /\ Below(s) \in Seq(Frames) /\ StackOK(Below(s), srv[s].log)
      /\ Below(s) # <<>> /\ Head(Below(s)).op \in {"check", "doCommit"}
      /\ srv[s].log[Top(s).tsn] # NoTxn /\ srv[s].log[Top(s).tsn].data = Top(s).seq
  BY TopFacts
<1>2. f \in Frames /\ f.op = "commit" /\ f.tsn = Top(s).tsn /\ f.seq = Top(s).seq
  BY <1>1 DEF Frames
<1> HIDE DEF f
<1>3. <<f>> \o Below(s) \in Seq(Frames) /\ StackOK(<<f>> \o Below(s), srv[s].log)
  BY <1>1, <1>2, Push
<1>4. <<f>> \o Below(s) # <<>> /\ Head(<<f>> \o Below(s)) = f
  BY <1>1
<1> QED
  BY <1>2, <1>3, <1>4 DEF f, SyncOK

LEMMA LinkFacts ==
  ASSUME NetworkOK, NEW s \in Servers
  PROVE  /\ link[s] \in Links /\ link[s].requests \in Seq(WellFormed)
         /\ link[s].replies \in Seq(Replies) /\ link[s].state \in {"closed", "open", "lost"}
         /\ orphans[s] \in SUBSET (Seq(WellFormed) \ {<<>>})
         /\ Orphaned(s) \in SUBSET (Seq(WellFormed) \ {<<>>})
BY DEF NetworkOK, Links, Orphaned

LEMMA PutType ==
  ASSUME NEW l \in Links, NEW m \in WellFormed
  PROVE  Put(l, m) \in Links
<1>1. Append(l.requests, m) \in Seq(WellFormed)
  BY AppendProperties DEF Links
<1> QED
  BY <1>1 DEF Put, Links

LEMMA AfterReadType ==
  ASSUME NetworkOK, NEW s \in Servers, NEW l \in AfterRead(s)
  PROVE  l \in Links /\ link[s].replies # <<>> /\ Head(link[s].replies) \in Replies
<1>1. link[s] \in Links /\ link[s].replies \in Seq(Replies)
  BY LinkFacts
<1> DEFINE reps == link[s].replies
<1>2. PICK k \in DOMAIN reps : l = [link[s] EXCEPT !.replies = SubSeq(@, k + 1, Len(@))]
  BY DEF AfterRead
<1>3. k \in 1..Len(reps) /\ Len(reps) \in Nat /\ \A i \in 1..Len(reps) : reps[i] \in Replies
  BY <1>1, <1>2, LenProperties, ElementOfSeq
<1>4. SubSeq(reps, k + 1, Len(reps)) \in Seq(Replies)
  BY <1>3, SubSeqProperties
<1>5. reps # <<>>
  BY <1>2
<1>6. Head(reps) \in Replies
  BY <1>1, <1>5, HeadTailProperties
<1> QED
  BY <1>1, <1>2, <1>4, <1>5, <1>6 DEF Links

\* What a primary forwards is well-formed, also without a payload of one byte.
LEMMA EchoType ==
  ASSUME NEW m \in Forwarded
  PROVE  Echo(m) \in WellFormed
BY NoPayloadAssumption DEF Echo, Forwarded, WellFormed, Packets

LEMMA ClosedOpen == Closed \in Links /\ Open \in Links
BY EmptySeq DEF Closed, Open, Links

LEMMA ConnectedType ==
  ASSUME NetworkOK, NEW s \in Servers, NEW l \in Links, Connected(s, l)
  PROVE  NetworkOK'
<1>1. Orphaned(s) \in SUBSET (Seq(WellFormed) \ {<<>>})
  BY LinkFacts
<1> QED
  BY <1>1 DEF Connected, NetworkOK

LEMMA LinkStep ==
  ASSUME NetworkOK, NEW s \in Servers, NEW l \in Links, link' = [link EXCEPT ![s] = l],
         UNCHANGED orphans
  PROVE  NetworkOK'
BY DEF NetworkOK

-----------------------------------------------------------------------------
(***************************************************************************)
(* The steps of a server's thread.                                         *)
(***************************************************************************)
LEMMA CommitsAre ==
  ASSUME NEW s
  PROVE  /\ Commits(s) \in SUBSET Tsn
         /\ \A t \in Commits(s) : IsCommitted(srv[s].log[t])
BY DEF Commits, IsCommitted

LEMMA PrimaryOpsTypes ==
  ASSUME ServersOK, NetworkOK, NEW s \in Servers,
         NEW stack \in Seq(Frames), StackOK(stack, srv[s].log),
         stack # <<>> => Head(stack).op \notin {"ping", "sync"},
         PrimaryOps(s, stack)
  PROVE  ServersOK' /\ NetworkOK'
<1>a. SyncOK(stack, srv[s].queue)
  BY DEF SyncOK
<1>1. CASE /\ srv[s].alive /\ srv[s].queue # <<>>
           /\ srv' = [srv EXCEPT ![s].stack = << SyncFrame >> \o stack]
           /\ link' = [link EXCEPT ![s] = Put(@, Echo(Head(srv[s].queue)))]
           /\ UNCHANGED orphans
  <2> DEFINE new == << SyncFrame >> \o stack
  <2>1. SyncFrame \in Frames /\ SyncFrame.op = "sync"
    BY DEF SyncFrame, Frames
  <2>2. new \in Seq(Frames) /\ StackOK(new, srv[s].log)
    BY <2>1, Push
  <2> HIDE DEF new
  <2>3. srv' = [srv EXCEPT ![s] = [srv[s] EXCEPT !.stack = new]]
    BY <1>1 DEF ServersOK, new
  <2>4. [srv[s] EXCEPT !.stack = new] \in ServerStates
    BY <2>2, ServerFacts DEF ServerStates
  <2>a. SyncOK(new, srv[s].queue)
    BY <1>1 DEF SyncOK
  <2>5. ServersOK'
    BY <2>2, <2>3, <2>4, <2>a, ServerStep, ServerFacts DEF ServerStates
  <2>6. Head(srv[s].queue) \in Forwarded
    BY <1>1, ServerFacts, HeadTailProperties
  <2>7. Put(link[s], Echo(Head(srv[s].queue))) \in Links
    BY <2>6, EchoType, PutType, LinkFacts
  <2>8. link' = [link EXCEPT ![s] = Put(link[s], Echo(Head(srv[s].queue)))]
    BY <1>1
  <2>9. NetworkOK'
    BY <1>1, <2>7, <2>8, LinkStep
  <2> QED
    BY <2>5, <2>9
<1>2. CASE /\ ~srv[s].alive /\ srv[s].backup # Nobody
           /\ srv' = [srv EXCEPT ![s].target = srv[s].backup, ![s].alive = TRUE,
                                  ![s].stack = << CheckFrame(Commits(s), "go") >> \o stack]
           /\ Connected(s, Open)
  <2> DEFINE new == << CheckFrame(Commits(s), "go") >> \o stack
             v == [srv[s] EXCEPT !.target = srv[s].backup, !.alive = TRUE, !.stack = new]
  <2>1. /\ CheckFrame(Commits(s), "go") \in Frames /\ CheckFrame(Commits(s), "go").op = "check"
        /\ CheckFrame(Commits(s), "go").holder = Commits(s)
    BY CommitsAre DEF CheckFrame, Frames
  <2>2. new \in Seq(Frames) /\ StackOK(new, srv[s].log) /\ SyncOK(new, srv[s].queue)
    BY <2>1, CommitsAre, Push DEF SyncOK
  <2> HIDE DEF new
  <2>3. srv' = [srv EXCEPT ![s] = v]
    BY <1>2 DEF ServersOK, new
  <2>4. v \in ServerStates /\ v.stack = new /\ v.log = srv[s].log /\ v.queue = srv[s].queue
    BY <2>2, ServerFacts DEF ServerStates
  <2> HIDE DEF v
  <2> QED
    BY <1>2, <2>2, <2>3, <2>4, ServerStep, ConnectedType, ClosedOpen
<1>3. CASE /\ srv' = [srv EXCEPT ![s].target = srv[s].backup, ![s].backup = Nobody,
                                  ![s].stack = stack]
           /\ Connected(s, Closed)
  <2> DEFINE v == [srv[s] EXCEPT !.target = srv[s].backup, !.backup = Nobody, !.stack = stack]
  <2>3. srv' = [srv EXCEPT ![s] = v]
    BY <1>3 DEF ServersOK
  <2>4. v \in ServerStates /\ v.stack = stack /\ v.log = srv[s].log /\ v.queue = srv[s].queue
    BY ServerFacts DEF ServerStates
  <2> HIDE DEF v
  <2> QED
    BY <1>3, <1>a, <2>3, <2>4, ServerStep, ConnectedType, ClosedOpen
<1>4. CASE srv' = [srv EXCEPT ![s].stack = stack] /\ UNCHANGED <<link, orphans>>
  <2> DEFINE v == [srv[s] EXCEPT !.stack = stack]
  <2>3. srv' = [srv EXCEPT ![s] = v]
    BY <1>4 DEF ServersOK
  <2>4. v \in ServerStates /\ v.stack = stack /\ v.log = srv[s].log /\ v.queue = srv[s].queue
    BY ServerFacts DEF ServerStates
  <2> HIDE DEF v
  <2>5. NetworkOK'
    BY <1>4 DEF NetworkOK
  <2> QED
    BY <1>a, <2>3, <2>4, <2>5, ServerStep
<1> QED
  BY <1>1, <1>2, <1>3, <1>4 DEF PrimaryOps

LEMMA SyncReplyTypes ==
  ASSUME TypeInv, NEW s \in Servers, SyncReply(s)
  PROVE  TypeInv'
<1> USE DEF TypeInv
<1> DEFINE queue == Tail(srv[s].queue)
<1>1. /\ srv[s].stack # <<>> /\ Top(s).op = "sync"
      /\ UNCHANGED <<disk, orphans, primaryTxt, ticks, requests, used>>
  BY DEF SyncReply, In
<1>2. PICK l \in AfterRead(s) :
         \/ /\ queue # <<>>
            /\ link' = [link EXCEPT ![s] = Put(l, Echo(Head(queue)))]
            /\ srv' = [srv EXCEPT ![s].queue = queue]
         \/ /\ link' = [link EXCEPT ![s] = l]
            /\ srv' = [srv EXCEPT ![s].queue = queue, ![s].stack = Below(s)]
  BY DEF SyncReply
<1>3. queue \in Seq(Forwarded)
  BY <1>1, TopFacts, ServerFacts, HeadTailProperties
<1>4. l \in Links
  BY AfterReadType
<1>5. Below(s) \in Seq(Frames) /\ StackOK(Below(s), srv[s].log) /\ SyncOK(Below(s), queue)
  BY <1>1, TopFacts
<1>6. srv[s] \in ServerStates /\ StackOK(srv[s].stack, srv[s].log)
  BY ServerFacts
<1> HIDE DEF queue
<1>7. CASE /\ queue # <<>>
           /\ link' = [link EXCEPT ![s] = Put(l, Echo(Head(queue)))]
           /\ srv' = [srv EXCEPT ![s].queue = queue]
  <2> DEFINE v == [srv[s] EXCEPT !.queue = queue]
  <2>1. srv' = [srv EXCEPT ![s] = v]
    BY <1>7 DEF ServersOK
  <2>2. v \in ServerStates /\ v.stack = srv[s].stack /\ v.log = srv[s].log /\ v.queue = queue
    BY <1>3, <1>6 DEF ServerStates
  <2>3. SyncOK(v.stack, v.queue)
    BY <1>7, <2>2 DEF SyncOK
  <2> HIDE DEF v
  <2>4. ServersOK'
    BY <1>6, <2>1, <2>2, <2>3, ServerStep
  <2>5. Put(l, Echo(Head(queue))) \in Links
    BY <1>3, <1>4, <1>7, HeadTailProperties, EchoType, PutType
  <2>6. NetworkOK'
    BY <1>1, <1>7, <2>5, LinkStep
  <2> QED
    BY <1>1, <2>4, <2>6 DEF DiskOK, RestOK
<1>8. CASE /\ link' = [link EXCEPT ![s] = l]
           /\ srv' = [srv EXCEPT ![s].queue = queue, ![s].stack = Below(s)]
  <2> DEFINE v == [srv[s] EXCEPT !.queue = queue, !.stack = Below(s)]
  <2>1. srv' = [srv EXCEPT ![s] = v]
    BY <1>8 DEF ServersOK
  <2>2. v \in ServerStates /\ v.stack = Below(s) /\ v.log = srv[s].log /\ v.queue = queue
    BY <1>3, <1>5, <1>6 DEF ServerStates
  <2> HIDE DEF v
  <2>4. ServersOK'
    BY <1>5, <2>1, <2>2, ServerStep
  <2>6. NetworkOK'
    BY <1>1, <1>4, <1>8, LinkStep
  <2> QED
    BY <1>1, <2>4, <2>6 DEF DiskOK, RestOK
<1> QED
  BY <1>2, <1>7, <1>8

LEMMA RunStep ==
  ASSUME TypeInv, NEW s \in Servers, NEW v \in ServerStates,
         StackOK(v.stack, v.log), SyncOK(v.stack, v.queue),
         srv' = [srv EXCEPT ![s] = v], NetworkOK',
         UNCHANGED <<disk, primaryTxt, ticks, requests, used>>
  PROVE  TypeInv'
BY ServerStep DEF TypeInv, DiskOK, RestOK

LEMMA QueuedType ==
  ASSUME ServersOK, NEW s \in Servers, NEW m \in Forwarded
  PROVE  Queued(s, m) \in Seq(Forwarded)
BY ServerFacts, AppendProperties DEF Queued

LEMMA CommitPacketType ==
  ASSUME ServersOK, NEW s \in Servers, srv[s].stack # <<>>, Top(s).op = "commit"
  PROVE  CommitPacket(s) \in Forwarded
<1>1. Top(s).tsn \in Tsn /\ Top(s).seq \in SeqNo
  BY TopFacts
<1> QED
  BY <1>1, MaxSeqAssumption DEF CommitPacket, Packet, Forwarded, WellFormed, Packets, SeqNo

LEMMA SyncFailsTypes ==
  ASSUME TypeInv, NEW s \in Servers, SyncFails(s)
  PROVE  TypeInv'
<1> DEFINE v == [srv[s] EXCEPT !.alive = FALSE, !.stack = Below(s)]
<1>1. /\ srv[s].stack # <<>> /\ srv' = [srv EXCEPT ![s].alive = FALSE, ![s].stack = Below(s)]
      /\ UNCHANGED <<disk, link, orphans, primaryTxt, ticks, requests, used>>
  BY DEF SyncFails, In
<1>2. /\ Below(s) \in Seq(Frames) /\ StackOK(Below(s), srv[s].log)
      /\ SyncOK(Below(s), srv[s].queue)
  BY <1>1, TopFacts DEF TypeInv
<1>3. srv' = [srv EXCEPT ![s] = v]
  BY <1>1 DEF TypeInv, ServersOK
<1>4. v \in ServerStates /\ v.stack = Below(s) /\ v.log = srv[s].log /\ v.queue = srv[s].queue
  BY <1>2, ServerFacts DEF ServerStates, TypeInv
<1> HIDE DEF v
<1>5. NetworkOK'
  BY <1>1 DEF TypeInv, NetworkOK
<1> QED
  BY <1>1, <1>2, <1>3, <1>4, <1>5, RunStep

LEMMA CommitEnterTypes ==
  ASSUME TypeInv, NEW s \in Servers, CommitEnter(s)
  PROVE  TypeInv'
<1> DEFINE stack == << [Top(s) EXCEPT !.at = "decide"] >> \o Below(s)
<1>1. /\ srv[s].stack # <<>> /\ Top(s).op = "commit"
      /\ \/ PrimaryOps(s, stack)
         \/ srv' = [srv EXCEPT ![s].stack = stack] /\ UNCHANGED <<link, orphans>>
      /\ UNCHANGED <<disk, primaryTxt, ticks, requests, used>>
  BY DEF CommitEnter, At, In
<1>2. /\ stack \in Seq(Frames) /\ StackOK(stack, srv[s].log) /\ stack # <<>>
      /\ Head(stack).op = "commit" /\ SyncOK(stack, srv[s].queue)
  BY <1>1, JumpFacts DEF TypeInv
<1> HIDE DEF stack
<1>3. CASE PrimaryOps(s, stack)
  <2>1. ServersOK' /\ NetworkOK'
    BY <1>2, <1>3, PrimaryOpsTypes DEF TypeInv
  <2> QED
    BY <1>1, <2>1 DEF TypeInv, DiskOK, RestOK
<1>4. CASE srv' = [srv EXCEPT ![s].stack = stack] /\ UNCHANGED <<link, orphans>>
  <2> DEFINE v == [srv[s] EXCEPT !.stack = stack]
  <2>1. srv' = [srv EXCEPT ![s] = v]
    BY <1>4 DEF TypeInv, ServersOK
  <2>2. v \in ServerStates /\ v.stack = stack /\ v.log = srv[s].log /\ v.queue = srv[s].queue
    BY <1>2, ServerFacts DEF ServerStates, TypeInv
  <2> HIDE DEF v
  <2>3. NetworkOK'
    BY <1>4 DEF TypeInv, NetworkOK
  <2> QED
    BY <1>1, <1>2, <2>1, <2>2, <2>3, RunStep
<1> QED
  BY <1>1, <1>3, <1>4

LEMMA CommitDecideTypes ==
  ASSUME TypeInv, NEW s \in Servers, CommitDecide(s)
  PROVE  TypeInv'
<1>1. /\ srv[s].stack # <<>> /\ Top(s).op = "commit"
      /\ UNCHANGED <<disk, orphans, primaryTxt, ticks, requests, used>>
  BY DEF CommitDecide, At, In
<1>2. ServersOK /\ NetworkOK /\ srv[s] \in ServerStates
  BY ServerFacts DEF TypeInv
<1>3. ASSUME NEW pc \in {"enter", "await"},
             srv' = [srv EXCEPT ![s].stack = << [Top(s) EXCEPT !.at = pc] >> \o Below(s)],
             NetworkOK'
      PROVE  TypeInv'
  <2> DEFINE stack == << [Top(s) EXCEPT !.at = pc] >> \o Below(s)
             v == [srv[s] EXCEPT !.stack = stack]
  <2>1. stack \in Seq(Frames) /\ StackOK(stack, srv[s].log) /\ SyncOK(stack, srv[s].queue)
    BY <1>1, <1>2, JumpFacts
  <2> HIDE DEF stack
  <2>2. srv' = [srv EXCEPT ![s] = v]
    BY <1>2, <1>3 DEF ServersOK, stack
  <2>3. v \in ServerStates /\ v.stack = stack /\ v.log = srv[s].log /\ v.queue = srv[s].queue
    BY <1>2, <2>1 DEF ServerStates
  <2> HIDE DEF v
  <2> QED
    BY <1>1, <1>3, <2>1, <2>2, <2>3, RunStep
<1>4. CASE /\ srv' = [srv EXCEPT ![s].stack = << [Top(s) EXCEPT !.at = "await"] >> \o Below(s)]
           /\ link' = [link EXCEPT ![s] = Put(@, CommitPacket(s))]
  <2>1. CommitPacket(s) \in WellFormed
    BY <1>1, <1>2, CommitPacketType DEF Forwarded
  <2>2. Put(link[s], CommitPacket(s)) \in Links
    BY <1>2, <2>1, PutType, LinkFacts
  <2>3. link' = [link EXCEPT ![s] = Put(link[s], CommitPacket(s))]
    BY <1>4
  <2>4. NetworkOK'
    BY <1>1, <1>2, <2>2, <2>3, LinkStep
  <2> QED
    BY <1>3, <1>4, <2>4
<1>5. CASE /\ srv' = [srv EXCEPT ![s].stack = << [Top(s) EXCEPT !.at = "enter"] >> \o Below(s)]
           /\ UNCHANGED link
  <2>1. NetworkOK'
    BY <1>1, <1>2, <1>5 DEF NetworkOK
  <2> QED
    BY <1>3, <1>5, <2>1
<1>6. CASE /\ srv' = [srv EXCEPT ![s].queue = Queued(s, CommitPacket(s)),
                                 ![s].stack = Returned(s, TRUE)]
           /\ UNCHANGED link
  <2> DEFINE v == [srv[s] EXCEPT !.queue = Queued(s, CommitPacket(s)), !.stack = Returned(s, TRUE)]
  <2>1. /\ Returned(s, TRUE) \in Seq(Frames) /\ StackOK(Returned(s, TRUE), srv[s].log)
        /\ SyncOK(Returned(s, TRUE), Queued(s, CommitPacket(s)))
    BY <1>1, <1>2, ReturnedFacts
  <2>2. Queued(s, CommitPacket(s)) \in Seq(Forwarded)
    BY <1>1, <1>2, CommitPacketType, QueuedType
  <2>3. srv' = [srv EXCEPT ![s] = v]
    BY <1>2, <1>6 DEF ServersOK
  <2>4. /\ v \in ServerStates /\ v.stack = Returned(s, TRUE) /\ v.log = srv[s].log
        /\ v.queue = Queued(s, CommitPacket(s))
    BY <1>2, <2>1, <2>2 DEF ServerStates
  <2> HIDE DEF v
  <2>5. NetworkOK'
    BY <1>1, <1>2, <1>6 DEF NetworkOK
  <2> QED
    BY <1>1, <2>1, <2>3, <2>4, <2>5, RunStep
<1> QED
  BY <1>4, <1>5, <1>6 DEF CommitDecide

\* The packets commit() queues again.
LEMMA ResentType ==
  ASSUME NEW t \in Tsn, NEW x \in Txn, GoodTxn(x)
  PROVE  Resent(t, x) \in Seq(Forwarded)
<1>1. /\ x.data \in Nat
      /\ \A n \in 1..x.data : /\ n \in SeqNo /\ x.writes[n] \in Data \cup {NoData}
                             /\ x.writes[n] \in Payloads[n] \cup {NoData}
  BY MaxSeqAssumption, NoTxnAssumption DEF Txn, SeqNo, GoodTxn
<1>2. \A n \in 1..x.data : Packet("WRITE", t, n, x.writes[n]) \in Forwarded
  BY <1>1, MaxSeqAssumption DEF Packet, Forwarded, WellFormed, Packets, SeqNo
<1> QED
  BY <1>1, <1>2 DEF Resent

LEMMA CommitReplyTypes ==
  ASSUME TypeInv, NEW s \in Servers, CommitReply(s)
  PROVE  TypeInv'
<1> DEFINE t == Top(s).tsn
           x == srv[s].log[t]
           again == << [Top(s) EXCEPT !.at = "enter"] >> \o Below(s)
<1>1. /\ srv[s].stack # <<>> /\ Top(s).op = "commit"
      /\ UNCHANGED <<disk, orphans, primaryTxt, ticks, requests, used>>
  BY DEF CommitReply, At, In
<1>2. ServersOK /\ NetworkOK /\ srv[s] \in ServerStates /\ srv[s].queue \in Seq(Forwarded)
  BY ServerFacts DEF TypeInv
<1>3. NetworkOK'
  <2>1. PICK l \in AfterRead(s) : link' = [link EXCEPT ![s] = l]
    BY DEF CommitReply
  <2> QED
    BY <1>1, <1>2, <2>1, AfterReadType, LinkStep
<1>4. t \in Tsn /\ x \in Txn /\ GoodTxn(x) /\ x.file \in Files
  <2>1. t \in Tsn /\ x # NoTxn
    BY <1>1, <1>2, TopFacts
  <2>2. x \in Txn /\ GoodTxn(x)
    BY <1>2, <2>1, ServerFacts DEF Log, GoodLog
  <2> QED
    BY <2>1, <2>2 DEF Txn
<1>5. again \in Seq(Frames) /\ StackOK(again, srv[s].log) /\ \A queue : SyncOK(again, queue)
  BY <1>1, <1>2, JumpFacts
<1> DEFINE resent == srv[s].queue \o Resent(t, x)
           created == Append(srv[s].queue, Packet("MAKE_TXN", t, 0, x.file))
<1>6. \/ \E ok \in BOOLEAN : srv' = [srv EXCEPT ![s].stack = Returned(s, ok)]
      \/ srv' = [srv EXCEPT ![s].queue = resent, ![s].stack = again]
      \/ srv' = [srv EXCEPT ![s].queue = created, ![s].stack = again]
  BY DEF CommitReply
<1>7. resent \in Seq(Forwarded) /\ created \in Seq(Forwarded)
  <2>1. Packet("MAKE_TXN", t, 0, x.file) \in Forwarded
    BY <1>4, MaxSeqAssumption DEF Packet, Forwarded, WellFormed, Packets
  <2> QED
    BY <1>2, <1>4, <2>1, ResentType, ConcatProperties, AppendProperties
<1> HIDE DEF t, x, again, resent, created
<1>8. ASSUME NEW ok \in BOOLEAN, srv' = [srv EXCEPT ![s].stack = Returned(s, ok)]
      PROVE  TypeInv'
  <2> DEFINE v == [srv[s] EXCEPT !.stack = Returned(s, ok)]
  <2>1. /\ Returned(s, ok) \in Seq(Frames) /\ StackOK(Returned(s, ok), srv[s].log)
        /\ SyncOK(Returned(s, ok), srv[s].queue)
    BY <1>1, <1>2, ReturnedFacts
  <2>2. srv' = [srv EXCEPT ![s] = v]
    BY <1>2, <1>8 DEF ServersOK
  <2>3. v \in ServerStates /\ v.stack = Returned(s, ok) /\ v.log = srv[s].log /\ v.queue = srv[s].queue
    BY <1>2, <2>1 DEF ServerStates
  <2> HIDE DEF v
  <2> QED
    BY <1>1, <1>3, <2>1, <2>2, <2>3, RunStep
<1>9. ASSUME NEW queue \in Seq(Forwarded), srv' = [srv EXCEPT ![s].queue = queue, ![s].stack = again]
      PROVE  TypeInv'
  <2> DEFINE v == [srv[s] EXCEPT !.queue = queue, !.stack = again]
  <2>1. srv' = [srv EXCEPT ![s] = v]
    BY <1>2, <1>9 DEF ServersOK
  <2>2. v \in ServerStates /\ v.stack = again /\ v.log = srv[s].log /\ v.queue = queue
    BY <1>2, <1>5 DEF ServerStates
  <2> HIDE DEF v
  <2> QED
    BY <1>1, <1>3, <1>5, <2>1, <2>2, RunStep
<1> QED
  BY <1>6, <1>7, <1>8, <1>9

LEMMA KillPrimaryTypes ==
  ASSUME TypeInv, NEW s \in Servers, KillPrimary(s)
  PROVE  TypeInv'
<1> DEFINE stack == Returned(s, FALSE)
           v == [srv[s] EXCEPT !.target = Nobody, !.tries = 4, !.restarted = TRUE, !.stack = stack]
           kill == Put(link[s], Request("KILL")).requests
<1>1. /\ srv[s].stack # <<>> /\ Top(s).op = "commit"
      /\ srv' = [srv EXCEPT ![s].target = Nobody, ![s].tries = 4, ![s].restarted = TRUE,
                            ![s].stack = stack]
      /\ link' = [link EXCEPT ![s] = Closed]
      /\ orphans' = [orphans EXCEPT ![s] = @ \cup ({kill} \ {<<>>})]
      /\ UNCHANGED <<disk, primaryTxt, ticks, requests, used>>
  BY DEF KillPrimary, At, In
<1>2. ServersOK /\ NetworkOK /\ srv[s] \in ServerStates
  BY ServerFacts DEF TypeInv
<1>3. stack \in Seq(Frames) /\ StackOK(stack, srv[s].log) /\ SyncOK(stack, srv[s].queue)
  BY <1>1, <1>2, ReturnedFacts
<1>4. kill \in Seq(WellFormed)
  <2>1. Request("KILL") \in WellFormed
    BY MaxSeqAssumption DEF Request, Packet, WellFormed, Packets
  <2> QED
    BY <1>2, <2>1, LinkFacts, PutType DEF Links
<1> HIDE DEF stack, kill
<1>5. srv' = [srv EXCEPT ![s] = v]
  BY <1>1, <1>2 DEF ServersOK
<1>6. v \in ServerStates /\ v.stack = stack /\ v.log = srv[s].log /\ v.queue = srv[s].queue
  <2>1. 4 \in -10..4 /\ TRUE \in BOOLEAN /\ Nobody \in Servers \cup {Nobody}
    OBVIOUS
  <2> QED
    BY <1>2, <1>3, <2>1 DEF ServerStates
<1> HIDE DEF v
<1>7. NetworkOK'
  <2>1. link' \in [Servers -> Links]
    BY <1>1, <1>2, ClosedOpen DEF NetworkOK
  <2>2. orphans' \in [Servers -> SUBSET (Seq(WellFormed) \ {<<>>})]
    BY <1>1, <1>2, <1>4 DEF NetworkOK
  <2> QED
    BY <2>1, <2>2 DEF NetworkOK
<1> QED
  BY <1>1, <1>3, <1>5, <1>6, <1>7, RunStep

LEMMA CommitFailsTypes ==
  ASSUME TypeInv, NEW s \in Servers, CommitFails(s)
  PROVE  TypeInv'
<1> DEFINE stack == Returned(s, TRUE)
           queue == Queued(s, CommitPacket(s))
           v == [srv[s] EXCEPT !.queue = queue, !.alive = FALSE, !.stack = stack]
<1>1. /\ srv[s].stack # <<>> /\ Top(s).op = "commit"
      /\ srv' = [srv EXCEPT ![s].queue = queue, ![s].alive = FALSE, ![s].stack = stack]
      /\ UNCHANGED <<disk, link, orphans, primaryTxt, ticks, requests, used>>
  BY DEF CommitFails, At, In
<1>2. ServersOK /\ NetworkOK /\ srv[s] \in ServerStates
  BY ServerFacts DEF TypeInv
<1>3. stack \in Seq(Frames) /\ StackOK(stack, srv[s].log) /\ SyncOK(stack, queue)
  BY <1>1, <1>2, ReturnedFacts
<1>4. queue \in Seq(Forwarded)
  BY <1>1, <1>2, CommitPacketType, QueuedType
<1> HIDE DEF stack, queue
<1>5. srv' = [srv EXCEPT ![s] = v]
  BY <1>1, <1>2 DEF ServersOK
<1>6. v \in ServerStates /\ v.stack = stack /\ v.log = srv[s].log /\ v.queue = queue
  BY <1>2, <1>3, <1>4 DEF ServerStates
<1> HIDE DEF v
<1>7. NetworkOK'
  BY <1>1, <1>2 DEF NetworkOK
<1> QED
  BY <1>1, <1>3, <1>5, <1>6, <1>7, RunStep

LEMMA EmptyStack ==
  /\ <<>> \in Seq(Frames)
  /\ \A l : StackOK(<<>>, l)
  /\ \A queue : SyncOK(<<>>, queue)
BY EmptySeq DEF StackOK, SyncOK

LEMMA LogUpdate ==
  ASSUME NEW l \in GoodLog, NEW t \in Tsn, NEW x \in Txn \cup {NoTxn}, GoodTxn(x)
  PROVE  [l EXCEPT ![t] = x] \in GoodLog
BY DEF GoodLog, Log

LEMMA NewEntryGood ==
  ASSUME NEW f \in Files
  PROVE  NewEntry(f) \in Txn /\ GoodTxn(NewEntry(f))
<1>1. NewEntry(f) \in Txn /\ NewEntry(f).status = "ACTIVE"
  BY NewEntryType
<1>2. \A n \in SeqNo : NewEntry(f).writes[n] = NoData
  BY DEF NewEntry
<1> QED
  BY <1>1, <1>2 DEF GoodTxn, IsCommitted

LEMMA SavedType ==
  ASSUME ServersOK, DiskOK, NEW r \in Servers, NEW l \in GoodLog
  PROVE  Saved(r, l) \in [Servers -> DiskStates]
BY ServerFacts DEF Saved, DiskOK, DiskStates

LEMMA FinishDoCommitTypes ==
  ASSUME TypeInv, NEW s \in Servers, FinishDoCommit(s)
  PROVE  TypeInv'
<1> DEFINE t == Top(s).tsn
           ok == Top(s).ret = "yes"
           r == Other(s)
           log == IF ok THEN [srv[s].log EXCEPT ![t].status = "COMMITTED"] ELSE srv[s].log
           v == [srv[s] EXCEPT !.log = log, !.stack = <<>>]
<1>1. /\ srv[s].stack # <<>> /\ Top(s).op = "doCommit"
      /\ UNCHANGED <<orphans, primaryTxt, ticks, requests, used>>
  BY DEF FinishDoCommit, In
<1>2. ServersOK /\ NetworkOK /\ srv[s] \in ServerStates /\ DiskOK /\ srv[s].log \in GoodLog
  BY ServerFacts DEF TypeInv
<1>3. log \in GoodLog
  <2> DEFINE x == srv[s].log[t]
             y == [x EXCEPT !.status = "COMMITTED"]
  <2>1. t \in Tsn /\ x \in Txn /\ x # NoTxn /\ HasAll(x) /\ GoodTxn(x)
    BY <1>1, <1>2, TopFacts, ServerFacts DEF Log, GoodLog
  <2>2. y \in Txn /\ GoodTxn(y)
    <3>1. y \in Txn /\ y.data = x.data /\ y.writes = x.writes
      BY <2>1, StatusFacts DEF Status
    <3> QED
      BY <2>1, <3>1 DEF GoodTxn, HasAll
  <2>3. [srv[s].log EXCEPT ![t] = [srv[s].log[t] EXCEPT !.status = "COMMITTED"]] \in GoodLog
    BY <1>2, <2>1, <2>2, LogUpdate
  <2> QED
    BY <1>2, <2>3
<1>4. srv' = [srv EXCEPT ![s] = v]
  BY <1>2 DEF FinishDoCommit, ServersOK
<1> HIDE DEF log
<1>5. v \in ServerStates /\ v.stack = <<>> /\ v.log = log
  BY <1>2, <1>3, EmptyStack DEF ServerStates
<1>6. ServersOK'
  BY <1>2, <1>4, <1>5, ServerStep, EmptyStack
<1>7. DiskOK'
  <2>1. srv'[s].log = log
    BY <1>2, <1>4, <1>5 DEF ServersOK
  <2>2. disk' = Saved(s, log) \/ disk' = disk
    BY <2>1 DEF FinishDoCommit
  <2> QED
    BY <1>2, <1>3, <2>2, SavedType DEF DiskOK
<1>8. NetworkOK'
  <2> DEFINE l == [link[r] EXCEPT !.replies = Append(@, IF ok THEN "ACK" ELSE "ERROR"),
                                  !.serving = FALSE]
  <2>1. r \in Servers
    BY OtherServer
  <2>2. link' = [link EXCEPT ![r] = l] \/ link' = link
    BY <1>2, <2>1 DEF FinishDoCommit, NetworkOK
  <2>3. Append(link[r].replies, IF ok THEN "ACK" ELSE "ERROR") \in Seq(Replies)
    BY <1>2, <2>1, LinkFacts, AppendProperties DEF Replies
  <2>4. l \in Links
    BY <1>2, <2>1, <2>3, LinkFacts DEF Links
  <2> HIDE DEF l
  <2> QED
    BY <1>1, <1>2, <2>1, <2>2, <2>4, LinkStep DEF NetworkOK
<1> QED
  BY <1>1, <1>6, <1>7, <1>8 DEF TypeInv, RestOK

LEMMA CheckStartTypes ==
  ASSUME TypeInv, NEW s \in Servers, CheckStart(s)
  PROVE  TypeInv'
<1> DEFINE ok == Reachable(srv[s].target)
           f == CheckFrame(Commits(s), "go")
           stack == <<f>> \o Below(s)
           v == [srv[s] EXCEPT !.alive = srv[s].alive \/ ok, !.stack = stack]
<1>1. /\ srv[s].stack # <<>>
      /\ srv' = [srv EXCEPT ![s].alive = @ \/ ok, ![s].stack = stack]
      /\ Connected(s, IF ok THEN Open ELSE Closed)
      /\ UNCHANGED <<disk, primaryTxt, ticks, requests, used>>
  BY DEF CheckStart, In
<1>2. ServersOK /\ NetworkOK /\ srv[s] \in ServerStates /\ srv[s].alive \in BOOLEAN
  BY ServerFacts DEF TypeInv
<1>3. f \in Frames /\ f.op = "check" /\ f.holder = Commits(s)
  BY CommitsAre DEF CheckFrame, Frames
<1> HIDE DEF f
<1>4. stack \in Seq(Frames) /\ StackOK(stack, srv[s].log) /\ SyncOK(stack, srv[s].queue)
  BY <1>1, <1>2, <1>3, TopFacts, CommitsAre, Push DEF SyncOK
<1>5. ok \in BOOLEAN
  BY <1>2, ServerFacts DEF Reachable
<1> HIDE DEF stack, ok
<1>6. srv' = [srv EXCEPT ![s] = v]
  BY <1>1, <1>2 DEF ServersOK
<1>7. v \in ServerStates /\ v.stack = stack /\ v.log = srv[s].log /\ v.queue = srv[s].queue
  BY <1>2, <1>4, <1>5 DEF ServerStates
<1> HIDE DEF v
<1>8. NetworkOK'
  BY <1>1, <1>2, ConnectedType, ClosedOpen
<1> QED
  BY <1>1, <1>4, <1>6, <1>7, <1>8, RunStep

\* Two calls at once.
LEMMA TwoFrames ==
  ASSUME NEW f \in Frames, NEW g \in Frames, NEW below \in Seq(Frames)
  PROVE  <<f, g>> \o below = <<f>> \o (<<g>> \o below)
<1> DEFINE F == <<f>>
           G == <<g>>
           two == <<f, g>>
<1>1. F \in Seq(Frames) /\ G \in Seq(Frames) /\ Len(F) = 1 /\ Len(G) = 1 /\ F[1] = f /\ G[1] = g
  OBVIOUS
<1>2. two \in Seq(Frames) /\ Len(two) = 2 /\ two[1] = f /\ two[2] = g
  OBVIOUS
<1> HIDE DEF F, G, two
<1>3. F \o G \in Seq(Frames) /\ Len(F \o G) = 2 /\ (F \o G)[1] = f /\ (F \o G)[2] = g
  BY <1>1, ConcatProperties
<1>4. \A k \in 1..Len(two) : two[k] = (F \o G)[k]
  BY <1>2, <1>3
<1>5. two = F \o G
  BY <1>2, <1>3, <1>4, SeqEqual
<1>6. F \in Seq(Frames) /\ G \in Seq(Frames) /\ below \in Seq(Frames)
  BY <1>1
<1>7. (F \o G) \o below = F \o (G \o below)
  BY <1>6, ConcatAssociative
<1>8. two \o below = F \o (G \o below)
  BY <1>5, <1>7, Zenon
<1> QED
  BY <1>8, Zenon DEF F, G, two

LEMMA CheckNextTypes ==
  ASSUME TypeInv, NEW s \in Servers, CheckNext(s)
  PROVE  TypeInv'
<1> DEFINE todo == IF Top(s).ret = "go" THEN Top(s).holder
                   ELSE Top(s).holder \ {Highest(Top(s).holder)}
           t == Highest(todo)
           f == CommitFrame(t, srv[s].log[t].data)
           g == CheckFrame(todo, "go")
           stack == <<f, g>> \o Below(s)
           v == [srv[s] EXCEPT !.stack = stack]
<1>1. /\ srv[s].stack # <<>> /\ Top(s).op = "check" /\ todo # {}
      /\ srv' = [srv EXCEPT ![s].stack = stack]
      /\ UNCHANGED <<disk, link, orphans, primaryTxt, ticks, requests, used>>
  BY DEF CheckNext, In
<1>2. ServersOK /\ NetworkOK /\ srv[s] \in ServerStates /\ srv[s].log \in GoodLog
  BY ServerFacts DEF TypeInv
<1>3. /\ todo \in SUBSET Tsn /\ \A u \in todo : IsCommitted(srv[s].log[u])
      /\ Below(s) \in Seq(Frames) /\ StackOK(Below(s), srv[s].log)
      /\ Below(s) # <<>> => Head(Below(s)).op \notin {"ping", "sync"}
  BY <1>1, <1>2, TopFacts
<1> HIDE DEF todo
<1>4. t \in Tsn /\ IsCommitted(srv[s].log[t]) /\ srv[s].log[t].data \in SeqNo
  BY <1>1, <1>2, <1>3, HighestIn DEF GoodLog, GoodTxn, HasAll, IsCommitted
<1> HIDE DEF t
<1>5. f \in Frames /\ f.op = "commit" /\ f.tsn = t /\ f.seq = srv[s].log[t].data
  BY <1>4 DEF CommitFrame, Frames
<1>6. g \in Frames /\ g.op = "check" /\ g.holder = todo
  BY <1>3 DEF CheckFrame, Frames
<1> HIDE DEF f, g
<1>7. /\ <<g>> \o Below(s) \in Seq(Frames) /\ StackOK(<<g>> \o Below(s), srv[s].log)
      /\ <<g>> \o Below(s) # <<>> /\ Head(<<g>> \o Below(s)) = g
  BY <1>3, <1>6, Push
<1> DEFINE below == <<g>> \o Below(s)
<1>8. stack = <<f>> \o below
  BY <1>3, <1>5, <1>6, TwoFrames
<1> HIDE DEF below, stack
<1>9. stack \in Seq(Frames) /\ StackOK(stack, srv[s].log) /\ SyncOK(stack, srv[s].queue)
  <2>1. below \in Seq(Frames) /\ StackOK(below, srv[s].log) /\ below # <<>> /\ Head(below).op = "check"
    BY <1>6, <1>7 DEF below
  <2>2. /\ <<f>> \o below \in Seq(Frames) /\ StackOK(<<f>> \o below, srv[s].log)
        /\ Head(<<f>> \o below) = f
    BY <1>4, <1>5, <2>1, Push DEF IsCommitted
  <2> QED
    BY <1>5, <1>8, <2>2 DEF SyncOK
<1>10. srv' = [srv EXCEPT ![s] = v]
  BY <1>1, <1>2 DEF ServersOK
<1>11. v \in ServerStates /\ v.stack = stack /\ v.log = srv[s].log /\ v.queue = srv[s].queue
  BY <1>2, <1>9 DEF ServerStates
<1> HIDE DEF v
<1>12. NetworkOK'
  BY <1>1, <1>2 DEF NetworkOK
<1> QED
  BY <1>1, <1>9, <1>10, <1>11, <1>12, RunStep

LEMMA CheckEndTypes ==
  ASSUME TypeInv, NEW s \in Servers, CheckEnd(s)
  PROVE  TypeInv'
<1>1. /\ srv[s].stack # <<>>
      /\ \/ srv' = [srv EXCEPT ![s].stack = Below(s)] /\ UNCHANGED <<link, orphans>>
         \/ /\ srv' = [srv EXCEPT ![s].stack = Below(s), ![s].alive = FALSE]
            /\ Connected(s, Closed)
      /\ UNCHANGED <<disk, primaryTxt, ticks, requests, used>>
  BY DEF CheckEnd, In
<1>2. ServersOK /\ NetworkOK /\ srv[s] \in ServerStates /\ srv[s].alive \in BOOLEAN
  BY ServerFacts DEF TypeInv
<1>3. /\ Below(s) \in Seq(Frames) /\ StackOK(Below(s), srv[s].log)
      /\ SyncOK(Below(s), srv[s].queue)
  BY <1>1, <1>2, TopFacts
<1>4. PICK a \in BOOLEAN : srv' = [srv EXCEPT ![s] = [srv[s] EXCEPT !.stack = Below(s), !.alive = a]]
  <2>1. CASE srv' = [srv EXCEPT ![s].stack = Below(s)]
    <3>1. [srv[s] EXCEPT !.stack = Below(s), !.alive = srv[s].alive] = [srv[s] EXCEPT !.stack = Below(s)]
      BY <1>2 DEF ServerStates
    <3> QED
      BY <1>2, <2>1, <3>1 DEF ServersOK
  <2>2. CASE srv' = [srv EXCEPT ![s].stack = Below(s), ![s].alive = FALSE]
    BY <1>2, <2>2 DEF ServersOK
  <2> QED
    BY <1>1, <2>1, <2>2
<1> DEFINE v == [srv[s] EXCEPT !.stack = Below(s), !.alive = a]
<1>5. v \in ServerStates /\ v.stack = Below(s) /\ v.log = srv[s].log /\ v.queue = srv[s].queue
  BY <1>2, <1>3 DEF ServerStates
<1>6. NetworkOK'
  BY <1>1, <1>2, ConnectedType, ClosedOpen DEF NetworkOK
<1> QED
  BY <1>1, <1>3, <1>4, <1>5, <1>6, RunStep

LEMMA PingReplyTypes ==
  ASSUME TypeInv, NEW s \in Servers, PingReply(s)
  PROVE  TypeInv'
<1> DEFINE v == [srv[s] EXCEPT !.stack = <<>>]
<1>1. /\ srv' = [srv EXCEPT ![s].stack = <<>>] /\ Connected(s, Closed)
      /\ UNCHANGED <<disk, primaryTxt, ticks, requests, used>>
  BY DEF PingReply
<1>2. ServersOK /\ NetworkOK /\ srv[s] \in ServerStates
  BY ServerFacts DEF TypeInv
<1>3. srv' = [srv EXCEPT ![s] = v]
  BY <1>1, <1>2 DEF ServersOK
<1>4. v \in ServerStates /\ v.stack = <<>>
  BY <1>2, EmptyStack DEF ServerStates
<1> HIDE DEF v
<1>5. NetworkOK'
  BY <1>1, <1>2, ConnectedType, ClosedOpen
<1>6. StackOK(v.stack, v.log) /\ SyncOK(v.stack, v.queue)
  BY <1>4, EmptyStack
<1> QED
  BY <1>1, <1>3, <1>4, <1>5, <1>6, RunStep

LEMMA StartedType ==
  ASSUME NEW l \in GoodLog, NEW b \in Servers \cup {Nobody}, NEW r \in {"primary", "backup"}
  PROVE  /\ Started(l, b, r) \in ServerStates /\ Started(l, b, r).stack = <<>>
         /\ Started(l, b, r).log = l
BY EmptyStack, EmptySeq DEF Started, ServerStates

LEMMA EmptyLogType == EmptyLog \in GoodLog
BY DEF EmptyLog, GoodLog, Log, GoodTxn

LEMMA DiesTypes ==
  ASSUME TypeInv, NEW s \in Servers, Dies(s)
  PROVE  /\ ServersOK' /\ NetworkOK' /\ DiskOK'
         /\ UNCHANGED <<primaryTxt, ticks, requests>>
<1> DEFINE r == Other(s)
<1>1. /\ srv' = [srv EXCEPT ![s] = Down] /\ UNCHANGED <<disk, primaryTxt, ticks, requests>>
      /\ orphans' = [orphans EXCEPT ![s] = Orphaned(s), ![r] = {}]
  BY DEF Dies
<1>2. PICK unread \in {link[r].replies, <<>>} :
         link' = [link EXCEPT ![s] = Closed,
                              ![r] = IF @.state = "open"
                                     THEN [Closed EXCEPT !.state = "lost", !.replies = unread]
                                     ELSE @]
  BY DEF Dies
<1>3. ServersOK /\ NetworkOK /\ r \in Servers /\ r # s /\ link[r] \in Links
  BY OtherServer, LinkFacts DEF TypeInv
<1>4. Down \in ServerStates /\ Down.stack = <<>>
  <2>1. Started(EmptyLog, Nobody, "backup") \in ServerStates
        /\ Started(EmptyLog, Nobody, "backup").stack = <<>>
    BY StartedType, EmptyLogType
  <2> QED
    BY <2>1 DEF Down, ServerStates
<1>5. ServersOK'
  BY <1>1, <1>3, <1>4, EmptyStack, ServerStep
<1>6. [Closed EXCEPT !.state = "lost", !.replies = unread] \in Links
  <2>1. unread \in Seq(Replies)
    BY <1>3, EmptySeq DEF Links
  <2> QED
    BY <2>1, ClosedOpen DEF Links
<1>7. link' \in [Servers -> Links]
  BY <1>2, <1>3, <1>6, ClosedOpen DEF NetworkOK
<1>8. orphans' \in [Servers -> SUBSET (Seq(WellFormed) \ {<<>>})]
  BY <1>1, <1>3, LinkFacts DEF NetworkOK
<1> QED
  BY <1>1, <1>5, <1>7, <1>8 DEF NetworkOK, TypeInv, DiskOK

LEMMA EndTypes ==
  ASSUME TypeInv, NEW s \in Servers, PingFails(s) \/ CommitRecurses(s) \/ Crash(s)
  PROVE  TypeInv'
<1>1. Dies(s)
  BY DEF PingFails, CommitRecurses, Crash
<1>2. used' \in [crashes : 0..MaxCrashes, errors : 0..MaxIOErrors, sweeps : 0..MaxSweeps]
  <2>1. CASE UNCHANGED used
    BY <2>1 DEF TypeInv, RestOK
  <2>2. CASE used.crashes < MaxCrashes /\ used' = [used EXCEPT !.crashes = @ + 1]
    <3>1. used.crashes \in 0..MaxCrashes /\ MaxCrashes \in Nat
      BY BoundsAssumption DEF TypeInv, RestOK
    <3>2. used.crashes + 1 \in 0..MaxCrashes
      BY <2>2, <3>1
    <3> QED
      BY <2>2, <3>2 DEF TypeInv, RestOK
  <2> QED
    BY <2>1, <2>2 DEF PingFails, CommitRecurses, Crash
<1> QED
  BY <1>1, <1>2, DiesTypes DEF TypeInv, RestOK

-----------------------------------------------------------------------------
(***************************************************************************)
(* The timers.                                                             *)
(***************************************************************************)
LEMMA FiresTypes ==
  ASSUME TypeInv, NEW s \in Servers, Fires(s)
  PROVE  srv[s].stack = <<>> /\ ticks' \in [Servers -> 0..Drift]
<1>1. Drift \in Nat /\ ticks \in [Servers -> 0..Drift] /\ Other(s) \in Servers
  BY BoundsAssumption, OtherServer DEF TypeInv, RestOK
<1>2. CASE UNCHANGED ticks
  BY <1>1, <1>2 DEF Fires, Idle
<1>3. CASE /\ Idle(Other(s)) => ticks[s] < Drift
           /\ ticks' = [ticks EXCEPT ![s] = IF Idle(Other(s)) THEN @ + 1 ELSE 0, ![Other(s)] = 0]
  <2>1. (IF Idle(Other(s)) THEN ticks[s] + 1 ELSE 0) \in 0..Drift /\ 0 \in 0..Drift
    BY <1>1, <1>3
  <2> QED
    BY <1>1, <1>3, <2>1 DEF Fires, Idle
<1> QED
  BY <1>2, <1>3 DEF Fires

LEMMA TimerTypes ==
  ASSUME TypeInv, NEW s \in Servers, Timer(s)
  PROVE  TypeInv'
<1>1. Fires(s) /\ UNCHANGED <<disk, requests, used>>
  BY DEF Timer, PrimaryIdles, PrimaryCheck, BackupCheck, BackupNoPrimary
<1>2. ticks' \in [Servers -> 0..Drift] /\ srv[s].stack = <<>>
  BY <1>1, FiresTypes
<1>3. ServersOK /\ NetworkOK /\ DiskOK /\ primaryTxt \in Servers /\ srv[s] \in ServerStates
  BY ServerFacts DEF TypeInv, RestOK
<1>4. SUFFICES ServersOK' /\ NetworkOK' /\ primaryTxt' \in Servers
  BY <1>1, <1>2 DEF TypeInv, DiskOK, RestOK
<1>5. CASE PrimaryIdles(s)
  BY <1>3, <1>5 DEF PrimaryIdles, ServersOK, NetworkOK
<1>6. CASE PrimaryCheck(s)
  <2>1. PrimaryOps(s, <<>>) /\ UNCHANGED primaryTxt
    BY <1>6 DEF PrimaryCheck
  <2> QED
    BY <1>3, <2>1, PrimaryOpsTypes, EmptyStack
<1>7. CASE BackupCheck(s)
  <2>1. /\ orphans' = [orphans EXCEPT ![s] = Orphaned(s)] /\ UNCHANGED primaryTxt
        /\ \/ /\ srv' = [srv EXCEPT ![s].backup_did_sync = TRUE,
                                    ![s].stack = << CheckFrame({}, "start") >>]
              /\ link' = [link EXCEPT ![s] = Open]
           \/ /\ srv' = [srv EXCEPT ![s].stack = << PingFrame >>]
              /\ link' = [link EXCEPT ![s] = Put(Open, Packet("PING", 0, 0, s))]
    BY <1>7 DEF BackupCheck
  <2>2. Packet("PING", 0, 0, s) \in WellFormed
    BY MaxSeqAssumption DEF Packet, WellFormed, Packets
  <2>3. Put(Open, Packet("PING", 0, 0, s)) \in Links
    BY <2>2, PutType, ClosedOpen
  <2>4. PICK l \in Links : link' = [link EXCEPT ![s] = l]
    BY <2>1, <2>3, ClosedOpen
  <2>5. NetworkOK'
    BY <1>3, <2>1, <2>4, ConnectedType DEF Connected
  <2>6. CASE srv' = [srv EXCEPT ![s].backup_did_sync = TRUE,
                                ![s].stack = << CheckFrame({}, "start") >>]
    <3> DEFINE stack == << CheckFrame({}, "start") >>
               v == [srv[s] EXCEPT !.backup_did_sync = TRUE, !.stack = stack]
    <3>1. /\ CheckFrame({}, "start") \in Frames /\ CheckFrame({}, "start").op = "check"
          /\ CheckFrame({}, "start").holder = {}
      BY DEF CheckFrame, Frames
    <3>2. /\ stack \in Seq(Frames) /\ Len(stack) = 1 /\ stack[1] = CheckFrame({}, "start")
          /\ Head(stack) = CheckFrame({}, "start")
      BY <3>1
    <3> HIDE DEF stack
    <3>3. StackOK(stack, srv[s].log) /\ SyncOK(stack, srv[s].queue)
      BY <3>1, <3>2 DEF StackOK, SyncOK
    <3>4. srv' = [srv EXCEPT ![s] = v]
      BY <1>3, <2>6 DEF ServersOK, stack
    <3>5. v \in ServerStates /\ v.stack = stack /\ v.log = srv[s].log /\ v.queue = srv[s].queue
      BY <1>3, <3>2 DEF ServerStates
    <3> HIDE DEF v
    <3> QED
      BY <1>3, <2>1, <2>5, <3>3, <3>4, <3>5, ServerStep
  <2>7. CASE srv' = [srv EXCEPT ![s].stack = << PingFrame >>]
    <3> DEFINE stack == << PingFrame >>
               v == [srv[s] EXCEPT !.stack = stack]
    <3>1. PingFrame \in Frames /\ PingFrame.op = "ping"
      BY DEF PingFrame, Frames
    <3>2. stack \in Seq(Frames) /\ Len(stack) = 1 /\ stack[1] = PingFrame /\ Head(stack) = PingFrame
      BY <3>1
    <3> HIDE DEF stack
    <3>3. StackOK(stack, srv[s].log) /\ SyncOK(stack, srv[s].queue)
      BY <3>1, <3>2 DEF StackOK, SyncOK
    <3>4. srv' = [srv EXCEPT ![s] = v]
      BY <1>3, <2>7 DEF ServersOK, stack
    <3>5. v \in ServerStates /\ v.stack = stack /\ v.log = srv[s].log /\ v.queue = srv[s].queue
      BY <1>3, <3>2 DEF ServerStates
    <3> HIDE DEF v
    <3> QED
      BY <1>3, <2>1, <2>5, <3>3, <3>4, <3>5, ServerStep
  <2> QED
    BY <2>1, <2>6, <2>7
<1>8. CASE BackupNoPrimary(s)
  <2> DEFINE promote == GivesUp(s)
             role == IF promote THEN "primary" ELSE srv[s].role
             tries == IF promote THEN 1 ELSE Counted(s)
             target == LoadedTarget(s, primaryTxt')
             v == [srv[s] EXCEPT !.role = role, !.tries = tries, !.target = target,
                                 !.backup_did_sync = FALSE]
  <2>1. /\ primaryTxt' = IF promote THEN s ELSE primaryTxt
        /\ srv' = [srv EXCEPT ![s].role = IF promote THEN "primary" ELSE @,
                              ![s].tries = tries,
                              ![s].target = target,
                              ![s].backup_did_sync = FALSE]
        /\ Connected(s, Closed)
    BY <1>8 DEF BackupNoPrimary
  <2>2. primaryTxt' \in Servers
    BY <1>3, <2>1
  <2>3. role \in {"primary", "backup"} /\ tries \in -10..4 /\ target \in Servers \cup {Nobody}
    <3>1. /\ srv[s].tries \in -10..4 /\ srv[s].role \in {"primary", "backup"}
          /\ srv[s].target \in Servers \cup {Nobody}
      BY <1>3, ServerFacts
    <3> QED
      BY <2>2, <3>1 DEF GivesUp, Counted, LoadedTarget
  <2> HIDE DEF tries, target
  <2>4. srv' = [srv EXCEPT ![s] = v]
    BY <1>3, <2>1 DEF ServersOK
  <2> HIDE DEF promote, role
  <2>5. v \in ServerStates /\ v.stack = srv[s].stack /\ v.log = srv[s].log /\ v.queue = srv[s].queue
    BY <1>3, <2>3 DEF ServerStates
  <2> HIDE DEF v
  <2>6. ServersOK'
    BY <1>3, <2>4, <2>5, ServerStep, ServerFacts
  <2> QED
    BY <1>3, <2>1, <2>2, <2>6, ConnectedType, ClosedOpen
<1> QED
  BY <1>5, <1>6, <1>7, <1>8 DEF Timer

-----------------------------------------------------------------------------
(***************************************************************************)
(* Requests.                                                               *)
(***************************************************************************)
LEMMA LateWithTypes ==
  ASSUME NetworkOK, NEW s \in Servers, NEW m, NEW c \in LateWith(s, m)
  PROVE  Served(s, c) \in SUBSET (Seq(WellFormed) \ {<<>>})
<1>1. orphans[s] \in SUBSET (Seq(WellFormed) \ {<<>>}) /\ c \in orphans[s]
  BY LinkFacts DEF LateWith
<1>2. Tail(c) \in Seq(WellFormed)
  BY <1>1, HeadTailProperties
<1> QED
  BY <1>1, <1>2 DEF Served

LEMMA ReceivedTypes ==
  ASSUME NetworkOK, NEW r \in Servers, NEW m, NEW src, NEW reps \in Seq(Replies),
         NEW serving \in BOOLEAN,
         src = "peer" => link[Other(r)].requests # <<>>,
         Received(r, m, src, reps, serving)
  PROVE  NetworkOK'
<1> DEFINE s == Other(r)
<1>1. s \in Servers /\ link[s] \in Links
  BY OtherServer, LinkFacts
<1>2. CASE src = "client" /\ UNCHANGED <<link, orphans>>
  BY <1>2 DEF NetworkOK
<1>3. CASE /\ src = "peer" /\ UNCHANGED orphans
           /\ link' = [link EXCEPT ![s].requests = Tail(@), ![s].replies = @ \o reps,
                                   ![s].serving = serving]
  <2> DEFINE requs == Tail(link[s].requests)
             answers == link[s].replies \o reps
             l == [link[s] EXCEPT !.requests = requs, !.replies = answers, !.serving = serving]
  <2>1. requs \in Seq(WellFormed)
    BY <1>1, <1>3, LinkFacts, HeadTailProperties
  <2>2. answers \in Seq(Replies)
    BY <1>1, LinkFacts, ConcatProperties
  <2>3. link' = [link EXCEPT ![s] = l]
    BY <1>1, <1>3 DEF NetworkOK
  <2> HIDE DEF requs, answers
  <2>4. l \in Links
    BY <1>1, <2>1, <2>2 DEF Links
  <2> HIDE DEF l, s
  <2> QED
    BY <1>1, <1>3, <2>3, <2>4, LinkStep
<1>4. CASE /\ UNCHANGED link
           /\ \E c \in LateWith(s, m) : orphans' = [orphans EXCEPT ![s] = Served(s, c)]
  <2>1. PICK c \in LateWith(s, m) : orphans' = [orphans EXCEPT ![s] = Served(s, c)]
    BY <1>4
  <2>2. Served(s, c) \in SUBSET (Seq(WellFormed) \ {<<>>})
    BY <1>1, LateWithTypes
  <2> QED
    BY <1>1, <1>4, <2>1, <2>2 DEF NetworkOK
<1> QED
  BY <1>2, <1>3, <1>4 DEF Received

\* A request that an idle server handles: a change of its log, its queue and
\* its call stack.
LEMMA IdleStep ==
  ASSUME ServersOK, NEW r \in Servers,
         NEW l \in GoodLog, NEW queue \in Seq(Forwarded), NEW stack \in Seq(Frames),
         StackOK(stack, l), SyncOK(stack, queue),
         srv' = [srv EXCEPT ![r].log = l, ![r].queue = queue, ![r].stack = stack]
  PROVE  ServersOK' /\ srv'[r].log = l
<1> DEFINE v == [srv[r] EXCEPT !.log = l, !.queue = queue, !.stack = stack]
<1>1. srv' = [srv EXCEPT ![r] = v]
  BY DEF ServersOK
<1>2. v \in ServerStates /\ v.stack = stack /\ v.log = l /\ v.queue = queue
  BY ServerFacts DEF ServerStates
<1> HIDE DEF v
<1> QED
  BY <1>1, <1>2, ServerStep DEF ServersOK

LEMMA IdleLogStep ==
  ASSUME ServersOK, NEW r \in Servers, srv[r].stack = <<>>,
         NEW l \in GoodLog, NEW queue \in Seq(Forwarded),
         \/ srv' = [srv EXCEPT ![r].log = l, ![r].queue = queue]
         \/ srv' = [srv EXCEPT ![r].log = l]
  PROVE  ServersOK' /\ srv'[r].log = l
<1>1. \E q \in Seq(Forwarded) :
        srv' = [srv EXCEPT ![r] = [srv[r] EXCEPT !.log = l, !.queue = q]]
  <2>1. CASE srv' = [srv EXCEPT ![r].log = l, ![r].queue = queue]
    BY <2>1 DEF ServersOK
  <2>2. CASE srv' = [srv EXCEPT ![r].log = l]
    <3>1. [srv[r] EXCEPT !.log = l, !.queue = srv[r].queue] = [srv[r] EXCEPT !.log = l]
      BY ServerFacts DEF ServerStates
    <3>2. srv' = [srv EXCEPT ![r] = [srv[r] EXCEPT !.log = l, !.queue = srv[r].queue]]
      BY <2>2, <3>1 DEF ServersOK
    <3> QED
      BY <3>2, ServerFacts
  <2> QED
    BY <2>1, <2>2
<1>2. PICK q \in Seq(Forwarded) :
        srv' = [srv EXCEPT ![r] = [srv[r] EXCEPT !.log = l, !.queue = q]]
  BY <1>1
<1> DEFINE v == [srv[r] EXCEPT !.log = l, !.queue = q]
<1>3. v \in ServerStates /\ v.stack = <<>> /\ v.log = l /\ v.queue = q
  BY ServerFacts DEF ServerStates
<1>4. srv' = [srv EXCEPT ![r] = v]
  BY <1>2
<1> HIDE DEF v
<1> QED
  BY <1>3, <1>4, ServerStep, EmptyStack DEF ServersOK

LEMMA IdleLogOnly ==
  ASSUME ServersOK, NEW r \in Servers, srv[r].stack = <<>>, NEW l \in GoodLog,
         srv' = [srv EXCEPT ![r].log = l]
  PROVE  ServersOK' /\ srv'[r].log = l
<1>1. srv[r].queue \in Seq(Forwarded)
  BY DEF ServersOK, ServerStates
<1> QED
  BY <1>1, IdleLogStep

UsedTypes == [crashes : 0..MaxCrashes, errors : 0..MaxIOErrors, sweeps : 0..MaxSweeps]

\* A handler's part of the invariant.
HandlerOK == ServersOK /\ DiskOK /\ NetworkOK /\ used \in UsedTypes

LEMMA AckTypes ==
  /\ <<"ACK">> \in Seq(Replies) /\ <<"ERROR">> \in Seq(Replies) /\ <<>> \in Seq(Replies)
  /\ \A code : <<ReplyFor(code)>> \in Seq(Replies)
BY DEF Replies, ReplyFor

LEMMA MarkedTxn ==
  ASSUME NEW x \in Txn, GoodTxn(x), NEW n \in SeqNo, NEW st \in Status,
         st = "COMMITTED" => \A k \in 1..n : x.writes[k] # NoData
  PROVE  /\ MarkedFor(x, st, n) \in Txn /\ GoodTxn(MarkedFor(x, st, n))
         /\ (\A k \in 1..n : x.writes[k] # NoData) => HasAll(MarkedFor(x, st, n))
<1> DEFINE y == MarkedFor(x, st, n)
<1>1. y \in Txn /\ y.status = st /\ y.data = n /\ y.writes = x.writes
  BY MarkedFacts
<1> HIDE DEF y
<1>2. (\A k \in 1..n : x.writes[k] # NoData) => HasAll(y)
  BY <1>1 DEF HasAll
<1>3. GoodTxn(y)
  BY <1>1, <1>2, NoTxnAssumption DEF GoodTxn, IsCommitted
<1> QED
  BY <1>1, <1>2, <1>3 DEF y

LEMMA StartCommitTypes ==
  ASSUME HandlerOK, NEW r \in Servers, srv[r].stack = <<>>, NEW m, m.tsn \in Tsn,
         NEW src \in {"client", "peer", "late"}, src = "peer" => link[Other(r)].requests # <<>>,
         NEW x \in Txn, GoodTxn(x), NEW n \in SeqNo, CanCommit(x, n), NEW queue \in Seq(Forwarded),
         StartCommit(r, m, src, x, n, queue)
  PROVE  HandlerOK'
<1> DEFINE t == m.tsn
<1>1. ServersOK /\ DiskOK /\ NetworkOK /\ srv[r].log \in GoodLog /\ used \in UsedTypes
  BY ServerFacts DEF HandlerOK
<1>2. ASSUME NEW st \in {"WRITING", "COMMITTED", "WAITING"}
      PROVE  /\ MarkedFor(x, st, n) \in Txn /\ HasAll(MarkedFor(x, st, n))
             /\ With(r, t, MarkedFor(x, st, n)) \in GoodLog
             /\ With(r, t, MarkedFor(x, st, n))[t] = MarkedFor(x, st, n)
  <2>0. st \in Status
    BY DEF Status
  <2>1. /\ MarkedFor(x, st, n) \in Txn /\ HasAll(MarkedFor(x, st, n))
        /\ GoodTxn(MarkedFor(x, st, n))
    BY <2>0, MarkedTxn, CanCommitComplete
  <2>2. With(r, t, MarkedFor(x, st, n)) \in GoodLog
    BY <1>1, <2>1, LogUpdate DEF With
  <2>3. t \in DOMAIN srv[r].log
    BY <1>1 DEF GoodLog, Log
  <2> QED
    BY <2>1, <2>2, <2>3 DEF With
<1>3. CASE /\ srv' = [srv EXCEPT ![r].log = With(r, t, MarkedFor(x, "WRITING", n)),
                                 ![r].queue = queue,
                                 ![r].stack = << CommitFrame(t, n), DoCommitFrame(t, src) >>]
           /\ disk' = Saved(r, srv'[r].log)
           /\ Received(r, m, src, <<>>, TRUE)
           /\ UNCHANGED used
  <2> DEFINE l == With(r, t, MarkedFor(x, "WRITING", n))
             f == CommitFrame(t, n)
             g == DoCommitFrame(t, src)
             stack == <<f, g>>
  <2>0. /\ MarkedFor(x, "WRITING", n) \in Txn /\ MarkedFor(x, "WRITING", n).data = n
        /\ MarkedFor(x, "WRITING", n).status = "WRITING"
    <3>1. "WRITING" \in Status
      BY DEF Status
    <3> QED
      BY <3>1, MarkedFacts
  <2>1. /\ l \in GoodLog /\ l[t] # NoTxn /\ l[t].data = n /\ l[t].status = "WRITING"
        /\ HasAll(l[t])
    BY <1>2, <2>0, NoTxnAssumption
  <2>2. f \in Frames /\ f.op = "commit" /\ f.tsn = t /\ f.seq = n
    BY DEF CommitFrame, Frames
  <2>3. g \in Frames /\ g.op = "doCommit" /\ g.tsn = t
    BY DEF DoCommitFrame, Frames
  <2>4. /\ stack \in Seq(Frames) /\ Len(stack) = 2 /\ stack[1] = f /\ stack[2] = g
        /\ Head(stack) = f
    BY <2>2, <2>3
  <2>5. srv' = [srv EXCEPT ![r].log = l, ![r].queue = queue, ![r].stack = stack]
    BY <1>3
  <2> HIDE DEF l, f, g, stack
  <2>6. StackOK(stack, l) /\ SyncOK(stack, queue)
    <3>1. SyncOK(stack, queue)
      BY <2>2, <2>4 DEF SyncOK
    <3>2. ASSUME NEW i \in 1..Len(stack)
          PROVE  i = 1 \/ i = 2
      BY <2>4
    <3> QED
      BY <2>1, <2>2, <2>3, <2>4, <3>1, <3>2 DEF StackOK
  <2>7. ServersOK' /\ srv'[r].log = l
    BY <1>1, <2>1, <2>4, <2>5, <2>6, IdleStep
  <2>8. DiskOK'
    BY <1>1, <1>3, <2>1, <2>7, SavedType DEF DiskOK
  <2>9. NetworkOK'
    BY <1>1, <1>3, ReceivedTypes, AckTypes
  <2> QED
    BY <1>1, <1>3, <2>7, <2>8, <2>9 DEF HandlerOK
<1>4. CASE /\ srv' = [srv EXCEPT ![r].log = With(r, t, MarkedFor(x, "COMMITTED", n))]
           /\ disk' = Saved(r, srv'[r].log)
           /\ Received(r, m, src, <<"ACK">>, FALSE)
           /\ UNCHANGED used
  <2>1. ServersOK' /\ srv'[r].log = With(r, t, MarkedFor(x, "COMMITTED", n))
    BY <1>1, <1>2, <1>4, IdleLogOnly
  <2>2. DiskOK'
    BY <1>1, <1>2, <1>4, <2>1, SavedType DEF DiskOK
  <2>3. NetworkOK'
    BY <1>1, <1>4, ReceivedTypes, AckTypes
  <2> QED
    BY <1>1, <1>4, <2>1, <2>2, <2>3 DEF HandlerOK
<1>5. CASE /\ used.errors < MaxIOErrors
           /\ used' = [used EXCEPT !.errors = @ + 1]
           /\ srv' = [srv EXCEPT ![r].log = With(r, t, MarkedFor(x, "WAITING", n))]
           /\ disk' = Saved(r, srv'[r].log)
           /\ Received(r, m, src, <<"ERROR">>, FALSE)
  <2>1. ServersOK' /\ srv'[r].log = With(r, t, MarkedFor(x, "WAITING", n))
    BY <1>1, <1>2, <1>5, IdleLogOnly
  <2>2. DiskOK'
    BY <1>1, <1>2, <1>5, <2>1, SavedType DEF DiskOK
  <2>3. NetworkOK'
    BY <1>1, <1>5, ReceivedTypes, AckTypes
  <2>4. used' \in UsedTypes
    <3>1. used.errors \in 0..MaxIOErrors /\ MaxIOErrors \in Nat
      BY <1>1, BoundsAssumption DEF UsedTypes
    <3>2. used.errors + 1 \in 0..MaxIOErrors
      BY <1>5, <3>1
    <3> QED
      BY <1>1, <1>5, <3>2 DEF UsedTypes
  <2> QED
    BY <2>1, <2>2, <2>3, <2>4 DEF HandlerOK
<1> QED
  BY <1>3, <1>4, <1>5 DEF StartCommit

LEMMA FetchReplies ==
  ASSUME NEW x, NEW n
  PROVE  [k \in 1..Cardinality(Fetch(x, n)) |-> "ACK_RESEND"] \in Seq(Replies)
<1>1. IsFiniteSet(SeqNo)
  BY MaxSeqAssumption, FS_Interval DEF SeqNo
<1>2. Fetch(x, n) \in SUBSET SeqNo
  BY DEF Fetch
<1>3. Cardinality(Fetch(x, n)) \in Nat
  BY <1>1, <1>2, FS_Subset, FS_CardinalityType
<1> QED
  BY <1>3 DEF Replies

\* A request served by an idle server.
LEMMA HandleTypes ==
  ASSUME HandlerOK, NEW r \in Servers, srv[r].stack = <<>>, NEW m \in WellFormed,
         NEW src \in {"client", "peer", "late"}, src = "peer" => link[Other(r)].requests # <<>>,
         Handle(r, m, src)
  PROVE  HandlerOK' /\ UNCHANGED <<primaryTxt, ticks>>
<1>1. /\ ServersOK /\ DiskOK /\ NetworkOK /\ used \in UsedTypes
      /\ srv[r].log \in GoodLog /\ srv[r].log \in Log /\ srv[r].queue \in Seq(Forwarded)
  BY ServerFacts DEF HandlerOK
<1>2. UNCHANGED <<primaryTxt, ticks>>
  BY DEF Handle
<1>3. m \in Forwarded => Queued(r, m) \in Seq(Forwarded)
  BY <1>1, QueuedType
<1>4. \A t \in Tsn : srv[r].log[t] \in Txn \cup {NoTxn}
  BY <1>1 DEF Log
<1>5. CASE Refuse(r, m, src)
  <2>1. /\ \E code : Received(r, m, src, <<ReplyFor(code)>>, FALSE)
        /\ UNCHANGED <<srv, disk, used>>
    BY <1>5 DEF Refuse
  <2>2. NetworkOK'
    BY <1>1, <2>1, ReceivedTypes, AckTypes
  <2> QED
    BY <1>1, <1>2, <2>1, <2>2 DEF HandlerOK, ServersOK, DiskOK
<1>6. CASE HandleWrite(r, m, src)
  <2>1. /\ m.type = "WRITE" /\ m.data \in Data /\ m.tsn \in Tsn /\ m.seq \in SeqNo
        /\ m.data \in Payloads[m.seq] /\ m \in Forwarded
    BY <1>6 DEF HandleWrite, WellFormed, Forwarded
  <2> DEFINE y == srv[r].log[m.tsn]
             x == Logged(y, m.seq, m.data)
  <2>2. y \in Txn
    <3>1. AddLogEntryCode(y, m.seq) = "ok"
      BY <1>6 DEF HandleWrite
    <3>2. y # NoTxn
      BY <3>1 DEF AddLogEntryCode
    <3> QED
      BY <1>4, <2>1, <3>2
  <2>3. x \in Txn /\ x.status \in {"WAITING", "ACTIVE"} /\ GoodTxn(x)
    <3>1. /\ x \in Txn /\ x.status \in {"WAITING", "ACTIVE"}
          /\ x.writes = [y.writes EXCEPT ![m.seq] = m.data]
      BY <2>1, <2>2, LoggedFacts
    <3>2. GoodTxn(y) /\ y # NoTxn /\ y.writes \in [SeqNo -> Data \cup {NoData}]
      BY <1>1, <2>1, <2>2, NoTxnAssumption DEF GoodLog, Txn
    <3> QED
      BY <2>1, <3>1, <3>2 DEF GoodTxn, IsCommitted
  <2>4. \/ CanCommit(x, x.data) /\ StartCommit(r, m, src, x, x.data, Queued(r, m))
        \/ /\ srv' = [srv EXCEPT ![r].log = With(r, m.tsn, x), ![r].queue = Queued(r, m)]
           /\ Received(r, m, src, <<"ACK">>, FALSE)
           /\ UNCHANGED <<disk, used>>
    BY <1>6 DEF HandleWrite
  <2> HIDE DEF x, y
  <2>5. CASE CanCommit(x, x.data) /\ StartCommit(r, m, src, x, x.data, Queued(r, m))
    <3>1. x.data \in SeqNo
      BY <2>3, <2>5, MaxSeqAssumption DEF CanCommit, Txn, SeqNo
    <3> QED
      BY <1>2, <1>3, <2>1, <2>3, <2>5, <3>1, StartCommitTypes
  <2>6. CASE /\ srv' = [srv EXCEPT ![r].log = With(r, m.tsn, x), ![r].queue = Queued(r, m)]
             /\ Received(r, m, src, <<"ACK">>, FALSE)
             /\ UNCHANGED <<disk, used>>
    <3>1. With(r, m.tsn, x) \in GoodLog
      BY <1>1, <2>1, <2>3, LogUpdate DEF With
    <3>2. ServersOK'
      BY <1>1, <1>3, <2>1, <2>6, <3>1, IdleLogStep
    <3>3. NetworkOK'
      BY <1>1, <2>6, ReceivedTypes, AckTypes
    <3> QED
      BY <1>1, <1>2, <2>6, <3>2, <3>3 DEF HandlerOK, DiskOK
  <2> QED
    BY <2>4, <2>5, <2>6
<1>7. CASE HandleCommit(r, m, src)
  <2>1. m.type = "COMMIT" /\ m.tsn \in Tsn /\ m.seq \in SeqNo
    BY <1>7 DEF HandleCommit, WellFormed
  <2> DEFINE x == srv[r].log[m.tsn]
  <2>2. \/ CommitCode(x, m.seq) = "committed" /\ StartCommit(r, m, src, x, m.seq, srv[r].queue)
        \/ /\ CommitCode(x, m.seq) = "incomplete"
           /\ srv' = [srv EXCEPT ![r].log = With(r, m.tsn, MarkedFor(x, "WAITING", m.seq))]
           /\ disk' = Saved(r, srv'[r].log)
           /\ Received(r, m, src, [k \in 1..Cardinality(Fetch(x, m.seq)) |-> "ACK_RESEND"], FALSE)
           /\ UNCHANGED used
        \/ Received(r, m, src, <<"ACK">>, FALSE) /\ UNCHANGED <<srv, disk, used>>
    BY <1>7 DEF HandleCommit
  <2>3. /\ CommitCode(x, m.seq) \in {"committed", "incomplete"} => x \in Txn
        /\ CommitCode(x, m.seq) = "committed" => CanCommit(x, m.seq)
        /\ GoodTxn(x)
    BY <1>1, <1>4, <2>1 DEF CommitCode, GoodLog
  <2> HIDE DEF x
  <2>4. CASE CommitCode(x, m.seq) = "committed" /\ StartCommit(r, m, src, x, m.seq, srv[r].queue)
    BY <1>1, <1>2, <2>1, <2>3, <2>4, StartCommitTypes
  <2>5. CASE /\ CommitCode(x, m.seq) = "incomplete"
             /\ srv' = [srv EXCEPT ![r].log = With(r, m.tsn, MarkedFor(x, "WAITING", m.seq))]
             /\ disk' = Saved(r, srv'[r].log)
             /\ Received(r, m, src, [k \in 1..Cardinality(Fetch(x, m.seq)) |-> "ACK_RESEND"], FALSE)
             /\ UNCHANGED used
    <3>1. MarkedFor(x, "WAITING", m.seq) \in Txn /\ GoodTxn(MarkedFor(x, "WAITING", m.seq))
      BY <2>1, <2>3, <2>5, MarkedTxn DEF Status
    <3>2. With(r, m.tsn, MarkedFor(x, "WAITING", m.seq)) \in GoodLog
      BY <1>1, <2>1, <3>1, LogUpdate DEF With
    <3>3. ServersOK' /\ srv'[r].log = With(r, m.tsn, MarkedFor(x, "WAITING", m.seq))
      <4> DEFINE l == With(r, m.tsn, MarkedFor(x, "WAITING", m.seq))
      <4>1. l \in GoodLog /\ srv' = [srv EXCEPT ![r].log = l]
        BY <2>5, <3>2
      <4> HIDE DEF l
      <4>2. ServersOK' /\ srv'[r].log = l
        BY <1>1, <4>1, IdleLogOnly
      <4> QED
        BY <4>2 DEF l
    <3>4. DiskOK'
      BY <1>1, <2>5, <3>2, <3>3, SavedType DEF DiskOK
    <3>5. NetworkOK'
      BY <1>1, <2>5, FetchReplies, ReceivedTypes
    <3> QED
      BY <1>1, <1>2, <2>5, <3>3, <3>4, <3>5 DEF HandlerOK
  <2>6. CASE Received(r, m, src, <<"ACK">>, FALSE) /\ UNCHANGED <<srv, disk, used>>
    <3>1. NetworkOK'
      BY <1>1, <2>6, ReceivedTypes, AckTypes
    <3> QED
      BY <1>1, <1>2, <2>6, <3>1 DEF HandlerOK, ServersOK, DiskOK
  <2> QED
    BY <2>2, <2>4, <2>5, <2>6
<1>8. CASE HandleAbort(r, m, src)
  <2>1. m.tsn \in Tsn /\ m \in Forwarded
    BY <1>8 DEF HandleAbort, WellFormed, Forwarded
  <2>2. With(r, m.tsn, NoTxn) \in GoodLog
    BY <1>1, <2>1, LogUpdate DEF With, GoodTxn
  <2>3. /\ srv' = [srv EXCEPT ![r].log = With(r, m.tsn, NoTxn), ![r].queue = Queued(r, m)]
        /\ Received(r, m, src, <<"ACK">>, FALSE) /\ UNCHANGED <<disk, used>>
    BY <1>8 DEF HandleAbort
  <2>4. ServersOK'
    BY <1>1, <1>3, <2>1, <2>2, <2>3, IdleLogStep
  <2>5. NetworkOK'
    BY <1>1, <2>3, ReceivedTypes, AckTypes
  <2> QED
    BY <1>1, <1>2, <2>3, <2>4, <2>5 DEF HandlerOK, DiskOK
<1>9. CASE HandleMakeTxn(r, m, src)
  <2>1. m.tsn \in Tsn /\ m.data \in Files
    BY <1>9 DEF HandleMakeTxn, WellFormed
  <2>2. Received(r, m, src, <<"ACK">>, FALSE) /\ UNCHANGED used
    BY <1>9 DEF HandleMakeTxn
  <2>3. NetworkOK'
    BY <1>1, <2>2, ReceivedTypes, AckTypes
  <2>4. CASE UNCHANGED <<srv, disk>>
    BY <1>1, <1>2, <2>2, <2>3, <2>4 DEF HandlerOK, ServersOK, DiskOK
  <2>5. CASE /\ srv' = [srv EXCEPT ![r].log = With(r, m.tsn, NewEntry(m.data))]
             /\ disk' = Saved(r, srv'[r].log)
    <3>1. With(r, m.tsn, NewEntry(m.data)) \in GoodLog
      BY <1>1, <2>1, NewEntryGood, LogUpdate DEF With
    <3>2. ServersOK' /\ srv'[r].log = With(r, m.tsn, NewEntry(m.data))
      BY <1>1, <2>5, <3>1, IdleLogOnly
    <3>3. DiskOK'
      BY <1>1, <2>5, <3>1, <3>2, SavedType DEF DiskOK
    <3> QED
      BY <1>1, <1>2, <2>2, <2>3, <3>2, <3>3 DEF HandlerOK
  <2> QED
    BY <1>9, <2>4, <2>5 DEF HandleMakeTxn
<1>10. CASE HandlePing(r, m, src)
  <2> DEFINE b == IF srv[r].backup = Nobody THEN m.data ELSE srv[r].backup
             v == [srv[r] EXCEPT !.backup = b]
  <2>1. /\ srv' = [srv EXCEPT ![r].backup = IF @ = Nobody THEN m.data ELSE @]
        /\ Received(r, m, src, <<"ACK">>, FALSE) /\ UNCHANGED <<disk, used>>
    BY <1>10 DEF HandlePing
  <2>2. b \in Servers \cup {Nobody}
    BY <1>1, <1>10, ServerFacts DEF HandlePing, WellFormed
  <2>3. srv' = [srv EXCEPT ![r] = v]
    BY <1>1, <2>1 DEF ServersOK
  <2> HIDE DEF b
  <2>4. v \in ServerStates /\ v.stack = srv[r].stack /\ v.log = srv[r].log /\ v.queue = srv[r].queue
    BY <1>1, <2>2, ServerFacts DEF ServerStates
  <2> HIDE DEF v
  <2>5. ServersOK'
    BY <1>1, <2>3, <2>4, ServerStep, ServerFacts
  <2>6. NetworkOK'
    BY <1>1, <2>1, ReceivedTypes, AckTypes
  <2> QED
    BY <1>1, <1>2, <2>1, <2>5, <2>6 DEF HandlerOK, DiskOK
<1> QED
  BY <1>5, <1>6, <1>7, <1>8, <1>9, <1>10 DEF Handle

LEMMA HandlerParts ==
  ASSUME TypeInv
  PROVE  HandlerOK
BY DEF TypeInv, HandlerOK, RestOK, UsedTypes

LEMMA ServeTypes ==
  ASSUME TypeInv, NEW r \in Servers, Serve(r)
  PROVE  TypeInv'
<1> DEFINE m == Head(link[Other(r)].requests)
<1>1. /\ srv[r].stack = <<>> /\ link[Other(r)].requests # <<>> /\ Handle(r, m, "peer")
      /\ UNCHANGED requests
  BY DEF Serve, Idle
<1>2. m \in WellFormed
  BY <1>1, OtherServer, LinkFacts, HeadTailProperties DEF TypeInv
<1> HIDE DEF m
<1>3. HandlerOK' /\ UNCHANGED <<primaryTxt, ticks>>
  BY <1>1, <1>2, HandlerParts, HandleTypes
<1> QED
  BY <1>1, <1>3 DEF TypeInv, HandlerOK, RestOK, UsedTypes

LEMMA HandleKillTypes ==
  ASSUME TypeInv, NEW r \in Servers, NEW m, HandleKill(r, m), UNCHANGED <<primaryTxt, ticks, requests>>
  PROVE  TypeInv'
<1> DEFINE s == Other(r)
<1>1. s \in Servers /\ s # r /\ ServersOK /\ NetworkOK /\ DiskOK /\ srv[r] \in ServerStates
  BY OtherServer, ServerFacts DEF TypeInv
<1>2. UNCHANGED <<disk, used>>
  BY DEF HandleKill
<1>3. CASE /\ srv' = [srv EXCEPT ![r].role = "backup", ![r].target = Nobody, ![r].tries = -10]
           /\ link' = [link EXCEPT ![r] = Closed]
           /\ \E c \in LateWith(s, m) :
                orphans' = [orphans EXCEPT ![s] = Served(s, c), ![r] = Orphaned(r)]
  <2> DEFINE v == [srv[r] EXCEPT !.role = "backup", !.target = Nobody, !.tries = -10]
  <2>1. srv' = [srv EXCEPT ![r] = v]
    BY <1>1, <1>3 DEF ServersOK
  <2>2. v \in ServerStates /\ v.stack = srv[r].stack /\ v.log = srv[r].log /\ v.queue = srv[r].queue
    <3>1. -10 \in -10..4
      OBVIOUS
    <3> QED
      BY <1>1, <3>1 DEF ServerStates
  <2> HIDE DEF v
  <2>3. PICK c \in LateWith(s, m) :
          orphans' = [orphans EXCEPT ![s] = Served(s, c), ![r] = Orphaned(r)]
    BY <1>3
  <2>4. /\ Served(s, c) \in SUBSET (Seq(WellFormed) \ {<<>>})
        /\ Orphaned(r) \in SUBSET (Seq(WellFormed) \ {<<>>})
    BY <1>1, LateWithTypes, LinkFacts
  <2>5. orphans' \in [Servers -> SUBSET (Seq(WellFormed) \ {<<>>})]
    BY <1>1, <2>3, <2>4 DEF NetworkOK
  <2>6. NetworkOK'
    BY <1>1, <1>3, <2>5, ClosedOpen DEF NetworkOK
  <2>7. StackOK(v.stack, v.log) /\ SyncOK(v.stack, v.queue)
    BY <1>1, <2>2, ServerFacts
  <2> QED
    BY <1>2, <2>1, <2>2, <2>6, <2>7, RunStep
<1>4. CASE /\ \E c \in LateWith(s, m) : orphans' = [orphans EXCEPT ![s] = Served(s, c)]
           /\ UNCHANGED <<srv, link>>
  <2>1. PICK c \in LateWith(s, m) : orphans' = [orphans EXCEPT ![s] = Served(s, c)]
    BY <1>4
  <2>2. Served(s, c) \in SUBSET (Seq(WellFormed) \ {<<>>})
    BY <1>1, LateWithTypes
  <2>3. NetworkOK'
    BY <1>1, <1>4, <2>1, <2>2 DEF NetworkOK
  <2> QED
    BY <1>1, <1>2, <1>4, <2>3 DEF TypeInv, ServersOK, DiskOK, RestOK
<1> QED
  BY <1>3, <1>4 DEF HandleKill

LEMMA ServeLateTypes ==
  ASSUME TypeInv, NEW r \in Servers, ServeLate(r)
  PROVE  TypeInv'
<1>1. srv[r].stack = <<>> /\ UNCHANGED requests
  BY DEF ServeLate, Idle
<1>2. PICK c \in orphans[Other(r)] :
         \/ Handle(r, Head(c), "late")
         \/ HandleKill(r, Head(c)) /\ UNCHANGED <<primaryTxt, ticks>>
  BY DEF ServeLate
<1>3. Head(c) \in WellFormed
  BY <1>2, OtherServer, LinkFacts, HeadTailProperties DEF TypeInv
<1>4. CASE Handle(r, Head(c), "late")
  <2>1. HandlerOK' /\ UNCHANGED <<primaryTxt, ticks>>
    BY <1>1, <1>3, <1>4, HandlerParts, HandleTypes
  <2> QED
    BY <1>1, <2>1 DEF TypeInv, HandlerOK, RestOK, UsedTypes
<1>5. CASE HandleKill(r, Head(c)) /\ UNCHANGED <<primaryTxt, ticks>>
  BY <1>1, <1>5, HandleKillTypes
<1> QED
  BY <1>2, <1>4, <1>5

LEMMA RequestsTypes ==
  ASSUME TypeInv, requests < MaxRequests, requests' = requests + 1
  PROVE  requests' \in 0..MaxRequests
BY BoundsAssumption DEF TypeInv, RestOK

LEMMA ClientPacketsType ==
  ASSUME NEW m \in ClientPackets
  PROVE  m \in WellFormed
BY MaxSeqAssumption DEF ClientPackets, Packet, WellFormed, Packets, SeqNo

LEMMA ClientRequestTypes ==
  ASSUME TypeInv, NEW r \in Servers, NEW m \in ClientPackets, ClientRequest(r, m)
  PROVE  TypeInv'
<1>1. /\ srv[r].stack = <<>> /\ Handle(r, m, "client")
      /\ requests < MaxRequests /\ requests' = requests + 1
  BY DEF ClientRequest, Idle
<1>2. HandlerOK' /\ UNCHANGED <<primaryTxt, ticks>>
  BY <1>1, ClientPacketsType, HandlerParts, HandleTypes
<1> QED
  BY <1>1, <1>2, RequestsTypes DEF TypeInv, HandlerOK, RestOK, UsedTypes

LEMMA NewTxnTypes ==
  ASSUME TypeInv, NEW r \in Servers, NEW t \in Tsn, NEW f \in Files, NewTxn(r, t, f)
  PROVE  TypeInv'
<1> DEFINE l == With(r, t, NewEntry(f))
           queue == Append(srv[r].queue, Packet("MAKE_TXN", t, 0, f))
<1>1. /\ srv[r].stack = <<>> /\ requests < MaxRequests /\ requests' = requests + 1
      /\ srv' = [srv EXCEPT ![r].log = l, ![r].queue = queue]
      /\ disk' = Saved(r, srv'[r].log)
      /\ UNCHANGED <<link, orphans, primaryTxt, ticks, used>>
  BY DEF NewTxn, Idle, TypeInv, ServersOK
<1>2. ServersOK /\ NetworkOK /\ DiskOK /\ srv[r].log \in GoodLog /\ srv[r].queue \in Seq(Forwarded)
  BY ServerFacts DEF TypeInv
<1>3. l \in GoodLog
  BY <1>2, NewEntryGood, LogUpdate DEF With
<1>4. queue \in Seq(Forwarded)
  <2>1. Packet("MAKE_TXN", t, 0, f) \in Forwarded
    BY MaxSeqAssumption DEF Packet, Forwarded, WellFormed, Packets
  <2> QED
    BY <1>2, <2>1, AppendProperties
<1> HIDE DEF l, queue
<1>5. ServersOK' /\ srv'[r].log = l
  BY <1>1, <1>2, <1>3, <1>4, IdleLogStep
<1>6. DiskOK'
  BY <1>1, <1>2, <1>3, <1>5, SavedType DEF DiskOK
<1> QED
  BY <1>1, <1>2, <1>5, <1>6, RequestsTypes DEF TypeInv, NetworkOK, RestOK

LEMMA StartTypes ==
  ASSUME TypeInv, NEW s \in Servers, NEW r \in RestartRoles, Start(s, r)
  PROVE  TypeInv'
<1> DEFINE v == Started(disk[s].log, disk[s].backup, r)
<1>1. /\ srv' = [srv EXCEPT ![s] = v]
      /\ primaryTxt' = IF r = "primary" THEN s ELSE primaryTxt
      /\ UNCHANGED <<disk, link, orphans, ticks, requests, used>>
  BY DEF Start
<1>2. r \in {"primary", "backup"}
  BY BoundsAssumption
<1>3. v \in ServerStates /\ v.stack = <<>>
  BY <1>2, StartedType DEF TypeInv, DiskOK, DiskStates
<1> HIDE DEF v
<1>4. ServersOK'
  BY <1>1, <1>3, EmptyStack, ServerStep DEF TypeInv
<1> QED
  BY <1>1, <1>4 DEF TypeInv, NetworkOK, DiskOK, RestOK

LEMMA SaveTypes ==
  ASSUME TypeInv, NEW s \in Servers, Save(s)
  PROVE  TypeInv'
<1>1. /\ disk' = Saved(s, srv[s].log)
      /\ UNCHANGED <<srv, link, orphans, primaryTxt, ticks, requests, used>>
  BY DEF Save
<1>2. DiskOK'
  BY <1>1, ServerFacts, SavedType DEF TypeInv, DiskOK
<1> QED
  BY <1>1, <1>2 DEF TypeInv, ServersOK, NetworkOK, RestOK

LEMMA SweepTypes ==
  ASSUME TypeInv, NEW s \in Servers, Sweep(s)
  PROVE  TypeInv'
<1>1. /\ srv[s].stack = <<>> /\ used.sweeps < MaxSweeps
      /\ used' = [used EXCEPT !.sweeps = @ + 1]
      /\ disk' = Saved(s, srv'[s].log)
      /\ UNCHANGED <<link, orphans, primaryTxt, ticks, requests>>
  BY DEF Sweep, Idle
<1>2. PICK l \in SweptLogs(srv[s].log) : srv' = [srv EXCEPT ![s].log = l]
  BY DEF Sweep
<1>3. ServersOK /\ NetworkOK /\ DiskOK /\ srv[s].log \in GoodLog /\ srv[s].log \in Log
  BY ServerFacts DEF TypeInv
<1>4. l \in GoodLog
  <2>1. l \in Log /\ \A t \in Tsn : AgesTo(srv[s].log[t], l[t])
    BY <1>3, SweepAges
  <2> QED
    BY <1>3, <2>1, NoTxnAssumption DEF GoodLog, GoodTxn, AgesTo, IsCommitted
<1>5. ServersOK' /\ srv'[s].log = l
  BY <1>1, <1>2, <1>3, <1>4, IdleLogOnly, ServerFacts
<1>6. DiskOK'
  BY <1>1, <1>3, <1>4, <1>5, SavedType DEF DiskOK
<1>7. used' \in UsedTypes
  <2>1. used \in UsedTypes /\ used.sweeps \in 0..MaxSweeps /\ MaxSweeps \in Nat
    BY BoundsAssumption DEF TypeInv, RestOK, UsedTypes
  <2>2. used.sweeps + 1 \in 0..MaxSweeps
    BY <1>1, <2>1
  <2> QED
    BY <1>1, <2>1, <2>2 DEF UsedTypes
<1> QED
  BY <1>1, <1>5, <1>6, <1>7 DEF TypeInv, NetworkOK, RestOK, UsedTypes

-----------------------------------------------------------------------------
LEMMA TypesAtStart == Init => TypeInv
<1> SUFFICES ASSUME Init PROVE TypeInv
  OBVIOUS
<1>1. \A s \in Servers : srv[s] \in ServerStates /\ srv[s].stack = <<>>
  BY StartedType, EmptyLogType DEF Init, InitWith
<1>2. ServersOK
  <2>1. srv \in [Servers -> ServerStates]
    BY <1>1 DEF Init, InitWith
  <2> QED
    BY <1>1, <2>1, EmptyStack DEF ServersOK
<1>3. DiskOK
  BY EmptyLogType DEF Init, InitWith, DiskOK, DiskStates
<1>4. NetworkOK
  BY ClosedOpen DEF Init, InitWith, NetworkOK
<1>5. RestOK
  BY BoundsAssumption, ServersAssumption DEF Init, InitWith, RestOK
<1> QED
  BY <1>2, <1>3, <1>4, <1>5 DEF TypeInv

LEMMA TypesStep == TypeInv /\ [Next]_vars => TypeInv'
<1> SUFFICES ASSUME TypeInv, [Next]_vars PROVE TypeInv'
  OBVIOUS
<1>1. CASE UNCHANGED vars
  BY <1>1 DEF vars, TypeInv, ServersOK, DiskOK, NetworkOK, RestOK
<1>2. ASSUME NEW s \in Servers, Running(s) PROVE TypeInv'
  BY <1>2, SyncReplyTypes, SyncFailsTypes, CommitEnterTypes, CommitDecideTypes, CommitReplyTypes,
     KillPrimaryTypes, CommitFailsTypes, FinishDoCommitTypes, CheckStartTypes, CheckNextTypes,
     CheckEndTypes, PingReplyTypes, EndTypes DEF Running
<1>3. CASE Next
  BY <1>2, <1>3, TimerTypes, ServeTypes, ServeLateTypes, ClientRequestTypes, NewTxnTypes,
     SaveTypes, SweepTypes, EndTypes, StartTypes DEF Next
<1> QED
  BY <1>1, <1>3

\* The inductive invariant: whatever crashes, restarts, I/O errors and closed
\* connections there are, the calls of commit(), primaryOps() and
\* integrityCheck() nest as the code has them, commit() works on a transaction
\* that is logged under the number to be committed, and packets carry what
\* their handlers expect.
THEOREM CallsNest == Spec => []TypeInv
  BY TypesAtStart, TypesStep, PTL DEF Spec

\* Every variable of the two servers keeps its type; in particular no reply is
\* read and no frame returned to that is not there, and tries stays in -10..4.
THEOREM ReplicationTypes == Spec => []TypeOK
<1>1. TypeInv => TypeOK
  <2> SUFFICES ASSUME TypeInv PROVE TypeOK
    OBVIOUS
  <2>1. Seq(WellFormed) \subseteq Seq(Packets) /\ Seq(Forwarded) \subseteq Seq(Packets)
    <3>1. WellFormed \subseteq Packets /\ Forwarded \subseteq Packets
      BY DEF WellFormed, Forwarded
    <3> QED
      BY <3>1, SeqMonotonic
  <2>2. GoodLog \subseteq Log
    BY DEF GoodLog
  <2>3. srv \in [Servers -> ServerStates]
    BY DEF TypeInv, ServersOK
  <2>4. srv \in [Servers -> [
       up : BOOLEAN, role : {"primary", "backup"}, log : Log, backup : Servers \cup {Nobody},
       queue : Seq(Packets), stack : Seq(Frames), alive : BOOLEAN, tries : -10..4,
       backup_did_sync : BOOLEAN, restarted : BOOLEAN, target : Servers \cup {Nobody} ]]
    BY <2>1, <2>2, <2>3 DEF ServerStates
  <2>5. disk \in [Servers -> [log : Log, backup : Servers \cup {Nobody}]]
    BY <2>2 DEF TypeInv, DiskOK, DiskStates
  <2>6. link \in [Servers -> [ state : {"closed", "open", "lost"}, requests : Seq(Packets),
                               replies : Seq(Replies), serving : BOOLEAN ]]
    BY <2>1 DEF TypeInv, NetworkOK, Links
  <2>7. orphans \in [Servers -> SUBSET Seq(Packets)]
    BY <2>1 DEF TypeInv, NetworkOK
  <2> QED
    BY <2>4, <2>5, <2>6, <2>7 DEF TypeInv, TypeOK, RestOK
<1> QED
  BY <1>1, CallsNest, PTL

\* Whatever crashed, and whoever sent packets again, a server commits only with
\* every packet up to the number of the COMMIT, each as a client sent it.
THEOREM CommitsAreComplete == Spec => []CommitsComplete
<1>1. TypeInv => CommitsComplete
  <2> SUFFICES ASSUME TypeInv, NEW s \in Servers, NEW t \in Tsn, Committed(s, t)
               PROVE  /\ srv[s].log[t].data > 0
                      /\ \A n \in 1..srv[s].log[t].data : srv[s].log[t].writes[n] \in Payloads[n]
    BY DEF CommitsComplete
  <2>1. srv[s].log[t] # NoTxn /\ IsCommitted(srv[s].log[t]) /\ GoodTxn(srv[s].log[t])
    BY ServerFacts DEF Committed, Done, IsCommitted, TypeInv, GoodLog
  <2> QED
    BY <2>1, MaxSeqAssumption DEF GoodTxn, HasAll, SeqNo
<1> QED
  BY <1>1, CallsNest, PTL

\* A transaction that both servers committed with the same number of packets
\* has the same lines on both.
AgreeOnPackets ==
  \A t \in Tsn : \A s, r \in Servers :
    /\ Committed(s, t) /\ Committed(r, t)
    /\ srv[s].log[t].data = srv[r].log[t].data
    => Lines(s, t) = Lines(r, t)

\* What is left of Agreement whatever fails, if clients send a packet the same
\* way whenever they send it.
THEOREM PacketsAgree ==
  ASSUME \A n \in SeqNo : \A d, e \in Payloads[n] : d = e
  PROVE  Spec => []AgreeOnPackets
<1>1. TypeInv /\ CommitsComplete => AgreeOnPackets
  <2> SUFFICES ASSUME TypeInv, CommitsComplete, NEW t \in Tsn, NEW s \in Servers, NEW r \in Servers,
                      Committed(s, t), Committed(r, t), srv[s].log[t].data = srv[r].log[t].data
               PROVE  Lines(s, t) = Lines(r, t)
    BY DEF AgreeOnPackets
  <2>1. \A n \in 1..srv[s].log[t].data : n \in SeqNo
    BY ServerFacts, MaxSeqAssumption
       DEF TypeInv, Committed, Done, GoodLog, GoodTxn, HasAll, IsCommitted, SeqNo
  <2>2. \A n \in 1..srv[s].log[t].data :
          srv[s].log[t].writes[n] \in Payloads[n] /\ srv[r].log[t].writes[n] \in Payloads[n]
    BY DEF CommitsComplete
  <2>3. \A n \in 1..srv[s].log[t].data : srv[s].log[t].writes[n] = srv[r].log[t].writes[n]
    BY <2>1, <2>2
  <2> QED
    BY <2>3 DEF Lines
<1> QED
  BY <1>1, CallsNest, CommitsAreComplete, PTL

-----------------------------------------------------------------------------
(***************************************************************************)
(* What is committed stays.                                                *)
(***************************************************************************)
\* The memory of a server that is up and its disk have the same commits.
Durable ==
  \A s \in Servers : srv[s].up =>
    \A t \in Tsn : IsCommitted(srv[s].log[t]) \/ IsCommitted(disk[s].log[t])
                   => srv[s].log[t] = disk[s].log[t]

\* What a step may do to commits.
KeepsCommits ==
  \A s \in Servers, t \in Tsn : IsCommitted(disk[s].log[t]) =>
    /\ disk'[s].log[t] = disk[s].log[t]
    /\ srv'[s].up => srv'[s].log[t] = disk[s].log[t]

\* Server r changes transactions that are not committed, and saves its log or
\* commits none.
LEMMA ServerKeeps ==
  ASSUME Durable, NEW r \in Servers, srv[r].up,
         \A s \in Servers : s # r => srv'[s] = srv[s] /\ disk'[s] = disk[s],
         \A t \in Tsn : IsCommitted(srv[r].log[t]) => srv'[r].log[t] = srv[r].log[t],
         \/ disk'[r].log = srv'[r].log
         \/ /\ disk'[r].log = disk[r].log
            /\ \A t \in Tsn : IsCommitted(srv'[r].log[t]) => srv'[r].log[t] = srv[r].log[t]
  PROVE  Durable' /\ KeepsCommits
<1>1. ASSUME NEW s \in Servers, s # r, NEW t \in Tsn
      PROVE  /\ IsCommitted(disk[s].log[t]) =>
                  /\ disk'[s].log[t] = disk[s].log[t]
                  /\ srv'[s].up => srv'[s].log[t] = disk[s].log[t]
             /\ srv'[s].up => (IsCommitted(srv'[s].log[t]) \/ IsCommitted(disk'[s].log[t])
                               => srv'[s].log[t] = disk'[s].log[t])
  BY <1>1 DEF Durable
<1>2. ASSUME NEW t \in Tsn
      PROVE  /\ IsCommitted(disk[r].log[t]) =>
                  disk'[r].log[t] = disk[r].log[t] /\ srv'[r].log[t] = disk[r].log[t]
             /\ IsCommitted(srv'[r].log[t]) \/ IsCommitted(disk'[r].log[t])
                  => srv'[r].log[t] = disk'[r].log[t]
  <2>1. IsCommitted(srv[r].log[t]) \/ IsCommitted(disk[r].log[t]) => srv[r].log[t] = disk[r].log[t]
    BY DEF Durable
  <2>2. CASE disk'[r].log = srv'[r].log
    BY <2>1, <2>2
  <2>3. CASE /\ disk'[r].log = disk[r].log
             /\ \A u \in Tsn : IsCommitted(srv'[r].log[u]) => srv'[r].log[u] = srv[r].log[u]
    BY <2>1, <2>3
  <2> QED
    BY <2>2, <2>3
<1>3. Durable'
  BY <1>1, <1>2 DEF Durable
<1>4. KeepsCommits
  BY <1>1, <1>2 DEF KeepsCommits
<1> QED
  BY <1>3, <1>4

\* Steps that leave the logs alone.
LEMMA NothingLogged ==
  ASSUME Durable, \A s \in Servers : srv'[s].log = srv[s].log /\ srv'[s].up = srv[s].up,
         \A s \in Servers : disk'[s].log = disk[s].log
  PROVE  Durable' /\ KeepsCommits
BY DEF Durable, KeepsCommits

\* The fields that a thread changes while it talks to the other server.
Talks(s) ==
  \/ \E a : srv' = [srv EXCEPT ![s].stack = a]
  \/ \E q : srv' = [srv EXCEPT ![s].queue = q]
  \/ \E q, a : srv' = [srv EXCEPT ![s].queue = q, ![s].stack = a]
  \/ \E a, x : srv' = [srv EXCEPT ![s].stack = a, ![s].alive = x]
  \/ \E a, x, y : srv' = [srv EXCEPT ![s].target = x, ![s].alive = y, ![s].stack = a]
  \/ \E a, x, y : srv' = [srv EXCEPT ![s].target = x, ![s].backup = y, ![s].stack = a]
  \/ \E a, x : srv' = [srv EXCEPT ![s].backup_did_sync = x, ![s].stack = a]

LEMMA TalkLogsNothing ==
  ASSUME TypeInv, NEW s \in Servers, Talks(s)
  PROVE  \A r \in Servers : srv'[r].log = srv[r].log /\ srv'[r].up = srv[r].up
<1>0. srv \in [Servers -> ServerStates]
  BY DEF TypeInv, ServersOK
<1>1. CASE \E a : srv' = [srv EXCEPT ![s].stack = a]
  BY <1>0, <1>1 DEF ServerStates
<1>2. CASE \E q, a : srv' = [srv EXCEPT ![s].queue = q, ![s].stack = a]
  BY <1>0, <1>2 DEF ServerStates
<1>3. CASE \E a, x : srv' = [srv EXCEPT ![s].stack = a, ![s].alive = x]
  BY <1>0, <1>3 DEF ServerStates
<1>4. CASE \E a, x, y : srv' = [srv EXCEPT ![s].target = x, ![s].alive = y, ![s].stack = a]
  BY <1>0, <1>4 DEF ServerStates
<1>5. CASE \E a, x, y : srv' = [srv EXCEPT ![s].target = x, ![s].backup = y, ![s].stack = a]
  BY <1>0, <1>5 DEF ServerStates
<1>6. CASE \E a, x : srv' = [srv EXCEPT ![s].backup_did_sync = x, ![s].stack = a]
  BY <1>0, <1>6 DEF ServerStates
<1>7. CASE \E q : srv' = [srv EXCEPT ![s].queue = q]
  BY <1>0, <1>7 DEF ServerStates
<1> QED
  BY <1>1, <1>2, <1>3, <1>4, <1>5, <1>6, <1>7 DEF Talks

LEMMA PrimaryOpsTalks ==
  ASSUME NEW s \in Servers, NEW stack, PrimaryOps(s, stack)
  PROVE  Talks(s)
<1>1. \/ srv' = [srv EXCEPT ![s].stack = << SyncFrame >> \o stack]
      \/ srv' = [srv EXCEPT ![s].target = srv[s].backup, ![s].alive = TRUE,
                            ![s].stack = << CheckFrame(Commits(s), "go") >> \o stack]
      \/ srv' = [srv EXCEPT ![s].target = srv[s].backup, ![s].backup = Nobody, ![s].stack = stack]
      \/ srv' = [srv EXCEPT ![s].stack = stack]
  BY DEF PrimaryOps
<1> QED
  BY <1>1 DEF Talks

\* A thread that talks to the other server logs nothing until it returns to
\* doCommit().
LEMMA RunningLogsNothing ==
  ASSUME TypeInv, NEW s \in Servers,
         \/ SyncReply(s) \/ SyncFails(s) \/ CommitEnter(s) \/ CommitDecide(s)
         \/ CommitReply(s) \/ KillPrimary(s) \/ CommitFails(s)
         \/ CheckStart(s) \/ CheckNext(s) \/ CheckEnd(s) \/ PingReply(s) \/ Timer(s)
  PROVE  /\ \A r \in Servers : srv'[r].log = srv[r].log /\ srv'[r].up = srv[r].up
         /\ disk' = disk
<1>1. srv \in [Servers -> ServerStates]
  BY DEF TypeInv, ServersOK
<1>2. CASE SyncReply(s)
  <2>1. disk' = disk /\ Talks(s)
    BY <1>2 DEF SyncReply, Talks
  <2> QED
    BY <2>1, TalkLogsNothing
<1>3. CASE SyncFails(s)
  BY <1>1, <1>3 DEF SyncFails, ServerStates
<1>4. CASE CommitEnter(s)
  BY <1>4, PrimaryOpsTalks, TalkLogsNothing DEF CommitEnter, Talks
<1>5. CASE CommitDecide(s)
  <2>1. disk' = disk /\ Talks(s)
    BY <1>5 DEF CommitDecide, Talks
  <2> QED
    BY <2>1, TalkLogsNothing
<1>6. CASE CommitReply(s)
  <2>1. disk' = disk /\ Talks(s)
    BY <1>6 DEF CommitReply, Talks
  <2> QED
    BY <2>1, TalkLogsNothing
<1>7. CASE KillPrimary(s)
  BY <1>1, <1>7 DEF KillPrimary, ServerStates
<1>8. CASE CommitFails(s)
  BY <1>1, <1>8 DEF CommitFails, ServerStates
<1>9. CASE CheckStart(s)
  BY <1>1, <1>9 DEF CheckStart, ServerStates
<1>10. CASE CheckNext(s)
  BY <1>1, <1>10 DEF CheckNext, ServerStates
<1>11. CASE CheckEnd(s)
  <2>1. disk' = disk /\ Talks(s)
    BY <1>11 DEF CheckEnd, Talks
  <2> QED
    BY <2>1, TalkLogsNothing
<1>12. CASE PingReply(s)
  BY <1>1, <1>12 DEF PingReply, ServerStates
<1>13. CASE PrimaryIdles(s)
  BY <1>13 DEF PrimaryIdles
<1>14. CASE PrimaryCheck(s)
  BY <1>14, PrimaryOpsTalks, TalkLogsNothing DEF PrimaryCheck
<1>15. CASE BackupCheck(s)
  <2>1. disk' = disk /\ Talks(s)
    BY <1>15 DEF BackupCheck, Talks
  <2> QED
    BY <2>1, TalkLogsNothing
<1>16. CASE BackupNoPrimary(s)
  BY <1>1, <1>16 DEF BackupNoPrimary, ServerStates
<1> QED
  BY <1>2, <1>3, <1>4, <1>5, <1>6, <1>7, <1>8, <1>9, <1>10, <1>11, <1>12, <1>13, <1>14, <1>15,
     <1>16 DEF Timer

\* The end of a process, and a new one that loads the log of the old one.
LEMMA EndKeeps ==
  ASSUME TypeInv, Durable, NEW s \in Servers, PingFails(s) \/ CommitRecurses(s) \/ Crash(s)
  PROVE  Durable' /\ KeepsCommits
<1>1. disk' = disk /\ srv' = [srv EXCEPT ![s] = Down]
  BY DEF PingFails, CommitRecurses, Crash, Dies
<1>2. srv'[s] = Down /\ \A r \in Servers : r # s => srv'[r] = srv[r]
  BY <1>1 DEF TypeInv, ServersOK
<1>3. ~srv'[s].up
  BY <1>2 DEF Down, Started
<1> QED
  BY <1>1, <1>2, <1>3 DEF Durable, KeepsCommits

LEMMA StartKeeps ==
  ASSUME TypeInv, Durable, NEW s \in Servers, NEW r \in RestartRoles, Start(s, r)
  PROVE  Durable' /\ KeepsCommits
<1>1. disk' = disk /\ srv' = [srv EXCEPT ![s] = Started(disk[s].log, disk[s].backup, r)]
  BY DEF Start
<1>2. srv'[s] = Started(disk[s].log, disk[s].backup, r) /\ \A q \in Servers : q # s => srv'[q] = srv[q]
  BY <1>1 DEF TypeInv, ServersOK
<1>3. srv'[s].log = disk[s].log
  BY <1>2 DEF Started
<1> QED
  BY <1>1, <1>2, <1>3 DEF Durable, KeepsCommits

\* Server r changes its log to l.
Logs(r, l) ==
  \/ srv' = [srv EXCEPT ![r].log = l]
  \/ \E q : srv' = [srv EXCEPT ![r].log = l, ![r].queue = q]
  \/ \E q, a : srv' = [srv EXCEPT ![r].log = l, ![r].queue = q, ![r].stack = a]
  \/ \E a : srv' = [srv EXCEPT ![r].log = l, ![r].stack = a]

LEMMA LogsFacts ==
  ASSUME TypeInv, NEW r \in Servers, NEW l, Logs(r, l)
  PROVE  srv'[r].log = l /\ \A s \in Servers : s # r => srv'[s] = srv[s]
<1>0. srv \in [Servers -> ServerStates]
  BY DEF TypeInv, ServersOK
<1>1. CASE srv' = [srv EXCEPT ![r].log = l]
  BY <1>0, <1>1 DEF ServerStates
<1>2. CASE \E q : srv' = [srv EXCEPT ![r].log = l, ![r].queue = q]
  BY <1>0, <1>2 DEF ServerStates
<1>3. CASE \E q, a : srv' = [srv EXCEPT ![r].log = l, ![r].queue = q, ![r].stack = a]
  BY <1>0, <1>3 DEF ServerStates
<1>4. CASE \E a : srv' = [srv EXCEPT ![r].log = l, ![r].stack = a]
  BY <1>0, <1>4 DEF ServerStates
<1> QED
  BY <1>1, <1>2, <1>3, <1>4 DEF Logs

\* It leaves alone what is committed, and saves the log or commits nothing.
Spares(r, l) == \A t \in Tsn : IsCommitted(srv[r].log[t]) => l[t] = srv[r].log[t]

CommitsNone(r, l) == \A t \in Tsn : IsCommitted(l[t]) => l[t] = srv[r].log[t]

LEMMA SavedLog ==
  ASSUME TypeInv, NEW r \in Servers, NEW l, disk' = Saved(r, l)
  PROVE  disk'[r].log = l /\ \A s \in Servers : s # r => disk'[s] = disk[s]
<1>1. disk \in [Servers -> DiskStates]
  BY DEF TypeInv, DiskOK
<1> QED
  BY <1>1 DEF Saved

LEMMA LogKeeps ==
  ASSUME TypeInv, Durable, NEW r \in Servers, srv[r].up, NEW l, Logs(r, l), Spares(r, l),
         disk' = Saved(r, srv'[r].log) \/ (disk' = disk /\ CommitsNone(r, l))
  PROVE  Durable' /\ KeepsCommits
<1>1. srv'[r].log = l /\ \A s \in Servers : s # r => srv'[s] = srv[s]
  BY LogsFacts
<1>2. \A t \in Tsn : IsCommitted(srv[r].log[t]) => srv'[r].log[t] = srv[r].log[t]
  BY <1>1 DEF Spares
<1>3. CASE disk' = Saved(r, srv'[r].log)
  <2>1. disk'[r].log = srv'[r].log /\ \A s \in Servers : s # r => disk'[s] = disk[s]
    BY <1>3, SavedLog
  <2> QED
    BY <1>1, <1>2, <2>1, ServerKeeps
<1>4. CASE disk' = disk /\ CommitsNone(r, l)
  <2>1. \A t \in Tsn : IsCommitted(srv'[r].log[t]) => srv'[r].log[t] = srv[r].log[t]
    BY <1>1, <1>4 DEF CommitsNone
  <2> QED
    BY <1>1, <1>2, <1>4, <2>1, ServerKeeps
<1> QED
  BY <1>3, <1>4

LEMMA FinishKeeps ==
  ASSUME TypeInv, Durable, NEW s \in Servers, FinishDoCommit(s)
  PROVE  Durable' /\ KeepsCommits
<1> DEFINE t == Top(s).tsn
           ok == Top(s).ret = "yes"
           l == IF ok THEN [srv[s].log EXCEPT ![t].status = "COMMITTED"] ELSE srv[s].log
<1>1. /\ srv[s].up /\ srv[s].stack # <<>> /\ Top(s).op = "doCommit"
      /\ srv' = [srv EXCEPT ![s].log = IF ok THEN [@ EXCEPT ![t].status = "COMMITTED"] ELSE @,
                            ![s].stack = <<>>]
      /\ disk' = IF ok THEN Saved(s, srv'[s].log) ELSE disk
  BY DEF FinishDoCommit, In
<1>2. srv' = [srv EXCEPT ![s].log = l, ![s].stack = <<>>]
  BY <1>1 DEF TypeInv, ServersOK
<1>3. t \in Tsn /\ srv[s].log[t].status = "WRITING" /\ srv[s].log \in Log
  BY <1>1, TopFacts, ServerFacts DEF TypeInv
<1>4. Spares(s, l)
  BY <1>3 DEF IsCommitted, Log, Spares
<1>5. disk' = Saved(s, srv'[s].log) \/ (disk' = disk /\ CommitsNone(s, l))
  BY <1>1 DEF CommitsNone
<1>6. Logs(s, l)
  BY <1>2 DEF Logs
<1> HIDE DEF l
<1> QED
  BY <1>1, <1>4, <1>5, <1>6, LogKeeps

LEMMA SweepKeeps ==
  ASSUME TypeInv, Durable, NEW s \in Servers, Sweep(s)
  PROVE  Durable' /\ KeepsCommits
<1>1. srv[s].up /\ disk' = Saved(s, srv'[s].log)
  BY DEF Sweep, Idle
<1>2. PICK l \in SweptLogs(srv[s].log) : srv' = [srv EXCEPT ![s].log = l]
  BY DEF Sweep
<1>3. \A t \in Tsn : AgesTo(srv[s].log[t], l[t])
  BY ServerFacts, SweepAges DEF TypeInv
<1>4. Spares(s, l)
  BY <1>3 DEF AgesTo, Spares
<1>5. Logs(s, l)
  BY <1>2 DEF Logs
<1> QED
  BY <1>1, <1>4, <1>5, LogKeeps

LEMMA SaveKeeps ==
  ASSUME TypeInv, Durable, NEW s \in Servers, Save(s)
  PROVE  Durable' /\ KeepsCommits
<1>1. srv[s].up /\ disk' = Saved(s, srv[s].log) /\ srv' = srv
  BY DEF Save, Idle
<1>2. disk'[s].log = srv'[s].log /\ \A r \in Servers : r # s => disk'[r] = disk[r]
  BY <1>1 DEF TypeInv, DiskOK, Saved
<1> QED
  BY <1>1, <1>2, ServerKeeps

LEMMA NewTxnKeeps ==
  ASSUME TypeInv, Durable, NEW r \in Servers, NEW t \in Tsn, NEW f \in Files, NewTxn(r, t, f)
  PROVE  Durable' /\ KeepsCommits
<1> DEFINE l == With(r, t, NewEntry(f))
           q == Append(srv[r].queue, Packet("MAKE_TXN", t, 0, f))
<1>1. /\ srv[r].up /\ srv[r].log[t] = NoTxn /\ disk' = Saved(r, srv'[r].log)
      /\ srv' = [srv EXCEPT ![r].log = l, ![r].queue = q]
  BY DEF NewTxn, Idle, TypeInv, ServersOK
<1>2. Spares(r, l)
  BY <1>1, ServerFacts DEF TypeInv, With, Log, IsCommitted, Spares
<1>3. Logs(r, l)
  BY <1>1 DEF Logs
<1> HIDE DEF l, q
<1> QED
  BY <1>1, <1>2, <1>3, LogKeeps

\* commit() changes one transaction that is not committed, and saves.
LEMMA StartCommitKeeps ==
  ASSUME TypeInv, Durable, NEW r \in Servers, srv[r].up, NEW m, m.tsn \in Tsn,
         NEW src, NEW x, NEW n, NEW queue, ~IsCommitted(srv[r].log[m.tsn]),
         StartCommit(r, m, src, x, n, queue)
  PROVE  Durable' /\ KeepsCommits
<1> DEFINE l(st) == With(r, m.tsn, MarkedFor(x, st, n))
<1>1. disk' = Saved(r, srv'[r].log)
  BY DEF StartCommit
<1>2. ASSUME NEW st PROVE Spares(r, l(st))
  BY ServerFacts DEF TypeInv, With, Log, Spares
<1>3. \/ srv' = [srv EXCEPT ![r].log = l("WRITING"), ![r].queue = queue,
                            ![r].stack = << CommitFrame(m.tsn, n), DoCommitFrame(m.tsn, src) >>]
      \/ srv' = [srv EXCEPT ![r].log = l("COMMITTED")]
      \/ srv' = [srv EXCEPT ![r].log = l("WAITING")]
  BY DEF StartCommit
<1> HIDE DEF l
<1>4. Logs(r, l("WRITING")) \/ Logs(r, l("COMMITTED")) \/ Logs(r, l("WAITING"))
  BY <1>3 DEF Logs
<1> QED
  BY <1>1, <1>2, <1>4, LogKeeps

\* No request changes a transaction that is committed.
LEMMA HandleKeeps ==
  ASSUME TypeInv, Durable, NEW r \in Servers, srv[r].up, NEW m \in WellFormed, NEW src,
         Handle(r, m, src)
  PROVE  Durable' /\ KeepsCommits
<1>0. srv[r].log \in Log /\ srv \in [Servers -> ServerStates]
  BY ServerFacts DEF TypeInv, ServersOK
<1>1. CASE UNCHANGED <<srv, disk>>
  BY <1>1, NothingLogged
<1>2. CASE HandleWrite(r, m, src)
  <2> DEFINE x == Logged(srv[r].log[m.tsn], m.seq, m.data)
             l == With(r, m.tsn, x)
  <2>1. m.tsn \in Tsn /\ AddLogEntryCode(srv[r].log[m.tsn], m.seq) = "ok"
    BY <1>2 DEF HandleWrite, WellFormed
  <2>2. ~IsCommitted(srv[r].log[m.tsn])
    BY <2>1 DEF AddLogEntryCode, IsCommitted
  <2>3. \/ StartCommit(r, m, src, x, x.data, Queued(r, m))
        \/ /\ srv' = [srv EXCEPT ![r].log = l, ![r].queue = Queued(r, m)]
           /\ disk' = disk
    BY <1>2 DEF HandleWrite
  <2>4. Spares(r, l) /\ CommitsNone(r, l)
    <3>1. x.status # "COMMITTED"
      <4>1. srv[r].log[m.tsn] \in Txn
        BY <1>0, <2>1 DEF Log, AddLogEntryCode
      <4> QED
        BY <4>1 DEF Logged, Txn
    <3>2. ~IsCommitted(x)
      BY <3>1 DEF IsCommitted
    <3> HIDE DEF x
    <3> QED
      BY <1>0, <2>1, <2>2, <3>2 DEF With, Log, Spares, CommitsNone
  <2> HIDE DEF l, x
  <2>5. CASE StartCommit(r, m, src, x, x.data, Queued(r, m))
    BY <2>1, <2>2, <2>5, StartCommitKeeps
  <2>6. CASE /\ srv' = [srv EXCEPT ![r].log = l, ![r].queue = Queued(r, m)]
             /\ disk' = disk
    <3>1. Logs(r, l)
      BY <2>6 DEF Logs
    <3> QED
      BY <2>4, <2>6, <3>1, LogKeeps
  <2> QED
    BY <2>3, <2>5, <2>6
<1>3. CASE HandleCommit(r, m, src)
  <2> DEFINE x == srv[r].log[m.tsn]
             l == With(r, m.tsn, MarkedFor(x, "WAITING", m.seq))
  <2>1. m.tsn \in Tsn
    BY <1>3 DEF HandleCommit, WellFormed
  <2>2. CommitCode(x, m.seq) \in {"committed", "incomplete"} => ~IsCommitted(x)
    BY DEF CommitCode, IsCommitted
  <2>3. \/ CommitCode(x, m.seq) = "committed" /\ StartCommit(r, m, src, x, m.seq, srv[r].queue)
        \/ /\ CommitCode(x, m.seq) = "incomplete"
           /\ srv' = [srv EXCEPT ![r].log = l] /\ disk' = Saved(r, srv'[r].log)
        \/ UNCHANGED <<srv, disk>>
    BY <1>3 DEF HandleCommit
  <2>4. CommitCode(x, m.seq) = "incomplete" => Spares(r, l)
    BY <1>0, <2>1, <2>2 DEF With, Log, Spares
  <2> HIDE DEF l
  <2>5. CASE CommitCode(x, m.seq) = "committed" /\ StartCommit(r, m, src, x, m.seq, srv[r].queue)
    BY <2>1, <2>2, <2>5, StartCommitKeeps
  <2>6. CASE /\ CommitCode(x, m.seq) = "incomplete"
             /\ srv' = [srv EXCEPT ![r].log = l] /\ disk' = Saved(r, srv'[r].log)
    <3>1. Logs(r, l)
      BY <2>6 DEF Logs
    <3> QED
      BY <2>4, <2>6, <3>1, LogKeeps
  <2> QED
    BY <1>1, <2>3, <2>5, <2>6
<1>4. CASE HandleAbort(r, m, src)
  <2> DEFINE l == With(r, m.tsn, NoTxn)
  <2>1. m.tsn \in Tsn /\ AbortCode(srv[r].log[m.tsn]) = "ok"
    BY <1>4 DEF HandleAbort, WellFormed
  <2>2. Spares(r, l) /\ CommitsNone(r, l)
    BY <1>0, <2>1 DEF With, Log, AbortCode, IsCommitted, Spares, CommitsNone
  <2>3. srv' = [srv EXCEPT ![r].log = l, ![r].queue = Queued(r, m)] /\ disk' = disk
    BY <1>4 DEF HandleAbort
  <2> HIDE DEF l
  <2>4. Logs(r, l)
    BY <2>3 DEF Logs
  <2> QED
    BY <2>2, <2>3, <2>4, LogKeeps
<1>5. CASE HandleMakeTxn(r, m, src)
  <2> DEFINE l == With(r, m.tsn, NewEntry(m.data))
  <2>1. m.tsn \in Tsn
    BY <1>5 DEF HandleMakeTxn, WellFormed
  <2>2. \/ /\ srv[r].log[m.tsn] = NoTxn
           /\ srv' = [srv EXCEPT ![r].log = l] /\ disk' = Saved(r, srv'[r].log)
        \/ UNCHANGED <<srv, disk>>
    BY <1>5 DEF HandleMakeTxn
  <2>3. srv[r].log[m.tsn] = NoTxn => Spares(r, l)
    BY <1>0, <2>1 DEF With, Log, IsCommitted, Spares
  <2> HIDE DEF l
  <2>4. CASE /\ srv[r].log[m.tsn] = NoTxn
             /\ srv' = [srv EXCEPT ![r].log = l] /\ disk' = Saved(r, srv'[r].log)
    <3>1. Logs(r, l)
      BY <2>4 DEF Logs
    <3> QED
      BY <2>3, <2>4, <3>1, LogKeeps
  <2> QED
    BY <1>1, <2>2, <2>4
<1>6. CASE HandlePing(r, m, src)
  <2>1. disk' = disk /\ srv' = [srv EXCEPT ![r].backup = IF @ = Nobody THEN m.data ELSE @]
    BY <1>6 DEF HandlePing
  <2>2. \A s \in Servers : srv'[s].log = srv[s].log /\ srv'[s].up = srv[s].up
    BY <1>0, <2>1 DEF ServerStates
  <2> QED
    BY <2>1, <2>2, NothingLogged
<1>7. CASE Refuse(r, m, src)
  BY <1>1, <1>7 DEF Refuse
<1> QED
  BY <1>2, <1>3, <1>4, <1>5, <1>6, <1>7 DEF Handle

LEMMA RequestsKeep ==
  ASSUME TypeInv, Durable, NEW r \in Servers,
         \/ Serve(r) \/ ServeLate(r) \/ \E m \in ClientPackets : ClientRequest(r, m)
  PROVE  Durable' /\ KeepsCommits
<1>1. CASE Serve(r)
  <2>1. Other(r) \in Servers
    BY OtherServer
  <2>2. link[Other(r)].requests \in Seq(WellFormed)
    BY <2>1, LinkFacts DEF TypeInv
  <2>3. Head(link[Other(r)].requests) \in WellFormed
    BY <1>1, <2>2, HeadTailProperties DEF Serve
  <2> QED
    BY <1>1, <2>3, HandleKeeps DEF Serve, Idle
<1>2. CASE ServeLate(r)
  <2>1. srv[r].up
    BY <1>2 DEF ServeLate, Idle
  <2>2. PICK c \in orphans[Other(r)] : \/ Handle(r, Head(c), "late")
                                       \/ HandleKill(r, Head(c))
    BY <1>2 DEF ServeLate
  <2>3. Head(c) \in WellFormed
    <3>1. Other(r) \in Servers
      BY OtherServer
    <3>2. c \in Seq(WellFormed) /\ c # <<>>
      BY <3>1 DEF TypeInv, NetworkOK
    <3> QED
      BY <3>2, HeadTailProperties
  <2>4. CASE Handle(r, Head(c), "late")
    BY <2>1, <2>3, <2>4, HandleKeeps
  <2>5. CASE HandleKill(r, Head(c))
    <3>1. /\ disk' = disk
          /\ \/ srv' = srv
             \/ srv' = [srv EXCEPT ![r].role = "backup", ![r].target = Nobody, ![r].tries = -10]
      BY <2>5 DEF HandleKill
    <3>2. \A s \in Servers : srv'[s].log = srv[s].log /\ srv'[s].up = srv[s].up
      <4>1. srv \in [Servers -> ServerStates]
        BY DEF TypeInv, ServersOK
      <4>2. CASE srv' = [srv EXCEPT ![r].role = "backup", ![r].target = Nobody, ![r].tries = -10]
        BY <4>1, <4>2 DEF ServerStates
      <4> QED
        BY <3>1, <4>2
    <3> QED
      BY <3>1, <3>2, NothingLogged
  <2> QED
    BY <2>2, <2>4, <2>5
<1>3. ASSUME NEW m \in ClientPackets, ClientRequest(r, m) PROVE Durable' /\ KeepsCommits
  BY <1>3, ClientPacketsType, HandleKeeps DEF ClientRequest, Idle
<1> QED
  BY <1>1, <1>2, <1>3

LEMMA CommitsStep ==
  ASSUME TypeInv, Durable, [Next]_vars
  PROVE  Durable' /\ KeepsCommits
<1>1. CASE UNCHANGED vars
  BY <1>1, NothingLogged DEF vars
<1>2. ASSUME NEW s \in Servers, Running(s) \/ Timer(s) PROVE Durable' /\ KeepsCommits
  <2>1. CASE FinishDoCommit(s)
    BY <2>1, FinishKeeps
  <2>2. CASE PingFails(s) \/ CommitRecurses(s)
    BY <2>2, EndKeeps
  <2>3. CASE \/ SyncReply(s) \/ SyncFails(s) \/ CommitEnter(s) \/ CommitDecide(s)
             \/ CommitReply(s) \/ KillPrimary(s) \/ CommitFails(s)
             \/ CheckStart(s) \/ CheckNext(s) \/ CheckEnd(s) \/ PingReply(s) \/ Timer(s)
    BY <2>3, RunningLogsNothing, NothingLogged
  <2> QED
    BY <1>2, <2>1, <2>2, <2>3 DEF Running
<1>3. CASE Next
  BY <1>2, <1>3, RequestsKeep, NewTxnKeeps, SaveKeeps, SweepKeeps, EndKeeps, StartKeeps DEF Next
<1> QED
  BY <1>1, <1>3

\* A transaction that a server has committed stays committed there, on disk and
\* in memory, with its lines and its file, for any number of crashes, I/O
\* errors, sweeps and restarts, and also if numbers are drawn again.
THEOREM CommitsAreKept == Spec => CommitsKept
<1>1. Init => Durable
  <2> SUFFICES ASSUME Init, NEW s \in Servers, NEW t \in Tsn
               PROVE  srv[s].log[t] = disk[s].log[t]
    BY DEF Durable
  <2> QED
    BY DEF Init, InitWith, Started
<1>2. TypeInv /\ Durable /\ [Next]_vars => Durable'
  BY CommitsStep
<1>3. TypeInv /\ Durable /\ [Next]_vars =>
        [\A s \in Servers, t \in Tsn : IsCommitted(disk[s].log[t]) =>
           /\ disk'[s].log[t] = disk[s].log[t]
           /\ srv'[s].up => srv'[s].log[t] = disk[s].log[t]]_vars
  BY CommitsStep DEF KeepsCommits
<1> QED
  BY <1>1, <1>2, <1>3, CallsNest, PTL DEF Spec, CommitsKept
=============================================================================
