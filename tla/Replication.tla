----------------------------- MODULE Replication -----------------------------
(***************************************************************************)
(* Two servers that replicate: ReplicationManager, the Client it talks     *)
(* through, and what the other server's Session does with its packets.     *)
(*                                                                         *)
(* A server has one thread.  Client::sendReceive blocks it, and while it   *)
(* is blocked it serves no request.  commit(), primaryOps() and            *)
(* integrityCheck() call one another around that blocking call, so the     *)
(* thread is modelled by its call stack: frames, the innermost first.  An  *)
(* empty stack is a thread that waits in io_service.run().  What a thread  *)
(* does between two points at which it blocks is one action, or a few when *)
(* the other server could tell.                                            *)
(*                                                                         *)
(* Requests are those of TransactionServer.tla with the same outcomes      *)
(* (LogHandler.tla); here writeFile and save() do not tear, and files are  *)
(* not recorded: the lines a server wrote are those of its COMMITTED       *)
(* transactions.                                                           *)
(***************************************************************************)
EXTENDS LogHandler, Sequences, FiniteSets

CONSTANTS
  Servers,      \* the two servers, which are also their addresses
  Main,         \* the one that is started as primary (option -m)
  Nobody,       \* the address 0.0.0.0 port 0, and an address that is not set
  Tiny,         \* payloads and file names of one byte
  Payloads,     \* what clients may send as packet n: a set of data for each n
  FreshNumbers, \* whether newTxn never draws a number that is still in use
  RestartRoles, \* roles the operator restarts a server in
  Drift,        \* 0: the two timers are not related.  Otherwise: how often the timer of
                \* one server may fire before the other's does, while both are idle
  MaxQueue,     \* bound on packets queued when a client sends a request
  MaxRequests,  \* bound on requests of clients
  MaxCrashes,   \* bound on crashes
  MaxIOErrors,  \* bound on failures of writeFile on a backup
  MaxSweeps     \* bound on sweeps

ASSUME ServersAssumption == Main \in Servers /\ \E r \in Servers : Servers = {Main, r} /\ r # Main
ASSUME TsnBoundAssumption == \E m \in Tsn \cup {0} : \A t \in Tsn : t <= m
ASSUME NobodyAssumption == Nobody \notin Servers
ASSUME TinyAssumption == Tiny \subseteq Data \cup Files
ASSUME PayloadsAssumption == Payloads \in [SeqNo -> SUBSET Data]
ASSUME NoPayloadAssumption == NoData \notin Files \cup Servers
ASSUME BoundsAssumption ==
  /\ FreshNumbers \in BOOLEAN
  /\ RestartRoles \subseteq {"primary", "backup"}
  /\ {Drift, MaxQueue, MaxRequests, MaxCrashes, MaxIOErrors, MaxSweeps} \subseteq Nat

VARIABLES
  srv,        \* what each server has in memory
  disk,       \* what each .server.log holds
  link,       \* the connection each server's Client opened to the other
  orphans,    \* for each server, the requests not yet served of connections it closed
  primaryTxt, \* the server that primary.txt names
  ticks,      \* how often each timer fired since the other one did
  requests,   \* requests of clients so far
  used        \* crashes, I/O errors and sweeps so far

vars == <<srv, disk, link, orphans, primaryTxt, ticks, requests, used>>

Other(s) == CHOOSE r \in Servers : r # s

-----------------------------------------------------------------------------
\* A packet.  MAKE_TXN carries a file name, PING the address of the sender.
Packet(type, t, n, d) == [type |-> type, tsn |-> t, seq |-> n, data |-> d]

Request(type) == Packet(type, 0, 0, NoData)

\* Client::genEcho: a packet is forwarded without a payload of one byte.
Echo(m) == IF m.data \in Tiny THEN [m EXCEPT !.data = NoData] ELSE m

\* ServerTools::needsData: what handle_read answers with error 204 if no
\* payload came with it.
NeedsData(m) == m.type \in {"WRITE", "MAKE_TXN", "PING"}

Packets ==
  [ type : {"WRITE", "COMMIT", "ABORT", "MAKE_TXN", "PING", "KILL"}, tsn : Tsn \cup {0},
    seq : 0..MaxSeq, data : Data \cup Files \cup Servers \cup {NoData} ]

\* What ReplicationManager tells apart in a reply.
Replies == {"ACK", "ACK_RESEND", "201", "ERROR"}

ReplyFor(code) == IF code = "201" THEN "201" ELSE "ERROR"

\* Mutant of Resent: the data of the first packet with every header.
ResentFirst(t, x) == [n \in 1..x.data |-> Packet("WRITE", t, n, x.writes[1])]

\* The packets commit() queues when the other server misses some of t.
Resent(t, x) == [n \in 1..x.data |-> Packet("WRITE", t, n, x.writes[n])]

Closed == [state |-> "closed", requests |-> <<>>, replies |-> <<>>, serving |-> FALSE]

Open == [Closed EXCEPT !.state = "open"]

(***************************************************************************)
(* A connection.  "lost": the other end died, writes vanish and reads fail *)
(* once the replies that arrived are used up.  serving: the other server   *)
(* works on a request of this connection.  A request whose connection is   *)
(* closed before it is served is served all the same, after those that     *)
(* were sent before it, and its reply goes nowhere.                        *)
(***************************************************************************)
Put(l, m) == IF l.state = "open" THEN [l EXCEPT !.requests = Append(@, m)] ELSE l

Orphaned(s) == orphans[s] \cup ({link[s].requests} \ {<<>>})

\* The closed connections that begin with request m, and those left with it
\* served on one of them.
LateWith(s, m) == {c \in orphans[s] : Head(c) = m}

Served(s, c) == (orphans[s] \ {c}) \cup ({Tail(c)} \ {<<>>})

\* sendReceive reads into a buffer of its own: it takes the first reply, and
\* whatever else came with it is dropped.
AfterRead(s) ==
  {[link[s] EXCEPT !.replies = SubSeq(@, k + 1, Len(@))] : k \in DOMAIN link[s].replies}

ReadFails(s) == link[s].replies = <<>> /\ link[s].state # "open"

-----------------------------------------------------------------------------
(***************************************************************************)
(* The frames of the call stack.                                           *)
(***************************************************************************)
PingFrame == [op |-> "ping"]

SyncFrame == [op |-> "sync"]

CommitFrame(t, n) == [op |-> "commit", tsn |-> t, seq |-> n, at |-> "enter"]

\* integrityCheck: the transactions of holder, and what commit() returned.
CheckFrame(holder, ret) == [op |-> "check", holder |-> holder, ret |-> ret]

DoCommitFrame(t, src) == [op |-> "doCommit", tsn |-> t, src |-> src, ret |-> "wait"]

Frames ==
  [op : {"ping", "sync"}]
    \cup [op : {"commit"}, tsn : Tsn, seq : SeqNo, at : {"enter", "decide", "await"}]
    \cup [op : {"check"}, holder : SUBSET Tsn, ret : {"start", "go", "yes", "no"}]
    \cup [op : {"doCommit"}, tsn : Tsn, src : {"client", "peer", "late"}, ret : {"wait", "yes", "no"}]

Top(s) == Head(srv[s].stack)

Below(s) == Tail(srv[s].stack)

Idle(s) == srv[s].up /\ srv[s].stack = <<>>

In(s, op) == srv[s].up /\ srv[s].stack # <<>> /\ Top(s).op = op

At(s, pc) == In(s, "commit") /\ Top(s).at = pc

\* The stack below the innermost frame once that returned ok.
Returned(s, ok) ==
  << [Head(Below(s)) EXCEPT !.ret = IF ok THEN "yes" ELSE "no"] >> \o Tail(Below(s))

\* The server after the constructors of Server and ReplicationManager.
Started(l, b, r) ==
  [ up |-> TRUE, role |-> r, log |-> l, backup |-> b, queue |-> <<>>, stack |-> <<>>,
    alive |-> FALSE, tries |-> 0, backup_did_sync |-> FALSE, restarted |-> FALSE,
    target |-> Nobody ]

Down == [Started(EmptyLog, Nobody, "backup") EXCEPT !.up = FALSE]

\* Main is started as primary and the other server as backup, with logs[s] in
\* the .server.log of s and no backup registered.
InitWith(logs) ==
  /\ srv = [s \in Servers |->
              Started(logs[s], Nobody, IF s = Main THEN "primary" ELSE "backup")]
  /\ disk = [s \in Servers |-> [log |-> logs[s], backup |-> Nobody]]
  /\ link = [s \in Servers |-> Closed]
  /\ orphans = [s \in Servers |-> {}]
  /\ primaryTxt = Main
  /\ ticks = [s \in Servers |-> 0]
  /\ requests = 0
  /\ used = [crashes |-> 0, errors |-> 0, sweeps |-> 0]

\* A first start, in two empty working directories.
Init == InitWith([s \in Servers |-> EmptyLog])

-----------------------------------------------------------------------------
(***************************************************************************)
(* A request m at server r, from a client, from the other server, or from  *)
(* a connection of the other server that is closed ("late").  Received     *)
(* takes it and sends the replies reps.                                    *)
(***************************************************************************)
Received(r, m, src, reps, serving) ==
  LET s == Other(r)
  IN  \/ /\ src = "client"
         /\ UNCHANGED <<link, orphans>>
      \/ /\ src = "peer"
         /\ link' = [link EXCEPT ![s].requests = Tail(@), ![s].replies = @ \o reps,
                                 ![s].serving = serving]
         /\ UNCHANGED orphans
      \/ /\ src = "late"
         /\ \E c \in LateWith(s, m) : orphans' = [orphans EXCEPT ![s] = Served(s, c)]
         /\ UNCHANGED link

\* enqueue: only a primary queues.
Queued(r, m) == IF srv[r].role = "primary" THEN Append(srv[r].queue, m) ELSE srv[r].queue

Saved(r, l) == [disk EXCEPT ![r] = [log |-> l, backup |-> srv[r].backup]]

With(r, t, x) == [srv[r].log EXCEPT ![t] = x]

\* No payload where one is needed, or refused by LogHandler.
Refused(r, m, code) ==
  \/ NeedsData(m) /\ m.data = NoData /\ code = "204"
  \/ /\ ~(NeedsData(m) /\ m.data = NoData)
     /\ code \notin {"ok", "committed", "incomplete", "already"}
     /\ \/ m.type = "WRITE"  /\ code = AddLogEntryCode(srv[r].log[m.tsn], m.seq)
        \/ m.type = "COMMIT" /\ code = CommitCode(srv[r].log[m.tsn], m.seq)
        \/ m.type = "ABORT"  /\ code = AbortCode(srv[r].log[m.tsn])

\* Mutant of Refuse: an error is not answered.
RefuseMute(r, m, src) ==
  /\ \E code \in {"201", "202", "204", "220", "301", "404"} :
       Refused(r, m, code) /\ Received(r, m, src, <<>>, FALSE)
  /\ UNCHANGED <<srv, disk, used>>

Refuse(r, m, src) ==
  /\ \E code \in {"201", "202", "204", "220", "301", "404"} :
       Refused(r, m, code) /\ Received(r, m, src, <<ReplyFor(code)>>, FALSE)
  /\ UNCHANGED <<srv, disk, used>>

\* commit() with every packet there.  A primary asks the other server first; a
\* backup writes the file, and waits for another COMMIT if that fails.  queue
\* is the queue that a WRITE which completes the commit leaves.
StartCommit(r, m, src, x, n, queue) ==
  \/ /\ srv[r].role = "primary"
     /\ srv' = [srv EXCEPT ![r].log = With(r, m.tsn, MarkedFor(x, "WRITING", n)),
                           ![r].queue = queue,
                           ![r].stack = << CommitFrame(m.tsn, n), DoCommitFrame(m.tsn, src) >>]
     /\ disk' = Saved(r, srv'[r].log)
     /\ Received(r, m, src, <<>>, TRUE)
     /\ UNCHANGED used
  \/ /\ srv[r].role = "backup"
     /\ srv' = [srv EXCEPT ![r].log = With(r, m.tsn, MarkedFor(x, "COMMITTED", n))]
     /\ disk' = Saved(r, srv'[r].log)
     /\ Received(r, m, src, <<"ACK">>, FALSE)
     /\ UNCHANGED used
  \/ /\ srv[r].role = "backup"
     /\ used.errors < MaxIOErrors
     /\ used' = [used EXCEPT !.errors = @ + 1]
     /\ srv' = [srv EXCEPT ![r].log = With(r, m.tsn, MarkedFor(x, "WAITING", n))]
     /\ disk' = Saved(r, srv'[r].log)
     /\ Received(r, m, src, <<"ERROR">>, FALSE)

HandleWrite(r, m, src) ==
  /\ m.type = "WRITE" /\ m.data # NoData
  /\ AddLogEntryCode(srv[r].log[m.tsn], m.seq) = "ok"
  /\ LET x == Logged(srv[r].log[m.tsn], m.seq, m.data)
         complete == x.status = "WAITING" /\ CanCommit(x, x.data)
     IN  \/ complete /\ StartCommit(r, m, src, x, x.data, Queued(r, m))
         \/ /\ ~complete
            /\ srv' = [srv EXCEPT ![r].log = With(r, m.tsn, x), ![r].queue = Queued(r, m)]
            /\ Received(r, m, src, <<"ACK">>, FALSE)
            /\ UNCHANGED <<disk, used>>

\* Missing packets are asked for one reply each.
HandleCommit(r, m, src) ==
  /\ m.type = "COMMIT"
  /\ LET x == srv[r].log[m.tsn]
         code == CommitCode(x, m.seq)
     IN  \/ code = "committed" /\ StartCommit(r, m, src, x, m.seq, srv[r].queue)
         \/ /\ code = "incomplete"
            /\ srv' = [srv EXCEPT ![r].log = With(r, m.tsn, MarkedFor(x, "WAITING", m.seq))]
            /\ disk' = Saved(r, srv'[r].log)
            /\ Received(r, m, src, [k \in 1..Cardinality(Fetch(x, m.seq)) |-> "ACK_RESEND"], FALSE)
            /\ UNCHANGED used
         \/ /\ code = "already"
            /\ Received(r, m, src, <<"ACK">>, FALSE)
            /\ UNCHANGED <<srv, disk, used>>

HandleAbort(r, m, src) ==
  /\ m.type = "ABORT"
  /\ AbortCode(srv[r].log[m.tsn]) = "ok"
  /\ srv' = [srv EXCEPT ![r].log = With(r, m.tsn, NoTxn), ![r].queue = Queued(r, m)]
  /\ Received(r, m, src, <<"ACK">>, FALSE)
  /\ UNCHANGED <<disk, used>>

\* MAKE_TXN is acknowledged whether or not the number is taken.
HandleMakeTxn(r, m, src) ==
  /\ m.type = "MAKE_TXN" /\ m.data # NoData
  /\ Received(r, m, src, <<"ACK">>, FALSE)
  /\ \/ /\ srv[r].log[m.tsn] = NoTxn
        /\ srv' = [srv EXCEPT ![r].log = With(r, m.tsn, NewEntry(m.data))]
        /\ disk' = Saved(r, srv'[r].log)
     \/ srv[r].log[m.tsn] # NoTxn /\ UNCHANGED <<srv, disk>>
  /\ UNCHANGED used

\* PING registers the sender, unless a backup is registered.
HandlePing(r, m, src) ==
  /\ m.type = "PING"
  /\ srv' = [srv EXCEPT ![r].backup = IF @ = Nobody THEN m.data ELSE @]
  /\ Received(r, m, src, <<"ACK">>, FALSE)
  /\ UNCHANGED <<disk, used>>

\* KILL: switchToBackup.  alive and the queue stay as they are.
HandleKill(r, m) ==
  /\ m.type = "KILL"
  /\ \/ /\ srv[r].role = "primary"
        /\ srv' = [srv EXCEPT ![r].role = "backup", ![r].target = Nobody, ![r].tries = -10]
        /\ link' = [link EXCEPT ![r] = Closed]
        /\ \E c \in LateWith(Other(r), m) :
             orphans' = [orphans EXCEPT ![Other(r)] = Served(Other(r), c), ![r] = Orphaned(r)]
     \/ /\ srv[r].role = "backup"
        /\ \E c \in LateWith(Other(r), m) :
             orphans' = [orphans EXCEPT ![Other(r)] = Served(Other(r), c)]
        /\ UNCHANGED <<srv, link>>
  /\ UNCHANGED <<disk, used>>

Handle(r, m, src) ==
  /\ \/ Refuse(r, m, src)
     \/ HandleWrite(r, m, src)
     \/ HandleCommit(r, m, src)
     \/ HandleAbort(r, m, src)
     \/ HandleMakeTxn(r, m, src)
     \/ HandlePing(r, m, src)
  /\ UNCHANGED <<primaryTxt, ticks>>

\* The other server's requests, and those of its closed connections.
Serve(r) ==
  /\ Idle(r)
  /\ link[Other(r)].requests # <<>>
  /\ Handle(r, Head(link[Other(r)].requests), "peer")
  /\ UNCHANGED requests

ServeLate(r) ==
  /\ Idle(r)
  /\ \E m \in {Head(c) : c \in orphans[Other(r)]} :
       Handle(r, m, "late") \/ (HandleKill(r, m) /\ UNCHANGED <<primaryTxt, ticks>>)
  /\ UNCHANGED requests

\* Clients.  A backup answers them AUTH_FAIL.
ClientPackets ==
  {m \in {Packet("WRITE", t, n, d) : t \in Tsn, n \in SeqNo, d \in Data} :
        m.data \in Payloads[m.seq]}
    \cup {Packet("COMMIT", t, n, NoData) : t \in Tsn, n \in SeqNo}
    \cup {Packet("ABORT", t, 0, NoData) : t \in Tsn}

ClientRequest(r, m) ==
  /\ Idle(r) /\ srv[r].role = "primary"
  /\ Len(srv[r].queue) < MaxQueue
  /\ requests < MaxRequests
  /\ requests' = requests + 1
  /\ srv[r].log[m.tsn] # NoTxn
  /\ Handle(r, m, "client")

\* Neither server knows number t, and no packet for it is under way.
Unused(t) ==
  /\ \A s \in Servers : srv[s].log[t] = NoTxn /\ disk[s].log[t] = NoTxn
  /\ \A s \in Servers : \A c \in Orphaned(s) : \A i \in DOMAIN c : c[i].tsn # t
  /\ \A s \in Servers : \A i \in DOMAIN srv[s].queue : srv[s].queue[i].tsn # t

\* NEW_TXN: a number that is free here, drawn at random.
NewTxn(r, t, f) ==
  /\ Idle(r) /\ srv[r].role = "primary"
  /\ Len(srv[r].queue) < MaxQueue
  /\ requests < MaxRequests
  /\ requests' = requests + 1
  /\ srv[r].log[t] = NoTxn
  /\ FreshNumbers => Unused(t)
  /\ srv' = [srv EXCEPT ![r].log = With(r, t, NewEntry(f)),
                        ![r].queue = Append(@, Packet("MAKE_TXN", t, 0, f))]
  /\ disk' = Saved(r, srv'[r].log)
  /\ UNCHANGED <<link, orphans, primaryTxt, ticks, used>>

-----------------------------------------------------------------------------
(***************************************************************************)
(* Client::connectSocket.  It opens a new connection, the old one is       *)
(* closed.  The kernel accepts it even when the other thread is blocked.   *)
(* (The AUTH packet it sends first is always the first of a connection and *)
(* has no answer: it is left out.)                                         *)
(***************************************************************************)
Reachable(a) == a \in Servers /\ srv[a].up

Connected(s, l) ==
  /\ link' = [link EXCEPT ![s] = l]
  /\ orphans' = [orphans EXCEPT ![s] = Orphaned(s)]

\* Mutant of Commits: the first element is skipped.
CommitsButFirst(s) ==
  {t \in Tsn : /\ srv[s].log[t] # NoTxn /\ srv[s].log[t].status = "COMMITTED"
               /\ \E u \in Tsn : u < t}

\* getCommits: the transactions for the integrity check.
Commits(s) == {t \in Tsn : srv[s].log[t] # NoTxn /\ srv[s].log[t].status = "COMMITTED"}

(***************************************************************************)
(* primaryOps, from the timer or from commit(); stack is what it returns   *)
(* to.  It sends the queue, or connects to a backup that registered.       *)
(***************************************************************************)
PrimaryOps(s, stack) ==
  LET me == srv[s]
  IN  \/ /\ me.alive /\ me.queue # <<>>
         /\ srv' = [srv EXCEPT ![s].stack = << SyncFrame >> \o stack]
         /\ link' = [link EXCEPT ![s] = Put(@, Echo(Head(me.queue)))]
         /\ UNCHANGED orphans
      \/ /\ ~me.alive /\ me.backup # Nobody
         /\ \/ /\ Reachable(me.backup)
               /\ srv' = [srv EXCEPT ![s].target = me.backup, ![s].alive = TRUE,
                                     ![s].stack = << CheckFrame(Commits(s), "go") >> \o stack]
               /\ Connected(s, Open)
            \/ /\ ~Reachable(me.backup)
               /\ srv' = [srv EXCEPT ![s].target = me.backup, ![s].backup = Nobody,
                                     ![s].stack = stack]
               /\ Connected(s, Closed)
      \/ /\ me.alive => me.queue = <<>>
         /\ ~me.alive => me.backup = Nobody
         /\ stack # <<>>   \* the timer's check has nothing to do
         /\ srv' = [srv EXCEPT ![s].stack = stack]
         /\ UNCHANGED <<link, orphans>>

\* The thread waits in sendReceive for an answer that did not come yet.
Blocked(s) ==
  /\ In(s, "sync") \/ In(s, "ping") \/ At(s, "await")
  /\ link[s].replies = <<>> /\ link[s].state = "open"

Computes(s) == srv[s].up /\ srv[s].stack # <<>> /\ ~Blocked(s)

(***************************************************************************)
(* check(), every 0.3 s.  With Drift, the timers of two idle servers keep  *)
(* pace with each other, computing takes no time compared to 0.3 s, and    *)
(* what a closed connection left is served before the timer fires again.   *)
(***************************************************************************)
Fires(s) ==
  /\ Idle(s)
  /\ \/ Drift = 0 /\ UNCHANGED ticks
     \/ /\ Drift > 0
        /\ ~Computes(Other(s)) /\ orphans[Other(s)] = {}
        /\ Idle(Other(s)) => ticks[s] < Drift
        /\ ticks' = [ticks EXCEPT ![s] = IF Idle(Other(s)) THEN @ + 1 ELSE 0, ![Other(s)] = 0]

\* The timer of a primary that has nothing to do, where its pace matters.
PrimaryIdles(s) ==
  /\ Drift > 0
  /\ Fires(s)
  /\ srv[s].role = "primary"
  /\ IF srv[s].alive THEN srv[s].queue = <<>> ELSE srv[s].backup = Nobody
  /\ UNCHANGED <<srv, disk, link, orphans, primaryTxt, requests, used>>

\* Mutant of PrimaryCheck: the daemon connects but does not send the queue.
PrimaryCheckConnects(s) ==
  /\ Fires(s) /\ srv[s].role = "primary" /\ ~srv[s].alive
  /\ PrimaryOps(s, <<>>)
  /\ UNCHANGED <<disk, primaryTxt, requests, used>>

PrimaryCheck(s) ==
  /\ Fires(s) /\ srv[s].role = "primary"
  /\ PrimaryOps(s, <<>>)
  /\ UNCHANGED <<disk, primaryTxt, requests, used>>

\* The reply to a queued packet is not looked at.
SyncReply(s) ==
  /\ In(s, "sync")
  /\ \E l \in AfterRead(s) :
       LET queue == Tail(srv[s].queue)
       IN  \/ /\ queue # <<>>
              /\ link' = [link EXCEPT ![s] = Put(l, Echo(Head(queue)))]
              /\ srv' = [srv EXCEPT ![s].queue = queue]
           \/ /\ queue = <<>>
              /\ link' = [link EXCEPT ![s] = l]
              /\ srv' = [srv EXCEPT ![s].queue = queue, ![s].stack = Below(s)]
  /\ UNCHANGED <<disk, orphans, primaryTxt, ticks, requests, used>>

\* Mutant of SyncFails: the connection is still thought alive.
SyncFailsAlive(s) ==
  /\ In(s, "sync") /\ ReadFails(s)
  /\ srv' = [srv EXCEPT ![s].stack = Below(s)]
  /\ UNCHANGED <<disk, link, orphans, primaryTxt, ticks, requests, used>>

SyncFails(s) ==
  /\ In(s, "sync") /\ ReadFails(s)
  /\ srv' = [srv EXCEPT ![s].alive = FALSE, ![s].stack = Below(s)]
  /\ UNCHANGED <<disk, link, orphans, primaryTxt, ticks, requests, used>>

-----------------------------------------------------------------------------
(***************************************************************************)
(* ReplicationManager::commit.                                             *)
(***************************************************************************)
CommitEnter(s) ==
  /\ At(s, "enter")
  /\ LET stack == << [Top(s) EXCEPT !.at = "decide"] >> \o Below(s)
     IN  \/ srv[s].role = "primary" /\ PrimaryOps(s, stack)
         \/ /\ srv[s].role = "backup"
            /\ srv' = [srv EXCEPT ![s].stack = stack]
            /\ UNCHANGED <<link, orphans>>
  /\ UNCHANGED <<disk, primaryTxt, ticks, requests, used>>

\* Mutant of CommitPacket: it names the packet after the last one.
CommitPacketNext(s) == Packet("COMMIT", Top(s).tsn, Top(s).seq + 1, NoData)

CommitPacket(s) == Packet("COMMIT", Top(s).tsn, Top(s).seq, NoData)

\* Mutant of CommitDecide: COMMIT is sent although packets are queued.
CommitDecideEarly(s) ==
  /\ At(s, "decide")
  /\ \/ /\ srv[s].alive
        /\ srv' = [srv EXCEPT ![s].stack = << [Top(s) EXCEPT !.at = "await"] >> \o Below(s)]
        /\ link' = [link EXCEPT ![s] = Put(@, CommitPacket(s))]
     \/ /\ ~srv[s].alive
        /\ srv' = [srv EXCEPT ![s].queue = Queued(s, CommitPacket(s)),
                              ![s].stack = Returned(s, TRUE)]
        /\ UNCHANGED link
  /\ UNCHANGED <<disk, orphans, primaryTxt, ticks, requests, used>>

\* Another mutant: COMMIT is queued, and reported as done, in every case.
CommitDecideQueues(s) ==
  /\ At(s, "decide")
  /\ srv' = [srv EXCEPT ![s].queue = Queued(s, CommitPacket(s)), ![s].stack = Returned(s, TRUE)]
  /\ UNCHANGED <<disk, link, orphans, primaryTxt, ticks, requests, used>>

\* With the queue sent, COMMIT goes out and commit() waits for the answer; on
\* a connection that was just made the queue is sent first, by another call;
\* without a backup the COMMIT is queued.
CommitDecide(s) ==
  /\ At(s, "decide")
  /\ LET me == srv[s]
         Goto(pc) == << [Top(s) EXCEPT !.at = pc] >> \o Below(s)
     IN  \/ /\ me.alive /\ me.queue = <<>>
            /\ srv' = [srv EXCEPT ![s].stack = Goto("await")]
            /\ link' = [link EXCEPT ![s] = Put(@, CommitPacket(s))]
         \/ /\ me.alive /\ me.queue # <<>> /\ me.role = "primary"
            /\ srv' = [srv EXCEPT ![s].stack = Goto("enter")]
            /\ UNCHANGED link
         \/ /\ ~me.alive
            /\ srv' = [srv EXCEPT ![s].queue = Queued(s, CommitPacket(s)),
                                  ![s].stack = Returned(s, TRUE)]
            /\ UNCHANGED link
  /\ UNCHANGED <<disk, orphans, primaryTxt, ticks, requests, used>>

\* What commit() does with a reply, on any server and on a primary.
CommitReply(s) ==
  /\ At(s, "await")
  /\ \E l \in AfterRead(s) : link' = [link EXCEPT ![s] = l]
  /\ LET reply == Head(link[s].replies)
         t == Top(s).tsn
         x == srv[s].log[t]
         again == << [Top(s) EXCEPT !.at = "enter"] >> \o Below(s)
     IN  \/ /\ reply = "ACK"
            /\ srv' = [srv EXCEPT ![s].stack = Returned(s, TRUE)]
         \/ /\ reply = "ACK_RESEND" /\ srv[s].role = "primary"
            /\ srv' = [srv EXCEPT ![s].queue = @ \o Resent(t, x), ![s].stack = again]
         \/ /\ reply = "201" /\ srv[s].role = "primary"
            /\ srv' = [srv EXCEPT ![s].queue = Append(@, Packet("MAKE_TXN", t, 0, x.file)),
                                  ![s].stack = again]
         \/ /\ reply = "ERROR" /\ srv[s].role = "primary"
            /\ srv' = [srv EXCEPT ![s].stack = Returned(s, FALSE)]
  /\ UNCHANGED <<disk, orphans, primaryTxt, ticks, requests, used>>

\* Mutant of KillPrimary: KILL is not sent.
KillPrimaryMute(s) ==
  /\ At(s, "await") /\ srv[s].role = "backup"
  /\ link[s].replies # <<>> /\ Head(link[s].replies) # "ACK"
  /\ srv' = [srv EXCEPT ![s].target = Nobody, ![s].tries = 4, ![s].restarted = TRUE,
                        ![s].stack = Returned(s, FALSE)]
  /\ Connected(s, Closed)
  /\ UNCHANGED <<disk, primaryTxt, ticks, requests, used>>

\* A backup whose commit the primary does not confirm demotes the primary, and
\* will promote itself when its timer fires next.
KillPrimary(s) ==
  /\ At(s, "await") /\ srv[s].role = "backup"
  /\ link[s].replies # <<>> /\ Head(link[s].replies) # "ACK"
  /\ srv' = [srv EXCEPT ![s].target = Nobody, ![s].tries = 4, ![s].restarted = TRUE,
                        ![s].stack = Returned(s, FALSE)]
  /\ link' = [link EXCEPT ![s] = Closed]
  /\ orphans' = [orphans EXCEPT ![s] =
                   @ \cup ({Put(link[s], Request("KILL")).requests} \ {<<>>})]
  /\ UNCHANGED <<disk, primaryTxt, ticks, requests, used>>

\* The connection broke, before the reply or when KILL was to be sent.
CommitFails(s) ==
  /\ At(s, "await")
  /\ \/ ReadFails(s)
     \/ /\ srv[s].role = "backup" /\ link[s].state # "open"
        /\ link[s].replies # <<>> /\ Head(link[s].replies) # "ACK"
  /\ srv' = [srv EXCEPT ![s].queue = Queued(s, CommitPacket(s)), ![s].alive = FALSE,
                        ![s].stack = Returned(s, TRUE)]
  /\ UNCHANGED <<disk, link, orphans, primaryTxt, ticks, requests, used>>

\* The rest of doCommit: the primary commits, or reports the failure.  (If its
\* own writeFile fails it exits, which is a crash.)
FinishDoCommit(s) ==
  /\ In(s, "doCommit") /\ Top(s).ret # "wait"
  /\ LET t == Top(s).tsn
         ok == Top(s).ret = "yes"
     IN  /\ srv' = [srv EXCEPT ![s].log = IF ok THEN [@ EXCEPT ![t].status = "COMMITTED"] ELSE @,
                               ![s].stack = <<>>]
         /\ disk' = IF ok THEN Saved(s, srv'[s].log) ELSE disk
         /\ link' = IF Top(s).src = "peer" /\ link[Other(s)].serving
                    THEN [link EXCEPT ![Other(s)].replies = Append(@, IF ok THEN "ACK" ELSE "ERROR"),
                                      ![Other(s)].serving = FALSE]
                    ELSE link
  /\ UNCHANGED <<orphans, primaryTxt, ticks, requests, used>>

-----------------------------------------------------------------------------
(***************************************************************************)
(* integrityCheck: commit() for each committed transaction, the highest    *)
(* number first.  A backup opens a second connection for it, and closes it *)
(* at the end.                                                             *)
(***************************************************************************)
CheckStart(s) ==
  /\ In(s, "check") /\ Top(s).ret = "start"
  /\ LET ok == Reachable(srv[s].target)
     IN  /\ srv' = [srv EXCEPT ![s].alive = @ \/ ok,
                               ![s].stack = << CheckFrame(Commits(s), "go") >> \o Below(s)]
         /\ Connected(s, IF ok THEN Open ELSE Closed)
  /\ UNCHANGED <<disk, primaryTxt, ticks, requests, used>>

Highest(S) == CHOOSE t \in S : \A u \in S : u <= t

CheckNext(s) ==
  /\ In(s, "check") /\ Top(s).ret \in {"go", "yes"}
  /\ LET todo == IF Top(s).ret = "go" THEN Top(s).holder
                 ELSE Top(s).holder \ {Highest(Top(s).holder)}
         t == Highest(todo)
     IN  /\ todo # {}
         /\ srv' = [srv EXCEPT ![s].stack =
                      << CommitFrame(t, srv[s].log[t].data), CheckFrame(todo, "go") >> \o Below(s)]
  /\ UNCHANGED <<disk, link, orphans, primaryTxt, ticks, requests, used>>

CheckEnd(s) ==
  /\ In(s, "check")
  /\ \/ Top(s).ret = "no"
     \/ Top(s).ret = "go" /\ Top(s).holder = {}
     \/ Top(s).ret = "yes" /\ \E t \in Tsn : Top(s).holder = {t}
  /\ \/ /\ srv[s].role = "primary"
        /\ srv' = [srv EXCEPT ![s].stack = Below(s)]
        /\ UNCHANGED <<link, orphans>>
     \/ /\ srv[s].role = "backup"
        /\ srv' = [srv EXCEPT ![s].stack = Below(s), ![s].alive = FALSE]
        /\ Connected(s, Closed)
  /\ UNCHANGED <<disk, primaryTxt, ticks, requests, used>>

-----------------------------------------------------------------------------
(***************************************************************************)
(* backupOps: a connection for every call, for the integrity check or for  *)
(* a PING.                                                                 *)
(***************************************************************************)
BackupCheck(s) ==
  /\ Fires(s) /\ srv[s].role = "backup"
  /\ Reachable(srv[s].target)
  /\ orphans' = [orphans EXCEPT ![s] = Orphaned(s)]
  /\ \/ /\ ~srv[s].backup_did_sync /\ ~srv[s].restarted
        /\ srv' = [srv EXCEPT ![s].backup_did_sync = TRUE,
                              ![s].stack = << CheckFrame({}, "start") >>]
        /\ link' = [link EXCEPT ![s] = Open]
     \/ /\ srv[s].backup_did_sync \/ srv[s].restarted
        /\ srv' = [srv EXCEPT ![s].stack = << PingFrame >>]
        /\ link' = [link EXCEPT ![s] = Put(Open, Packet("PING", 0, 0, s))]
  /\ UNCHANGED <<disk, primaryTxt, requests, used>>

\* Mutant of GivesUp: the first failure is enough.
GivesUpAtOnce(s) == srv[s].tries >= 0

GivesUp(s) == srv[s].tries > 3

\* Mutant of Counted: every failure is counted as the first.
CountedFirst(s) == 1

Counted(s) == srv[s].tries + 1

\* loadPrimary: the server primary.txt names, but never itself.
LoadedTarget(s, txt) == IF txt = s THEN srv[s].target ELSE txt

\* No connection: after a few times it promotes itself; then it reads
\* primary.txt.
BackupNoPrimary(s) ==
  /\ Fires(s) /\ srv[s].role = "backup"
  /\ ~Reachable(srv[s].target)
  /\ LET promote == GivesUp(s)
     IN  /\ primaryTxt' = IF promote THEN s ELSE primaryTxt
         /\ srv' = [srv EXCEPT ![s].role = IF promote THEN "primary" ELSE @,
                               ![s].tries = IF promote THEN 1 ELSE Counted(s),
                               ![s].target = LoadedTarget(s, primaryTxt'),
                               ![s].backup_did_sync = FALSE]
  /\ Connected(s, Closed)
  /\ UNCHANGED <<disk, requests, used>>

PingReply(s) ==
  /\ In(s, "ping")
  /\ link[s].replies # <<>>
  /\ srv' = [srv EXCEPT ![s].stack = <<>>]
  /\ Connected(s, Closed)
  /\ UNCHANGED <<disk, primaryTxt, ticks, requests, used>>

-----------------------------------------------------------------------------
(***************************************************************************)
(* The end of a process.  Its own connection closes; the other server's    *)
(* breaks, and replies that arrived may still be read.                     *)
(***************************************************************************)
Dies(s) ==
  LET r == Other(s)
  IN  /\ srv' = [srv EXCEPT ![s] = Down]
      /\ orphans' = [orphans EXCEPT ![s] = Orphaned(s), ![r] = {}]
      /\ \E unread \in {link[r].replies, <<>>} :
           link' = [link EXCEPT ![s] = Closed,
                                ![r] = IF @.state = "open"
                                       THEN [Closed EXCEPT !.state = "lost", !.replies = unread]
                                       ELSE @]
      /\ UNCHANGED <<disk, primaryTxt, ticks, requests>>

\* backupOps does not catch the exception of a PING that fails: it ends in
\* main, and so does the process.
PingFails(s) ==
  /\ In(s, "ping") /\ ReadFails(s)
  /\ Dies(s)
  /\ UNCHANGED used

\* commit() on a backup whose queue is not empty (it was demoted with alive
\* set) calls itself with nothing changed until the stack overflows.
CommitRecurses(s) ==
  /\ At(s, "decide") /\ srv[s].role = "backup"
  /\ srv[s].alive /\ srv[s].queue # <<>>
  /\ Dies(s)
  /\ UNCHANGED used

Crash(s) ==
  /\ srv[s].up
  /\ used.crashes < MaxCrashes
  /\ used' = [used EXCEPT !.crashes = @ + 1]
  /\ Dies(s)

\* The operator starts a server again, not as a second primary.
Start(s, r) ==
  /\ ~srv[s].up
  /\ r = "primary" => ~(srv[Other(s)].up /\ srv[Other(s)].role = "primary")
  /\ srv' = [srv EXCEPT ![s] = Started(disk[s].log, disk[s].backup, r)]
  /\ primaryTxt' = IF r = "primary" THEN s ELSE primaryTxt
  /\ UNCHANGED <<disk, link, orphans, ticks, requests, used>>

\* TransactionManager::check.
Save(s) ==
  /\ Idle(s)
  /\ disk' = Saved(s, srv[s].log)
  /\ UNCHANGED <<srv, link, orphans, primaryTxt, ticks, requests, used>>

Sweep(s) ==
  /\ Idle(s)
  /\ used.sweeps < MaxSweeps
  /\ used' = [used EXCEPT !.sweeps = @ + 1]
  /\ \E l \in SweptLogs(srv[s].log) : srv' = [srv EXCEPT ![s].log = l]
  /\ disk' = Saved(s, srv'[s].log)
  /\ UNCHANGED <<link, orphans, primaryTxt, ticks, requests>>

-----------------------------------------------------------------------------
\* The steps of a server's thread once it left io_service, and of its timer.
Running(s) ==
  \/ SyncReply(s) \/ SyncFails(s)
  \/ CommitEnter(s) \/ CommitDecide(s) \/ CommitReply(s) \/ KillPrimary(s) \/ CommitFails(s)
  \/ FinishDoCommit(s)
  \/ CheckStart(s) \/ CheckNext(s) \/ CheckEnd(s)
  \/ PingReply(s) \/ PingFails(s) \/ CommitRecurses(s)

Timer(s) == PrimaryIdles(s) \/ PrimaryCheck(s) \/ BackupCheck(s) \/ BackupNoPrimary(s)

Next ==
  \/ \E s \in Servers : Running(s) \/ Timer(s) \/ Serve(s) \/ ServeLate(s)
  \/ \E s \in Servers : \E m \in ClientPackets : ClientRequest(s, m)
  \/ \E s \in Servers, t \in Tsn, f \in Files : NewTxn(s, t, f)
  \/ \E s \in Servers : Save(s) \/ Sweep(s) \/ Crash(s)
  \/ \E s \in Servers, r \in RestartRoles : Start(s, r)

Spec == Init /\ [][Next]_vars

\* A thread runs on, its timer fires again and again, and what arrived is
\* served in turn.
Fairness ==
  \A s \in Servers : /\ WF_vars(Running(s))
                     /\ SF_vars(Timer(s))
                     /\ SF_vars(Serve(s))
                     /\ SF_vars(ServeLate(s))

FairSpec == Spec /\ Fairness

-----------------------------------------------------------------------------
(***************************************************************************)
(* Properties.                                                             *)
(***************************************************************************)
\* Each thread waits for the other's answer.
MutualWait == \A s \in Servers : Blocked(s)

Done(s) == {t \in Tsn : srv[s].log[t] # NoTxn /\ srv[s].log[t].status = "COMMITTED"}

Committed(s, t) == t \in Done(s)

Lines(s, t) == [n \in 1..srv[s].log[t].data |-> srv[s].log[t].writes[n]]

IsPrimary(s) == srv[s].up /\ srv[s].role = "primary"

BothUp == \A s \in Servers : srv[s].up

\* The other end of the connection of s is the process that accepted it.
Connection(s) == srv[s].alive /\ link[s].state = "open"

TypeOK ==
  /\ srv \in [Servers -> [
       up : BOOLEAN, role : {"primary", "backup"}, log : Log, backup : Servers \cup {Nobody},
       queue : Seq(Packets), stack : Seq(Frames), alive : BOOLEAN, tries : -10..4,
       backup_did_sync : BOOLEAN, restarted : BOOLEAN, target : Servers \cup {Nobody} ]]
  /\ disk \in [Servers -> [log : Log, backup : Servers \cup {Nobody}]]
  /\ link \in [Servers -> [ state : {"closed", "open", "lost"}, requests : Seq(Packets),
                            replies : Seq(Replies), serving : BOOLEAN ]]
  /\ orphans \in [Servers -> SUBSET Seq(Packets)]
  /\ primaryTxt \in Servers
  /\ ticks \in [Servers -> 0..Drift]
  /\ requests \in 0..MaxRequests
  /\ used \in [crashes : 0..MaxCrashes, errors : 0..MaxIOErrors, sweeps : 0..MaxSweeps]

\* A transaction that both servers committed has the same lines on both, in
\* the same file, however it got there: forwarded packet by packet, resent for
\* a commit, or created again on a backup that had expired it.  A crash may come
\* between the two commits, and then a client may extend the transaction on the
\* server that has not committed it: finding_agreement.cfg.
Agreement ==
  \A t \in Tsn : (\A s \in Servers : Committed(s, t)) =>
    \A s, r \in Servers : Lines(s, t) = Lines(r, t) /\ srv[s].log[t].file = srv[r].log[t].file

\* A server commits a transaction only with every packet up to the number of
\* the COMMIT, each of them what a client sent under this number, whatever
\* crashed on the way: a queue that is sent again, packets resent for a commit
\* or by an integrity check, and a connection that was closed lose and mix up
\* none.
CommitsComplete ==
  \A s \in Servers, t \in Tsn : Committed(s, t) =>
    /\ srv[s].log[t].data > 0
    /\ \A n \in 1..srv[s].log[t].data : srv[s].log[t].writes[n] \in Payloads[n]

\* What a server has committed it keeps on disk and in memory, with its lines
\* and its file, whatever comes for that number later: COMMIT again from a
\* client or from an integrity check, packets of a connection that is closed, a
\* KILL, a sweep, a crash, a restart in another role. (save() is one step here;
\* TransactionServer has crashes within it.)
CommitsKept ==
  [][\A s \in Servers, t \in Tsn : IsCommitted(disk[s].log[t]) =>
       /\ disk'[s].log[t] = disk[s].log[t]
       /\ srv'[s].up => srv'[s].log[t] = disk[s].log[t]]_vars

\* When commit() lets a primary with a backup commit, the backup has committed
\* the same lines: "if there is a backup server available, transactions on
\* primary will only be committed after the backup commits" (README.txt).
BackupFirst ==
  \A s \in Servers :
    In(s, "doCommit") /\ Top(s).ret = "yes" /\ Connection(s)
    => LET t == Top(s).tsn
       IN  Committed(Other(s), t) /\ Lines(Other(s), t) = Lines(s, t)

\* Nothing has gone wrong so far: no server crashed, no writeFile failed, and
\* no sweep ran.
NoFault == used.crashes = 0 /\ used.errors = 0 /\ used.sweeps = 0

\* The guarantee of BackupFirst, as long as nothing went wrong: however packets
\* were bundled, and whether the backup connects before, between or after the
\* packets of a transaction or while another commit() runs.
BackupFirstUntilFault == NoFault => BackupFirst

\* While a primary waits for its backup to commit, the backup has every packet
\* that is to be committed, because primaryOps() sent the queue first: "a
\* commit will force a sync between servers" (README.txt).  A server that
\* crashed or expired the transaction gets them after it answered.
CommitSyncs ==
  \A s \in Servers :
    /\ At(s, "await") /\ srv[s].role = "primary" /\ Connection(s)
    /\ used.crashes = 0 /\ used.sweeps = 0
    => LET t == Top(s).tsn
       IN  /\ srv[Other(s)].log[t] # NoTxn
           /\ \A n \in 1..Top(s).seq : srv[Other(s)].log[t].writes[n] = srv[s].log[t].writes[n]

\* integrityCheck() on a primary leaves a transaction behind only when the
\* backup has committed it too, so the whole check shows the backup has all.
CheckIsSound ==
  \A s \in Servers :
    In(s, "check") /\ srv[s].role = "primary" /\ Connection(s)
    => LET checked == Done(s) \ (Top(s).holder \ {t \in Top(s).holder :
                         Top(s).ret = "yes" /\ t = Highest(Top(s).holder)})
       IN  checked \subseteq Done(Other(s))

\* The same as long as nothing went wrong: a check that finds a backup which
\* connected late, also one that runs inside the commit() of another
\* transaction.
CheckIsSoundUntilFault == NoFault => CheckIsSound

\* Two servers are primary only while a KILL is on its way to one of them, if
\* timers do not run away from each other (Drift) and the operator starts no
\* second primary: a backup promotes itself only when the primary is gone or
\* about to step down.
KillPending ==
  \E s \in Servers : \E c \in orphans[s] : \E i \in DOMAIN c : c[i] = Request("KILL")

OnePrimary == (\A s \in Servers : IsPrimary(s)) => KillPending

\* One server is the primary and the other one is not.
OneServes == \E s \in Servers : IsPrimary(s) /\ ~IsPrimary(Other(s))

\* If no server crashes, one of them ends up as the primary and the other as
\* its backup, for good, or they wait for each other; also when each committed
\* what the other did not, so that each demotes the other once (restarted keeps
\* it from doing so twice).
SettlesWithoutCrash == [](used.crashes = 0) => <>[](MutualWait \/ OneServes)

\* When one server is gone the other becomes primary, however far it is with
\* its own checks, or ends with it (an unanswered PING ends the process).
TakesOver ==
  \A s \in Servers : ~srv[s].up ~> (srv[s].up \/ IsPrimary(Other(s)) \/ ~srv[Other(s)].up)

\* If both servers stay up in the end, the backup has whatever the primary
\* committed, also what was only in a queue that a crash has lost.
Replicated ==
  <>[]BothUp =>
    <>[](MutualWait \/ \A s \in Servers : IsPrimary(s) => Done(s) \subseteq Done(Other(s)))

\* A packet queued for a backup that is connected gets there ("the backup will
\* be at most 0.3s behind", README.txt), unless the connection breaks.
Backlog(s) == IsPrimary(s) /\ srv[s].alive /\ srv[s].queue # <<>>

QueueDrains == \A s \in Servers : Backlog(s) ~> (~Backlog(s) \/ MutualWait)

\* commit() on a backup that was demoted with packets in its queue calls itself
\* with nothing changed, until the stack overflows.
CallsItself(s) ==
  /\ At(s, "decide") /\ srv[s].role = "backup"
  /\ srv[s].alive /\ srv[s].queue # <<>>

\* A thread that talks to the other server comes back to io_service.run(),
\* whoever crashes, breaks off or steps down meanwhile: commit(), primaryOps()
\* and integrityCheck() wait for no answer that does not come.  Exactly two
\* ways not to come back are excused, threads that wait for each other and the
\* commit() that calls itself; and a process may be gone, but only after a
\* crash (its own, or the other server's, which ends a PING).  (Calls that went
\* on for ever would meet a PING of the other server in the end, and so the
\* wait that is excused: the property does not speak of those.)
HandlersReturn ==
  \A s \in Servers :
    (srv[s].stack # <<>>)
      ~> (Idle(s) \/ MutualWait \/ CallsItself(s) \/ (~srv[s].up /\ used.crashes > 0))

-----------------------------------------------------------------------------
(***************************************************************************)
(* What README.txt says and the code does not do.                          *)
(***************************************************************************)
\* A server gets stuck only if it is connected to itself (line 76); two
\* servers do not get stuck on each other.
NoMutualWait == ~MutualWait

\* A backup promotes itself when it cannot connect to the primary (line 72):
\* when one server is gone, the other becomes primary.
Takeover == \A s \in Servers : ~srv[s].up ~> (srv[s].up \/ IsPrimary(Other(s)))

\* A server started as backup will "resolve primary, and register with it" (line
\* 71): if both servers stay up in the end, one of them ends up as the primary
\* and the other as its backup, or they wait for each other.
EventuallyOne == <>[]BothUp => <>[](MutualWait \/ OneServes)

\* The integrity check fixes it when one server has commits that the other one
\* does not have (line 15): both end up with the same commits ...
Repaired == <>[]BothUp => <>[](MutualWait \/ \A s \in Servers : Done(s) = Done(Main))

\* ... and a server does not go down in the course of it.
ChecksFinish ==
  [][\A s \in Servers :
       (\E i \in DOMAIN srv[s].stack : srv[s].stack[i].op = "check") /\ ~srv'[s].up
       => used'.crashes # used.crashes]_vars
=============================================================================
