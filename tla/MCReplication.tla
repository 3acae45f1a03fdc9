---------------------------- MODULE MCReplication ----------------------------
(***************************************************************************)
(* Instances of Replication for TLC: what clients send, and servers that   *)
(* are started with different commits.                                     *)
(***************************************************************************)
EXTENDS Replication

\* Clients send packet n with the same payload whenever they send it, and two
\* packets with different ones.
Repeats ==
  CHOOSE f \in [SeqNo -> {{d} : d \in Data}] : \A n, m \in SeqNo : n # m => f[n] # f[m]

\* Clients may send another payload the second time.
Anything == [n \in SeqNo |-> Data]

(***************************************************************************)
(* Both servers started again after each was primary while the other was   *)
(* down: Main committed 1 and 2, the other one 2 and 3 (README.txt, lines  *)
(* 11 to 14), every packet of each.  2 they committed together.            *)
(***************************************************************************)
Complete ==
  [ NewEntry(CHOOSE f \in Files : TRUE) EXCEPT
      !.status = "COMMITTED", !.data = MaxSeq,
      !.writes = [n \in SeqNo |-> CHOOSE d \in Payloads[n] : TRUE] ]

Conflict ==
  [s \in Servers |-> [t \in Tsn |->
     IF t \in (IF s = Main THEN {1, 2} ELSE {2, 3}) THEN Complete ELSE NoTxn]]

ConflictSpec == InitWith(Conflict) /\ [][Next]_vars /\ Fairness

\* "if each server contains different commits, they will get stuck in a loop
\* ... each will think it has the most recent and promote itself to backup and
\* demote the other" (README.txt, lines 11 to 13): started so, each of the two
\* is primary again and again, unless they wait for each other.
LoopsOnConflict == <>MutualWait \/ \A s \in Servers : []<>IsPrimary(s)
=============================================================================
