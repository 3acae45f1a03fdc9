---------------------------- MODULE DurableStore ----------------------------
(***************************************************************************)
(* What one server promises about what outlives it: a store of             *)
(* transactions and the files they write.  A transaction is absent, open   *)
(* or committed.  Open ones come and go and may leave lines in the files   *)
(* (a commit that was cut short leaves some); a committed one is fixed for *)
(* good, its lines are in its file, and no more lines are ever written for *)
(* it.                                                                     *)
(***************************************************************************)
EXTENDS Sequences

CONSTANTS Tsn, Files, Blocks

VARIABLES store, files

vars == <<store, files>>

Absent == [state |-> "absent"]

Open == [state |-> "open"]

\* A committed transaction, the file it wrote and what it wrote there.
Committed == [state : {"committed"}, file : Files, block : Blocks]

Init ==
  /\ store = [t \in Tsn |-> Absent]
  /\ files = [f \in Files |-> <<>>]

\* Lines are appended for a transaction that is not committed.
AppendBlock ==
  /\ \E f \in Files, b \in Blocks :
       /\ store[b.tsn] = Open
       /\ files' = [files EXCEPT ![f] = Append(@, b)]
  /\ UNCHANGED store

\* Transaction t becomes committed; its lines are already in its file.
Commits(t) ==
  /\ store[t] = Open
  /\ store'[t] \in Committed
  /\ \E i \in DOMAIN files[store'[t].file] :
       files[store'[t].file][i] = store'[t].block

\* Transaction t comes or goes without having been committed.
ComesOrGoes(t) == store[t] \in {Absent, Open} /\ store'[t] \in {Absent, Open}

\* The log is saved as a whole: several open transactions may change together,
\* and at most one of them becomes committed.
UpdateStore ==
  /\ DOMAIN store' = Tsn
  /\ \A t \in Tsn : store'[t] = store[t] \/ ComesOrGoes(t) \/ Commits(t)
  /\ \A t, u \in Tsn : Commits(t) /\ Commits(u) => t = u
  /\ UNCHANGED files

Next == AppendBlock \/ UpdateStore

Spec == Init /\ [][Next]_vars
=============================================================================
