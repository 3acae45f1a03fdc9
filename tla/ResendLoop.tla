----------------------------- MODULE ResendLoop -----------------------------
(***************************************************************************)
(* LogHandler::canCommit as it runs, followed by Session::sendACK_RESEND,  *)
(* for one transaction and one commit number.                              *)
(*                                                                         *)
(* canCommit walks the keys of the transaction's map in order and pushes   *)
(* the numbers it finds missing on the vector fetch; sendACK_RESEND pops   *)
(* them and asks the client for each.  LogHandler.tla states the outcome   *)
(* (Fetch, CanCommit) without the loop; this module shows that the loop    *)
(* computes it.                                                            *)
(***************************************************************************)
EXTENDS LogHandler, Sequences

VARIABLES
  x,          \* the transaction
  commit_seq, \* the number to commit
  pc,         \* "walk": the outer loop; "gap": its inner loop; "tail": the
              \* loop after it; "resend": sendACK_RESEND's; "done"
  rest,       \* the keys of the map that it_log has still to reach
  current,    \* the key visited last, -1 at first
  i,          \* the inner loops' counter
  fetch,      \* the vector
  canCommit,  \* the value canCommit returned
  asked       \* the numbers of the ACK_RESENDs sent, in order

vars == <<x, commit_seq, pc, rest, current, i, fetch, canCommit, asked>>

Keys(y) == {-1, 0} \cup Written(y)

Init ==
  /\ x \in [ status : {"WAITING"}, data : SeqNo, z : {"NEW_TXN"}, file : Files,
             writes : [SeqNo -> Data \cup {NoData}] ]
  /\ commit_seq = x.data
  /\ pc = "walk"
  /\ rest = Keys(x)
  /\ current = -1
  /\ i = 0
  /\ fetch = <<>>
  /\ canCommit = FALSE
  /\ asked = <<>>

\* The key it_log points to.  (A set, with one element unless the walk is over.)
First(S) == {k \in S : \A m \in S : k <= m}

\* It follows the one before: nothing is missing.
NextKey ==
  /\ pc = "walk"
  /\ \E k \in First(rest) :
       /\ current = k - 1
       /\ current' = k
       /\ rest' = rest \ {k}
  /\ UNCHANGED <<x, commit_seq, pc, i, fetch, canCommit, asked>>

\* Mutant of EnterGap: the inner loop starts at the key visited last.
EnterGapEarly ==
  /\ pc = "walk"
  /\ \E k \in First(rest) : current # k - 1
  /\ i' = current
  /\ pc' = "gap"
  /\ UNCHANGED <<x, commit_seq, rest, current, fetch, canCommit, asked>>

\* It does not: for (i = current+1; i < it_log->first; i++).  At key -1 this
\* is entered too, with nothing to push.
EnterGap ==
  /\ pc = "walk"
  /\ \E k \in First(rest) : current # k - 1
  /\ i' = current + 1
  /\ pc' = "gap"
  /\ UNCHANGED <<x, commit_seq, rest, current, fetch, canCommit, asked>>

PushGap ==
  /\ pc = "gap"
  /\ \E k \in First(rest) : i < k
  /\ fetch' = Append(fetch, i)
  /\ i' = i + 1
  /\ UNCHANGED <<x, commit_seq, pc, rest, current, canCommit, asked>>

LeaveGap ==
  /\ pc = "gap"
  /\ \E k \in First(rest) :
       /\ i >= k
       /\ current' = k
       /\ rest' = rest \ {k}
  /\ pc' = "walk"
  /\ UNCHANGED <<x, commit_seq, i, fetch, canCommit, asked>>

\* Mutant of EnterTail: the loop after the walk starts one too far.
EnterTailLate ==
  /\ pc = "walk"
  /\ rest = {}
  /\ i' = current + 1
  /\ pc' = "tail"
  /\ UNCHANGED <<x, commit_seq, rest, current, fetch, canCommit, asked>>

\* The walk is over: for (i = current; i < commit_seq; i++) push i+1.
EnterTail ==
  /\ pc = "walk"
  /\ rest = {}
  /\ i' = current
  /\ pc' = "tail"
  /\ UNCHANGED <<x, commit_seq, rest, current, fetch, canCommit, asked>>

PushTail ==
  /\ pc = "tail"
  /\ i < commit_seq
  /\ fetch' = Append(fetch, i + 1)
  /\ i' = i + 1
  /\ UNCHANGED <<x, commit_seq, pc, rest, current, canCommit, asked>>

Return ==
  /\ pc = "tail"
  /\ i >= commit_seq
  /\ canCommit' = (fetch = <<>> /\ commit_seq # 0)
  /\ pc' = "resend"
  /\ UNCHANGED <<x, commit_seq, rest, current, i, fetch, asked>>

\* while (!stack.empty()): ask for the last number and pop it.
AskResend ==
  /\ pc = "resend"
  /\ fetch # <<>>
  /\ asked' = Append(asked, fetch[Len(fetch)])
  /\ fetch' = SubSeq(fetch, 1, Len(fetch) - 1)
  /\ UNCHANGED <<x, commit_seq, pc, rest, current, i, canCommit>>

AllAsked ==
  /\ pc = "resend"
  /\ fetch = <<>>
  /\ pc' = "done"
  /\ UNCHANGED <<x, commit_seq, rest, current, i, fetch, canCommit, asked>>

Terminated == pc = "done" /\ UNCHANGED vars

Next == \/ NextKey \/ EnterGap \/ PushGap \/ LeaveGap
        \/ EnterTail \/ PushTail \/ Return
        \/ AskResend \/ AllAsked \/ Terminated

Spec == Init /\ [][Next]_vars

-----------------------------------------------------------------------------
Members(s) == {s[k] : k \in DOMAIN s}

\* canCommit returns what LogHandler.tla says it does.
ReturnsCanCommit ==
  pc \in {"resend", "done"} => canCommit = CanCommit(x, commit_seq)

\* When sendACK_RESEND is through, the client was asked for every missing
\* packet, for no other, and for none twice, the highest number first.
AsksForMissing ==
  pc = "done" => /\ Members(asked) = Fetch(x, commit_seq)
                 /\ \A k, m \in DOMAIN asked : k < m => asked[k] > asked[m]
=============================================================================
