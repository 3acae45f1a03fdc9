--------------------------- MODULE ResendLoopProofs ---------------------------
(***************************************************************************)
(* The loops of canCommit and sendACK_RESEND compute Fetch and CanCommit,  *)
(* for transactions of any length.                                         *)
(***************************************************************************)
EXTENDS ResendLoop, SequenceTheorems, TLAPS

\* The numbers below n without a packet.
Holes(n) == {m \in SeqNo \ Written(x) : m < n}

Increasing(s) == \A k, m \in DOMAIN s : k < m => s[k] < s[m]

Decreasing(s) == \A k, m \in DOMAIN s : k < m => s[k] > s[m]

LoopTypes ==
  /\ commit_seq \in SeqNo
  /\ pc \in {"walk", "gap", "tail", "resend", "done"}
  /\ rest \subseteq Keys(x)
  /\ current \in {-1, 0} \cup Written(x)
  /\ i \in Int
  /\ fetch \in Seq(Int)
  /\ asked \in Seq(Int)

\* The walk has passed the keys up to current, which is -1 also before the
\* first step, and has collected the holes below it.  The inner loop is at i,
\* and so far there is no key between current and i.
WalkInv ==
  /\ pc \in {"walk", "gap"} =>
       /\ \A k \in Keys(x) : k > current => k \in rest
       /\ \A k \in rest : k > current \/ (k = -1 /\ current = -1 /\ fetch = <<>>)
  /\ pc = "walk" => Members(fetch) = Holes(current)
  /\ pc = "gap" =>
       /\ Members(fetch) = Holes(i)
       /\ i > current
       /\ \A k \in rest : i <= k \/ k = -1
       /\ -1 \in rest => i = 0

\* Every key is visited, and the loop after the walk has collected the holes
\* up to i.
TailInv ==
  pc = "tail" =>
    /\ \A k \in Keys(x) : k <= current
    /\ current <= i
    /\ i = current \/ i <= commit_seq
    /\ Members(fetch) = Holes(i + 1)

\* What is left of fetch is below what was asked for.
ResendInv ==
  pc \in {"resend", "done"} =>
    /\ canCommit = CanCommit(x, commit_seq)
    /\ Members(fetch) \cup Members(asked) = Fetch(x, commit_seq)
    /\ \A k \in DOMAIN fetch, m \in DOMAIN asked : fetch[k] < asked[m]

Orders ==
  /\ Increasing(fetch)
  /\ Decreasing(asked)
  /\ pc \in {"walk", "gap", "tail"} => asked = <<>>
  /\ pc = "done" => fetch = <<>>

LoopInv == LoopTypes /\ WalkInv /\ TailInv /\ ResendInv /\ Orders

-----------------------------------------------------------------------------
LEMMA MembersAppend ==
  ASSUME NEW s \in Seq(Int), NEW e \in Int
  PROVE  Members(Append(s, e)) = Members(s) \cup {e}
<1>1. DOMAIN Append(s, e) = DOMAIN s \cup {Len(s) + 1}
  BY AppendProperties, LenProperties
<1>2. \A k \in DOMAIN s : Append(s, e)[k] = s[k]
  BY AppendProperties, LenProperties
<1>3. Append(s, e)[Len(s) + 1] = e
  BY AppendProperties
<1> QED
  BY <1>1, <1>2, <1>3 DEF Members

LEMMA IncreasingAppend ==
  ASSUME NEW s \in Seq(Int), NEW e \in Int, Increasing(s), \A m \in Members(s) : m < e
  PROVE  Increasing(Append(s, e))
<1>1. DOMAIN Append(s, e) = 1..(Len(s) + 1) /\ DOMAIN s = 1..Len(s) /\ Len(s) \in Nat
  BY AppendProperties, LenProperties
<1>2. \A k \in DOMAIN s : Append(s, e)[k] = s[k] /\ s[k] < e
  BY AppendProperties, LenProperties DEF Members
<1>3. Append(s, e)[Len(s) + 1] = e
  BY AppendProperties
<1> QED
  BY <1>1, <1>2, <1>3 DEF Increasing

LEMMA DecreasingAppend ==
  ASSUME NEW s \in Seq(Int), NEW e \in Int, Decreasing(s), \A m \in Members(s) : e < m
  PROVE  Decreasing(Append(s, e))
<1>1. DOMAIN Append(s, e) = 1..(Len(s) + 1) /\ DOMAIN s = 1..Len(s) /\ Len(s) \in Nat
  BY AppendProperties, LenProperties
<1>2. \A k \in DOMAIN s : Append(s, e)[k] = s[k] /\ e < s[k]
  BY AppendProperties, LenProperties DEF Members
<1>3. Append(s, e)[Len(s) + 1] = e
  BY AppendProperties
<1> QED
  BY <1>1, <1>2, <1>3 DEF Decreasing

\* Popping the last element of a sequence.
LEMMA Pop ==
  ASSUME NEW s \in Seq(Int), s # <<>>
  PROVE  LET f == SubSeq(s, 1, Len(s) - 1)
         IN  /\ f \in Seq(Int)
             /\ Len(s) \in Nat \ {0}
             /\ s[Len(s)] \in Int
             /\ DOMAIN f = 1..(Len(s) - 1)
             /\ DOMAIN s = 1..Len(s)
             /\ \A k \in DOMAIN f : f[k] = s[k]
             /\ Members(f) \cup {s[Len(s)]} = Members(s)
<1> DEFINE f == SubSeq(s, 1, Len(s) - 1)
<1>1. Len(s) \in Nat \ {0} /\ DOMAIN s = 1..Len(s) /\ \A k \in 1..Len(s) : s[k] \in Int
  BY EmptySeq, LenProperties, ElementOfSeq
<1>2. f \in Seq(Int) /\ Len(f) = Len(s) - 1 /\ \A k \in 1..(Len(s) - 1) : f[k] = s[k]
  <2>1. \A k \in 1..(Len(s) - 1) : s[k] \in Int
    BY <1>1
  <2>2. /\ f \in Seq(Int)
        /\ Len(f) = IF 1 <= Len(s) - 1 THEN (Len(s) - 1) - 1 + 1 ELSE 0
        /\ \A k \in 1..((Len(s) - 1) - 1 + 1) : f[k] = s[1 + k - 1]
    BY <1>1, <2>1, SubSeqProperties
  <2> QED
    BY <1>1, <2>2
<1>3. DOMAIN f = 1..(Len(s) - 1)
  BY <1>2, LenProperties
<1>4. Members(f) \cup {s[Len(s)]} = Members(s)
  <2> HIDE DEF f
  <2>1. Members(f) = {s[k] : k \in 1..(Len(s) - 1)}
    BY <1>2, <1>3 DEF Members
  <2>2. Members(s) = {s[k] : k \in 1..Len(s)}
    BY <1>1 DEF Members
  <2> QED
    BY <1>1, <2>1, <2>2
<1> QED
  BY <1>1, <1>2, <1>3, <1>4

-----------------------------------------------------------------------------
LEMMA LoopStart == Init => LoopInv
<1> SUFFICES ASSUME Init PROVE LoopInv
  OBVIOUS
<1>1. Members(<<>>) = {}
  BY DEF Members
<1>2. Holes(-1) = {}
  BY MaxSeqAssumption DEF Holes, SeqNo
<1>3. LoopTypes
  BY MaxSeqAssumption DEF Init, LoopTypes, Keys, SeqNo
<1>4. WalkInv /\ TailInv /\ ResendInv /\ Orders
  BY <1>1, <1>2, MaxSeqAssumption
     DEF Init, WalkInv, TailInv, ResendInv, Orders, Increasing, Decreasing, Keys, Written, SeqNo
<1> QED
  BY <1>3, <1>4 DEF LoopInv

LEMMA NextKeyKeeps == LoopInv /\ NextKey => LoopInv'
<1> SUFFICES ASSUME LoopInv, NextKey PROVE LoopInv'
  OBVIOUS
<1> USE MaxSeqAssumption DEF LoopInv
<1>1. PICK k \in First(rest) : current = k - 1 /\ current' = k /\ rest' = rest \ {k}
  BY DEF NextKey
<1>2. /\ pc = "walk" /\ UNCHANGED <<x, commit_seq, pc, i, fetch, canCommit, asked>>
      /\ k \in rest /\ \A m \in rest : k <= m
      /\ k \in Int /\ rest \subseteq Keys(x)
  BY <1>1 DEF NextKey, First, LoopTypes, Keys, Written, SeqNo
<1>3. k # -1
  BY <1>1, <1>2 DEF LoopTypes, Written, SeqNo
<1>4. LoopTypes'
  BY <1>1, <1>2, <1>3 DEF LoopTypes, Keys, Written
<1>5. Holes(k) = Holes(current)
  <2>1. current \in Int /\ current \notin SeqNo \ Written(x)
    BY DEF LoopTypes, Written, SeqNo
  <2>2. \A m \in SeqNo \ Written(x) : m < k <=> m < current
    BY <1>1, <1>2, <2>1 DEF SeqNo
  <2> QED
    BY <2>2 DEF Holes
<1>6. WalkInv'
  BY <1>1, <1>2, <1>3, <1>5 DEF WalkInv, Keys, Written, SeqNo, Holes, Members
<1>7. TailInv' /\ ResendInv' /\ Orders'
  BY <1>2 DEF TailInv, ResendInv, Orders, Increasing, Decreasing
<1> QED
  BY <1>4, <1>6, <1>7

LEMMA EnterGapKeeps == LoopInv /\ EnterGap => LoopInv'
<1> SUFFICES ASSUME LoopInv, EnterGap PROVE LoopInv'
  OBVIOUS
<1> USE MaxSeqAssumption DEF LoopInv
<1>1. /\ pc = "walk" /\ pc' = "gap" /\ i' = current + 1
      /\ UNCHANGED <<x, commit_seq, rest, current, fetch, canCommit, asked>>
  BY DEF EnterGap
<1>2. current \in Int /\ current \notin SeqNo \ Written(x) /\ \A k \in rest : k \in Int
  BY DEF LoopTypes, Keys, Written, SeqNo
<1>3. LoopTypes'
  BY <1>1, <1>2 DEF LoopTypes
<1>4. Holes(current + 1) = Holes(current)
  <2>1. \A m \in SeqNo \ Written(x) : m < current + 1 <=> m < current
    BY <1>2 DEF SeqNo
  <2> QED
    BY <2>1 DEF Holes
<1>5. Members(fetch)' = Holes(i)'
  BY <1>1, <1>4 DEF WalkInv, Holes, Members
<1>6. WalkInv'
  BY <1>1, <1>2, <1>5 DEF WalkInv, Keys, Written, SeqNo, LoopTypes
<1>7. TailInv' /\ ResendInv' /\ Orders'
  BY <1>1 DEF TailInv, ResendInv, Orders, Increasing, Decreasing
<1> QED
  BY <1>3, <1>6, <1>7

LEMMA PushGapKeeps == LoopInv /\ PushGap => LoopInv'
<1> SUFFICES ASSUME LoopInv, PushGap PROVE LoopInv'
  OBVIOUS
<1> USE MaxSeqAssumption DEF LoopInv
<1>1. PICK k \in First(rest) : i < k
  BY DEF PushGap
<1>2. /\ pc = "gap" /\ fetch' = Append(fetch, i) /\ i' = i + 1
      /\ UNCHANGED <<x, commit_seq, pc, rest, current, canCommit, asked>>
  BY DEF PushGap
<1>3. /\ i \in Int /\ k \in Int /\ current \in Int
      /\ fetch \in Seq(Int) /\ k \in rest /\ k \in Keys(x)
      /\ \A m \in rest : m \in Int /\ k <= m
  BY DEF First, LoopTypes, Keys, Written, SeqNo
<1>4. /\ \A m \in Keys(x) : m > current => m \in rest
      /\ Members(fetch) = Holes(i) /\ i > current
      /\ \A m \in rest : i <= m \/ m = -1
      /\ -1 \in rest => i = 0
      /\ current >= -1
  BY <1>2 DEF WalkInv, LoopTypes, Written, SeqNo
<1>5. -1 \notin rest /\ i >= 1
  BY <1>1, <1>3, <1>4 DEF Keys
<1>6. i \in SeqNo \ Written(x)
  BY <1>1, <1>3, <1>4, <1>5 DEF Keys, Written, SeqNo
<1>7. Holes(i + 1) = Holes(i) \cup {i}
  BY <1>3, <1>6 DEF Holes, SeqNo
<1>8. Members(Append(fetch, i)) = Holes(i + 1)
  BY <1>3, <1>4, <1>7, MembersAppend
<1>9. Increasing(Append(fetch, i))
  <2>1. \A m \in Members(fetch) : m < i
    BY <1>4 DEF Holes
  <2> QED
    BY <1>3, <2>1, IncreasingAppend DEF Orders
<1>10. LoopTypes'
  BY <1>2, <1>3, AppendProperties DEF LoopTypes
<1>11. Members(fetch)' = Holes(i)'
  BY <1>2, <1>8 DEF Holes, Members
<1>12. WalkInv'
  BY <1>1, <1>2, <1>3, <1>4, <1>5, <1>11 DEF WalkInv, Keys, Written
<1>13. TailInv' /\ ResendInv' /\ Orders'
  BY <1>2, <1>9 DEF TailInv, ResendInv, Orders, Increasing, Decreasing
<1> QED
  BY <1>10, <1>12, <1>13

LEMMA LeaveGapKeeps == LoopInv /\ LeaveGap => LoopInv'
<1> SUFFICES ASSUME LoopInv, LeaveGap PROVE LoopInv'
  OBVIOUS
<1> USE MaxSeqAssumption DEF LoopInv
<1>1. PICK k \in First(rest) : i >= k /\ current' = k /\ rest' = rest \ {k}
  BY DEF LeaveGap
<1>2. /\ pc = "gap" /\ pc' = "walk"
      /\ UNCHANGED <<x, commit_seq, i, fetch, canCommit, asked>>
  BY DEF LeaveGap
<1>3. /\ i \in Int /\ k \in Int /\ current \in Int
      /\ k \in rest /\ k \in Keys(x)
      /\ \A m \in rest : m \in Int /\ k <= m
      /\ \A m \in Keys(x) : m \in Int
  BY DEF First, LoopTypes, Keys, Written, SeqNo
<1>4. /\ \A m \in Keys(x) : m > current => m \in rest
      /\ \A m \in rest : m > current \/ (m = -1 /\ current = -1 /\ fetch = <<>>)
      /\ Members(fetch) = Holes(i)
      /\ \A m \in rest : i <= m \/ m = -1
      /\ -1 \in rest => i = 0
  BY <1>2 DEF WalkInv
<1>5. Holes(k) = Holes(i)
  <2>1. CASE k = -1
    BY <1>3, <1>4, <2>1 DEF Holes, SeqNo
  <2>2. CASE k # -1
    BY <1>1, <1>3, <1>4, <2>2
  <2> QED
    BY <2>1, <2>2
<1>6. LoopTypes'
  BY <1>1, <1>2, <1>3 DEF LoopTypes, Keys, Written
<1>7. Members(fetch)' = Holes(current)'
  BY <1>1, <1>2, <1>4, <1>5 DEF Holes, Members
<1>8. (\A m \in Keys(x) : m > current => m \in rest)'
  BY <1>1, <1>2, <1>3, <1>4 DEF Keys, Written
<1>9. (\A m \in rest : m > current)'
  BY <1>1, <1>3
<1>10. WalkInv'
  BY <1>2, <1>7, <1>8, <1>9 DEF WalkInv
<1>11. TailInv' /\ ResendInv' /\ Orders'
  BY <1>2 DEF TailInv, ResendInv, Orders, Increasing, Decreasing
<1> QED
  BY <1>6, <1>10, <1>11

LEMMA EnterTailKeeps == LoopInv /\ EnterTail => LoopInv'
<1> SUFFICES ASSUME LoopInv, EnterTail PROVE LoopInv'
  OBVIOUS
<1> USE MaxSeqAssumption DEF LoopInv
<1>1. /\ pc = "walk" /\ pc' = "tail" /\ i' = current /\ rest = {}
      /\ UNCHANGED <<x, commit_seq, rest, current, fetch, canCommit, asked>>
  BY DEF EnterTail
<1>2. /\ current \in Int /\ current \notin SeqNo \ Written(x)
      /\ \A k \in Keys(x) : k \in Int /\ k <= current
  BY <1>1 DEF LoopTypes, Keys, Written, SeqNo, WalkInv
<1>3. LoopTypes'
  BY <1>1, <1>2 DEF LoopTypes
<1>4. Holes(current + 1) = Holes(current)
  <2>1. \A m \in SeqNo \ Written(x) : m < current + 1 <=> m < current
    BY <1>2 DEF SeqNo
  <2> QED
    BY <2>1 DEF Holes
<1>5. Members(fetch)' = Holes(i + 1)'
  BY <1>1, <1>4 DEF WalkInv, Holes, Members
<1>6. TailInv'
  BY <1>1, <1>2, <1>5 DEF TailInv, Keys, Written
<1>7. WalkInv' /\ ResendInv' /\ Orders'
  BY <1>1 DEF WalkInv, ResendInv, Orders, Increasing, Decreasing
<1> QED
  BY <1>3, <1>6, <1>7

LEMMA PushTailKeeps == LoopInv /\ PushTail => LoopInv'
<1> SUFFICES ASSUME LoopInv, PushTail PROVE LoopInv'
  OBVIOUS
<1> USE MaxSeqAssumption DEF LoopInv
<1>1. /\ pc = "tail" /\ i < commit_seq /\ fetch' = Append(fetch, i + 1) /\ i' = i + 1
      /\ UNCHANGED <<x, commit_seq, pc, rest, current, canCommit, asked>>
  BY DEF PushTail
<1>2. /\ i \in Int /\ commit_seq \in SeqNo /\ current \in Int /\ fetch \in Seq(Int)
      /\ \A k \in Keys(x) : k \in Int /\ k <= current
      /\ current <= i /\ Members(fetch) = Holes(i + 1)
  BY <1>1 DEF LoopTypes, Keys, Written, SeqNo, TailInv
<1>3. i + 1 \in SeqNo \ Written(x)
  BY <1>1, <1>2 DEF Keys, Written, SeqNo
<1>4. Holes(i + 2) = Holes(i + 1) \cup {i + 1}
  BY <1>2, <1>3 DEF Holes, SeqNo
<1>5. Members(Append(fetch, i + 1)) = Holes(i + 2)
  <2>1. i + 1 \in Int
    BY <1>2
  <2>2. Members(Append(fetch, i + 1)) = Members(fetch) \cup {i + 1}
    BY <1>2, <2>1, MembersAppend
  <2> QED
    BY <1>2, <1>4, <2>2
<1>6. Increasing(Append(fetch, i + 1))
  <2>1. \A m \in Members(fetch) : m < i + 1
    BY <1>2 DEF Holes
  <2> QED
    BY <1>2, <2>1, IncreasingAppend DEF Orders
<1>7. LoopTypes'
  BY <1>1, <1>2, AppendProperties DEF LoopTypes
<1>8. Members(fetch)' = Holes(i + 1)'
  <2>1. i' + 1 = i + 2
    BY <1>1, <1>2
  <2> QED
    BY <1>1, <1>5, <2>1 DEF Holes, Members
<1>9. TailInv'
  BY <1>1, <1>2, <1>8 DEF TailInv, Keys, Written, SeqNo
<1>10. WalkInv' /\ ResendInv' /\ Orders'
  BY <1>1, <1>6 DEF WalkInv, ResendInv, Orders, Increasing, Decreasing
<1> QED
  BY <1>7, <1>9, <1>10

LEMMA ReturnKeeps == LoopInv /\ Return => LoopInv'
<1> SUFFICES ASSUME LoopInv, Return PROVE LoopInv'
  OBVIOUS
<1> USE MaxSeqAssumption DEF LoopInv
<1>1. /\ pc = "tail" /\ i >= commit_seq /\ pc' = "resend"
      /\ canCommit' = (fetch = <<>> /\ commit_seq # 0)
      /\ UNCHANGED <<x, commit_seq, rest, current, i, fetch, asked>>
  BY DEF Return
<1>2. /\ i \in Int /\ commit_seq \in SeqNo /\ current \in {-1, 0} \cup Written(x)
      /\ \A k \in Keys(x) : k \in Int /\ k <= current
      /\ current <= i /\ (i = current \/ i <= commit_seq)
      /\ Members(fetch) = Holes(i + 1)
      /\ fetch \in Seq(Int) /\ asked = <<>>
  BY <1>1 DEF LoopTypes, Keys, Written, SeqNo, TailInv, Orders
<1>3. Holes(i + 1) = Fetch(x, commit_seq)
  <2>1. ASSUME NEW m \in SeqNo \ Written(x), m < i + 1
        PROVE  m <= commit_seq \/ \E j \in Written(x) : m < j
    BY <1>1, <1>2, <2>1 DEF SeqNo, Written
  <2>2. ASSUME NEW m \in SeqNo \ Written(x), m <= commit_seq \/ \E j \in Written(x) : m < j
        PROVE  m < i + 1
    BY <1>1, <1>2, <2>2 DEF SeqNo, Written, Keys
  <2> QED
    BY <2>1, <2>2 DEF Holes, Fetch
<1>4. fetch = <<>> <=> Members(fetch) = {}
  <2>1. ASSUME fetch # <<>> PROVE fetch[Len(fetch)] \in Members(fetch)
    BY <1>2, <2>1, Pop DEF Members
  <2> QED
    BY <2>1 DEF Members
<1>5. canCommit' = CanCommit(x, commit_seq)
  BY <1>1, <1>2, <1>3, <1>4 DEF CanCommit
<1>6. Members(asked) = {}
  BY <1>2 DEF Members
<1>7. LoopTypes'
  BY <1>1 DEF LoopTypes
<1>8. ResendInv'
  BY <1>1, <1>2, <1>3, <1>5, <1>6 DEF ResendInv, Members
<1>9. WalkInv' /\ TailInv' /\ Orders'
  BY <1>1, <1>2 DEF WalkInv, TailInv, Orders, Increasing, Decreasing
<1> QED
  BY <1>7, <1>8, <1>9

LEMMA AskResendKeeps == LoopInv /\ AskResend => LoopInv'
<1> SUFFICES ASSUME LoopInv, AskResend PROVE LoopInv'
  OBVIOUS
<1> USE DEF LoopInv
<1> DEFINE last == fetch[Len(fetch)]
           left == SubSeq(fetch, 1, Len(fetch) - 1)
<1>1. /\ pc = "resend" /\ fetch # <<>> /\ asked' = Append(asked, last) /\ fetch' = left
      /\ UNCHANGED <<x, commit_seq, pc, rest, current, i, canCommit>>
  BY DEF AskResend
<1>2. fetch \in Seq(Int) /\ asked \in Seq(Int)
  BY DEF LoopTypes
<1>3. /\ left \in Seq(Int)
      /\ Len(fetch) \in Nat \ {0}
      /\ last \in Int
      /\ DOMAIN left = 1..(Len(fetch) - 1)
      /\ DOMAIN fetch = 1..Len(fetch)
      /\ \A k \in DOMAIN left : left[k] = fetch[k]
      /\ Members(left) \cup {last} = Members(fetch)
  BY <1>1, <1>2, Pop
<1> HIDE DEF last, left
<1>4. Members(Append(asked, last)) = Members(asked) \cup {last}
  BY <1>2, <1>3, MembersAppend
<1>5. /\ \A k \in DOMAIN left : left[k] < last
      /\ Increasing(left)
  <2>1. last = fetch[Len(fetch)]
    BY DEF last
  <2> QED
    BY <1>3, <2>1 DEF Orders, Increasing
<1>6. \A m \in Members(asked) : last < m
  <2>1. last = fetch[Len(fetch)]
    BY DEF last
  <2> QED
    BY <1>1, <1>3, <2>1 DEF ResendInv, Members
<1>7. Decreasing(Append(asked, last))
  BY <1>2, <1>3, <1>6, DecreasingAppend DEF Orders
<1>8. \A k \in DOMAIN left, m \in DOMAIN Append(asked, last) : left[k] < Append(asked, last)[m]
  <2>1. \A m \in DOMAIN Append(asked, last) :
          Append(asked, last)[m] \in Members(asked) \cup {last}
    BY <1>4 DEF Members
  <2>2. \A k \in DOMAIN left : \A m \in Members(asked) : left[k] < m
    BY <1>1, <1>3 DEF ResendInv, Members
  <2> QED
    BY <1>5, <2>1, <2>2
<1>9. LoopTypes'
  BY <1>1, <1>2, <1>3, AppendProperties DEF LoopTypes
<1>10. Members(left) \cup Members(Append(asked, last)) = Fetch(x, commit_seq)
  BY <1>1, <1>3, <1>4 DEF ResendInv
<1>11. ResendInv'
  BY <1>1, <1>8, <1>10 DEF ResendInv, Members
<1>12. WalkInv' /\ TailInv' /\ Orders'
  BY <1>1, <1>5, <1>7 DEF WalkInv, TailInv, Orders, Increasing, Decreasing
<1> QED
  BY <1>9, <1>11, <1>12

LEMMA AllAskedKeeps == LoopInv /\ AllAsked => LoopInv'
<1> SUFFICES ASSUME LoopInv, AllAsked PROVE LoopInv'
  OBVIOUS
<1>1. /\ pc = "resend" /\ pc' = "done" /\ fetch = <<>>
      /\ UNCHANGED <<x, commit_seq, rest, current, i, fetch, canCommit, asked>>
  BY DEF AllAsked
<1> QED
  BY <1>1 DEF LoopInv, LoopTypes, WalkInv, TailInv, ResendInv, Orders,
              Increasing, Decreasing, Members

LEMMA LoopStep == LoopInv /\ [Next]_vars => LoopInv'
<1> SUFFICES ASSUME LoopInv, [Next]_vars PROVE LoopInv'
  OBVIOUS
<1>1. CASE UNCHANGED vars
  BY <1>1 DEF vars, LoopInv, LoopTypes, WalkInv, TailInv, ResendInv, Orders,
              Increasing, Decreasing, Members, Holes
<1>2. CASE Next
  BY <1>1, <1>2, NextKeyKeeps, EnterGapKeeps, PushGapKeeps, LeaveGapKeeps, EnterTailKeeps,
     PushTailKeeps, ReturnKeeps, AskResendKeeps, AllAskedKeeps DEF Next, Terminated
<1> QED
  BY <1>1, <1>2

\* The inductive invariant of the loops of canCommit and sendACK_RESEND: what
\* fetch and asked hold at each point of them.
THEOREM LoopSafety == Spec => []LoopInv
  BY LoopStart, LoopStep, PTL DEF Spec

\* The walk of LogHandler::canCommit over the keys, with its two inner loops,
\* returns CanCommit for transactions of any length and any holes.
THEOREM ReturnsWhatItShould == Spec => []ReturnsCanCommit
<1>1. LoopInv => ReturnsCanCommit
  BY DEF LoopInv, ResendInv, ReturnsCanCommit
<1> QED
  BY <1>1, LoopSafety, PTL

\* When Session::sendACK_RESEND is through, the client was asked for exactly the
\* missing packets, each once, the highest first.
THEOREM AsksForAllMissing == Spec => []AsksForMissing
<1>1. LoopInv => AsksForMissing
  <2> SUFFICES ASSUME LoopInv, pc = "done"
               PROVE  Members(asked) = Fetch(x, commit_seq) /\ Decreasing(asked)
    BY DEF AsksForMissing, Decreasing
  <2>1. Members(fetch) = {}
    BY DEF LoopInv, Orders, Members
  <2> QED
    BY <2>1 DEF LoopInv, ResendInv, Orders
<1> QED
  BY <1>1, LoopSafety, PTL
=============================================================================
