------------------------ MODULE RequestStreamProofs ------------------------
(***************************************************************************)
(* Theorems about RequestStream: for every sequence of packets and however *)
(* the network cuts the stream, handle_read executes the packets that were *)
(* sent, each once, in order and with its payload.                         *)
(*                                                                         *)
(* The argument is about what is unread, in the buffer and in the network: *)
(* something that is left of the last packet, in which no header and no    *)
(* delimiter is to be found, and behind it the packets that follow, whole  *)
(* except where a closed connection cut the last of them.                  *)
(***************************************************************************)
EXTENDS RequestStream, LinesProofs, FiniteSetTheorems

\* The bytes of packet i, one by one.
Length(i) == IF Sizes[i] = 0 THEN 7 ELSE 5 + Sizes[i]

Byte(i, k) ==
  IF k = 1 THEN Header(i)
  ELSE IF k = 2 \/ k = 4 THEN CR
  ELSE IF k = 3 \/ k = 5 THEN LF
  ELSE IF Sizes[i] = 0 THEN (IF k = 6 THEN CR ELSE LF)
  ELSE IF k < 5 + Sizes[i] THEN <<"body", i, k - 5>> ELSE LF

\* In w the packets from n + 1 to m are where p says, or would be if w were
\* not cut short.
Layout(w, p, n, m) ==
  /\ w \in Seq(Tokens) /\ p \in [Nat -> Int]
  /\ p[n + 1] >= 1 /\ Len(w) < p[m + 1]
  /\ \A i, j \in (n + 1)..(m + 1) : i <= j => p[i] <= p[j]
  /\ \A i \in (n + 1)..m : p[i + 1] = p[i] + Length(i)
  /\ \A i \in (n + 1)..m : \A k \in 1..Length(i) :
       p[i] + k - 1 <= Len(w) => w[p[i] + k - 1] = Byte(i, k)

\* The first r bytes of w are left of a packet before: no header, no
\* delimiter, and the end of a line.
Quiet(w, r) ==
  \A k \in 1..r : k <= Len(w) =>
    ~IsHeader(w[k]) /\ (w[k] = CR => k = 1) /\ (k = r => w[k] = LF)

\* An invalid header without a payload leaves a delimiter.  It is the last.
Leftover(w, n) ==
  /\ n = Len(Sizes) /\ n \in Invalid
  /\ \A k \in 1..4 : k <= Len(w) => w[k] = IF k = 1 \/ k = 3 THEN CR ELSE LF

Bad(n) == Cardinality(Invalid \cap 1..n)

\* Nothing is lost on a connection that is open.
Complete(w, p) == ~closed => Len(w) + 1 = p[sent + 1]

Types ==
  /\ sent \in 0..Len(Sizes) /\ closed \in BOOLEAN /\ refused \in Nat
  /\ at \in {"header", "payload", "ended"}
  /\ net \in Seq(Tokens) /\ b \in Seq(Tokens) /\ c \in Seq(Tokens)
  /\ executed \in Seq(Nat \X Seq(Tokens))

\* Every byte is of one of the first n packets.
Known(x, n) == \A k \in 1..Len(x) : x[k] \in Bytes(n)

\* n packets are done with.
Between(n, p) ==
  LET w == b \o net
  IN  /\ Layout(w, p, n, sent) /\ Complete(w, p)
      /\ ExecutedUpTo(n)
      /\ \/ Quiet(w, p[n + 1] - 1) /\ refused <= 2 * Bad(n)
         \/ Leftover(w, n) /\ p[n + 1] = 5 /\ refused < 2 * Bad(n)

AtHeader ==
  at = "header" =>
    /\ c = <<>> /\ packet = NoPacket
    /\ \E n \in 0..sent : \E p \in [Nat -> Int] : Between(n, p)

\* Of packet n the first f bytes of the payload are in the fragment.
Within(n, p, f) ==
  LET w == c \o net
  IN  /\ n \notin Invalid
      /\ f + 1 < Sizes[n]
      /\ packet = [id |-> n, fragment |-> Body(n, f), total |-> Sizes[n] - f]
      /\ b = <<>> /\ Len(c) <= Sizes[n] - f
      /\ Layout(w, p, n, sent) /\ Complete(w, p)
      /\ p[n + 1] = Sizes[n] - f + 1
      /\ \A k \in 1..(Sizes[n] - f) : k <= Len(w) => w[k] = Byte(n, 5 + f + k)
      /\ ExecutedUpTo(n - 1) /\ refused <= 2 * Bad(n - 1)

AtPayload ==
  at = "payload" =>
    \E n \in 1..sent : \E p \in [Nat -> Int] : \E f \in Nat : Within(n, p, f)

AtEnd ==
  at = "ended" => closed /\ \E n \in 0..sent : ExecutedUpTo(n) /\ refused <= 2 * Bad(n)

RequestInv ==
  /\ Types /\ Known(net, sent) /\ Known(b, sent) /\ Known(c, sent)
  /\ AtHeader /\ AtPayload /\ AtEnd

\* Helpers of the proofs: sequences and the positions of bytes.
LEMMA Reassociated ==
  ASSUME NEW S, NEW x \in Seq(S), NEW y \in Seq(S), NEW z \in Seq(S)
  PROVE  x \o (y \o z) = (x \o y) \o z
BY SMT

LEMMA PastHeader ==
  ASSUME NEW q \in Int, NEW d \in Int, NEW k \in Int, NEW l \in Int, q + 2 <= d
  PROVE  ((d + k) - q) + 1 >= k + 3 /\ (k = ((q + l) - d) - 1 => ((d + k) - q) + 1 = l)
OBVIOUS

LEMMA WithinPacket ==
  ASSUME NEW x \in Int, NEW l \in Nat, NEW k \in Nat, NEW e \in Nat,
         1 <= x, 1 <= k, k <= l, x + l <= e + 1
  PROVE  x + k - 1 <= e /\ x + k - 1 >= 1 /\ x + k - 1 \in Int
OBVIOUS

-----------------------------------------------------------------------------
(***************************************************************************)
(* Packets, byte by byte.                                                  *)
(***************************************************************************)
LEMMA SizeFacts ==
  ASSUME NEW i \in 1..Len(Sizes)
  PROVE  i \in Nat /\ Sizes[i] \in Nat /\ Length(i) \in Nat /\ Length(i) > 5
BY SizesAssumption DEF Length

LEMMA WireBytes ==
  ASSUME NEW i \in 1..Len(Sizes)
  PROVE  /\ Wire(i) \in Seq(Tokens) /\ Len(Wire(i)) = Length(i)
         /\ \A k \in 1..Length(i) : Wire(i)[k] = Byte(i, k)
<1> DEFINE s == Sizes[i]
           body == Body(i, s - 1)
           end == <<LF>>
           tail == body \o end
           front == <<Header(i)>> \o Delim
           last == IF s = 0 THEN CRLF ELSE tail
           w == front \o last
<1>1. i \in Nat /\ s \in Nat
  BY SizeFacts
<1>2. CRLF \in Seq(Tokens) /\ Len(CRLF) = 2 /\ CRLF[1] = CR /\ CRLF[2] = LF
  BY TokenFacts DEF CRLF
<1>3. /\ front \in Seq(Tokens) /\ Len(front) = 5
      /\ front[1] = Header(i) /\ front[2] = CR /\ front[3] = LF /\ front[4] = CR /\ front[5] = LF
  BY <1>1, FrontBytes
<1>4. /\ body \in Seq(Tokens) /\ Len(body) = (IF s = 0 THEN 0 ELSE s - 1)
      /\ \A k \in 1..(s - 1) : body[k] = <<"body", i, k>>
  <2> DEFINE n == s - 1
  <2>1. n \in Int /\ n >= -1 /\ (n = -1 <=> s = 0)
    BY <1>1
  <2> HIDE DEF n, s
  <2>2. /\ Body(i, n) \in Seq(Tokens) /\ Len(Body(i, n)) = (IF n = -1 THEN 0 ELSE n)
        /\ \A k \in 1..n : Body(i, n)[k] = <<"body", i, k>>
    BY <1>1, <2>1, BodyBytes
  <2>3. QED
    BY <2>1, <2>2 DEF n
<1>5. end \in Seq(Tokens) /\ Len(end) = 1 /\ end[1] = LF
  BY TokenFacts
<1>6. Wire(i) = w
  BY DEF Wire, Payload
<1> HIDE DEF front, body, end, s
<1>7. /\ tail \in Seq(Tokens) /\ Len(tail) = Len(body) + Len(end)
      /\ \A k \in 1..(Len(body) + Len(end)) :
           tail[k] = IF k <= Len(body) THEN body[k] ELSE end[k - Len(body)]
  BY <1>4, <1>5, Joined
<1> HIDE DEF tail
<1>8. ASSUME s # 0
      PROVE  /\ Len(tail) = s
             /\ \A k \in 1..s : tail[k] = IF k < s THEN <<"body", i, k>> ELSE LF
  <2>1. Len(body) = s - 1 /\ Len(tail) = s
    BY <1>1, <1>4, <1>5, <1>7, <1>8
  <2>2. ASSUME NEW k \in 1..s, k < s PROVE tail[k] = <<"body", i, k>>
    <3>1. k <= Len(body) /\ k \in 1..(Len(body) + Len(end)) /\ k \in 1..(s - 1)
      BY <1>1, <1>5, <2>1, <2>2
    <3>2. tail[k] = body[k]
      BY <3>1, <1>7
    <3>3. QED
      BY <3>1, <3>2, <1>4
  <2>3. tail[s] = LF
    <3>1. ~(s <= Len(body)) /\ s \in 1..(Len(body) + Len(end)) /\ s - Len(body) = 1
      BY <1>1, <1>5, <1>8, <2>1
    <3>2. tail[s] = end[1]
      BY <3>1, <1>7
    <3>3. QED
      BY <3>2, <1>5
  <2>4. ASSUME NEW k \in 1..s PROVE tail[k] = IF k < s THEN <<"body", i, k>> ELSE LF
    <3>1. k < s \/ k = s
      BY <1>1
    <3>2. QED
      BY <3>1, <2>2, <2>3
  <2>5. QED
    BY <2>1, <2>4
<1>9. last \in Seq(Tokens) /\ Len(last) \in Nat /\ 5 + Len(last) = Length(i)
  <2>1. Length(i) = IF s = 0 THEN 7 ELSE 5 + s
    BY DEF Length, s
  <2>2. CASE s = 0
    <3>1. last = CRLF
      BY <2>2
    <3> HIDE DEF last
    <3>2. QED
      BY <3>1, <2>1, <2>2, <1>2
  <2>3. CASE s # 0
    <3>1. last = tail
      BY <2>3
    <3> HIDE DEF last
    <3>2. QED
      BY <3>1, <2>1, <2>3, <1>1, <1>7, <1>8
  <2>4. QED
    BY <2>2, <2>3
<1>10. ASSUME NEW k \in 1..Len(last) PROVE last[k] = Byte(i, k + 5)
  <2>1. CASE s = 0
    <3>1. last = CRLF
      BY <2>1
    <3> HIDE DEF last
    <3>2. k = 1 \/ k = 2
      BY <3>1, <1>2
    <3>3. QED
      BY <2>1, <3>1, <3>2, <1>2 DEF Byte, s
  <2>2. CASE s # 0
    <3>a. last = tail
      BY <2>2
    <3> HIDE DEF last
    <3>1. last = tail /\ k \in 1..s
      BY <2>2, <3>a, <1>8
    <3>2. tail[k] = IF k < s THEN <<"body", i, k>> ELSE LF
      BY <3>1, <2>2, <1>8
    <3>3. Byte(i, k + 5) = IF k + 5 < 5 + s THEN <<"body", i, (k + 5) - 5>> ELSE LF
      BY <3>1, <2>2, <1>1 DEF Byte, s
    <3>4. (k + 5) - 5 = k /\ (k + 5 < 5 + s <=> k < s)
      BY <3>1, <1>1
    <3>5. QED
      BY <3>1, <3>2, <3>3, <3>4
  <2>3. QED
    BY <2>1, <2>2
<1> HIDE DEF last
<1>11. /\ w \in Seq(Tokens) /\ Len(w) = Len(front) + Len(last)
       /\ \A k \in 1..(Len(front) + Len(last)) :
            w[k] = IF k <= Len(front) THEN front[k] ELSE last[k - Len(front)]
  BY <1>3, <1>9, Joined
<1> HIDE DEF w
<1>12. ASSUME NEW k \in 1..Length(i) PROVE w[k] = Byte(i, k)
  <2>1. CASE k <= 5
    <3>1. w[k] = front[k]
      BY <2>1, <1>3, <1>9, <1>11
    <3>2. k = 1 \/ k = 2 \/ k = 3 \/ k = 4 \/ k = 5
      BY <2>1, <1>9
    <3>3. QED
      BY <3>1, <3>2, <1>3 DEF Byte
  <2>2. CASE k > 5
    <3>1. k - 5 \in 1..Len(last) /\ w[k] = last[k - 5] /\ (k - 5) + 5 = k
      BY <2>2, <1>3, <1>9, <1>11
    <3>2. QED
      BY <3>1, <1>10
  <2>3. QED
    BY <2>1, <2>2, <1>9
<1>13. QED
  BY <1>3, <1>6, <1>9, <1>11, <1>12

-----------------------------------------------------------------------------
(***************************************************************************)
(* Packets in the stream.                                                  *)
(***************************************************************************)
LEMMA LayoutFacts ==
  ASSUME NEW n \in Nat, NEW m \in Nat, n <= m, m <= Len(Sizes), NEW w, NEW p, Layout(w, p, n, m)
  PROVE  /\ w \in Seq(Tokens) /\ Len(w) \in Nat /\ p \in [Nat -> Int]
         /\ Len(w) < p[m + 1]
         /\ \A i \in (n + 1)..(m + 1) : p[i] \in Int /\ 1 <= p[i] /\ p[n + 1] <= p[i]
<1>1. w \in Seq(Tokens) /\ p \in [Nat -> Int] /\ Len(w) < p[m + 1] /\ p[n + 1] >= 1
  BY DEF Layout
<1>2. Len(w) \in Nat
  BY <1>1
<1>3. \A i, j \in (n + 1)..(m + 1) : i <= j => p[i] <= p[j]
  BY DEF Layout
<1>4. ASSUME NEW i \in (n + 1)..(m + 1) PROVE p[i] \in Int /\ 1 <= p[i] /\ p[n + 1] <= p[i]
  <2>1. i \in Nat /\ n + 1 \in Nat /\ n + 1 \in (n + 1)..(m + 1) /\ n + 1 <= i
    OBVIOUS
  <2>2. p[i] \in Int /\ p[n + 1] \in Int
    BY <1>1, <2>1
  <2>3. p[n + 1] <= p[i]
    BY <1>3, <2>1
  <2>4. p[n + 1] >= 1
    BY <1>1
  <2>5. QED
    BY <2>2, <2>3, <2>4
<1>5. QED
  BY <1>1, <1>2, <1>4

LEMMA LayoutNext ==
  ASSUME NEW n \in Nat, NEW m \in Nat, n <= m, m <= Len(Sizes), NEW w, NEW p, Layout(w, p, n, m),
         NEW i \in (n + 1)..m
  PROVE  /\ i \in 1..Len(Sizes) /\ Length(i) \in Nat /\ Length(i) > 5
         /\ p[i + 1] = p[i] + Length(i) /\ p[i + 1] <= p[m + 1]
<1>1. i \in 1..Len(Sizes)
  BY SizesAssumption
<1>2. i + 1 \in (n + 1)..(m + 1) /\ m + 1 \in (n + 1)..(m + 1) /\ i + 1 <= m + 1
  OBVIOUS
<1>3. p[i + 1] = p[i] + Length(i)
  BY DEF Layout
<1>4. p[i + 1] <= p[m + 1]
  BY <1>2 DEF Layout
<1>5. QED
  BY <1>1, <1>3, <1>4, SizeFacts

\* The first d bytes were read.
LEMMA LayoutDrop ==
  ASSUME NEW n \in Nat, NEW m \in Nat, m <= Len(Sizes), NEW w, NEW p, Layout(w, p, n, m),
         NEW n2 \in n..m, NEW d \in 0..Len(w), d < p[n2 + 1]
  PROVE  Layout(Drop(w, d), [i \in Nat |-> p[i] - d], n2, m)
<1> DEFINE v == Drop(w, d)
           q == [i \in Nat |-> p[i] - d]
<1>1. n2 \in Nat /\ n <= n2 /\ n2 <= m /\ n <= m
  OBVIOUS
<1>2. w \in Seq(Tokens) /\ Len(w) \in Nat /\ p \in [Nat -> Int] /\ d \in Nat
  BY <1>1, LayoutFacts
<1>3. v \in Seq(Tokens) /\ Len(v) = Len(w) - d /\ \A i \in 1..(Len(w) - d) : v[i] = w[d + i]
  BY <1>2, Cut
<1>n. Len(w) \in Nat /\ d \in Nat /\ Len(v) = Len(w) - d
  BY <1>2, <1>3
<1>4. q \in [Nat -> Int]
  BY <1>2
<1>5. ASSUME NEW i \in Nat PROVE q[i] = p[i] - d /\ p[i] \in Int /\ q[i] \in Int
  BY <1>2
<1> HIDE DEF v, q
<1>6. q[n2 + 1] >= 1
  <2>1. n2 + 1 \in Nat
    BY <1>1
  <2>2. q[n2 + 1] = p[n2 + 1] - d /\ p[n2 + 1] \in Int
    BY <2>1, <1>5
  <2>3. QED
    BY <2>2, <1>2
<1>7. Len(v) < q[m + 1]
  <2>1. Len(w) < p[m + 1]
    BY <1>1, LayoutFacts
  <2>2. q[m + 1] = p[m + 1] - d /\ p[m + 1] \in Int
    BY <1>5
  <2>3. QED
    BY <2>1, <2>2, <1>n
<1>8. ASSUME NEW i \in (n2 + 1)..(m + 1), NEW j \in (n2 + 1)..(m + 1), i <= j
      PROVE  q[i] <= q[j]
  <2>1. i \in (n + 1)..(m + 1) /\ j \in (n + 1)..(m + 1) /\ i \in Nat /\ j \in Nat
    BY <1>1
  <2>2. p[i] <= p[j]
    BY <2>1, <1>8 DEF Layout
  <2>3. q[i] = p[i] - d /\ q[j] = p[j] - d /\ p[i] \in Int /\ p[j] \in Int
    BY <2>1, <1>5
  <2>4. QED
    BY <2>2, <2>3, <1>2
<1>9. ASSUME NEW i \in (n2 + 1)..m
      PROVE  /\ q[i + 1] = q[i] + Length(i)
             /\ \A k \in 1..Length(i) : q[i] + k - 1 <= Len(v) => v[q[i] + k - 1] = Byte(i, k)
  <2>1. i \in (n + 1)..m /\ i \in Nat /\ i + 1 \in Nat
    BY <1>1
  <2>2. p[i + 1] = p[i] + Length(i) /\ Length(i) \in Nat
    <3>1. i \in 1..Len(Sizes)
      BY <2>1, SizesAssumption
    <3>2. QED
      BY <3>1, <2>1, SizeFacts DEF Layout
  <2>3. q[i] = p[i] - d /\ q[i + 1] = p[i + 1] - d /\ p[i] \in Int /\ q[i] \in Int
    BY <2>1, <1>5
  <2>4. q[i] >= 1
    <3>1. n2 + 1 \in (n2 + 1)..(m + 1) /\ i \in (n2 + 1)..(m + 1) /\ n2 + 1 <= i /\ n2 + 1 \in Nat
      BY <1>1
    <3>2. q[n2 + 1] <= q[i] /\ q[n2 + 1] \in Int
      BY <3>1, <1>5, <1>8
    <3>3. QED
      BY <3>2, <1>6, <2>3
  <2>5. ASSUME NEW k \in 1..Length(i), q[i] + k - 1 <= Len(v) PROVE v[q[i] + k - 1] = Byte(i, k)
    <3>1. k \in Int /\ k >= 1
      BY <2>2
    <3>2. q[i] \in Int
      BY <2>3
    <3>3. q[i] + k - 1 \in 1..(Len(w) - d)
      BY <3>1, <3>2, <1>n, <2>4, <2>5
    <3>4. v[q[i] + k - 1] = w[d + (q[i] + k - 1)]
      BY <3>3, <1>3
    <3>5. d + (q[i] + k - 1) = p[i] + k - 1 /\ p[i] + k - 1 <= Len(w)
      <4>1. q[i] = p[i] - d /\ p[i] \in Int
        BY <2>3
      <4>2. d + (q[i] + k - 1) = p[i] + k - 1
        BY <4>1, <3>1, <1>n
      <4>3. d + (q[i] + k - 1) <= Len(w)
        BY <3>1, <3>2, <3>3, <1>n
      <4>4. QED
        BY <4>2, <4>3
    <3>6. w[p[i] + k - 1] = Byte(i, k)
      BY <3>5, <2>1 DEF Layout
    <3>7. QED
      BY <3>4, <3>5, <3>6
  <2>6. q[i + 1] = q[i] + Length(i)
    BY <2>2, <2>3, <1>n
  <2>7. QED
    BY <2>5, <2>6
<1>10. QED
  BY <1>3, <1>4, <1>6, <1>7, <1>8, <1>9 DEF Layout, v, q

\* The end of the stream was lost.
LEMMA LayoutTake ==
  ASSUME NEW n \in Nat, NEW m \in Nat, n <= m, m <= Len(Sizes), NEW w, NEW p, Layout(w, p, n, m),
         NEW d \in 0..Len(w)
  PROVE  Layout(Take(w, d), p, n, m)
<1> DEFINE v == Take(w, d)
<1>1. w \in Seq(Tokens) /\ Len(w) \in Nat /\ p \in [Nat -> Int] /\ d \in Nat /\ d <= Len(w)
  BY LayoutFacts
<1>2. v \in Seq(Tokens) /\ Len(v) = d /\ \A i \in 1..d : v[i] = w[i]
  BY <1>1, Cut
<1> HIDE DEF v
<1>n. Len(w) \in Nat /\ d \in Nat /\ d <= Len(w) /\ Len(v) = d
  BY <1>1, <1>2
<1>3. Len(v) < p[m + 1]
  <2>1. Len(w) < p[m + 1] /\ p[m + 1] \in Int
    BY <1>1, LayoutFacts
  <2>2. QED
    BY <2>1, <1>1, <1>2
<1>4. ASSUME NEW i \in (n + 1)..m, NEW k \in 1..Length(i), p[i] + k - 1 <= Len(v)
      PROVE  v[p[i] + k - 1] = Byte(i, k)
  <2>1. i \in (n + 1)..(m + 1)
    OBVIOUS
  <2>2. p[i] \in Int /\ 1 <= p[i] /\ Length(i) \in Nat
    BY <2>1, LayoutFacts, LayoutNext
  <2>3. k \in Int /\ k >= 1
    BY <2>2
  <2>4. p[i] + k - 1 \in 1..d /\ p[i] + k - 1 <= Len(w)
    BY <2>2, <2>3, <1>n, <1>4
  <2>5. w[p[i] + k - 1] = Byte(i, k)
    BY <2>4 DEF Layout
  <2>6. QED
    BY <2>4, <2>5, <1>2
<1>5. QED
  BY <1>2, <1>3, <1>4 DEF Layout, v

\* Another packet was sent.
LEMMA LayoutAppend ==
  ASSUME NEW n \in Nat, NEW m \in Nat, n <= m, m + 1 <= Len(Sizes),
         NEW w, NEW p, Layout(w, p, n, m), Len(w) + 1 = p[m + 1]
  PROVE  \E q \in [Nat -> Int] :
           /\ Layout(w \o Wire(m + 1), q, n, m + 1)
           /\ q[n + 1] = p[n + 1] /\ Len(w \o Wire(m + 1)) + 1 = q[m + 2]
<1> DEFINE a == Wire(m + 1)
           q == [p EXCEPT ![m + 2] = p[m + 1] + Length(m + 1)]
           v == w \o a
<1>1. m <= Len(Sizes) /\ m + 1 \in 1..Len(Sizes)
  BY SizesAssumption
<1>2. w \in Seq(Tokens) /\ Len(w) \in Nat /\ p \in [Nat -> Int]
  BY <1>1, LayoutFacts
<1>f. \A j \in (n + 1)..m :
        p[j + 1] = p[j] + Length(j) /\ p[j + 1] <= p[m + 1] /\ Length(j) \in Nat
  BY <1>1, LayoutNext
<1>3. Length(m + 1) \in Nat /\ Length(m + 1) > 5
  BY <1>1, SizeFacts
<1>4. /\ a \in Seq(Tokens) /\ Len(a) = Length(m + 1)
      /\ \A k \in 1..Length(m + 1) : a[k] = Byte(m + 1, k)
  BY <1>1, WireBytes
<1>5. q \in [Nat -> Int] /\ q[m + 2] = p[m + 1] + Length(m + 1)
  BY <1>2, <1>3
<1>6. ASSUME NEW i \in 1..(m + 1) PROVE q[i] = p[i] /\ p[i] \in Int
  BY <1>2
<1> HIDE DEF a, q
<1>7. /\ v \in Seq(Tokens) /\ Len(v) = Len(w) + Len(a)
      /\ \A k \in 1..(Len(w) + Len(a)) : v[k] = IF k <= Len(w) THEN w[k] ELSE a[k - Len(w)]
  BY <1>2, <1>4, Joined
<1> HIDE DEF v
<1>8. p[m + 1] \in Int /\ q[m + 1] = p[m + 1] /\ q[n + 1] = p[n + 1]
  <2>1. m + 1 \in 1..(m + 1) /\ n + 1 \in 1..(m + 1)
    OBVIOUS
  <2>2. QED
    BY <2>1, <1>6
<1>n. Len(w) \in Nat /\ Len(a) = Length(m + 1) /\ q[m + 2] = p[m + 1] + Length(m + 1)
  BY <1>2, <1>4, <1>5
<1>9. Len(v) + 1 = q[m + 2] /\ Len(v) < q[m + 2] /\ q[m + 2] \in Int
  <2>1. Len(v) = Len(w) + Length(m + 1)
    BY <1>4, <1>7
  <2>2. QED
    BY <2>1, <1>n, <1>3, <1>8
<1>10. q[n + 1] >= 1
  BY <1>8 DEF Layout
<1>11. ASSUME NEW i \in (n + 1)..(m + 2), NEW j \in (n + 1)..(m + 2), i <= j
      PROVE  q[i] <= q[j]
  <2>1. CASE j <= m + 1
    <3>1. i \in (n + 1)..(m + 1) /\ j \in (n + 1)..(m + 1) /\ i \in 1..(m + 1) /\ j \in 1..(m + 1)
      BY <2>1, <1>11
    <3>2. p[i] <= p[j]
      BY <3>1, <1>11 DEF Layout
    <3>3. QED
      BY <3>1, <3>2, <1>6
  <2>2. CASE j = m + 2 /\ i = m + 2
    BY <2>2, <1>9
  <2>3. CASE j = m + 2 /\ i <= m + 1
    <3>1. i \in (n + 1)..(m + 1) /\ m + 1 \in (n + 1)..(m + 1) /\ i \in 1..(m + 1)
      BY <2>3
    <3>2. p[i] <= p[m + 1]
      BY <3>1, <2>3 DEF Layout
    <3>3. q[i] = p[i] /\ p[i] \in Int
      BY <3>1, <1>6
    <3>4. q[i] <= q[m + 2]
      BY <3>2, <3>3, <1>3, <1>n, <1>8
    <3>5. QED
      BY <3>4, <2>3
  <2>4. QED
    BY <2>1, <2>2, <2>3
<1>12. ASSUME NEW i \in (n + 1)..(m + 1)
      PROVE  /\ q[i + 1] = q[i] + Length(i)
             /\ \A k \in 1..Length(i) : q[i] + k - 1 <= Len(v) => v[q[i] + k - 1] = Byte(i, k)
  <2>1. i \in 1..(m + 1)
    OBVIOUS
  <2>2. q[i] = p[i] /\ p[i] \in Int
    BY <2>1, <1>6
  <2>3. CASE i = m + 1
    <3>1. i + 1 = m + 2 /\ q[i] = Len(w) + 1
      BY <2>2, <2>3
    <3>2. q[i + 1] = q[i] + Length(i)
      BY <3>1, <2>2, <2>3, <1>5
    <3>3. ASSUME NEW k \in 1..Length(i) PROVE v[q[i] + k - 1] = Byte(i, k)
      <4>1. k \in Nat /\ k >= 1 /\ k <= Length(m + 1)
        BY <2>3, <1>3
      <4>2. /\ q[i] + k - 1 = Len(w) + k /\ Len(w) + k \in 1..(Len(w) + Length(m + 1))
            /\ ~(Len(w) + k <= Len(w)) /\ (Len(w) + k) - Len(w) = k
        BY <3>1, <4>1, <1>n, <1>3
      <4>3. v[Len(w) + k] = a[k]
        BY <4>2, <1>4, <1>7
      <4>4. QED
        BY <4>2, <4>3, <2>3, <1>4
    <3>4. QED
      BY <3>2, <3>3
  <2>4. CASE i \in (n + 1)..m
    <3>1. i + 1 \in 1..(m + 1) /\ i \in (n + 1)..(m + 1)
      BY <2>4
    <3>2. /\ p[i + 1] = p[i] + Length(i) /\ p[i + 1] <= p[m + 1] /\ Length(i) \in Nat
          /\ 1 <= p[i]
      <4>1. p[i + 1] = p[i] + Length(i) /\ p[i + 1] <= p[m + 1] /\ Length(i) \in Nat
        BY <2>4, <1>f
      <4>2. 1 <= p[i]
        BY <3>1, <1>1, LayoutFacts
      <4>3. QED
        BY <4>1, <4>2
    <3>3. q[i + 1] = p[i + 1]
      BY <3>1, <1>6
    <3>4. ASSUME NEW k \in 1..Length(i) PROVE v[q[i] + k - 1] = Byte(i, k)
      <4>1. k \in Nat /\ k >= 1 /\ k <= Length(i)
        BY <3>2
      <4>2. p[i] + k - 1 <= Len(w) /\ p[i] + k - 1 >= 1 /\ p[i] + k - 1 \in Int
        <5>1. p[i] + Length(i) <= Len(w) + 1
          BY <3>2
        <5>2. QED
          BY <5>1, <4>1, <3>2, <2>2, <1>n, WithinPacket
      <4>3. p[i] + k - 1 \in 1..(Len(w) + Len(a))
        BY <4>2, <1>n, <1>3
      <4>4. v[p[i] + k - 1] = w[p[i] + k - 1]
        BY <4>2, <4>3, <1>7
      <4>5. w[p[i] + k - 1] = Byte(i, k)
        BY <4>2, <2>4 DEF Layout
      <4>6. QED
        BY <4>4, <4>5, <2>2
    <3>5. QED
      BY <3>2, <3>3, <3>4, <2>2
  <2>5. QED
    BY <2>3, <2>4
<1>13. Layout(v, q, n, m + 1)
  <2>1. (m + 1) + 1 = m + 2
    OBVIOUS
  <2>2. QED
    BY <2>1, <1>5, <1>7, <1>9, <1>10, <1>11, <1>12 DEF Layout
<1>14. QED
  BY <1>5, <1>8, <1>9, <1>13 DEF v, a

-----------------------------------------------------------------------------
(***************************************************************************)
(* What handle_read finds in a buffer with a delimiter.                    *)
(***************************************************************************)
\* In x a header begins at q, the first one, at the beginning of a line.
HeaderAt(x, q, i) ==
  /\ q \in Nat /\ q >= 1 /\ q + 4 <= Len(x)
  /\ x[q] = Header(i) /\ x[q + 1] = CR /\ x[q + 2] = LF /\ x[q + 3] = CR /\ x[q + 4] = LF
  /\ \A k \in 1..(q - 1) : ~IsHeader(x[k])
  /\ q > 1 => x[q - 1] = LF

\* The first bytes of a packet that is there.
LEMMA PacketFront ==
  ASSUME NEW n \in Nat, NEW m \in Nat, n < m, m <= Len(Sizes), NEW w, NEW p, Layout(w, p, n, m)
  PROVE  LET q == p[n + 1]
         IN  /\ q <= Len(w) => w[q] = Header(n + 1)
             /\ q + 1 <= Len(w) => w[q + 1] = CR
             /\ q + 2 <= Len(w) => w[q + 2] = LF
             /\ q + 3 <= Len(w) => w[q + 3] = CR
             /\ q + 4 <= Len(w) => w[q + 4] = LF
<1> DEFINE i == n + 1
           q == p[i]
<1>1. i \in (n + 1)..m /\ n <= m
  OBVIOUS
<1>2. Length(i) \in Nat /\ Length(i) > 5
  BY <1>1, LayoutNext
<1>3. q \in Int
  <2>1. i \in (n + 1)..(m + 1)
    BY <1>1
  <2>2. QED
    BY <1>1, <2>1, LayoutFacts
<1>4. \A k \in 1..Length(i) : q + k - 1 <= Len(w) => w[q + k - 1] = Byte(i, k)
  BY <1>1 DEF Layout
<1> HIDE DEF i, q
<1>5. 1 \in 1..Length(i) /\ 2 \in 1..Length(i) /\ 3 \in 1..Length(i) /\ 4 \in 1..Length(i) /\ 5 \in 1..Length(i)
  BY <1>2
<1>6. /\ Byte(i, 1) = Header(i) /\ Byte(i, 2) = CR /\ Byte(i, 3) = LF
      /\ Byte(i, 4) = CR /\ Byte(i, 5) = LF
  BY DEF Byte
<1>7. q + 1 - 1 = q /\ q + 2 - 1 = q + 1 /\ q + 3 - 1 = q + 2 /\ q + 4 - 1 = q + 3 /\ q + 5 - 1 = q + 4
  BY <1>3
<1>8. /\ q + 1 - 1 <= Len(w) => w[q + 1 - 1] = Header(i)
      /\ q + 2 - 1 <= Len(w) => w[q + 2 - 1] = CR
      /\ q + 3 - 1 <= Len(w) => w[q + 3 - 1] = LF
      /\ q + 4 - 1 <= Len(w) => w[q + 4 - 1] = CR
      /\ q + 5 - 1 <= Len(w) => w[q + 5 - 1] = LF
  BY <1>4, <1>5, <1>6
<1>9. QED
  BY <1>7, <1>8 DEF i, q

\* The delimiter is the one behind the next header.
LEMMA HeaderFound ==
  ASSUME NEW n \in Nat, NEW m \in Nat, n <= m, m <= Len(Sizes),
         NEW w, NEW p, Layout(w, p, n, m), Quiet(w, p[n + 1] - 1),
         NEW x \in Seq(Tokens), Len(x) <= Len(w), \A k \in 1..Len(x) : x[k] = w[k],
         Has(x, Delim)
  PROVE  n < m /\ HeaderAt(x, p[n + 1], n + 1)
<1> DEFINE q == p[n + 1]
<1>1. n + 1 \in (n + 1)..(m + 1)
  OBVIOUS
<1>2. w \in Seq(Tokens) /\ Len(w) \in Nat
  BY LayoutFacts
<1>a. q \in Int /\ 1 <= q
  BY <1>1, LayoutFacts
<1>b. Len(x) \in Nat
  OBVIOUS
<1>n. Len(w) \in Nat /\ Len(x) \in Nat /\ q \in Nat /\ 1 <= q
  BY <1>2, <1>a, <1>b
<1>3. \A k \in 1..(q - 1) : k <= Len(w) =>
        ~IsHeader(w[k]) /\ (w[k] = CR => k = 1) /\ (k = q - 1 => w[k] = LF)
  BY DEF Quiet
<1> HIDE DEF q
<1>4. PICK k \in Nat : /\ k + 4 <= Len(x)
                       /\ x[k + 1] = CR /\ x[k + 2] = LF /\ x[k + 3] = CR /\ x[k + 4] = LF
  BY DelimFacts
<1>5. w[k + 1] = CR /\ w[k + 3] = CR /\ k + 4 <= Len(w)
  <2>1. k + 1 \in 1..Len(x) /\ k + 3 \in 1..Len(x)
    BY <1>4, <1>n
  <2>2. k + 4 <= Len(w)
    BY <1>4, <1>n
  <2>3. QED
    BY <2>1, <2>2, <1>4
<1>6. ~(k + 3 < q)
  <2>1. SUFFICES ASSUME k + 3 < q PROVE FALSE
    OBVIOUS
  <2>2. k + 3 \in 1..(q - 1) /\ k + 3 <= Len(w) /\ k + 3 # 1
    BY <2>1, <1>5, <1>n
  <2>3. QED
    BY <2>2, <1>3, <1>5
<1>7. ~(k + 1 < q)
  <2>1. SUFFICES ASSUME k + 1 < q PROVE FALSE
    OBVIOUS
  <2>2. k + 1 \in 1..(q - 1) /\ k + 1 <= Len(w)
    BY <2>1, <1>5, <1>n
  <2>3. k + 1 = 1 /\ (k + 1 = q - 1 => w[k + 1] = LF)
    BY <2>2, <1>3, <1>5
  <2>4. k + 1 # q - 1
    BY <2>3, <1>5, TokenFacts
  <2>5. q = 3 /\ k = 0
    BY <2>1, <2>3, <2>4, <1>6, <1>n
  <2>6. n # m
    <3>1. SUFFICES ASSUME n = m PROVE FALSE
      OBVIOUS
    <3>2. Len(w) < q
      BY <3>1 DEF Layout, q
    <3>3. QED
      BY <3>2, <2>5, <1>5, <1>n
  <2>7. w[q] = Header(n + 1)
    <3>1. n < m /\ q <= Len(w)
      BY <2>5, <2>6, <1>5, <1>n
    <3>2. QED
      BY <3>1, PacketFront DEF q
  <2>8. QED
    BY <2>5, <2>7, <1>5, TokenFacts
<1>8. n < m
  <2>1. SUFFICES ASSUME n = m PROVE FALSE
    OBVIOUS
  <2>2. Len(w) < q
    BY <2>1 DEF Layout, q
  <2>3. QED
    BY <2>2, <1>4, <1>5, <1>7, <1>n
<1>9. k + 1 # q
  <2>1. SUFFICES ASSUME k + 1 = q PROVE FALSE
    OBVIOUS
  <2>2. q <= Len(w)
    BY <2>1, <1>5, <1>n
  <2>3. w[q] = Header(n + 1)
    BY <2>2, <1>8, PacketFront DEF q
  <2>4. QED
    BY <2>1, <2>3, <1>5, TokenFacts
<1>10. q + 4 <= Len(x) /\ q + 4 <= Len(w)
  BY <1>4, <1>7, <1>9, <1>n
<1>11. /\ w[q] = Header(n + 1) /\ w[q + 1] = CR /\ w[q + 2] = LF /\ w[q + 3] = CR
       /\ w[q + 4] = LF
  <2>1. q <= Len(w) /\ q + 1 <= Len(w) /\ q + 2 <= Len(w) /\ q + 3 <= Len(w)
    BY <1>10, <1>n
  <2>2. QED
    BY <2>1, <1>8, <1>10, PacketFront DEF q
<1>12. /\ x[q] = w[q] /\ x[q + 1] = w[q + 1] /\ x[q + 2] = w[q + 2] /\ x[q + 3] = w[q + 3]
       /\ x[q + 4] = w[q + 4]
  <2>1. /\ q \in 1..Len(x) /\ q + 1 \in 1..Len(x) /\ q + 2 \in 1..Len(x)
        /\ q + 3 \in 1..Len(x) /\ q + 4 \in 1..Len(x)
    BY <1>10, <1>n
  <2>2. QED
    BY <2>1
<1>13. ASSUME NEW j \in 1..(q - 1) PROVE ~IsHeader(x[j]) /\ (j = q - 1 => x[j] = LF)
  <2>1. j \in 1..Len(x) /\ j <= Len(w)
    BY <1>10, <1>n
  <2>2. x[j] = w[j]
    BY <2>1
  <2>3. QED
    BY <2>1, <2>2, <1>3
<1>14. q > 1 => x[q - 1] = LF
  <2>1. q > 1 => q - 1 \in 1..(q - 1)
    BY <1>n
  <2>2. QED
    BY <2>1, <1>13
<1>15. HeaderAt(x, q, n + 1)
  BY <1>n, <1>10, <1>11, <1>12, <1>13, <1>14 DEF HeaderAt
<1>16. QED
  BY <1>8, <1>15 DEF q

\* The line of the header, and the blank one behind it.
LEMMA HeaderLineIs ==
  ASSUME NEW x \in Seq(Tokens), NEW q, NEW i \in 1..Len(Sizes), HeaderAt(x, q, i)
  PROVE  /\ HeaderLine(x) = {q} /\ LineEnd(x, q) = {q + 2} /\ LineEnd(x, q + 3) = {q + 4}
         /\ ValidHeader(SubSeq(x, q, q + 1)) <=> i \notin Invalid
         /\ x[q][2] = i
<1>1. /\ q \in Nat /\ q >= 1 /\ q + 4 <= Len(x)
      /\ x[q] = Header(i) /\ x[q + 1] = CR /\ x[q + 2] = LF /\ x[q + 3] = CR /\ x[q + 4] = LF
      /\ \A k \in 1..(q - 1) : ~IsHeader(x[k])
      /\ q > 1 => x[q - 1] = LF
  BY DEF HeaderAt
<1>n. q \in Nat /\ q >= 1 /\ q + 4 <= Len(x) /\ Len(x) \in Nat
  BY <1>1
<1>2. i \in Nat
  BY SizeFacts
<1>3. IsHeader(x[q]) /\ x[q] # LF /\ x[q + 1] # LF /\ x[q + 3] # LF
  BY <1>1, <1>2, TokenFacts
<1>4. LineEnd(x, q) = {q + 2}
  <2>1. q + 2 \in q..(Len(x) + 1)
    BY <1>n
  <2>2. ASSUME NEW j \in q..((q + 2) - 1) PROVE x[j] # LF
    <3>1. j = q \/ j = q + 1
      BY <1>n
    <3>2. QED
      BY <3>1, <1>3
  <2>3. x[q + 2] = LF
    BY <1>1
  <2>4. QED
    BY <2>1, <2>2, <2>3, <1>n, LineEndIs
<1>5. LineEnd(x, q + 3) = {q + 4}
  <2>1. q + 4 \in (q + 3)..(Len(x) + 1) /\ q + 3 \in Nat
    BY <1>n
  <2>2. ASSUME NEW j \in (q + 3)..((q + 4) - 1) PROVE x[j] # LF
    <3>1. j = q + 3
      BY <1>n
    <3>2. QED
      BY <3>1, <1>3
  <2>3. x[q + 4] = LF
    BY <1>1
  <2>4. QED
    BY <2>1, <2>2, <2>3, LineEndIs
<1>6. \A j \in 1..Len(x) : x[j] \in Tokens /\ (x[j][1] = "header" <=> IsHeader(x[j]))
  BY Tags
<1>7. q \in HeaderLine(x)
  <2>1. q \in DOMAIN x
    BY <1>n
  <2>2. q \in q..((q + 2) - 1) /\ x[q][1] = "header"
    BY <1>n, <1>3, <1>6
  <2>3. \A j \in 1..(q - 1) : x[j][1] # "header"
    BY <1>n, <1>1, <1>6
  <2>4. \E e \in LineEnd(x, q) : \E j \in q..(e - 1) : x[j][1] = "header"
    BY <2>2, <1>4
  <2>5. QED
    BY <2>1, <2>3, <2>4, <1>1 DEF HeaderLine
<1>8. ASSUME NEW k \in HeaderLine(x) PROVE k = q
  <2>1. /\ k \in 1..Len(x)
        /\ \E e \in LineEnd(x, k) : \E j \in k..(e - 1) : x[j][1] = "header"
        /\ \A j \in 1..(k - 1) : x[j][1] # "header"
    BY DEF HeaderLine
  <2>2. k <= q
    <3>1. ~(q \in 1..(k - 1))
      BY <2>1, <1>3, <1>6, <1>n
    <3>2. QED
      BY <3>1, <2>1, <1>n
  <2>3. PICK e \in LineEnd(x, k) : \E j \in k..(e - 1) : x[j][1] = "header"
    BY <2>1
  <2>4. PICK j \in k..(e - 1) : x[j][1] = "header"
    BY <2>3
  <2>5. e \in k..(Len(x) + 1) /\ \A h \in k..(e - 1) : x[h] # LF
    BY DEF LineEnd
  <2>6. j \in 1..Len(x) /\ e \in Int
    BY <2>1, <2>4, <2>5, <1>n
  <2>7. ~(j \in 1..(q - 1))
    BY <2>4, <2>6, <1>1, <1>6
  <2>8. j >= q
    BY <2>6, <2>7, <1>n
  <2>9. ~(k < q)
    <3>1. SUFFICES ASSUME k < q PROVE FALSE
      OBVIOUS
    <3>2. q > 1 /\ q - 1 \in k..(e - 1)
      BY <3>1, <2>1, <2>4, <2>6, <2>8, <1>n
    <3>3. QED
      BY <3>2, <2>5, <1>1
  <2>10. QED
    BY <2>1, <2>2, <2>9, <1>n
<1>9. HeaderLine(x) = {q}
  BY <1>7, <1>8
<1> DEFINE line == SubSeq(x, q, q + 1)
           cr == <<Header(i), CR>>
<1>10. line \in Seq(Tokens) /\ Len(line) = 2 /\ line[1] = x[q] /\ line[2] = x[q + 1]
  BY <1>n
<1>11. ASSUME NEW j \in 1..Len(Sizes) PROVE line \in {<<Header(j)>>, <<Header(j), CR>>} <=> j = i
  <2>1. j \in Nat /\ <<Header(j), CR>> \in Seq(Tokens) /\ Len(<<Header(j), CR>>) = 2
        /\ <<Header(j), CR>>[1] = Header(j) /\ <<Header(j), CR>>[2] = CR
    BY TokenFacts, SizeFacts
  <2>2. Len(<<Header(j)>>) = 1
    OBVIOUS
  <2>3. line # <<Header(j)>>
    <3>1. Len(line) = 2
      BY <1>10
    <3> HIDE DEF line
    <3>2. QED
      BY <3>1, <2>2
  <2>4. line = <<Header(j), CR>> => j = i
    <3>1. SUFFICES ASSUME line = <<Header(j), CR>> PROVE j = i
      OBVIOUS
    <3>2. Header(j) = Header(i)
      BY <3>1, <2>1, <1>1, <1>10
    <3>3. QED
      BY <3>2, <2>1, <1>2, TokenFacts
  <2>5. j = i => line = <<Header(j), CR>>
    <3>1. SUFFICES ASSUME j = i PROVE line = cr
      OBVIOUS
    <3>2. cr \in Seq(Tokens) /\ Len(cr) = 2 /\ cr[1] = Header(i) /\ cr[2] = CR
      BY <3>1, <2>1
    <3> HIDE DEF cr, line
    <3>3. ASSUME NEW k \in 1..2 PROVE line[k] = cr[k]
      <4>1. k = 1 \/ k = 2
        OBVIOUS
      <4>2. QED
        BY <4>1, <3>2, <1>1, <1>10
    <3>4. QED
      BY <3>2, <3>3, <1>10, SeqEqual
  <2>6. QED
    BY <2>3, <2>4, <2>5
<1>12. ValidHeader(line) <=> i \notin Invalid
  <2>1. DOMAIN Sizes = 1..Len(Sizes)
    BY SizesAssumption
  <2> HIDE DEF line
  <2>2. QED
    BY <2>1, <1>11 DEF ValidHeader
<1>13. x[q][2] = i
  BY <1>1 DEF Header
<1>14. QED
  BY <1>4, <1>5, <1>9, <1>12, <1>13

-----------------------------------------------------------------------------
(***************************************************************************)
(* What is left of a packet.                                               *)
(***************************************************************************)
\* Behind the header line there is no header, and only one \r\n at the front.
LEMMA ByteFacts ==
  ASSUME NEW i \in 1..Len(Sizes), NEW k \in 2..Length(i)
  PROVE  /\ ~IsHeader(Byte(i, k))
         /\ Byte(i, k) = CR => k = 2 \/ k = 4 \/ (k = 6 /\ Sizes[i] = 0)
         /\ Byte(i, Length(i)) = LF
<1>1. i \in Nat /\ Sizes[i] \in Nat /\ Length(i) \in Nat /\ Length(i) > 5
  BY SizeFacts
<1>2. Length(i) = IF Sizes[i] = 0 THEN 7 ELSE 5 + Sizes[i]
  BY DEF Length
<1>3. Byte(i, Length(i)) = LF
  BY <1>1, <1>2 DEF Byte
<1>4. CASE k <= 5
  <2>1. k = 2 \/ k = 3 \/ k = 4 \/ k = 5
    BY <1>1, <1>4
  <2>2. QED
    BY <2>1, <1>3, TokenFacts DEF Byte
<1>5. CASE k > 5 /\ Sizes[i] = 0
  <2>1. k = 6 \/ k = 7
    BY <1>1, <1>2, <1>5
  <2>2. QED
    BY <2>1, <1>3, <1>5, TokenFacts DEF Byte
<1>6. CASE k > 5 /\ Sizes[i] # 0
  <2>1. k - 5 \in Nat /\ k # 1 /\ k # 2 /\ k # 3 /\ k # 4 /\ k # 5
    BY <1>1, <1>6
  <2>2. Byte(i, k) = <<"body", i, k - 5>> \/ Byte(i, k) = LF
    BY <2>1, <1>6 DEF Byte
  <2>3. /\ ~IsHeader(<<"body", i, k - 5>>) /\ <<"body", i, k - 5>> # CR
    BY <2>1, <1>1, BodyFacts
  <2>4. QED
    BY <2>2, <2>3, <1>3, TokenFacts
<1>7. QED
  BY <1>1, <1>4, <1>5, <1>6

LEMMA QuietDrop ==
  ASSUME NEW n \in Nat, NEW m \in Nat, n < m, m <= Len(Sizes), NEW w, NEW p, Layout(w, p, n, m),
         NEW d \in 0..Len(w), p[n + 1] + 2 <= d, d < p[n + 2],
         Sizes[n + 1] = 0 => p[n + 1] + 4 <= d
  PROVE  Quiet(Drop(w, d), (p[n + 2] - d) - 1)
<1> DEFINE v == Drop(w, d)
           i == n + 1
           q == p[i]
           r == (p[n + 2] - d) - 1
<1>1. i \in (n + 1)..m /\ n <= m /\ i + 1 = n + 2
  OBVIOUS
<1>2. i \in 1..Len(Sizes) /\ Length(i) \in Nat /\ Length(i) > 5 /\ p[n + 2] = q + Length(i)
  BY <1>1, LayoutNext
<1>3. q \in Int /\ 1 <= q
  <2>1. i \in (n + 1)..(m + 1)
    BY <1>1
  <2>2. QED
    BY <1>1, <2>1, LayoutFacts
<1>4. w \in Seq(Tokens) /\ Len(w) \in Nat
  BY <1>1, LayoutFacts
<1>5. v \in Seq(Tokens) /\ Len(v) = Len(w) - d /\ \A k \in 1..(Len(w) - d) : v[k] = w[d + k]
  BY <1>4, Cut
<1>6. \A k \in 1..Length(i) : q + k - 1 <= Len(w) => w[q + k - 1] = Byte(i, k)
  BY <1>1 DEF Layout
<1>7. q + 2 <= d /\ (Sizes[i] = 0 => q + 4 <= d)
  OBVIOUS
<1>8. r = ((q + Length(i)) - d) - 1
  BY <1>2
<1>n. /\ q \in Int /\ 1 <= q /\ d \in Int /\ Length(i) \in Nat /\ Length(i) > 5 /\ Len(w) \in Nat
      /\ r = ((q + Length(i)) - d) - 1 /\ Len(v) = Len(w) - d /\ q + 2 <= d
  BY <1>2, <1>3, <1>4, <1>5, <1>7, <1>8
<1> HIDE DEF v, i, q, r
<1>9. ASSUME NEW k \in 1..r, k <= Len(v)
      PROVE  ~IsHeader(v[k]) /\ (v[k] = CR => k = 1) /\ (k = r => v[k] = LF)
  <2> DEFINE h == ((d + k) - q) + 1
  <2>n. k \in Int /\ k >= 1 /\ k <= r
    BY <1>n
  <2>1. h \in 2..Length(i) /\ h \in 1..Length(i) /\ q + h - 1 = d + k /\ d + k <= Len(w) /\ k \in 1..(Len(w) - d)
    BY <2>n, <1>n, <1>9
  <2>2. h >= k + 3 /\ (k = r => h = Length(i)) /\ (Sizes[i] = 0 => h >= k + 5)
    <3>1. h >= k + 3 /\ (k = r => h = Length(i))
      <4>1. q \in Int /\ d \in Int /\ k \in Int /\ Length(i) \in Int /\ q + 2 <= d
        BY <2>n, <1>n
      <4>2. QED
        BY <4>1, <1>8, PastHeader
    <3>2. q + 4 <= d => h >= k + 5
      BY <2>n, <1>n
    <3> HIDE DEF h
    <3>3. QED
      BY <3>1, <3>2, <1>7
  <2>3. h \in Int
    BY <2>n, <1>n
  <2> HIDE DEF h
  <2>4. v[k] = Byte(i, h)
    BY <2>1, <1>5, <1>6
  <2>5. /\ ~IsHeader(Byte(i, h))
        /\ Byte(i, h) = CR => h = 2 \/ h = 4 \/ (h = 6 /\ Sizes[i] = 0)
        /\ Byte(i, Length(i)) = LF
    BY <2>1, <1>2, ByteFacts
  <2>6. h = 2 \/ h = 4 \/ (h = 6 /\ Sizes[i] = 0) => k = 1
    BY <2>2, <2>3, <2>n
  <2>7. QED
    BY <2>2, <2>4, <2>5, <2>6
<1>10. QED
  BY <1>9 DEF Quiet, v, r

-----------------------------------------------------------------------------
(***************************************************************************)
(* What is counted and what was executed.                                  *)
(***************************************************************************)
LEMMA BadFacts ==
  ASSUME NEW n \in Nat
  PROVE  /\ Bad(n) \in Nat
         /\ Bad(n + 1) = IF n + 1 \in Invalid THEN Bad(n) + 1 ELSE Bad(n)
         /\ \A m \in Nat : n <= m => Bad(n) <= Bad(m)
<1> DEFINE S(k) == Invalid \cap 1..k
<1>1. ASSUME NEW k \in Nat PROVE IsFiniteSet(S(k))
  <2>1. IsFiniteSet(1..k)
    BY FS_Interval
  <2>2. S(k) \in SUBSET (1..k)
    OBVIOUS
  <2> HIDE DEF S
  <2>3. QED
    BY <2>1, <2>2, FS_Subset
<1>2. \A k : Bad(k) = Cardinality(S(k))
  BY DEF Bad
<1>3. S(n + 1) = IF n + 1 \in Invalid THEN S(n) \cup {n + 1} ELSE S(n)
  <2>1. 1..(n + 1) = (1..n) \cup {n + 1}
    OBVIOUS
  <2>2. QED
    BY <2>1
<1>4. n + 1 \notin S(n)
  OBVIOUS
<1>5. \A m \in Nat : n <= m => S(n) \in SUBSET S(m)
  OBVIOUS
<1> HIDE DEF S
<1>6. Cardinality(S(n)) \in Nat
  BY <1>1, FS_CardinalityType
<1>7. Cardinality(S(n) \cup {n + 1}) = Cardinality(S(n)) + 1
  BY <1>1, <1>4, FS_AddElement
<1>8. ASSUME NEW m \in Nat, n <= m PROVE Cardinality(S(n)) <= Cardinality(S(m))
  <2>1. S(n) \in SUBSET S(m) /\ IsFiniteSet(S(m))
    BY <1>1, <1>5, <1>8
  <2>2. QED
    BY <2>1, FS_Subset
<1>9. QED
  BY <1>2, <1>3, <1>6, <1>7, <1>8

\* An invalid packet is passed over.
LEMMA ExecutedSkip ==
  ASSUME NEW n \in Nat, n + 1 \in Invalid, ExecutedUpTo(n), UNCHANGED executed
  PROVE  ExecutedUpTo(n + 1)'
<1>1. (1..(n + 1)) \ Invalid = (1..n) \ Invalid
  OBVIOUS
<1>2. QED
  BY <1>1 DEF ExecutedUpTo

\* A packet is executed.
LEMMA ExecutedNext ==
  ASSUME NEW n \in Nat, n + 1 \notin Invalid, ExecutedUpTo(n), executed \in Seq(Nat \X Seq(Tokens)),
         NEW y, y = (IF Sizes[n + 1] = 0 THEN <<>> ELSE Payload(n + 1)),
         executed' = Append(executed, <<n + 1, y>>)
  PROVE  ExecutedUpTo(n + 1)'
<1> DEFINE L == Len(executed)
           x == executed'
           E(i) == <<i, IF Sizes[i] = 0 THEN <<>> ELSE Payload(i)>>
<1>1. L \in Nat /\ DOMAIN executed = 1..L
  OBVIOUS
<1>2. /\ DOMAIN x = 1..(L + 1) /\ x[L + 1] = <<n + 1, y>>
      /\ \A k \in 1..L : x[k] = executed[k]
  OBVIOUS
<1>3. x[L + 1][1] = n + 1 /\ x[L + 1] = E(n + 1)
  BY <1>2
<1>4. /\ {executed[k][1] : k \in 1..L} = (1..n) \ Invalid
      /\ \A j, k \in 1..L : j < k => executed[j][1] < executed[k][1]
      /\ \A k \in 1..L : executed[k] = E(executed[k][1])
  BY <1>1 DEF ExecutedUpTo
<1> HIDE DEF L, x, E
<1>5. {x[k][1] : k \in 1..(L + 1)} = (1..(n + 1)) \ Invalid
  <2>1. 1..(L + 1) = (1..L) \cup {L + 1} /\ 1..(n + 1) = (1..n) \cup {n + 1}
    BY <1>1
  <2>2. {x[k][1] : k \in 1..(L + 1)} = {executed[k][1] : k \in 1..L} \cup {n + 1}
    <3>1. \A k \in 1..L : x[k][1] = executed[k][1]
      BY <1>2
    <3>2. ASSUME NEW k \in 1..(L + 1) PROVE x[k][1] \in {executed[h][1] : h \in 1..L} \cup {n + 1}
      <4>1. k \in 1..L \/ k = L + 1
        BY <2>1
      <4>2. QED
        BY <4>1, <3>1, <1>3
    <3>3. ASSUME NEW h \in 1..L PROVE executed[h][1] \in {x[k][1] : k \in 1..(L + 1)}
      <4>1. h \in 1..(L + 1)
        BY <2>1
      <4>2. QED
        BY <4>1, <3>1
    <3>4. n + 1 \in {x[k][1] : k \in 1..(L + 1)}
      BY <2>1, <1>3
    <3>5. QED
      BY <3>2, <3>3, <3>4
  <2>3. QED
    BY <2>1, <2>2, <1>4
<1>6. ASSUME NEW j \in 1..(L + 1), NEW k \in 1..(L + 1), j < k PROVE x[j][1] < x[k][1]
  <2>1. j \in 1..L /\ (k \in 1..L \/ k = L + 1)
    BY <1>1, <1>6
  <2>2. executed[j][1] \in 1..n
    BY <2>1, <1>4
  <2>3. CASE k \in 1..L
    BY <2>1, <2>3, <1>2, <1>4, <1>6
  <2>4. CASE k = L + 1
    <3>1. x[j][1] = executed[j][1] /\ x[k][1] = n + 1
      BY <2>1, <2>4, <1>2, <1>3
    <3>2. QED
      BY <3>1, <2>2
  <2>5. QED
    BY <2>1, <2>3, <2>4
<1>7. ASSUME NEW k \in 1..(L + 1) PROVE x[k] = E(x[k][1])
  <2>1. k \in 1..L \/ k = L + 1
    BY <1>1
  <2>2. CASE k \in 1..L
    BY <2>2, <1>2, <1>4
  <2>3. CASE k = L + 1
    BY <2>3, <1>3
  <2>4. QED
    BY <2>1, <2>2, <2>3
<1>8. QED
  BY <1>2, <1>5, <1>6, <1>7 DEF ExecutedUpTo, x, E

-----------------------------------------------------------------------------
(***************************************************************************)
(* The bytes of the packets.                                               *)
(***************************************************************************)
LEMMA KnownEmpty ==
  ASSUME NEW n
  PROVE  Known(<<>>, n)
<1>1. Len(<<>>) = 0
  OBVIOUS
<1>2. QED
  BY <1>1 DEF Known

LEMMA KnownParts ==
  ASSUME NEW n, NEW x \in Seq(Tokens), Known(x, n), NEW k \in 0..Len(x)
  PROVE  Known(Take(x, k), n) /\ Known(Drop(x, k), n)
<1> DEFINE u == Take(x, k)
           v == Drop(x, k)
<1>1. /\ Len(u) = k /\ Len(v) = Len(x) - k
      /\ \A i \in 1..k : u[i] = x[i]
      /\ \A i \in 1..(Len(x) - k) : v[i] = x[k + i]
  BY Cut
<1>2. Len(x) \in Nat /\ k \in Nat /\ k <= Len(x)
  OBVIOUS
<1> HIDE DEF u, v
<1>3. ASSUME NEW i \in 1..Len(u) PROVE u[i] \in Bytes(n)
  <2>1. i \in 1..k /\ i \in 1..Len(x)
    BY <1>1, <1>2
  <2>2. QED
    BY <2>1, <1>1 DEF Known
<1>4. ASSUME NEW i \in 1..Len(v) PROVE v[i] \in Bytes(n)
  <2>1. i \in 1..(Len(x) - k) /\ k + i \in 1..Len(x)
    BY <1>1, <1>2
  <2>2. QED
    BY <2>1, <1>1 DEF Known
<1>5. QED
  BY <1>3, <1>4 DEF Known, u, v

LEMMA KnownJoined ==
  ASSUME NEW n, NEW x \in Seq(Tokens), NEW y \in Seq(Tokens), Known(x, n), Known(y, n)
  PROVE  Known(x \o y, n)
<1> DEFINE w == x \o y
<1>1. /\ Len(w) = Len(x) + Len(y)
      /\ \A k \in 1..(Len(x) + Len(y)) : w[k] = IF k <= Len(x) THEN x[k] ELSE y[k - Len(x)]
  BY Joined
<1>2. Len(x) \in Nat /\ Len(y) \in Nat
  OBVIOUS
<1> HIDE DEF w
<1>3. ASSUME NEW k \in 1..Len(w) PROVE w[k] \in Bytes(n)
  <2>1. k \in 1..(Len(x) + Len(y)) /\ k \in Int
    BY <1>1, <1>2
  <2>2. CASE k <= Len(x)
    <3>1. k \in 1..Len(x) /\ w[k] = x[k]
      BY <2>1, <2>2, <1>1, <1>2
    <3>2. QED
      BY <3>1 DEF Known
  <2>3. CASE k > Len(x)
    <3>1. k - Len(x) \in 1..Len(y) /\ ~(k <= Len(x))
      BY <2>1, <2>3, <1>2
    <3>2. w[k] = y[k - Len(x)]
      BY <2>1, <3>1, <1>1
    <3>3. QED
      BY <3>1, <3>2 DEF Known
  <2>4. QED
    BY <2>1, <2>2, <2>3, <1>2
<1>4. QED
  BY <1>3 DEF Known, w

LEMMA KnownLater ==
  ASSUME NEW n \in Nat, NEW x, Known(x, n)
  PROVE  Known(x, n + 1)
<1>1. \A i \in 1..n : i \in 1..(n + 1)
  OBVIOUS
<1>2. Bytes(n) \subseteq Bytes(n + 1)
  BY <1>1 DEF Bytes
<1>3. QED
  BY <1>2 DEF Known

LEMMA KnownWire ==
  ASSUME NEW n \in 1..Len(Sizes)
  PROVE  Known(Wire(n), n)
<1> DEFINE a == Wire(n)
           s == Sizes[n]
<1>1. n \in Nat /\ s \in Nat /\ Length(n) \in Nat
  BY SizeFacts
<1>2. Len(a) = Length(n) /\ \A k \in 1..Length(n) : a[k] = Byte(n, k)
  BY WireBytes
<1>3. n \in 1..n
  BY <1>1
<1>4. CR \in Bytes(n) /\ LF \in Bytes(n) /\ Header(n) \in Bytes(n)
  BY <1>3 DEF Bytes
<1>5. ASSUME NEW k \in 1..Length(n) PROVE Byte(n, k) \in Bytes(n)
  <2>1. CASE s # 0 /\ k > 5 /\ k < 5 + s
    <3>1. Byte(n, k) = <<"body", n, k - 5>>
      BY <2>1, <1>1 DEF Byte
    <3>2. k - 5 \in 1..(s - 1)
      BY <2>1, <1>1
    <3>3. k - 5 \in DOMAIN Payload(n) /\ Payload(n)[k - 5] = <<"body", n, k - 5>>
      BY <3>2 DEF Payload, Body
    <3> DEFINE h == k - 5
    <3>4. h \in DOMAIN Payload(n) /\ Byte(n, k) = Payload(n)[h]
      BY <3>1, <3>3
    <3> HIDE DEF h
    <3>5. QED
      BY <3>4, <1>3 DEF Bytes
  <2>2. CASE ~(s # 0 /\ k > 5 /\ k < 5 + s)
    <3>1. k \in Int /\ k >= 1
      BY <1>1
    <3>2. Byte(n, k) \in {CR, LF, Header(n)}
      <4>1. CASE k <= 5
        <5>1. k = 1 \/ k = 2 \/ k = 3 \/ k = 4 \/ k = 5
          BY <4>1, <3>1
        <5>2. QED
          BY <5>1 DEF Byte
      <4>2. CASE k > 5
        <5>1. k # 1 /\ k # 2 /\ k # 3 /\ k # 4 /\ k # 5
          BY <4>2, <3>1
        <5>2. QED
          BY <4>2, <5>1, <2>2 DEF Byte
      <4>3. QED
        BY <4>1, <4>2, <3>1
    <3>3. QED
      BY <3>2, <1>4
  <2>3. QED
    BY <2>1, <2>2
<1> HIDE DEF a
<1>6. QED
  BY <1>2, <1>5 DEF Known, a

-----------------------------------------------------------------------------
(***************************************************************************)
(* RequestInv holds, step by step.                                         *)
(***************************************************************************)
LEMMA SentFacts ==
  ASSUME Types
  PROVE  /\ Len(Sizes) \in Nat /\ sent \in Nat /\ sent <= Len(Sizes)
         /\ \A n \in 0..sent : n \in Nat /\ n <= sent
<1>1. Len(Sizes) \in Nat
  BY SizesAssumption
<1>2. sent \in 0..Len(Sizes)
  BY DEF Types
<1>3. QED
  BY <1>1, <1>2

LEMMA Starts ==
  Init => RequestInv
<1> SUFFICES ASSUME Init PROVE RequestInv
  OBVIOUS
<1> DEFINE p == [i \in Nat |-> 1]
<1>1. /\ sent = 0 /\ net = <<>> /\ closed = FALSE /\ at = "header" /\ b = <<>> /\ c = <<>>
      /\ packet = NoPacket /\ executed = <<>> /\ refused = 0
  BY DEF Init
<1>2. Len(Sizes) \in Nat
  BY SizesAssumption
<1>3. Types
  <2>1. <<>> \in Seq(Tokens) /\ <<>> \in Seq(Nat \X Seq(Tokens)) /\ 0 \in 0..Len(Sizes)
    BY <1>2
  <2>2. QED
    BY <2>1, <1>1 DEF Types
<1>4. Known(net, sent) /\ Known(b, sent) /\ Known(c, sent)
  BY <1>1, KnownEmpty
<1>5. b \o net = <<>> /\ <<>> \in Seq(Tokens) /\ Len(<<>>) = 0
  BY <1>1
<1>6. p \in [Nat -> Int] /\ p[0 + 1] = 1
  OBVIOUS
<1> HIDE DEF p
<1>7. Layout(<<>>, p, 0, 0)
  <2>1. (0 + 1)..0 = {} /\ (0 + 1)..(0 + 1) = {1} /\ p[1] = 1
    BY <1>6
  <2>2. QED
    BY <2>1, <1>5, <1>6 DEF Layout
<1>8. ExecutedUpTo(0)
  <2>1. 1..0 = {} /\ DOMAIN executed = {}
    BY <1>1
  <2>2. QED
    BY <2>1 DEF ExecutedUpTo
<1>9. Quiet(<<>>, 0)
  BY DEF Quiet
<1>10. Bad(0) \in Nat
  BY BadFacts
<1>11. Between(0, p)
  <2>1. p[sent + 1] = 1 /\ p[0 + 1] - 1 = 0
    BY <1>1, <1>6
  <2>2. refused <= 2 * Bad(0)
    BY <1>1, <1>10
  <2>3. QED
    BY <2>1, <2>2, <1>1, <1>5, <1>7, <1>8, <1>9 DEF Between, Complete
<1>12. 0 \in 0..sent
  BY <1>1
<1>13. QED
  BY <1>1, <1>3, <1>4, <1>6, <1>11, <1>12 DEF RequestInv, AtHeader, AtPayload, AtEnd

\* What is in front of the packets stays there when another one is sent.
LEMMA Extended ==
  ASSUME NEW n \in Nat, NEW m \in Nat, n <= m, m + 1 <= Len(Sizes),
         NEW w, NEW p, Layout(w, p, n, m), Len(w) + 1 = p[m + 1]
  PROVE  \A k \in 1..(p[n + 1] - 1) : k <= Len(w) /\ (w \o Wire(m + 1))[k] = w[k]
<1> DEFINE a == Wire(m + 1)
           v == w \o a
           q == p[n + 1]
<1>1. m <= Len(Sizes) /\ m + 1 \in 1..Len(Sizes) /\ m + 1 \in (n + 1)..(m + 1)
  BY SizesAssumption
<1>2. w \in Seq(Tokens) /\ Len(w) \in Nat
  BY <1>1, LayoutFacts
<1>3. a \in Seq(Tokens)
  BY <1>1, WireBytes
<1> HIDE DEF a
<1>4. \A k \in 1..(Len(w) + Len(a)) : v[k] = IF k <= Len(w) THEN w[k] ELSE a[k - Len(w)]
  BY <1>2, <1>3, Joined
<1>5. q <= p[m + 1] /\ q \in Int
  <2>1. n + 1 \in (n + 1)..(m + 1)
    OBVIOUS
  <2>2. QED
    BY <1>1, <2>1, LayoutFacts
<1>6. Len(a) \in Nat
  BY <1>3
<1>n. q \in Int /\ q <= Len(w) + 1 /\ Len(w) \in Nat /\ Len(a) \in Nat
  BY <1>2, <1>5, <1>6
<1> HIDE DEF v, q
<1>7. ASSUME NEW k \in 1..(q - 1) PROVE k <= Len(w) /\ v[k] = w[k]
  <2>1. k <= Len(w) /\ k \in 1..(Len(w) + Len(a))
    BY <1>n
  <2>2. QED
    BY <2>1, <1>4
<1>8. QED
  BY <1>7 DEF v, q, a

LEMMA SendPacketKeeps ==
  ASSUME RequestInv, SendPacket
  PROVE  RequestInv'
<1> DEFINE a == Wire(sent + 1)
<1>1. Types /\ Known(net, sent) /\ Known(b, sent) /\ Known(c, sent) /\ AtHeader /\ AtPayload /\ AtEnd
  BY DEF RequestInv
<1>2. /\ ~closed /\ sent < Len(Sizes) /\ sent' = sent + 1 /\ net' = net \o a
      /\ closed' = closed /\ at' = at /\ b' = b /\ c' = c /\ packet' = packet
      /\ executed' = executed /\ refused' = refused
  BY DEF SendPacket
<1>3. Len(Sizes) \in Nat /\ sent \in Nat /\ sent + 1 <= Len(Sizes) /\ sent + 1 \in 1..Len(Sizes)
  BY <1>1, <1>2, SentFacts
<1>4. a \in Seq(Tokens) /\ net \in Seq(Tokens) /\ b \in Seq(Tokens) /\ c \in Seq(Tokens)
  BY <1>1, <1>3, WireBytes DEF Types
<1>5. Known(a, sent + 1)
  BY <1>3, KnownWire
<1>6. Known(net, sent + 1) /\ Known(b, sent + 1) /\ Known(c, sent + 1)
  BY <1>1, <1>3, KnownLater
<1> HIDE DEF a
<1>7. Known(net', sent') /\ Known(b', sent') /\ Known(c', sent')
  BY <1>2, <1>4, <1>5, <1>6, KnownJoined
<1>8. Types'
  <2>1. net \o a \in Seq(Tokens)
    BY <1>4, Joined
  <2>2. sent + 1 \in 0..Len(Sizes)
    BY <1>3
  <2>3. QED
    BY <2>1, <2>2, <1>1, <1>2 DEF Types
<1>9. b \o (net \o a) = (b \o net) \o a /\ c \o (net \o a) = (c \o net) \o a
  <2>1. b \in Seq(Tokens) /\ c \in Seq(Tokens) /\ net \in Seq(Tokens) /\ a \in Seq(Tokens)
    BY <1>4
  <2>2. b \o (net \o a) = (b \o net) \o a
    BY <2>1, Reassociated
  <2>3. c \o (net \o a) = (c \o net) \o a
    BY <2>1, Reassociated
  <2>4. QED
    BY <2>2, <2>3
<1>m. PICK m \in Nat : m = sent
  BY <1>3
<1>10. ASSUME NEW n \in 0..sent
       PROVE  n \in Nat /\ n <= sent /\ n \in 0..sent' /\ n # Len(Sizes)
  BY <1>2, <1>3
<1>11. ASSUME at = "header"
       PROVE  AtHeader'
  <2>1. PICK n \in Nat : n \in 0..sent /\ \E p : Between(n, p)
    BY <1>1, <1>10, <1>11 DEF AtHeader
  <2>2. PICK p : Between(n, p)
    BY <2>1
  <2> DEFINE w == b \o net
             v == w \o a
  <2>3. /\ Layout(w, p, n, sent) /\ Len(w) + 1 = p[sent + 1] /\ ExecutedUpTo(n)
        /\ \/ Quiet(w, p[n + 1] - 1) /\ refused <= 2 * Bad(n)
           \/ Leftover(w, n) /\ p[n + 1] = 5 /\ refused < 2 * Bad(n)
    BY <2>2, <1>2 DEF Between, Complete
  <2>4. Quiet(w, p[n + 1] - 1) /\ refused <= 2 * Bad(n)
    BY <2>1, <2>3, <1>10 DEF Leftover
  <2>5. n \in Nat /\ n <= m /\ m + 1 <= Len(Sizes)
    BY <2>1, <1>3, <1>10, <1>m
  <2>a. Layout(w, p, n, m) /\ Len(w) + 1 = p[m + 1]
    BY <2>3, <1>m
  <2> HIDE DEF w
  <2>b. v = w \o Wire(sent + 1)
    BY DEF a
  <2> HIDE DEF v
  <2>6. PICK q \in [Nat -> Int] : /\ Layout(v, q, n, sent + 1)
                                  /\ q[n + 1] = p[n + 1] /\ Len(v) + 1 = q[sent + 2]
    <3>1. \E q \in [Nat -> Int] :
            /\ Layout(w \o Wire(m + 1), q, n, m + 1)
            /\ q[n + 1] = p[n + 1] /\ Len(w \o Wire(m + 1)) + 1 = q[m + 2]
      BY <2>5, <2>a, LayoutAppend
    <3>2. QED
      BY <3>1, <2>b, <1>m
  <2>7. \A k \in 1..(p[n + 1] - 1) : k <= Len(w) /\ v[k] = w[k]
    <3>1. \A k \in 1..(p[n + 1] - 1) : k <= Len(w) /\ (w \o Wire(m + 1))[k] = w[k]
      BY <2>5, <2>a, Extended
    <3>2. QED
      BY <3>1, <2>b, <1>m
  <2>8. Quiet(v, q[n + 1] - 1)
    BY <2>4, <2>6, <2>7 DEF Quiet
  <2>9. b' \o net' = v
    BY <1>2, <1>9 DEF v, w
  <2>10. Layout(b' \o net', q, n, sent') /\ Len(b' \o net') + 1 = q[sent' + 1]
    <3>1. (sent + 1) + 1 = sent + 2
      BY <1>3
    <3>2. QED
      BY <3>1, <2>6, <2>9, <1>2
  <2>11. ExecutedUpTo(n)'
    BY <2>3, <1>2 DEF ExecutedUpTo
  <2>12. Between(n, q)'
    BY <2>4, <2>6, <2>8, <2>9, <2>10, <2>11, <1>2 DEF Between, Complete
  <2>13. c = <<>> /\ packet = NoPacket
    BY <1>1, <1>11 DEF AtHeader
  <2>14. QED
    BY <2>1, <2>6, <2>12, <2>13, <1>2, <1>10 DEF AtHeader
<1>12. ASSUME at = "payload"
       PROVE  AtPayload'
  <2>1. PICK n \in Nat : n \in 1..sent /\ \E p : \E f \in Nat : Within(n, p, f)
    <3>1. \A n \in 1..sent : n \in Nat
      OBVIOUS
    <3>2. QED
      BY <3>1, <1>1, <1>12 DEF AtPayload
  <2>2. PICK p : \E f \in Nat : Within(n, p, f)
    BY <2>1
  <2>c. PICK f \in Nat : Within(n, p, f)
    BY <2>2
  <2> DEFINE w == c \o net
             v == w \o a
  <2>3. /\ n \notin Invalid /\ f + 1 < Sizes[n]
        /\ packet = [id |-> n, fragment |-> Body(n, f), total |-> Sizes[n] - f]
        /\ b = <<>> /\ Len(c) <= Sizes[n] - f
        /\ Layout(w, p, n, sent) /\ Len(w) + 1 = p[sent + 1]
        /\ p[n + 1] = Sizes[n] - f + 1
        /\ \A k \in 1..(Sizes[n] - f) : k <= Len(w) => w[k] = Byte(n, 5 + f + k)
        /\ ExecutedUpTo(n - 1) /\ refused <= 2 * Bad(n - 1)
    BY <2>c, <1>2 DEF Within, Complete
  <2>4. n \in 1..Len(Sizes) /\ n \in 1..sent'
    BY <2>1, <1>2, <1>3
  <2>5. n \in Nat /\ n <= m /\ m + 1 <= Len(Sizes)
    BY <2>1, <1>3, <1>m
  <2>a. Layout(w, p, n, m) /\ Len(w) + 1 = p[m + 1]
    BY <2>3, <1>m
  <2> HIDE DEF w
  <2>b. v = w \o Wire(sent + 1)
    BY DEF a
  <2> HIDE DEF v
  <2>6. PICK q \in [Nat -> Int] : /\ Layout(v, q, n, sent + 1)
                                  /\ q[n + 1] = p[n + 1] /\ Len(v) + 1 = q[sent + 2]
    <3>1. \E q \in [Nat -> Int] :
            /\ Layout(w \o Wire(m + 1), q, n, m + 1)
            /\ q[n + 1] = p[n + 1] /\ Len(w \o Wire(m + 1)) + 1 = q[m + 2]
      BY <2>5, <2>a, LayoutAppend
    <3>2. QED
      BY <3>1, <2>b, <1>m
  <2>7. \A k \in 1..(p[n + 1] - 1) : k <= Len(w) /\ v[k] = w[k]
    <3>1. \A k \in 1..(p[n + 1] - 1) : k <= Len(w) /\ (w \o Wire(m + 1))[k] = w[k]
      BY <2>5, <2>a, Extended
    <3>2. QED
      BY <3>1, <2>b, <1>m
  <2>8. Sizes[n] \in Nat
    BY <2>4, SizeFacts
  <2>9. \A k \in 1..(Sizes[n] - f) : k <= Len(v) => v[k] = Byte(n, 5 + f + k)
    <3> HIDE DEF v
    <3>0. p[n + 1] = Sizes[n] - f + 1
      BY <2>3
    <3>1. p[n + 1] - 1 = Sizes[n] - f
      BY <3>0, <2>8
    <3>2. QED
      BY <3>1, <2>3, <2>7
  <2>10. c' \o net' = v
    BY <1>2, <1>9 DEF v, w
  <2>11. Layout(c' \o net', q, n, sent') /\ Len(c' \o net') + 1 = q[sent' + 1]
    <3>1. (sent + 1) + 1 = sent + 2
      BY <1>3
    <3>2. QED
      BY <3>1, <2>6, <2>10, <1>2
  <2>12. ExecutedUpTo(n - 1)'
    <3>1. ExecutedUpTo(n - 1) /\ executed' = executed
      BY <2>3, <1>2
    <3>2. QED
      BY <3>1 DEF ExecutedUpTo
  <2>13. Within(n, q, f)'
    BY <2>3, <2>6, <2>9, <2>10, <2>11, <2>12, <1>2 DEF Within, Complete
  <2>14. QED
    BY <2>4, <2>6, <2>13 DEF AtPayload
<1>13. at # "ended"
  BY <1>1, <1>2 DEF AtEnd
<1>14. AtHeader' /\ AtPayload' /\ AtEnd'
  BY <1>2, <1>11, <1>12, <1>13 DEF AtHeader, AtPayload, AtEnd
<1>15. QED
  BY <1>7, <1>8, <1>14 DEF RequestInv

\* The stream when the session waits for a header, with names for numbers.
LEMMA HeaderState ==
  ASSUME RequestInv, at = "header"
  PROVE  /\ c = <<>> /\ packet = NoPacket
         /\ \E m, n \in Nat : /\ m = sent /\ n <= m /\ m <= Len(Sizes) /\ n \in 0..sent
                              /\ \E p : Between(n, p)
<1>1. Types /\ AtHeader
  BY DEF RequestInv
<1>2. sent \in Nat /\ sent <= Len(Sizes) /\ \A n \in 0..sent : n \in Nat /\ n <= sent
  BY <1>1, SentFacts
<1>3. QED
  BY <1>1, <1>2 DEF AtHeader

LEMMA PayloadState ==
  ASSUME RequestInv, at = "payload"
  PROVE  \E m, n \in Nat : /\ m = sent /\ n <= m /\ m <= Len(Sizes) /\ n \in 1..sent
                           /\ \E p : \E f \in Nat : Within(n, p, f)
<1>1. Types /\ AtPayload
  BY DEF RequestInv
<1>2. sent \in Nat /\ sent <= Len(Sizes)
  BY <1>1, SentFacts
<1>3. PICK m \in Nat : m = sent
  BY <1>2
<1>4. \A n \in 1..m : n \in Nat /\ n <= m
  OBVIOUS
<1>5. QED
  BY <1>1, <1>2, <1>3, <1>4 DEF AtPayload

LEMMA ToHeader ==
  ASSUME Types', Known(net', sent'), Known(b', sent'), c' = <<>>, packet' = NoPacket,
         at' = "header", NEW n, n \in 0..sent', NEW p, Between(n, p)'
  PROVE  RequestInv'
<1>1. p \in [Nat -> Int]
  BY DEF Between, Layout
<1>2. Known(c', sent')
  BY KnownEmpty
<1>3. AtHeader'
  BY <1>1 DEF AtHeader
<1>4. AtPayload' /\ AtEnd'
  BY DEF AtPayload, AtEnd
<1>5. QED
  BY <1>2, <1>3, <1>4 DEF RequestInv

LEMMA ToPayload ==
  ASSUME Types', Known(net', sent'), Known(b', sent'), Known(c', sent'),
         at' = "payload", NEW n, n \in 1..sent', NEW p, NEW f \in Nat, Within(n, p, f)'
  PROVE  RequestInv'
<1>1. p \in [Nat -> Int]
  BY DEF Within, Layout
<1>2. AtPayload'
  BY <1>1 DEF AtPayload
<1>3. AtHeader' /\ AtEnd'
  BY DEF AtHeader, AtEnd
<1>4. QED
  BY <1>2, <1>3 DEF RequestInv

\* What is in front of the packets when the end of the stream is lost.
LEMMA Shortened ==
  ASSUME NEW w \in Seq(Tokens), NEW d \in 0..Len(w)
  PROVE  LET v == Take(w, d)
         IN  /\ \A k \in 1..Len(v) : k \in 1..Len(w) /\ v[k] = w[k]
             /\ \A r \in Int : Quiet(w, r) => Quiet(v, r)
             /\ \A n : Leftover(w, n) => Leftover(v, n)
<1> DEFINE v == Take(w, d)
<1>1. Len(v) = d /\ \A i \in 1..d : v[i] = w[i]
  BY Cut
<1> HIDE DEF v
<1>2. d \in Nat /\ d <= Len(w) /\ Len(w) \in Nat
  OBVIOUS
<1>3. \A k \in 1..Len(v) : k \in 1..Len(w) /\ v[k] = w[k]
  BY <1>1, <1>2
<1>4. ASSUME NEW r \in Int, Quiet(w, r) PROVE Quiet(v, r)
  <2>1. ASSUME NEW k \in 1..r, k <= Len(v)
        PROVE  ~IsHeader(v[k]) /\ (v[k] = CR => k = 1) /\ (k = r => v[k] = LF)
    <3>1. k \in 1..Len(v) /\ k <= Len(w)
      BY <2>1, <1>1, <1>2
    <3>2. v[k] = w[k]
      BY <3>1, <1>3
    <3>3. QED
      BY <3>1, <3>2, <1>4 DEF Quiet
  <2>2. QED
    BY <2>1 DEF Quiet
<1>5. ASSUME NEW n, Leftover(w, n) PROVE Leftover(v, n)
  <2>1. ASSUME NEW k \in 1..4, k <= Len(v) PROVE v[k] = IF k = 1 \/ k = 3 THEN CR ELSE LF
    <3>1. k \in 1..Len(v) /\ k <= Len(w)
      BY <2>1, <1>1, <1>2
    <3>2. v[k] = w[k]
      BY <3>1, <1>3
    <3>3. QED
      BY <3>1, <3>2, <1>5 DEF Leftover
  <2>2. QED
    BY <2>1, <1>5 DEF Leftover
<1>6. QED
  BY <1>3, <1>4, <1>5 DEF v

LEMMA CloseKeeps ==
  ASSUME RequestInv, Close
  PROVE  RequestInv'
<1>1. /\ Types /\ Known(net, sent) /\ Known(b, sent) /\ Known(c, sent) /\ AtEnd
      /\ at \in {"header", "payload", "ended"}
  BY DEF RequestInv, Types
<1>2. /\ ~closed /\ closed' = TRUE /\ sent' = sent
      /\ at' = at /\ b' = b /\ c' = c /\ packet' = packet
      /\ executed' = executed /\ refused' = refused
  BY DEF Close
<1>3. PICK k \in 0..Len(net) : net' = Take(net, k)
  BY DEF Close
<1>4. net \in Seq(Tokens) /\ b \in Seq(Tokens) /\ c \in Seq(Tokens)
  BY <1>1 DEF Types
<1>5. net' \in Seq(Tokens) /\ Known(net', sent) /\ k \in Nat /\ k <= Len(net)
  BY <1>1, <1>3, <1>4, Cut, KnownParts
<1>6. Types' /\ Known(net', sent') /\ Known(b', sent') /\ Known(c', sent')
  BY <1>1, <1>2, <1>5 DEF Types
<1>7. ASSUME NEW x \in Seq(Tokens)
      PROVE  /\ x \o net' = Take(x \o net, Len(x) + k)
             /\ x \o net \in Seq(Tokens) /\ Len(x) + k \in 0..Len(x \o net)
  <2>1. x \o net' = Take(x \o net, Len(x) + k)
    BY <1>3, <1>4, CutJoined
  <2>2. x \o net \in Seq(Tokens) /\ Len(x \o net) = Len(x) + Len(net)
    BY <1>4, Joined
  <2>3. Len(x) \in Nat /\ Len(net) \in Nat
    BY <1>4
  <2>4. Len(x) + k \in 0..(Len(x) + Len(net))
    BY <2>3, <1>5
  <2>5. QED
    BY <2>1, <2>2, <2>4
<1>8. CASE at = "header"
  <2>1. PICK m \in Nat, n \in Nat : /\ m = sent /\ n <= m /\ m <= Len(Sizes) /\ n \in 0..sent
                                    /\ \E p : Between(n, p)
    BY <1>8, HeaderState
  <2>2. PICK p : Between(n, p)
    BY <2>1
  <2> DEFINE w == b \o net
             d == Len(b) + k
             v == Take(w, d)
  <2>3. /\ Layout(w, p, n, m) /\ ExecutedUpTo(n)
        /\ \/ Quiet(w, p[n + 1] - 1) /\ refused <= 2 * Bad(n)
           \/ Leftover(w, n) /\ p[n + 1] = 5 /\ refused < 2 * Bad(n)
    BY <2>1, <2>2 DEF Between
  <2>4. b' \o net' = v /\ w \in Seq(Tokens) /\ d \in 0..Len(w)
    BY <1>2, <1>4, <1>7
  <2> HIDE DEF w, d
  <2>a. n \in Nat /\ m \in Nat /\ n <= m /\ m <= Len(Sizes) /\ Layout(w, p, n, m)
    BY <2>1, <2>3
  <2>5. Layout(v, p, n, m)
    BY <2>4, <2>a, LayoutTake
  <2>6. p[n + 1] - 1 \in Int
    <3>1. n + 1 \in (n + 1)..(m + 1)
      BY <2>a
    <3>2. p[n + 1] \in Int
      BY <3>1, <2>a, LayoutFacts
    <3>3. QED
      BY <3>2
  <2>7. /\ Quiet(w, p[n + 1] - 1) => Quiet(v, p[n + 1] - 1)
        /\ Leftover(w, n) => Leftover(v, n)
    BY <2>4, <2>6, Shortened
  <2> HIDE DEF v
  <2>8. ExecutedUpTo(n)'
    BY <2>3, <1>2 DEF ExecutedUpTo
  <2>9. Between(n, p)'
    BY <2>1, <2>3, <2>4, <2>5, <2>7, <2>8, <1>2 DEF Between, Complete, Leftover
  <2>10. c = <<>> /\ packet = NoPacket /\ n \in 0..sent'
    BY <2>1, <1>2, <1>8, HeaderState
  <2>11. QED
    BY <2>9, <2>10, <1>2, <1>6, <1>8, ToHeader
<1>9. CASE at = "payload"
  <2>1. PICK m \in Nat, n \in Nat : /\ m = sent /\ n <= m /\ m <= Len(Sizes) /\ n \in 1..sent
                                    /\ \E p : \E f \in Nat : Within(n, p, f)
    BY <1>9, PayloadState
  <2>2. PICK p : \E f \in Nat : Within(n, p, f)
    BY <2>1
  <2>b. PICK f \in Nat : Within(n, p, f)
    BY <2>2
  <2> DEFINE w == c \o net
             d == Len(c) + k
             v == Take(w, d)
  <2>3. /\ n \notin Invalid /\ f + 1 < Sizes[n]
        /\ packet = [id |-> n, fragment |-> Body(n, f), total |-> Sizes[n] - f]
        /\ b = <<>> /\ Len(c) <= Sizes[n] - f
        /\ Layout(w, p, n, m)
        /\ p[n + 1] = Sizes[n] - f + 1
        /\ \A j \in 1..(Sizes[n] - f) : j <= Len(w) => w[j] = Byte(n, 5 + f + j)
        /\ ExecutedUpTo(n - 1) /\ refused <= 2 * Bad(n - 1)
    BY <2>1, <2>b DEF Within
  <2>4. c' \o net' = v /\ w \in Seq(Tokens) /\ d \in 0..Len(w)
    BY <1>2, <1>4, <1>7
  <2> HIDE DEF w, d
  <2>a. n \in Nat /\ m \in Nat /\ n <= m /\ m <= Len(Sizes) /\ Layout(w, p, n, m)
    BY <2>1, <2>3
  <2>5. Layout(v, p, n, m)
    BY <2>4, <2>a, LayoutTake
  <2>6. \A j \in 1..Len(v) : j \in 1..Len(w) /\ v[j] = w[j]
    BY <2>4, Shortened
  <2>7. Len(v) \in Nat /\ Len(w) \in Nat
    <3>1. v \in Seq(Tokens)
      BY <2>4, Cut
    <3> HIDE DEF v
    <3>2. QED
      BY <3>1, <2>4
  <2> HIDE DEF v
  <2>8. Sizes[n] \in Nat
    BY <2>a, <2>1, SizeFacts
  <2>9. ASSUME NEW j \in 1..(Sizes[n] - f), j <= Len(v) PROVE v[j] = Byte(n, 5 + f + j)
    <3>1. j \in 1..Len(v) /\ j \in Int
      BY <2>7, <2>8, <2>9
    <3>2. j \in 1..Len(w) /\ v[j] = w[j]
      BY <3>1, <2>6
    <3>3. j <= Len(w)
      BY <3>2
    <3>4. QED
      BY <3>2, <3>3, <2>3
  <2>10. ExecutedUpTo(n - 1)'
    <3>1. ExecutedUpTo(n - 1) /\ executed' = executed
      BY <2>3, <1>2
    <3>2. QED
      BY <3>1 DEF ExecutedUpTo
  <2>11. Within(n, p, f)'
    BY <2>1, <2>3, <2>4, <2>5, <2>9, <2>10, <1>2 DEF Within, Complete
  <2>12. n \in 1..sent'
    BY <2>1, <1>2
  <2>13. QED
    BY <2>11, <2>12, <1>2, <1>6, <1>9, ToPayload
<1>10. CASE at = "ended"
  BY <1>1, <1>2, <1>10 DEF AtEnd
<1>11. QED
  BY <1>1, <1>8, <1>9, <1>10

LEMMA ReadUntilKeeps ==
  ASSUME RequestInv, ReadUntil
  PROVE  RequestInv'
<1>1. Types /\ Known(net, sent) /\ Known(b, sent)
  BY DEF RequestInv
<1>2. /\ at = "header" /\ sent' = sent /\ closed' = closed
      /\ at' = at /\ c' = c /\ packet' = packet /\ executed' = executed /\ refused' = refused
  BY DEF ReadUntil
<1>3. PICK k \in 1..Len(net) : b' = b \o Take(net, k) /\ net' = Drop(net, k)
  BY DEF ReadUntil
<1>4. net \in Seq(Tokens) /\ b \in Seq(Tokens)
  BY <1>1 DEF Types
<1>5. k \in 0..Len(net)
  BY <1>4
<1>6. Take(net, k) \in Seq(Tokens) /\ net' \in Seq(Tokens) /\ Known(Take(net, k), sent) /\ Known(net', sent)
  BY <1>1, <1>3, <1>4, <1>5, Cut, KnownParts
<1>7. b' \in Seq(Tokens) /\ Known(b', sent)
  BY <1>1, <1>3, <1>4, <1>6, Joined, KnownJoined
<1>8. Types' /\ Known(net', sent') /\ Known(b', sent')
  BY <1>1, <1>2, <1>6, <1>7 DEF Types
<1>9. b' \o net' = b \o net
  BY <1>3, <1>4, <1>5, CutJoined
<1>10. PICK m \in Nat, n \in Nat : /\ m = sent /\ n <= m /\ m <= Len(Sizes) /\ n \in 0..sent
                                   /\ \E p : Between(n, p)
  BY <1>2, HeaderState
<1>11. PICK p : Between(n, p)
  BY <1>10
<1>12. ExecutedUpTo(n)'
  <2>1. ExecutedUpTo(n)
    BY <1>11 DEF Between
  <2>2. QED
    BY <2>1, <1>2 DEF ExecutedUpTo
<1>13. Between(n, p)'
  BY <1>2, <1>9, <1>11, <1>12 DEF Between, Complete, Leftover
<1>14. c = <<>> /\ packet = NoPacket /\ n \in 0..sent'
  BY <1>2, <1>10, HeaderState
<1>15. QED
  BY <1>2, <1>8, <1>13, <1>14, ToHeader

LEMMA ReadSomeKeeps ==
  ASSUME RequestInv, ReadSome
  PROVE  RequestInv'
<1>1. Types /\ Known(net, sent) /\ Known(b, sent) /\ Known(c, sent)
  BY DEF RequestInv
<1>2. /\ at = "payload" /\ sent' = sent /\ closed' = closed
      /\ at' = at /\ b' = b /\ packet' = packet /\ executed' = executed /\ refused' = refused
  BY DEF ReadSome
<1>3. PICK k \in 1..Len(net) : /\ k <= packet.total - Len(c)
                               /\ c' = c \o Take(net, k) /\ net' = Drop(net, k)
  BY DEF ReadSome, ToRead
<1>4. net \in Seq(Tokens) /\ c \in Seq(Tokens)
  BY <1>1 DEF Types
<1>5. k \in 0..Len(net)
  BY <1>4
<1>6. /\ Take(net, k) \in Seq(Tokens) /\ net' \in Seq(Tokens) /\ Len(Take(net, k)) = k
      /\ Known(Take(net, k), sent) /\ Known(net', sent)
  BY <1>1, <1>3, <1>4, <1>5, Cut, KnownParts
<1>7. c' \in Seq(Tokens) /\ Known(c', sent) /\ Len(c') = Len(c) + k
  BY <1>1, <1>3, <1>4, <1>6, Joined, KnownJoined
<1>8. Types' /\ Known(net', sent') /\ Known(b', sent') /\ Known(c', sent')
  BY <1>1, <1>2, <1>6, <1>7 DEF Types
<1>9. c' \o net' = c \o net
  BY <1>3, <1>4, <1>5, CutJoined
<1>10. PICK m \in Nat, n \in Nat : /\ m = sent /\ n <= m /\ m <= Len(Sizes) /\ n \in 1..sent
                                   /\ \E p : \E f \in Nat : Within(n, p, f)
  BY <1>2, PayloadState
<1>11. PICK p : \E f \in Nat : Within(n, p, f)
  BY <1>10
<1>12. PICK f \in Nat : Within(n, p, f)
  BY <1>11
<1>13. /\ ExecutedUpTo(n - 1)
       /\ packet = [id |-> n, fragment |-> Body(n, f), total |-> Sizes[n] - f]
  BY <1>12 DEF Within
<1>14. ExecutedUpTo(n - 1)'
  <2>1. ExecutedUpTo(n - 1) /\ executed' = executed
    BY <1>2, <1>13
  <2>2. QED
    BY <2>1 DEF ExecutedUpTo
<1>15. Len(c') <= Sizes[n] - f
  <2>1. packet.total = Sizes[n] - f
    BY <1>13
  <2>2. Sizes[n] \in Nat /\ Len(c) \in Nat /\ k \in Nat
    <3>1. n \in 1..Len(Sizes)
      BY <1>10
    <3>2. QED
      BY <3>1, <1>4, SizeFacts
  <2>3. k <= (Sizes[n] - f) - Len(c)
    BY <2>1, <1>3
  <2>4. QED
    BY <2>2, <2>3, <1>7
<1>16. Within(n, p, f)'
  BY <1>2, <1>9, <1>12, <1>14, <1>15 DEF Within, Complete
<1>17. n \in 1..sent'
  BY <1>2, <1>10
<1>18. QED
  BY <1>2, <1>8, <1>16, <1>17, ToPayload

LEMMA EndOfStreamKeeps ==
  ASSUME RequestInv, EndOfStream
  PROVE  RequestInv'
<1>1. Types /\ Known(net, sent) /\ Known(b, sent) /\ Known(c, sent)
  BY DEF RequestInv
<1>2. /\ closed /\ at \in {"header", "payload"} /\ sent' = sent /\ net' = net /\ closed' = closed
      /\ at' = "ended" /\ b' = b /\ c' = c /\ packet' = packet
      /\ executed' = executed /\ refused' = refused
  BY DEF EndOfStream
<1>3. Types' /\ Known(net', sent') /\ Known(b', sent') /\ Known(c', sent')
  BY <1>1, <1>2 DEF Types
<1>4. \E n \in 0..sent : ExecutedUpTo(n) /\ refused <= 2 * Bad(n)
  <2>1. CASE at = "header"
    <3>1. PICK m \in Nat, n \in Nat : /\ m = sent /\ n <= m /\ m <= Len(Sizes) /\ n \in 0..sent
                                      /\ \E p : Between(n, p)
      BY <2>1, HeaderState
    <3>2. ExecutedUpTo(n) /\ (refused <= 2 * Bad(n) \/ refused < 2 * Bad(n))
      BY <3>1 DEF Between
    <3>3. Bad(n) \in Nat /\ refused \in Nat
      BY <1>1, BadFacts DEF Types
    <3>4. refused <= 2 * Bad(n)
      BY <3>2, <3>3
    <3>5. QED
      BY <3>1, <3>2, <3>4
  <2>2. CASE at = "payload"
    <3>1. PICK m \in Nat, n \in Nat : /\ m = sent /\ n <= m /\ m <= Len(Sizes) /\ n \in 1..sent
                                      /\ \E p : \E f \in Nat : Within(n, p, f)
      BY <2>2, PayloadState
    <3>2. ExecutedUpTo(n - 1) /\ refused <= 2 * Bad(n - 1)
      BY <3>1 DEF Within
    <3>3. n - 1 \in 0..sent
      BY <3>1
    <3>4. QED
      BY <3>2, <3>3
  <2>3. QED
    BY <2>1, <2>2, <1>2
<1>5. AtEnd'
  <2>1. PICK n \in 0..sent : ExecutedUpTo(n) /\ refused <= 2 * Bad(n)
    BY <1>4
  <2>2. ExecutedUpTo(n)'
    BY <2>1, <1>2 DEF ExecutedUpTo
  <2>3. n \in 0..sent' /\ refused' <= 2 * Bad(n) /\ closed'
    BY <2>1, <1>2
  <2>4. QED
    BY <2>2, <2>3 DEF AtEnd
<1>6. AtHeader' /\ AtPayload'
  BY <1>2 DEF AtHeader, AtPayload
<1>7. QED
  BY <1>3, <1>5, <1>6 DEF RequestInv

-----------------------------------------------------------------------------
(***************************************************************************)
(* Packets taken out of the buffer.                                        *)
(***************************************************************************)
LEMMA Dropped ==
  ASSUME NEW n \in Nat, NEW m \in Nat, n <= m, m <= Len(Sizes), NEW w, NEW p, Layout(w, p, n, m),
         NEW h \in Nat, n <= h, h <= m, NEW d \in Nat, d <= Len(w), d < p[h + 1]
  PROVE  \E q : /\ Layout(Drop(w, d), q, h, m)
                /\ q[h + 1] = p[h + 1] - d /\ q[m + 1] = p[m + 1] - d
<1> DEFINE q == [i \in Nat |-> p[i] - d]
<1>1. w \in Seq(Tokens) /\ Len(w) \in Nat
  BY LayoutFacts
<1>2. h \in n..m /\ d \in 0..Len(w)
  BY <1>1
<1>3. Layout(Drop(w, d), q, h, m)
  BY <1>2, LayoutDrop
<1>4. h + 1 \in Nat /\ m + 1 \in Nat
  OBVIOUS
<1>5. q[h + 1] = p[h + 1] - d /\ q[m + 1] = p[m + 1] - d
  BY <1>4
<1> HIDE DEF q
<1>6. QED
  BY <1>3, <1>5

LEMMA DropAll ==
  ASSUME NEW x \in Seq(Tokens)
  PROVE  Drop(x, Len(x)) = <<>> /\ Drop(x, Len(x) + 1) = <<>>
<1>1. Len(x) \in Nat
  OBVIOUS
<1>2. QED
  BY <1>1 DEF Drop

\* The buffer is the front of the stream.
IsFront(x, w) == Len(x) <= Len(w) /\ \A k \in 1..Len(x) : x[k] = w[k]

LEMMA Prefix ==
  ASSUME NEW x \in Seq(Tokens), NEW y \in Seq(Tokens)
  PROVE  IsFront(x, x \o y) /\ Len(x \o y) \in Nat
<1> DEFINE w == x \o y
<1>1. /\ Len(w) = Len(x) + Len(y)
      /\ \A k \in 1..(Len(x) + Len(y)) : w[k] = IF k <= Len(x) THEN x[k] ELSE y[k - Len(x)]
  BY Joined
<1>2. Len(x) \in Nat /\ Len(y) \in Nat
  OBVIOUS
<1> HIDE DEF w
<1>3. ASSUME NEW k \in 1..Len(x) PROVE x[k] = w[k]
  <2>1. k \in 1..(Len(x) + Len(y)) /\ k <= Len(x)
    BY <1>2
  <2>2. QED
    BY <2>1, <1>1
<1>4. Len(x) <= Len(w) /\ Len(w) \in Nat
  BY <1>1, <1>2
<1>5. QED
  BY <1>3, <1>4 DEF IsFront, w

\* An equation that is not visible unless it is asked for.
Is(x, y) == x = y

\* A byte of a packet that is in the buffer.
LEMMA FrontByte ==
  ASSUME NEW n \in Nat, NEW m \in Nat, n < m, m <= Len(Sizes), NEW w, NEW p, Layout(w, p, n, m),
         NEW x \in Seq(Tokens), IsFront(x, w),
         NEW q \in Nat, Is(q, p[n + 1]), q >= 1, NEW k \in Nat, k >= 1, k <= Length(n + 1),
         NEW j \in Nat, j + 1 = q + k, j <= Len(x)
  PROVE  x[j] = Byte(n + 1, k)
<1>1. n + 1 \in (n + 1)..m /\ n <= m
  OBVIOUS
<1>2. Length(n + 1) \in Nat
  BY <1>1, LayoutNext
<1>3. \A h \in 1..Length(n + 1) : q + h - 1 <= Len(w) => w[q + h - 1] = Byte(n + 1, h)
  BY <1>1 DEF Layout, Is
<1>4. Len(x) <= Len(w) /\ \A h \in 1..Len(x) : x[h] = w[h]
  BY DEF IsFront
<1>5. Len(x) \in Nat /\ Len(w) \in Nat
  <2>1. w \in Seq(Tokens)
    BY DEF Layout
  <2>2. QED
    BY <2>1
<1>6. k \in 1..Length(n + 1) /\ q + k - 1 = j /\ j >= 1
  BY <1>2
<1>7. j <= Len(w) /\ j \in 1..Len(x)
  BY <1>4, <1>5, <1>6
<1>8. w[j] = Byte(n + 1, k)
  BY <1>3, <1>6, <1>7
<1>9. QED
  BY <1>4, <1>7, <1>8

\* Between the blank line and the next \n, at e, or the end of the buffer,
\* there is the payload or a part of it.  It goes up to d.
FragmentIs(x, L, i, s, q, e, d) ==
  /\ q + 4 <= d /\ d <= L /\ d < q + Length(i)
  /\ Drop(x, e) = Drop(x, d)
  /\ s > 0 =>
       \E g \in Nat :
         /\ e = (q + 5) + g /\ g + 1 <= s
         /\ SubSeq(x, q + 5, e - 1) = Body(i, g) /\ Len(Body(i, g)) = g
         /\ g + 1 < s => d = L /\ L = (q + 4) + g

LEMMA Fragment ==
  ASSUME NEW n \in Nat, NEW m \in Nat, n < m, m <= Len(Sizes), NEW w, NEW p, Layout(w, p, n, m),
         NEW x \in Seq(Tokens), IsFront(x, w),
         NEW L \in Nat, Is(L, Len(x)), NEW i \in Nat, Is(i, n + 1), NEW s \in Nat, Is(s, Sizes[i]),
         NEW q \in Nat, Is(q, p[n + 1]), q >= 1, q + 4 <= L,
         NEW e \in Nat, e \in LineEnd(x, q + 5),
         NEW d \in Nat, (e <= L /\ d = e) \/ (e > L /\ d = L)
  PROVE  FragmentIs(x, L, i, s, q, e, d)
<1>0. L = Len(x) /\ i = n + 1 /\ s = Sizes[i] /\ q = p[n + 1]
  BY DEF Is
<1>d. d = IF e <= L THEN e ELSE L
  OBVIOUS
<1>1. i \in (n + 1)..m /\ n <= m
  BY <1>0
<1>2. i \in 1..Len(Sizes) /\ Length(i) \in Nat /\ Length(i) > 5
  BY <1>1, LayoutNext
<1>3. PICK D \in Nat : Is(D, Length(i))
  BY <1>2 DEF Is
<1>4. D = (IF s = 0 THEN 7 ELSE 5 + s) /\ D > 5
  BY <1>0, <1>2, <1>3 DEF Length, Is
<1>5. /\ e \in (q + 5)..(L + 1) /\ (e <= L => x[e] = LF)
      /\ \A j \in (q + 5)..(e - 1) : x[j] # LF
  BY <1>0 DEF LineEnd
<1>6. q + 5 <= e /\ e <= L + 1
  BY <1>5
<1>7. ASSUME NEW k \in Nat, k >= 1, k <= D, NEW j \in Nat, j + 1 = q + k, j <= L
      PROVE  x[j] = Byte(i, k)
  <2>1. k <= Length(n + 1) /\ j <= Len(x)
    BY <1>0, <1>3, <1>7 DEF Is
  <2>2. x[j] = Byte(n + 1, k)
    BY <2>1, <1>7, FrontByte
  <2>3. QED
    BY <2>2, <1>0
<1>8. e < q + D
  <2>1. SUFFICES ASSUME e >= q + D PROVE FALSE
    OBVIOUS
  <2>2. PICK j \in Nat : j + 1 = q + D
    <3>1. (q + D) - 1 \in Nat /\ ((q + D) - 1) + 1 = q + D
      BY <1>4
    <3>2. QED
      BY <3>1
  <2>3. j <= L /\ j \in (q + 5)..(e - 1) /\ D >= 1 /\ D <= D
    BY <2>1, <2>2, <1>4, <1>6
  <2>4. x[j] = Byte(i, D)
    BY <2>2, <2>3, <1>7
  <2>5. Byte(i, Length(i)) = LF
    <3>1. 2 \in 2..Length(i)
      BY <1>2
    <3>2. QED
      BY <3>1, <1>2, ByteFacts
  <2>6. QED
    BY <2>3, <2>4, <2>5, <1>3, <1>5 DEF Is
<1>9. q + 4 <= d /\ d <= L /\ d < q + D
  <2>1. CASE e <= L
    BY <2>1, <1>d, <1>6, <1>8
  <2>2. CASE e > L
    BY <2>2, <1>d, <1>6, <1>8
  <2>3. QED
    BY <2>1, <2>2
<1>10. Drop(x, e) = Drop(x, d)
  <2>1. CASE e <= L
    BY <2>1, <1>d
  <2>2. CASE e > L
    <3>1. e = L + 1 /\ d = L
      BY <2>2, <1>d, <1>6
    <3>2. QED
      BY <3>1, <1>0, DropAll
  <2>3. QED
    BY <2>1, <2>2
<1>11. ASSUME s > 0
       PROVE  \E g \in Nat :
                /\ e = (q + 5) + g /\ g + 1 <= s
                /\ SubSeq(x, q + 5, e - 1) = Body(i, g) /\ Len(Body(i, g)) = g
                /\ g + 1 < s => d = L /\ L = (q + 4) + g
  <2>1. D = 5 + s
    BY <1>4, <1>11
  <2>2. PICK g \in Nat : e = (q + 5) + g
    <3>1. e - (q + 5) \in Nat /\ e = (q + 5) + (e - (q + 5))
      BY <1>6
    <3>2. QED
      BY <3>1
  <2>3. g + 1 <= s /\ (q + 4) + g <= L
    BY <2>1, <2>2, <1>6, <1>8
  <2>4. /\ Body(i, g) \in Seq(Tokens) /\ Len(Body(i, g)) = g
        /\ \A k \in 1..g : Body(i, g)[k] = <<"body", i, k>>
    <3>1. g \in Int /\ g >= -1 /\ g # -1
      OBVIOUS
    <3>2. QED
      BY <3>1, BodyBytes
  <2>5. ASSUME NEW k \in Nat, k >= 1, k < s, NEW j \in Nat, j = (q + 4) + k, j <= L
        PROVE  x[j] = <<"body", i, k>>
    <3>1. PICK h \in Nat : h = k + 5
      OBVIOUS
    <3>2. h >= 1 /\ h <= D /\ j + 1 = q + h
      BY <3>1, <2>1, <2>5
    <3>3. x[j] = Byte(i, h)
      BY <3>2, <2>5, <1>7
    <3>4. h # 1 /\ h # 2 /\ h # 3 /\ h # 4 /\ h # 5 /\ h < 5 + s /\ h - 5 = k /\ s # 0
      BY <3>1, <2>5
    <3>5. Byte(i, h) = <<"body", i, h - 5>>
      BY <3>4, <1>0 DEF Byte
    <3>6. QED
      BY <3>3, <3>4, <3>5
  <2> DEFINE y == SubSeq(x, q + 5, e - 1)
             z == Body(i, g)
  <2>6. y \in Seq(Tokens) /\ Len(y) = g /\ \A k \in 1..g : y[k] = x[(q + 4) + k]
    <3>1. q + 5 \in Int /\ e - 1 \in Int /\ e - 1 = (q + 4) + g
      BY <2>2
    <3>2. \A k \in (q + 5)..(e - 1) : x[k] \in Tokens
      <4>1. ASSUME NEW k \in (q + 5)..(e - 1) PROVE k \in 1..L
        BY <1>6
      <4>2. QED
        BY <4>1, <1>0
    <3>3. /\ y \in Seq(Tokens) /\ Len(y) = (IF q + 5 <= e - 1 THEN (e - 1) - (q + 5) + 1 ELSE 0)
          /\ \A k \in 1..((e - 1) - (q + 5) + 1) : y[k] = x[(q + 5) + k - 1]
      BY <3>1, <3>2, SubSeqProperties
    <3>4. /\ (IF q + 5 <= e - 1 THEN (e - 1) - (q + 5) + 1 ELSE 0) = g
          /\ (e - 1) - (q + 5) + 1 = g
      BY <2>2
    <3>5. \A k \in 1..g : (q + 5) + k - 1 = (q + 4) + k
      OBVIOUS
    <3> HIDE DEF y
    <3>6. QED
      BY <3>3, <3>4, <3>5
  <2> HIDE DEF y, z
  <2>7. ASSUME NEW k \in 1..g PROVE y[k] = z[k]
    <3>1. k \in Nat /\ k >= 1 /\ k < s /\ (q + 4) + k <= L /\ (q + 4) + k \in Nat
      BY <2>3
    <3>2. x[(q + 4) + k] = <<"body", i, k>>
      BY <3>1, <2>5
    <3>3. QED
      BY <3>2, <2>4, <2>6 DEF z
  <2>8. y = z
    <3>1. z \in Seq(Tokens) /\ Len(z) = g
      BY <2>4 DEF z
    <3>2. QED
      BY <3>1, <2>6, <2>7, SeqEqual
  <2>9. g + 1 < s => d = L /\ L = (q + 4) + g
    <3>1. SUFFICES ASSUME g + 1 < s, e <= L PROVE FALSE
      BY <2>2, <1>d, <1>6
    <3>2. PICK k \in Nat : k = g + 1
      OBVIOUS
    <3>3. k >= 1 /\ k < s /\ e = (q + 4) + k
      BY <3>1, <3>2, <2>2
    <3>4. x[e] = <<"body", i, k>>
      BY <3>1, <3>3, <2>5
    <3>5. <<"body", i, k>> # LF
      BY BodyFacts
    <3>6. QED
      BY <3>1, <3>4, <3>5, <1>5
  <2>10. QED
    BY <2>2, <2>3, <2>4, <2>8, <2>9 DEF y, z
<1>12. QED
  BY <1>3, <1>9, <1>10, <1>11 DEF Is, FragmentIs

\* What an invalid header without a payload leaves: no header.
LEMMA NoHeader ==
  ASSUME NEW x \in Seq(Tokens), NEW w \in Seq(Tokens), IsFront(x, w), Has(x, Delim),
         NEW n, Leftover(w, n), Len(w) < 5
  PROVE  Len(x) = 4 /\ HeaderLine(x) = {}
<1>1. Len(x) <= Len(w) /\ \A k \in 1..Len(x) : x[k] = w[k]
  BY DEF IsFront
<1>2. Len(x) \in Nat /\ Len(w) \in Nat
  OBVIOUS
<1>3. PICK h \in Nat : h + 4 <= Len(x)
  BY DelimFacts
<1>a. Len(x) <= Len(w)
  BY <1>1
<1>4. Len(x) = 4
  <2>1. PICK l \in Nat : Is(l, Len(x))
    BY <1>2 DEF Is
  <2>2. l >= 4
    BY <2>1, <1>3 DEF Is
  <2>3. l < 5
    BY <2>1, <1>a, <1>2 DEF Is
  <2>4. l = 4
    BY <2>2, <2>3
  <2>5. QED
    BY <2>1, <2>4 DEF Is
<1>5. ASSUME NEW k \in 1..4 PROVE ~(x[k][1] = "header")
  <2>1. k \in 1..Len(x) /\ k <= Len(w)
    BY <1>1, <1>2, <1>4
  <2>2. x[k] = w[k] /\ x[k] \in Tokens
    BY <2>1, <1>1
  <2>3. x[k] = CR \/ x[k] = LF
    BY <2>1, <2>2 DEF Leftover
  <2>4. ~IsHeader(x[k])
    BY <2>3, TokenFacts
  <2>5. QED
    BY <2>2, <2>4, Tags
<1>6. ASSUME NEW k \in HeaderLine(x) PROVE FALSE
  <2>1. PICK e \in LineEnd(x, k) : \E j \in k..(e - 1) : x[j][1] = "header"
    BY DEF HeaderLine
  <2>2. PICK j \in k..(e - 1) : x[j][1] = "header"
    BY <2>1
  <2>3. k \in 1..Len(x)
    BY DEF HeaderLine
  <2>4. e \in k..(Len(x) + 1)
    BY DEF LineEnd
  <2>5. j \in 1..4
    BY <2>2, <2>3, <2>4, <1>4
  <2>6. QED
    BY <2>2, <2>5, <1>5
<1>7. QED
  BY <1>4, <1>6

\* The numbers of a stream in which the next packet was found.
LEMMA FoundFacts ==
  ASSUME NEW n \in Nat, NEW m \in Nat, n < m, m <= Len(Sizes), NEW w, NEW p, Layout(w, p, n, m)
  PROVE  /\ n + 1 \in 1..Len(Sizes) /\ Sizes[n + 1] \in Nat /\ p[n + 1] \in Nat /\ p[n + 1] >= 1
         /\ Length(n + 1) \in Nat /\ Length(n + 1) > 5 /\ p[n + 2] = p[n + 1] + Length(n + 1)
         /\ Length(n + 1) = IF Sizes[n + 1] = 0 THEN 7 ELSE 5 + Sizes[n + 1]
         /\ w \in Seq(Tokens) /\ Len(w) \in Nat /\ p[m + 1] \in Int
<1>1. n + 1 \in (n + 1)..m /\ n + 1 \in (n + 1)..(m + 1) /\ m + 1 \in (n + 1)..(m + 1) /\ n <= m
  OBVIOUS
<1>2. /\ n + 1 \in 1..Len(Sizes) /\ Length(n + 1) \in Nat /\ Length(n + 1) > 5
      /\ p[(n + 1) + 1] = p[n + 1] + Length(n + 1)
  BY <1>1, LayoutNext
<1>3. (n + 1) + 1 = n + 2
  OBVIOUS
<1>4. p[n + 1] \in Int /\ 1 <= p[n + 1] /\ p[m + 1] \in Int /\ w \in Seq(Tokens) /\ Len(w) \in Nat
  BY <1>1, LayoutFacts
<1>5. p[n + 1] \in Nat /\ p[n + 1] >= 1
  <2>1. p[n + 1] \in Int /\ 1 <= p[n + 1]
    BY <1>4
  <2>2. QED
    BY <2>1
<1>6. Sizes[n + 1] \in Nat
  BY <1>2, SizeFacts
<1>7. Length(n + 1) = IF Sizes[n + 1] = 0 THEN 7 ELSE 5 + Sizes[n + 1]
  BY DEF Length
<1>8. QED
  BY <1>2, <1>3, <1>4, <1>5, <1>6, <1>7

\* After an invalid header.
LEMMA AfterInvalid ==
  ASSUME NEW n \in Nat, NEW m \in Nat, n < m, m <= Len(Sizes), NEW w, NEW p, Layout(w, p, n, m),
         n + 1 \in Invalid, NEW d \in Nat, Is(d, p[n + 1] + 2), d <= Len(w)
  PROVE  \E r : /\ Layout(Drop(w, d), r, n + 1, m) /\ r[m + 1] = p[m + 1] - d
                /\ \/ Quiet(Drop(w, d), r[n + 2] - 1)
                   \/ Leftover(Drop(w, d), n + 1) /\ r[n + 2] = 5
<1>1. /\ n + 1 \in 1..Len(Sizes) /\ Sizes[n + 1] \in Nat /\ p[n + 1] \in Nat /\ p[n + 1] >= 1
      /\ Length(n + 1) \in Nat /\ Length(n + 1) > 5 /\ p[n + 2] = p[n + 1] + Length(n + 1)
      /\ Length(n + 1) = IF Sizes[n + 1] = 0 THEN 7 ELSE 5 + Sizes[n + 1]
  BY FoundFacts
<1>2. w \in Seq(Tokens) /\ Len(w) \in Nat
  BY FoundFacts
<1>3. PICK q \in Nat, D \in Nat, s \in Nat :
        Is(q, p[n + 1]) /\ Is(D, Length(n + 1)) /\ Is(s, Sizes[n + 1])
  BY <1>1 DEF Is
<1>4. /\ d = q + 2 /\ D > 5 /\ p[n + 2] = q + D /\ D = IF s = 0 THEN 7 ELSE 5 + s
  BY <1>1, <1>3 DEF Is
<1>a. q >= 1
  BY <1>1, <1>3 DEF Is
<1>5. d < p[n + 2] /\ d >= q + 2 /\ q >= 1
  BY <1>4, <1>a
<1>6. PICK r : /\ Layout(Drop(w, d), r, n + 1, m)
               /\ r[(n + 1) + 1] = p[(n + 1) + 1] - d /\ r[m + 1] = p[m + 1] - d
  <2>1. n + 1 \in Nat /\ n <= n + 1 /\ n + 1 <= m /\ n <= m /\ (n + 1) + 1 = n + 2
    OBVIOUS
  <2>2. d < p[(n + 1) + 1]
    BY <2>1, <1>5
  <2>3. QED
    BY <2>1, <2>2, Dropped
<1>7. r[n + 2] = p[n + 2] - d
  <2>1. (n + 1) + 1 = n + 2
    OBVIOUS
  <2>2. QED
    BY <2>1, <1>6
<1>8. CASE s # 0
  <2>1. d \in 0..Len(w)
    BY <1>2
  <2>2. p[n + 1] + 2 <= d /\ ~(Sizes[n + 1] = 0)
    BY <1>3, <1>5, <1>8 DEF Is
  <2>3. Quiet(Drop(w, d), (p[n + 2] - d) - 1)
    BY <2>1, <2>2, <1>5, QuietDrop
  <2>4. QED
    BY <2>3, <1>6, <1>7
<1>9. CASE s = 0
  <2> DEFINE v == Drop(w, d)
  <2>1. Sizes[n + 1] = 0 /\ n + 1 = Len(Sizes)
    BY <1>3, <1>9, InvalidAssumption DEF Is
  <2>2. r[n + 2] = 5
    <3>1. p[n + 2] = q + 7 /\ d = q + 2
      BY <1>4, <1>9
    <3>2. QED
      BY <3>1, <1>7
  <2>3. Len(v) = Len(w) - d /\ \A k \in 1..(Len(w) - d) : v[k] = w[d + k]
    <3>1. d \in 0..Len(w)
      BY <1>2
    <3>2. QED
      BY <3>1, <1>2, Cut
  <2> HIDE DEF v
  <2>5. ASSUME NEW k \in 1..4, k <= Len(v) PROVE v[k] = IF k = 1 \/ k = 3 THEN CR ELSE LF
    <3>1. k \in Nat /\ k >= 1 /\ k <= 4
      OBVIOUS
    <3>2. k <= Len(w) - d
      BY <2>3, <2>5
    <3>3. k \in 1..(Len(w) - d) /\ d + k \in Nat /\ d + k <= Len(w) /\ d + k >= 1
      BY <3>1, <3>2, <1>2
    <3>4. v[k] = w[d + k]
      BY <3>3, <2>3
    <3>5. PICK j \in Nat, h \in Nat : j = d + k /\ h = k + 3
      BY <3>1, <3>3
    <3>6. h >= 1 /\ h <= D /\ j + 1 = q + h /\ j <= Len(w)
      <4>1. D = 7 /\ d = q + 2
        BY <1>4, <1>9
      <4>2. j <= Len(w)
        BY <3>3, <3>5
      <4>3. QED
        BY <3>1, <3>5, <4>1, <4>2
    <3>7. h <= Length(n + 1) /\ Is(q, p[n + 1]) /\ q >= 1
      BY <3>6, <1>3, <1>5 DEF Is
    <3>8. w[j] = Byte(n + 1, h)
      <4>1. n + 1 \in (n + 1)..m
        OBVIOUS
      <4>2. \A e \in 1..Length(n + 1) : q + e - 1 <= Len(w) => w[q + e - 1] = Byte(n + 1, e)
        BY <4>1, <1>3 DEF Layout, Is
      <4>3. h \in 1..Length(n + 1) /\ q + h - 1 = j /\ q + h - 1 <= Len(w)
        BY <3>6, <3>7, <1>1
      <4>4. QED
        BY <4>2, <4>3
    <3>9. (k = 1 /\ h = 4) \/ (k = 2 /\ h = 5) \/ (k = 3 /\ h = 6) \/ (k = 4 /\ h = 7)
      BY <3>1, <3>5
    <3>10. Byte(n + 1, h) = IF k = 1 \/ k = 3 THEN CR ELSE LF
      BY <3>9, <2>1 DEF Byte
    <3>11. QED
      BY <3>4, <3>5, <3>8, <3>10
  <2>6. Leftover(v, n + 1)
    BY <2>1, <2>5 DEF Leftover
  <2>7. QED
    BY <2>2, <2>6, <1>6 DEF v
<1>10. QED
  BY <1>8, <1>9

\* The next packet is in the buffer, or an invalid one left a delimiter there.
LEMMA HeaderOrLeftover ==
  ASSUME NEW n \in Nat, NEW m \in Nat, n <= m, m <= Len(Sizes), NEW w, NEW p, Layout(w, p, n, m),
         NEW x \in Seq(Tokens), IsFront(x, w), Has(x, Delim), Quiet(w, p[n + 1] - 1)
  PROVE  n < m /\ HeaderAt(x, p[n + 1], n + 1)
<1>1. Len(x) <= Len(w) /\ \A k \in 1..Len(x) : x[k] = w[k]
  BY DEF IsFront
<1>2. QED
  BY <1>1, HeaderFound

LEMMA GarbageKeeps ==
  ASSUME RequestInv, Garbage
  PROVE  RequestInv'
<1>1. Types /\ Known(net, sent) /\ Known(b, sent)
  BY DEF RequestInv
<1>2. /\ at = "header" /\ Has(b, Delim) /\ sent' = sent /\ net' = net /\ closed' = closed
      /\ at' = at /\ c' = c /\ packet' = packet /\ executed' = executed /\ refused' = refused + 1
  BY DEF Garbage
<1>3. \/ HeaderLine(b) = {} /\ b' = <<>>
      \/ \E k \in HeaderLine(b) : \E e \in LineEnd(b, k) :
           ~ValidHeader(SubSeq(b, k, e - 1)) /\ b' = Drop(b, e)
  BY DEF Garbage
<1>4. net \in Seq(Tokens) /\ b \in Seq(Tokens) /\ refused \in Nat
  BY <1>1 DEF Types
<1>5. PICK m \in Nat, n \in Nat : /\ Is(m, sent) /\ n <= m /\ m <= Len(Sizes) /\ n \in 0..sent
                                  /\ \E p : Between(n, p)
  BY <1>2, HeaderState DEF Is
<1>6. PICK p : Between(n, p)
  BY <1>5
<1> DEFINE w == b \o net
<1>7. /\ Layout(w, p, n, m) /\ (~closed => Len(w) + 1 = p[m + 1])
      /\ ExecutedUpTo(n)
      /\ \/ Quiet(w, p[n + 1] - 1) /\ refused <= 2 * Bad(n)
         \/ Leftover(w, n) /\ p[n + 1] = 5 /\ refused < 2 * Bad(n)
  BY <1>5, <1>6 DEF Between, Complete, Is
<1>8. w \in Seq(Tokens) /\ IsFront(b, w) /\ Len(w) \in Nat /\ Len(b) \in Nat
  BY <1>4, Prefix, Joined
<1>9. Len(b) <= Len(w)
  BY <1>8 DEF IsFront
<1>10. Bad(n) \in Nat /\ Bad(n + 1) = IF n + 1 \in Invalid THEN Bad(n) + 1 ELSE Bad(n)
  BY BadFacts
<1>11. ASSUME NEW d \in Nat, d <= Len(b), b' = Drop(b, d)
       PROVE  /\ Types' /\ Known(net', sent') /\ Known(b', sent')
              /\ b' \o net' = Drop(w, d) /\ Len(Drop(w, d)) = Len(w) - d
  <2>1. d \in 0..Len(b)
    BY <1>8, <1>11
  <2>2. b' \in Seq(Tokens) /\ Known(b', sent)
    BY <2>1, <1>1, <1>4, <1>11, Cut, KnownParts
  <2>3. refused + 1 \in Nat
    BY <1>4
  <2>4. Types'
    BY <2>2, <2>3, <1>1, <1>2 DEF Types
  <2>5. b' \o net' = Drop(w, d)
    BY <2>1, <1>2, <1>4, <1>11, CutJoined
  <2>6. d \in 0..Len(w)
    BY <1>8, <1>9, <1>11
  <2>7. Len(Drop(w, d)) = Len(w) - d
    BY <2>6, <1>8, Cut
  <2>8. QED
    BY <2>2, <2>4, <2>5, <2>7, <1>1, <1>2
<1>12. c = <<>> /\ packet = NoPacket
  BY <1>2, HeaderState
<1> HIDE DEF w
<1>13. CASE Quiet(w, p[n + 1] - 1) /\ refused <= 2 * Bad(n)
  <2>1. n < m /\ HeaderAt(b, p[n + 1], n + 1)
    BY <1>2, <1>4, <1>5, <1>7, <1>8, <1>13, HeaderOrLeftover
  <2>2. PICK q \in Nat : Is(q, p[n + 1]) /\ q >= 1
    BY <2>1, <1>5, <1>7, FoundFacts DEF Is
  <2>3. HeaderAt(b, q, n + 1) /\ n + 1 \in 1..Len(Sizes)
    BY <2>1, <2>2, <1>5, <1>7, FoundFacts DEF Is
  <2>4. /\ HeaderLine(b) = {q} /\ LineEnd(b, q) = {q + 2}
        /\ ValidHeader(SubSeq(b, q, q + 1)) <=> n + 1 \notin Invalid
    BY <2>3, <1>4, HeaderLineIs
  <2>5. (q + 2) - 1 = q + 1
    OBVIOUS
  <2>6. ~ValidHeader(SubSeq(b, q, q + 1)) /\ b' = Drop(b, q + 2)
    BY <2>4, <2>5, <1>3
  <2>7. n + 1 \in Invalid
    BY <2>4, <2>6
  <2>8. PICK d \in Nat : d = q + 2
    OBVIOUS
  <2>9. d <= Len(b) /\ d <= Len(w)
    <3>1. q + 4 <= Len(b)
      BY <2>3 DEF HeaderAt
    <3>2. QED
      BY <3>1, <2>8, <1>8, <1>9
  <2>10. Is(d, p[n + 1] + 2)
    BY <2>2, <2>8 DEF Is
  <2>11. PICK r : /\ Layout(Drop(w, d), r, n + 1, m) /\ r[m + 1] = p[m + 1] - d
                  /\ \/ Quiet(Drop(w, d), r[n + 2] - 1)
                     \/ Leftover(Drop(w, d), n + 1) /\ r[n + 2] = 5
    BY <2>1, <2>7, <2>9, <2>10, <1>5, <1>7, AfterInvalid
  <2>12. /\ Types' /\ Known(net', sent') /\ Known(b', sent')
         /\ b' \o net' = Drop(w, d) /\ Len(Drop(w, d)) = Len(w) - d
    BY <2>6, <2>8, <2>9, <1>11
  <2> DEFINE v == Drop(w, d)
  <2> HIDE DEF v
  <2>13. ~closed => Len(v) + 1 = r[m + 1]
    <3>1. SUFFICES ASSUME ~closed PROVE Len(v) + 1 = r[m + 1]
      OBVIOUS
    <3>2. Len(w) + 1 = p[m + 1] /\ r[m + 1] = p[m + 1] - d /\ Len(v) = Len(w) - d
      BY <3>1, <2>11, <2>12, <1>7 DEF v
    <3>3. Len(w) \in Nat
      BY <1>8
    <3>4. QED
      BY <3>2, <3>3
  <2>14. ExecutedUpTo(n + 1)'
    BY <2>7, <1>2, <1>7, ExecutedSkip
  <2>15. refused' < 2 * Bad(n + 1) /\ refused' <= 2 * Bad(n + 1)
    <3>1. Bad(n + 1) = Bad(n) + 1 /\ refused' = refused + 1 /\ refused <= 2 * Bad(n)
      BY <2>7, <1>2, <1>10, <1>13
    <3>2. Bad(n) \in Nat /\ refused \in Nat
      BY <1>4, <1>10
    <3>3. QED
      BY <3>1, <3>2
  <2>16. PICK h \in Nat : Is(h, n + 1) /\ h \in 0..sent'
    <3>1. n + 1 \in 0..m
      BY <2>1
    <3>2. QED
      BY <3>1, <1>2, <1>5 DEF Is
  <2>17. r[n + 2] = r[h + 1]
    <3>1. n + 2 = h + 1
      BY <2>16 DEF Is
    <3>2. QED
      BY <3>1
  <2>18. /\ Layout(v, r, h, m) /\ ExecutedUpTo(h)' /\ refused' < 2 * Bad(h) /\ refused' <= 2 * Bad(h)
         /\ \/ Quiet(v, r[h + 1] - 1)
            \/ Leftover(v, h) /\ r[h + 1] = 5
    BY <2>11, <2>14, <2>15, <2>16, <2>17 DEF Is, v
  <2>19. Between(h, r)'
    <3>1. b' \o net' = v /\ m = sent' /\ closed' = closed
      BY <2>12, <1>2, <1>5 DEF Is, v
    <3>2. QED
      BY <3>1, <2>13, <2>18 DEF Between, Complete, Leftover
  <2>20. QED
    BY <2>12, <2>16, <2>19, <1>2, <1>12, ToHeader
<1>14. CASE Leftover(w, n) /\ p[n + 1] = 5 /\ refused < 2 * Bad(n)
  <2>1. n = m
    BY <1>5, <1>14 DEF Leftover
  <2>2. Len(w) < 5
    BY <2>1, <1>7, <1>14 DEF Layout
  <2>3. Len(b) = 4 /\ HeaderLine(b) = {}
    BY <2>2, <1>2, <1>4, <1>8, <1>14, NoHeader
  <2>4. b' = <<>>
    BY <2>3, <1>3
  <2>5. b' = Drop(b, 4)
    <3>1. Drop(b, Len(b)) = <<>>
      BY <1>4, DropAll
    <3>2. QED
      BY <3>1, <2>3, <2>4
  <2>6. PICK d \in Nat : d = 4
    OBVIOUS
  <2>7. /\ Types' /\ Known(net', sent') /\ Known(b', sent')
        /\ b' \o net' = Drop(w, d) /\ Len(Drop(w, d)) = Len(w) - d
    <3>1. d <= Len(b)
      BY <2>3, <2>6
    <3>2. QED
      BY <3>1, <2>5, <2>6, <1>11
  <2>8. PICK r : /\ Layout(Drop(w, d), r, n, m)
                 /\ r[n + 1] = p[n + 1] - d /\ r[m + 1] = p[m + 1] - d
    <3>1. d <= Len(w) /\ d < p[n + 1] /\ n <= n
      BY <2>3, <2>6, <1>8, <1>9, <1>14
    <3>2. QED
      BY <3>1, <1>5, <1>7, Dropped
  <2> DEFINE v == Drop(w, d)
  <2> HIDE DEF v
  <2>9. ~closed => Len(v) + 1 = r[m + 1]
    <3>1. SUFFICES ASSUME ~closed PROVE Len(v) + 1 = r[m + 1]
      OBVIOUS
    <3>2. Len(w) + 1 = p[m + 1] /\ r[m + 1] = p[m + 1] - d /\ Len(v) = Len(w) - d
      BY <3>1, <2>7, <2>8, <1>7 DEF v
    <3>3. Len(w) \in Nat
      BY <1>8
    <3>4. QED
      BY <3>2, <3>3
  <2>10. ExecutedUpTo(n)'
    BY <1>2, <1>7 DEF ExecutedUpTo
  <2>11. refused' <= 2 * Bad(n)
    <3>1. refused' = refused + 1 /\ refused < 2 * Bad(n) /\ Bad(n) \in Nat /\ refused \in Nat
      BY <1>2, <1>4, <1>10, <1>14
    <3>2. QED
      BY <3>1
  <2>12. Quiet(v, r[n + 1] - 1)
    <3>1. r[n + 1] - 1 = 0
      BY <2>6, <2>8, <1>14
    <3>2. QED
      BY <3>1 DEF Quiet
  <2>13. Between(n, r)'
    <3>1. b' \o net' = v /\ m = sent' /\ closed' = closed /\ Layout(v, r, n, m)
      BY <2>7, <2>8, <1>2, <1>5 DEF Is, v
    <3>2. QED
      BY <3>1, <2>9, <2>10, <2>11, <2>12 DEF Between, Complete
  <2>14. n \in 0..sent'
    BY <1>2, <1>5
  <2>15. QED
    BY <2>7, <2>13, <2>14, <1>2, <1>12, ToHeader
<1>15. QED
  BY <1>7, <1>13, <1>14

\* The packet whose header was found is taken out of the buffer, completely or
\* as far as it has come.
LEMMA HandleReadKeeps ==
  ASSUME RequestInv, HandleRead
  PROVE  RequestInv'
<1>1. Types /\ Known(net, sent) /\ Known(b, sent)
  BY DEF RequestInv
<1>2. /\ at = "header" /\ Has(b, Delim) /\ sent' = sent /\ net' = net /\ closed' = closed
      /\ c' = c /\ refused' = refused
  BY DEF HandleRead
<1>3. net \in Seq(Tokens) /\ b \in Seq(Tokens) /\ refused \in Nat /\ executed \in Seq(Nat \X Seq(Tokens))
  BY <1>1 DEF Types
<1>4. PICK m \in Nat, n \in Nat : /\ Is(m, sent) /\ n <= m /\ m <= Len(Sizes) /\ n \in 0..sent
                                  /\ \E p : Between(n, p)
  BY <1>2, HeaderState DEF Is
<1>5. PICK p : Between(n, p)
  BY <1>4
<1> DEFINE w == b \o net
<1>6. /\ Layout(w, p, n, m) /\ (~closed => Len(w) + 1 = p[m + 1])
      /\ ExecutedUpTo(n)
      /\ \/ Quiet(w, p[n + 1] - 1) /\ refused <= 2 * Bad(n)
         \/ Leftover(w, n) /\ p[n + 1] = 5 /\ refused < 2 * Bad(n)
  BY <1>4, <1>5 DEF Between, Complete, Is
<1>7. w \in Seq(Tokens) /\ IsFront(b, w) /\ Len(w) \in Nat /\ Len(b) \in Nat
  BY <1>3, Prefix, Joined
<1>8. Len(b) <= Len(w)
  BY <1>7 DEF IsFront
<1>9. c = <<>> /\ packet = NoPacket
  BY <1>2, HeaderState
<1>10. ASSUME NEW d \in Nat, d <= Len(b), b' = Drop(b, d)
       PROVE  /\ b' \in Seq(Tokens) /\ Known(b', sent)
              /\ b' \o net' = Drop(w, d) /\ Len(Drop(w, d)) = Len(w) - d
  <2>1. d \in 0..Len(b)
    BY <1>7, <1>10
  <2>2. b' \in Seq(Tokens) /\ Known(b', sent)
    BY <2>1, <1>1, <1>3, <1>10, Cut, KnownParts
  <2>3. b' \o net' = Drop(w, d)
    BY <2>1, <1>2, <1>3, <1>10, CutJoined
  <2>4. d \in 0..Len(w)
    BY <1>7, <1>8, <1>10
  <2>5. Len(Drop(w, d)) = Len(w) - d
    BY <2>4, <1>7, Cut
  <2>6. QED
    BY <2>2, <2>3, <2>5
<1> HIDE DEF w
<1>11. Quiet(w, p[n + 1] - 1) /\ refused <= 2 * Bad(n)
  <2>1. SUFFICES ASSUME Leftover(w, n), p[n + 1] = 5 PROVE FALSE
    BY <1>6
  <2>2. n = m
    BY <2>1, <1>4 DEF Leftover
  <2>3. Len(w) < 5
    BY <2>1, <2>2, <1>6 DEF Layout
  <2>4. HeaderLine(b) = {}
    BY <2>1, <2>3, <1>2, <1>3, <1>7, NoHeader
  <2>5. QED
    BY <2>4 DEF HandleRead
<1>12. n < m /\ HeaderAt(b, p[n + 1], n + 1)
  BY <1>2, <1>3, <1>4, <1>6, <1>7, <1>11, HeaderOrLeftover
<1>13. PICK q \in Nat, s \in Nat, i \in Nat, L \in Nat, D \in Nat :
         /\ Is(q, p[n + 1]) /\ q >= 1 /\ Is(i, n + 1) /\ Is(s, Sizes[i]) /\ Is(L, Len(b))
         /\ Is(D, Length(i)) /\ D = IF s = 0 THEN 7 ELSE 5 + s
  <2>1. /\ p[n + 1] \in Nat /\ p[n + 1] >= 1 /\ n + 1 \in Nat /\ Sizes[n + 1] \in Nat
        /\ Length(n + 1) \in Nat
        /\ Length(n + 1) = IF Sizes[n + 1] = 0 THEN 7 ELSE 5 + Sizes[n + 1]
    BY <1>4, <1>6, <1>12, FoundFacts
  <2>2. QED
    BY <2>1, <1>7 DEF Is
<1>14. HeaderAt(b, q, i) /\ i \in 1..Len(Sizes) /\ p[n + 2] = q + D
  <2>1. n + 1 \in 1..Len(Sizes) /\ p[n + 2] = p[n + 1] + Length(n + 1)
    BY <1>4, <1>6, <1>12, FoundFacts
  <2>2. QED
    BY <2>1, <1>12, <1>13 DEF Is
<1>15. /\ HeaderLine(b) = {q} /\ LineEnd(b, q) = {q + 2} /\ LineEnd(b, q + 3) = {q + 4}
       /\ ValidHeader(SubSeq(b, q, q + 1)) <=> i \notin Invalid
       /\ b[q][2] = i
  BY <1>3, <1>14, HeaderLineIs
<1>16. q + 4 <= L
  BY <1>13, <1>14 DEF HeaderAt, Is
<1>17. PICK e \in Nat :
                /\ e \in LineEnd(b, q + 5) /\ i \notin Invalid /\ b' = Drop(b, e)
                /\ LET y == SubSeq(b, q + 5, e - 1)
                   IN  \/ /\ s = 0
                          /\ executed' = Append(executed, <<i, <<>> >>)
                          /\ at' = at /\ packet' = packet
                       \/ /\ s > 0 /\ s = Len(y) + 1
                          /\ executed' = Append(executed, <<i, y>>)
                          /\ at' = at /\ packet' = packet
                       \/ /\ s > 0 /\ s # Len(y) + 1
                          /\ at' = "payload"
                          /\ packet' = [id |-> i, fragment |-> y, total |-> s - Len(y)]
                          /\ executed' = executed
  <2>1. /\ (q + 2) - 1 = q + 1 /\ (q + 2) + 1 = q + 3 /\ (q + 4) + 1 = q + 5
    OBVIOUS
  <2>2. PICK k, e1, e2, e3 :
          /\ k \in HeaderLine(b) /\ e1 \in LineEnd(b, k)
          /\ e2 \in LineEnd(b, e1 + 1) /\ e3 \in LineEnd(b, e2 + 1)
          /\ ValidHeader(SubSeq(b, k, e1 - 1))
          /\ LET id == b[k][2]
                 fragment == SubSeq(b, e2 + 1, e3 - 1)
                 whole == WholePayload(Sizes[id], fragment)
             IN  /\ b' = Drop(b, e3)
                 /\ \/ /\ Sizes[id] = 0
                       /\ executed' = Append(executed, <<id, <<>> >>)
                       /\ UNCHANGED <<at, packet>>
                    \/ /\ Sizes[id] > 0 /\ whole
                       /\ executed' = Append(executed, <<id, fragment>>)
                       /\ UNCHANGED <<at, packet>>
                    \/ /\ Sizes[id] > 0 /\ ~whole
                       /\ at' = "payload"
                       /\ packet' = [ id |-> id, fragment |-> fragment,
                                      total |-> Missing(Sizes[id], fragment) ]
                       /\ UNCHANGED executed
    BY DEF HandleRead
  <2>3. k = q /\ e1 = q + 2 /\ e1 + 1 = q + 3
    BY <2>1, <2>2, <1>15
  <2>4. e2 = q + 4 /\ e2 + 1 = q + 5 /\ e1 - 1 = q + 1
    BY <2>1, <2>2, <2>3, <1>15
  <2>5. i \notin Invalid /\ b[k][2] = i /\ e3 \in LineEnd(b, q + 5) /\ Sizes[i] = s
    BY <2>2, <2>3, <2>4, <1>13, <1>15 DEF Is
  <2>6. e3 \in Nat
    <3>1. e3 \in (q + 5)..(Len(b) + 1)
      BY <2>5 DEF LineEnd
    <3>2. QED
      BY <3>1, <1>7
  <2>7. QED
    BY <2>2, <2>4, <2>5, <2>6 DEF WholePayload, Missing
<1>18. e \in LineEnd(b, q + 5)
  BY <1>17
<1>19. PICK d \in Nat : (e <= L /\ d = e) \/ (e > L /\ d = L)
  OBVIOUS
<1>20. /\ q + 4 <= d /\ d <= L /\ d < q + D /\ b' = Drop(b, d)
       /\ s > 0 =>
              \E g \in Nat :
                /\ e = (q + 5) + g /\ g + 1 <= s
                /\ SubSeq(b, q + 5, e - 1) = Body(i, g) /\ Len(Body(i, g)) = g
                /\ g + 1 < s => d = L /\ L = (q + 4) + g
  <2>a. /\ n < m /\ m <= Len(Sizes) /\ Layout(w, p, n, m) /\ b \in Seq(Tokens) /\ IsFront(b, w)
        /\ Is(L, Len(b)) /\ Is(i, n + 1) /\ Is(s, Sizes[i]) /\ Is(q, p[n + 1]) /\ q >= 1
    BY <1>3, <1>4, <1>6, <1>7, <1>12, <1>13
  <2>1. FragmentIs(b, L, i, s, q, e, d)
    BY <2>a, <1>16, <1>18, <1>19, Fragment
  <2>2. QED
    BY <2>1, <1>13, <1>17 DEF Is, FragmentIs
<1> DEFINE v == Drop(w, d)
<1>21. d <= Len(b) /\ d <= Len(w)
  <2>1. d <= Len(b)
    BY <1>13, <1>20 DEF Is
  <2>2. QED
    BY <2>1, <1>7, <1>8
<1>22. /\ b' \in Seq(Tokens) /\ Known(b', sent) /\ b' \o net' = v /\ Len(v) = Len(w) - d
  BY <1>10, <1>20, <1>21
<1>23. PICK r : Layout(v, r, i, m) /\ r[i + 1] = (q + D) - d /\ r[m + 1] = p[m + 1] - d
  <2>1. n <= m /\ n + 1 \in Nat /\ n <= n + 1 /\ n + 1 <= m /\ (n + 1) + 1 = n + 2
    BY <1>12
  <2>2. p[(n + 1) + 1] = q + D /\ d < p[(n + 1) + 1]
    BY <2>1, <1>14, <1>20
  <2>a. m <= Len(Sizes) /\ Layout(w, p, n, m) /\ d <= Len(w) /\ d < p[(n + 1) + 1]
    BY <2>2, <1>4, <1>6, <1>21
  <2>3. \E r : /\ Layout(Drop(w, d), r, n + 1, m)
               /\ r[(n + 1) + 1] = p[(n + 1) + 1] - d /\ r[m + 1] = p[m + 1] - d
    BY <2>1, <2>a, Dropped
  <2>4. QED
    BY <2>2, <2>3, <1>13 DEF Is
<1>24. ~closed => Len(v) + 1 = r[m + 1]
  <2> HIDE DEF v
  <2>1. SUFFICES ASSUME ~closed PROVE Len(v) + 1 = r[m + 1]
    OBVIOUS
  <2>2. Len(w) + 1 = p[m + 1] /\ r[m + 1] = p[m + 1] - d /\ Len(v) = Len(w) - d
    BY <2>1, <1>6, <1>22, <1>23
  <2>3. Len(w) \in Nat
    BY <1>7
  <2>4. QED
    BY <2>2, <2>3
<1>25. i \in 0..sent' /\ i \in 1..sent' /\ m = sent'
  <2>1. i \in 1..m /\ i \in 0..m
    BY <1>12, <1>13 DEF Is
  <2>2. QED
    BY <2>1, <1>2, <1>4 DEF Is
<1>26. Bad(i) = Bad(n) /\ refused <= 2 * Bad(n)
  <2>1. Bad(n + 1) = Bad(n)
    BY <1>13, <1>17, BadFacts DEF Is
  <2>2. QED
    BY <2>1, <1>11, <1>13 DEF Is
<1> HIDE DEF v
<1>27. ASSUME NEW y \in Seq(Tokens), y = (IF s = 0 THEN <<>> ELSE Payload(i)),
              executed' = Append(executed, <<i, y>>), at' = at, packet' = packet
       PROVE  RequestInv'
  <2>1. Quiet(v, r[i + 1] - 1)
    <3>1. d \in 0..Len(w)
      BY <1>7, <1>21
    <3>2. p[n + 1] + 4 <= d /\ d < p[n + 2] /\ p[n + 2] = q + D
      BY <1>13, <1>14, <1>20 DEF Is
    <3>3. p[n + 1] + 2 <= d
      <4>1. q + 2 <= d
        BY <1>20
      <4>2. QED
        BY <4>1, <1>13 DEF Is
    <3>4. Quiet(Drop(w, d), (p[n + 2] - d) - 1)
      BY <3>1, <3>2, <3>3, <1>4, <1>6, <1>12, QuietDrop
    <3>5. QED
      BY <3>2, <3>4, <1>23 DEF v
  <2>2. ExecutedUpTo(i)'
    <3>1. /\ n + 1 \notin Invalid /\ y = (IF Sizes[n + 1] = 0 THEN <<>> ELSE Payload(n + 1))
          /\ executed' = Append(executed, <<n + 1, y>>)
      BY <1>13, <1>17, <1>27 DEF Is
    <3>2. ExecutedUpTo(n + 1)'
      BY <3>1, <1>3, <1>6, ExecutedNext
    <3>3. QED
      BY <3>2, <1>13 DEF Is
  <2>3. Types'
    <3>1. <<i, y>> \in Nat \X Seq(Tokens)
      OBVIOUS
    <3>2. executed' \in Seq(Nat \X Seq(Tokens))
      BY <3>1, <1>3, <1>27
    <3>3. QED
      BY <3>2, <1>1, <1>2, <1>22, <1>27 DEF Types
  <2>4. Between(i, r)'
    <3>1. b' \o net' = v /\ m = sent' /\ closed' = closed /\ Layout(v, r, i, m) /\ refused' <= 2 * Bad(i)
      BY <1>2, <1>22, <1>23, <1>25, <1>26
    <3>2. QED
      BY <3>1, <2>1, <2>2, <1>24 DEF Between, Complete
  <2>5. QED
    BY <2>3, <2>4, <1>1, <1>2, <1>9, <1>22, <1>25, <1>27, ToHeader
<1>28. CASE s = 0
  <2>1. executed' = Append(executed, <<i, <<>> >>) /\ at' = at /\ packet' = packet
    BY <1>17, <1>28
  <2>2. <<>> \in Seq(Tokens)
    OBVIOUS
  <2>3. QED
    BY <2>1, <2>2, <1>27, <1>28
<1>29. CASE s > 0
  <2>1. PICK g \in Nat :
          /\ e = (q + 5) + g /\ g + 1 <= s
          /\ SubSeq(b, q + 5, e - 1) = Body(i, g) /\ Len(Body(i, g)) = g
          /\ g + 1 < s => d = L /\ L = (q + 4) + g
    BY <1>20, <1>29
  <2> DEFINE y == Body(i, g)
  <2>2. \/ /\ s = Len(y) + 1
           /\ executed' = Append(executed, <<i, y>>)
           /\ at' = at /\ packet' = packet
        \/ /\ s # Len(y) + 1
           /\ at' = "payload"
           /\ packet' = [id |-> i, fragment |-> y, total |-> s - Len(y)]
           /\ executed' = executed
    <3>1. s # 0 /\ SubSeq(b, q + 5, e - 1) = y
      BY <2>1, <1>29
    <3> HIDE DEF y
    <3>2. QED
      BY <3>1, <1>17
  <2>3. y \in Seq(Tokens) /\ Len(y) = g
    <3>1. g \in Int /\ g >= -1
      OBVIOUS
    <3>2. QED
      BY <3>1, <2>1, BodyBytes
  <2> HIDE DEF y
  <2>4. CASE s = g + 1
    <3>1. executed' = Append(executed, <<i, y>>) /\ at' = at /\ packet' = packet
      BY <2>2, <2>3, <2>4
    <3>2. y = Payload(i)
      <4>1. g = Sizes[i] - 1
        BY <2>4, <1>13 DEF Is
      <4>2. QED
        BY <4>1 DEF Payload, y
    <3>3. y = IF s = 0 THEN <<>> ELSE Payload(i)
      BY <3>2, <1>29
    <3>4. QED
      BY <3>1, <3>3, <2>3, <1>27
  <2>5. CASE s # g + 1
    <3>1. /\ at' = "payload" /\ executed' = executed
          /\ packet' = [id |-> i, fragment |-> Body(i, g), total |-> s - g]
      BY <2>2, <2>3, <2>5 DEF y
    <3>2. g + 1 < s /\ d = L /\ L = (q + 4) + g /\ D = 5 + s
      <4>1. g + 1 < s
        BY <2>1, <2>5
      <4>2. QED
        BY <4>1, <2>1, <1>13, <1>29
    <3>3. b' = <<>>
      <4>1. b' = Drop(b, Len(b))
        BY <3>2, <1>13, <1>20 DEF Is
      <4>2. QED
        BY <4>1, <1>3, DropAll
    <3>4. c' \o net' = v
      <4>1. c' = b'
        BY <3>3, <1>2, <1>9
      <4>2. QED
        BY <4>1, <1>22
    <3>5. r[i + 1] = (s - g) + 1
      BY <3>2, <1>23
    <3>6. ASSUME NEW k \in 1..(s - g), k <= Len(v) PROVE v[k] = Byte(i, (5 + g) + k)
      <4>1. k \in Nat /\ k >= 1 /\ k <= s - g
        BY <3>2
      <4>2. PICK j \in Nat, h \in Nat : j = d + k /\ h = (5 + g) + k
        BY <4>1
      <4>3. k <= Len(w) - d
        BY <3>6, <1>22
      <4>4. k \in 1..(Len(w) - d) /\ j <= Len(w)
        BY <4>1, <4>2, <4>3, <1>7
      <4>5. v[k] = w[j]
        <5>1. d \in 0..Len(w)
          BY <1>7, <1>21
        <5>2. \A h2 \in 1..(Len(w) - d) : v[h2] = w[d + h2]
          BY <5>1, <1>7, Cut DEF v
        <5>3. QED
          BY <5>2, <4>2, <4>4
      <4>6. h >= 1 /\ h <= D /\ j + 1 = q + h
        BY <4>1, <4>2, <3>2
      <4>7. h <= Length(n + 1) /\ Byte(i, h) = Byte(n + 1, h)
        BY <4>6, <1>13 DEF Is
      <4>8. IsFront(w, w)
        BY <1>7 DEF IsFront
      <4>a. /\ n < m /\ m <= Len(Sizes) /\ Layout(w, p, n, m) /\ w \in Seq(Tokens)
            /\ Is(q, p[n + 1]) /\ q >= 1 /\ j <= Len(w)
        BY <4>4, <1>4, <1>6, <1>7, <1>12, <1>13
      <4>9. w[j] = Byte(n + 1, h)
        BY <4>a, <4>6, <4>7, <4>8, FrontByte
      <4>10. QED
        BY <4>2, <4>5, <4>7, <4>9
    <3>7. Types'
      BY <3>1, <1>1, <1>2, <1>22 DEF Types
    <3>8. Known(c', sent')
      BY <1>2, <1>9, KnownEmpty
    <3>9. Len(c') <= s - g
      <4>1. Len(c') = 0
        BY <1>2, <1>9
      <4>2. QED
        BY <4>1, <3>2
    <3>10. ExecutedUpTo(i - 1)' /\ refused' <= 2 * Bad(i - 1)
      <4>1. i - 1 = n
        BY <1>13 DEF Is
      <4>2. ExecutedUpTo(n)'
        BY <3>1, <1>6 DEF ExecutedUpTo
      <4>3. refused' <= 2 * Bad(n)
        BY <1>2, <1>26
      <4>4. QED
        BY <4>1, <4>2, <4>3
    <3>11. Within(i, r, g)'
      <4>1. s = Sizes[i]
        BY <1>13 DEF Is
      <4>2. i \notin Invalid /\ Layout(v, r, i, m) /\ m = sent' /\ closed' = closed
        BY <1>2, <1>17, <1>23, <1>25
      <4>3. Layout(c' \o net', r, i, sent') /\ (~closed' => Len(c' \o net') + 1 = r[sent' + 1])
        BY <4>2, <3>4, <1>24
      <4>4. \A k \in 1..(s - g) : k <= Len(c' \o net') => (c' \o net')[k] = Byte(i, 5 + g + k)
        BY <3>4, <3>6
      <4>5. QED
        BY <4>1, <4>2, <4>3, <4>4, <3>1, <3>2, <3>3, <3>5, <3>9, <3>10 DEF Within, Complete
    <3>12. QED
      BY <3>1, <3>7, <3>8, <3>11, <1>1, <1>2, <1>22, <1>25, ToPayload
  <2>6. QED
    BY <2>4, <2>5
<1>30. QED
  BY <1>28, <1>29

\* The rest of the payload, up to the \n.
RestAt(x, n, f, t) == \A k \in 1..t : x[k] = Byte(n, 5 + f + k)

RestIs(x, n, f, t) == LineEnd(x, 1) = {t} /\ Body(n, f) \o Take(x, t - 1) = Payload(n)

LEMMA RestOfPayload ==
  ASSUME NEW n \in Nat, n \in 1..Len(Sizes), NEW s \in Nat, Is(s, Sizes[n]), NEW f \in Nat, f + 1 < s,
         NEW t \in Nat, t + f <= s, s <= t + f, NEW x \in Seq(Tokens), Is(t, Len(x)),
         RestAt(x, n, f, t)
  PROVE  RestIs(x, n, f, t)
<1>1. n \in Nat /\ t >= 2 /\ s # 0
  BY SizeFacts
<1>2. ASSUME NEW k \in Nat, k >= 1, k < t PROVE x[k] = <<"body", n, f + k>> /\ x[k] # LF
  <2>1. k \in 1..t
    BY <1>2
  <2>2. PICK h \in Nat : h = (5 + f) + k
    BY <1>2
  <2>3. x[k] = Byte(n, h)
    BY <2>1, <2>2 DEF RestAt
  <2>4. h # 1 /\ h # 2 /\ h # 3 /\ h # 4 /\ h # 5 /\ h < 5 + s /\ h - 5 = f + k
    BY <2>2, <1>2
  <2>5. Byte(n, h) = <<"body", n, h - 5>>
    <3>1. Sizes[n] = s
      BY DEF Is
    <3>2. QED
      BY <3>1, <2>4, <1>1 DEF Byte
  <2>6. f + k \in Nat
    OBVIOUS
  <2>7. <<"body", n, f + k>> # LF
    BY <2>6, <1>1, BodyFacts
  <2>8. QED
    BY <2>3, <2>4, <2>5, <2>7
<1>3. x[t] = LF
  <2>1. t \in 1..t
    BY <1>1
  <2>2. PICK h \in Nat : h = (5 + f) + t
    OBVIOUS
  <2>3. x[t] = Byte(n, h)
    BY <2>1, <2>2 DEF RestAt
  <2>4. h # 1 /\ h # 2 /\ h # 3 /\ h # 4 /\ h # 5 /\ ~(h < 5 + s)
    BY <2>2, <1>1
  <2>5. Byte(n, h) = LF
    <3>1. Sizes[n] = s
      BY DEF Is
    <3>2. QED
      BY <3>1, <2>4, <1>1 DEF Byte
  <2>6. QED
    BY <2>3, <2>5
<1>4. LineEnd(x, 1) = {t}
  <2>1. t \in 1..(Len(x) + 1)
    <3>1. t \in 1..(t + 1)
      BY <1>1
    <3>2. QED
      BY <3>1 DEF Is
  <2>2. ASSUME NEW j \in 1..(t - 1) PROVE x[j] # LF
    <3>1. j \in Nat /\ j >= 1 /\ j < t
      OBVIOUS
    <3>2. QED
      BY <3>1, <1>2
  <2>3. QED
    BY <2>1, <2>2, <1>3, LineEndIs
<1> DEFINE u == Body(n, f)
           v == Take(x, t - 1)
           y == u \o v
           z == Body(n, s - 1)
<1>5. /\ u \in Seq(Tokens) /\ Len(u) = f /\ \A k \in 1..f : u[k] = <<"body", n, k>>
  <2>1. f \in Int /\ f >= -1 /\ f # -1
    OBVIOUS
  <2>2. QED
    BY <2>1, <1>1, BodyBytes
<1>6. /\ z \in Seq(Tokens) /\ Len(z) = s - 1 /\ \A k \in 1..(s - 1) : z[k] = <<"body", n, k>>
  <2> DEFINE h == s - 1
  <2>1. h \in Int /\ h >= -1 /\ h # -1
    OBVIOUS
  <2> HIDE DEF h
  <2>2. /\ Body(n, h) \in Seq(Tokens) /\ Len(Body(n, h)) = h
        /\ \A k \in 1..h : Body(n, h)[k] = <<"body", n, k>>
    BY <2>1, <1>1, BodyBytes
  <2>3. QED
    BY <2>2 DEF h
<1>7. v \in Seq(Tokens) /\ Len(v) = t - 1 /\ \A k \in 1..(t - 1) : v[k] = x[k]
  <2>1. t - 1 \in 0..Len(x)
    <3>1. t - 1 \in 0..t
      BY <1>1
    <3>2. QED
      BY <3>1 DEF Is
  <2>2. QED
    BY <2>1, Cut
<1> HIDE DEF u, v, z
<1>8. /\ y \in Seq(Tokens) /\ Len(y) = Len(u) + Len(v)
      /\ \A k \in 1..(Len(u) + Len(v)) : y[k] = IF k <= Len(u) THEN u[k] ELSE v[k - Len(u)]
  BY <1>5, <1>7, Joined
<1> HIDE DEF y
<1>9. Len(u) = f /\ Len(v) = t - 1 /\ f + (t - 1) = s - 1
  BY <1>5, <1>7
<1>10. /\ Len(y) = s - 1
       /\ \A k \in 1..(s - 1) : y[k] = IF k <= f THEN u[k] ELSE v[k - f]
  BY <1>8, <1>9
<1>11. ASSUME NEW k \in 1..(s - 1) PROVE y[k] = z[k]
  <2>1. z[k] = <<"body", n, k>>
    BY <1>6
  <2>2. CASE k <= f
    <3>1. k \in 1..f /\ y[k] = u[k]
      BY <2>2, <1>10
    <3>2. QED
      BY <3>1, <2>1, <1>5
  <2>3. CASE k > f
    <3>1. k - f \in 1..(t - 1) /\ k - f \in Nat /\ k - f >= 1 /\ k - f < t /\ f + (k - f) = k
      BY <2>3
    <3>2. y[k] = v[k - f]
      BY <2>3, <1>10
    <3>3. v[k - f] = x[k - f]
      BY <3>1, <1>7
    <3>4. x[k - f] = <<"body", n, k>>
      BY <3>1, <1>2
    <3>5. QED
      BY <3>2, <3>3, <3>4, <2>1
  <2>4. QED
    BY <2>2, <2>3
<1>12. y = z
  <2>1. y \in Seq(Tokens) /\ z \in Seq(Tokens) /\ Len(y) = Len(z)
    BY <1>6, <1>8, <1>10
  <2>2. \A k \in 1..Len(y) : y[k] = z[k]
    BY <1>10, <1>11
  <2>3. QED
    BY <2>1, <2>2, SeqEqual
<1>13. z = Payload(n)
  BY DEF z, Payload, Is
<1>14. QED
  BY <1>4, <1>12, <1>13 DEF y, u, v, RestIs

LEMMA PayloadReadKeeps ==
  ASSUME RequestInv, PayloadRead
  PROVE  RequestInv'
<1>1. Types /\ Known(net, sent) /\ Known(b, sent) /\ Known(c, sent)
  BY DEF RequestInv
<1>2. /\ at = "payload" /\ Len(c) >= packet.total /\ sent' = sent /\ net' = net
      /\ closed' = closed /\ b' = b /\ at' = "header" /\ packet' = NoPacket /\ refused' = refused
  BY DEF PayloadRead
<1>3. PICK e \in LineEnd(c, 1) :
        /\ executed' = Append(executed, <<packet.id, packet.fragment \o Take(c, e - 1)>>)
        /\ c' = Drop(c, e)
  BY DEF PayloadRead
<1>4. net \in Seq(Tokens) /\ c \in Seq(Tokens) /\ executed \in Seq(Nat \X Seq(Tokens))
  BY <1>1 DEF Types
<1>5. PICK m \in Nat, n \in Nat : /\ Is(m, sent) /\ n <= m /\ m <= Len(Sizes) /\ n \in 1..sent
                                  /\ \E p : \E f \in Nat : Within(n, p, f)
  BY <1>2, PayloadState DEF Is
<1>6. PICK p : \E f \in Nat : Within(n, p, f)
  BY <1>5
<1>7. PICK f \in Nat : Within(n, p, f)
  BY <1>6
<1> DEFINE w == c \o net
<1>8. n \in 1..Len(Sizes) /\ n \in 1..m /\ Len(Sizes) \in Nat
  <2>1. n \in 1..m
    BY <1>5 DEF Is
  <2>2. Len(Sizes) \in Nat
    BY SizesAssumption
  <2>3. QED
    BY <2>1, <2>2, <1>5
<1>9. PICK s \in Nat : Is(s, Sizes[n])
  BY <1>8, SizeFacts DEF Is
<1>10. /\ n \notin Invalid /\ f + 1 < s
       /\ packet = [id |-> n, fragment |-> Body(n, f), total |-> s - f]
       /\ b = <<>> /\ Len(c) <= s - f
       /\ Layout(w, p, n, m) /\ (~closed => Len(w) + 1 = p[m + 1])
       /\ p[n + 1] = s - f + 1
       /\ \A k \in 1..(s - f) : k <= Len(w) => w[k] = Byte(n, 5 + f + k)
       /\ ExecutedUpTo(n - 1) /\ refused <= 2 * Bad(n - 1)
  BY <1>5, <1>7, <1>9 DEF Within, Complete, Is
<1>11. PICK t \in Nat : t + f <= s /\ s <= t + f
  <2>1. s - f \in Nat /\ (s - f) + f = s
    BY <1>10
  <2>2. QED
    <3>1. PICK t \in Nat : t = s - f
      BY <2>1
    <3>2. t + f <= s /\ s <= t + f
      BY <3>1
    <3>3. QED
      BY <3>2
<1>12. s - f = t /\ packet.total = t /\ packet.id = n /\ packet.fragment = Body(n, f)
  BY <1>10, <1>11
<1>13. Is(t, Len(c))
  <2>1. Len(c) >= t /\ Len(c) <= t /\ Len(c) \in Nat
    BY <1>2, <1>4, <1>10, <1>12
  <2>2. t = Len(c)
    BY <2>1
  <2>3. QED
    BY <2>2 DEF Is
<1>14. IsFront(c, w) /\ Len(w) \in Nat /\ w \in Seq(Tokens)
  BY <1>4, Prefix, Joined
<1> HIDE DEF w
<1>15. t <= Len(w) /\ \A k \in 1..t : c[k] = w[k]
  BY <1>13, <1>14 DEF IsFront, Is
<1>16. ASSUME NEW k \in 1..t PROVE c[k] = Byte(n, 5 + f + k)
  <2>1. k \in 1..(s - f) /\ c[k] = w[k]
    BY <1>12, <1>15
  <2>2. k <= Len(w)
    <3>1. t <= Len(w)
      BY <1>15
    <3>2. QED
      BY <3>1, <1>14
  <2>3. QED
    BY <2>1, <2>2, <1>10
<1>17. LineEnd(c, 1) = {t} /\ Body(n, f) \o Take(c, t - 1) = Payload(n)
  <2>a. RestAt(c, n, f, t)
    BY <1>16 DEF RestAt
  <2>1. f + 1 < s /\ n \in 1..Len(Sizes) /\ c \in Seq(Tokens)
    BY <1>4, <1>8, <1>10
  <2>2. QED
    <3>1. RestIs(c, n, f, t)
      BY <2>1, <2>a, <1>9, <1>11, <1>13, RestOfPayload
    <3>2. QED
      BY <3>1 DEF RestIs
<1>18. e = t /\ executed' = Append(executed, <<n, Payload(n)>>) /\ c' = Drop(c, t)
  BY <1>3, <1>12, <1>17
<1>19. c' = <<>>
  <2>1. Drop(c, Len(c)) = <<>>
    BY <1>4, DropAll
  <2>2. QED
    BY <2>1, <1>13, <1>18 DEF Is
<1>20. b' \o net' = Drop(w, t)
  <2>1. t \in 0..Len(c)
    BY <1>13 DEF Is
  <2>2. Drop(c, t) \o net = Drop(w, t)
    BY <2>1, <1>4, CutJoined DEF w
  <2>3. b' = Drop(c, t)
    BY <1>2, <1>10, <1>18, <1>19
  <2>4. QED
    BY <2>2, <2>3, <1>2
<1>21. PICK r : /\ Layout(Drop(w, t), r, n, m)
                /\ r[n + 1] = p[n + 1] - t /\ r[m + 1] = p[m + 1] - t
  <2>1. p[n + 1] = t + 1
    BY <1>10, <1>12
  <2>2. /\ Layout(w, p, n, m) /\ n <= n /\ n <= m /\ m <= Len(Sizes) /\ t <= Len(w)
        /\ t < p[n + 1]
    BY <2>1, <1>5, <1>10, <1>15
  <2>3. QED
    BY <2>2, Dropped
<1> DEFINE v == Drop(w, t)
<1>22. Len(v) = Len(w) - t
  <2>1. t \in 0..Len(w)
    BY <1>14, <1>15
  <2>2. QED
    BY <2>1, <1>14, Cut
<1> HIDE DEF v
<1>23. ~closed => Len(v) + 1 = r[m + 1]
  <2>1. SUFFICES ASSUME ~closed PROVE Len(v) + 1 = r[m + 1]
    OBVIOUS
  <2>2. Len(w) + 1 = p[m + 1] /\ r[m + 1] = p[m + 1] - t /\ Len(v) = Len(w) - t
    BY <2>1, <1>10, <1>21, <1>22
  <2>3. Len(w) \in Nat
    BY <1>14
  <2>4. QED
    BY <2>2, <2>3
<1>24. Quiet(v, r[n + 1] - 1)
  <2>1. r[n + 1] - 1 = 0
    BY <1>10, <1>12, <1>21
  <2>2. QED
    BY <2>1 DEF Quiet
<1>25. PICK h \in Nat : Is(h, n - 1)
  BY <1>8 DEF Is
<1>26. h + 1 = n
  BY <1>25 DEF Is
<1>27. ExecutedUpTo(n)'
  <2>1. /\ h + 1 \notin Invalid /\ ExecutedUpTo(h)
        /\ Payload(n) = (IF Sizes[h + 1] = 0 THEN <<>> ELSE Payload(h + 1))
        /\ executed' = Append(executed, <<h + 1, Payload(n)>>)
    <3>1. Sizes[n] # 0
      BY <1>9, <1>10 DEF Is
    <3>2. n \notin Invalid /\ ExecutedUpTo(n - 1)
      BY <1>10
    <3>3. h = n - 1
      BY <1>25 DEF Is
    <3>4. QED
      BY <3>1, <3>2, <3>3, <1>18, <1>26
  <2>2. ExecutedUpTo(h + 1)'
    BY <2>1, <1>4, ExecutedNext
  <2>3. QED
    BY <2>2, <1>26
<1>28. refused' <= 2 * Bad(n)
  <2>1. refused <= 2 * Bad(h)
    BY <1>10, <1>25 DEF Is
  <2>2. Bad(h + 1) = Bad(h)
    BY <1>10, <1>26, BadFacts
  <2>3. QED
    BY <2>1, <2>2, <1>2, <1>26
<1>29. Types'
  <2>1. Payload(n) \in Seq(Tokens)
    <3>1. s - 1 \in Int /\ s - 1 >= -1
      OBVIOUS
    <3>2. Body(n, s - 1) \in Seq(Tokens)
      BY <3>1, BodyBytes
    <3>3. QED
      BY <3>2, <1>9 DEF Payload, Is
  <2>2. executed' \in Seq(Nat \X Seq(Tokens))
    BY <2>1, <1>4, <1>18
  <2>3. <<>> \in Seq(Tokens)
    OBVIOUS
  <2>4. QED
    BY <2>2, <2>3, <1>1, <1>2, <1>19 DEF Types
<1>30. Between(n, r)'
  <2>1. b' \o net' = v /\ m = sent' /\ closed' = closed /\ Layout(v, r, n, m)
    BY <1>2, <1>5, <1>20, <1>21 DEF Is, v
  <2>2. QED
    BY <2>1, <1>23, <1>24, <1>27, <1>28 DEF Between, Complete
<1>31. n \in 0..sent'
  BY <1>2, <1>5
<1>32. QED
  BY <1>1, <1>2, <1>19, <1>29, <1>30, <1>31, ToHeader

-----------------------------------------------------------------------------
(***************************************************************************)
(* The theorems.                                                           *)
(***************************************************************************)
LEMMA RequestInvNext ==
  RequestInv /\ [Next]_vars => RequestInv'
<1> SUFFICES ASSUME RequestInv, [Next]_vars PROVE RequestInv'
  OBVIOUS
<1>1. CASE SendPacket
  BY <1>1, SendPacketKeeps
<1>2. CASE Close
  BY <1>2, CloseKeeps
<1>3. CASE ReadUntil
  BY <1>3, ReadUntilKeeps
<1>4. CASE Garbage
  BY <1>4, GarbageKeeps
<1>5. CASE HandleRead
  BY <1>5, HandleReadKeeps
<1>6. CASE ReadSome
  BY <1>6, ReadSomeKeeps
<1>7. CASE PayloadRead
  BY <1>7, PayloadReadKeeps
<1>8. CASE EndOfStream
  BY <1>8, EndOfStreamKeeps
<1>9. CASE UNCHANGED vars
  <2>1. /\ sent' = sent /\ net' = net /\ closed' = closed /\ at' = at /\ b' = b /\ c' = c
        /\ packet' = packet /\ executed' = executed /\ refused' = refused
    BY <1>9 DEF vars
  <2>2. \A n : ExecutedUpTo(n)' <=> ExecutedUpTo(n)
    BY <2>1 DEF ExecutedUpTo
  <2>3. Types' /\ Known(net, sent)' /\ Known(b, sent)' /\ Known(c, sent)'
    BY <2>1 DEF RequestInv, Types
  <2>4. \A n, p : Between(n, p)' <=> Between(n, p)
    BY <2>1, <2>2 DEF Between, Complete
  <2>5. \A n, p, f : Within(n, p, f)' <=> Within(n, p, f)
    BY <2>1, <2>2 DEF Within, Complete
  <2>6. AtHeader' /\ AtPayload' /\ AtEnd'
    BY <2>1, <2>2, <2>4, <2>5 DEF RequestInv, AtHeader, AtPayload, AtEnd
  <2>7. QED
    BY <2>3, <2>6 DEF RequestInv
<1>10. QED
  BY <1>1, <1>2, <1>3, <1>4, <1>5, <1>6, <1>7, <1>8, <1>9 DEF Next, Reads

\* What is unread when the session waits is the rest of the packet it had last,
\* in which handle_read finds nothing, and the packets that follow; when it is
\* in its blocking read, the part of the payload that is missing comes first.
THEOREM RequestSafety == Spec => []RequestInv
<1>1. Init => RequestInv
  BY Starts
<1>2. RequestInv /\ [Next]_vars => RequestInv'
  BY RequestInvNext
<1>3. QED
  BY <1>1, <1>2, PTL DEF Spec

\* Types of the session's buffers and of the packet it reads: the blocking read
\* of handle_read never takes more bytes than the packet has.
THEOREM RequestTypes == Spec => []TypeOK
<1>1. RequestInv => TypeOK
  <2> SUFFICES ASSUME RequestInv PROVE TypeOK
    OBVIOUS
  <2>1. Types /\ Known(net, sent) /\ Known(b, sent) /\ Known(c, sent)
    BY DEF RequestInv
  <2>2. ASSUME NEW x \in Seq(Tokens), Known(x, sent) PROVE x \in Seq(Bytes(sent))
    <3>1. \A k \in 1..Len(x) : x[k] \in Bytes(sent)
      BY <2>2 DEF Known
    <3>2. QED
      BY <3>1
  <2>3. {net, b, c} \subseteq Seq(Bytes(sent))
    BY <2>1, <2>2 DEF Types
  <2>4. at = "header" => packet = NoPacket /\ c = <<>>
    BY HeaderState
  <2>5. at = "payload" => packet.id \in 1..sent /\ packet.total \in Len(c)..Sizes[packet.id]
    <3>1. SUFFICES ASSUME at = "payload"
                   PROVE  packet.id \in 1..sent /\ packet.total \in Len(c)..Sizes[packet.id]
      OBVIOUS
    <3>2. PICK m \in Nat, n \in Nat : /\ Is(m, sent) /\ n <= m /\ m <= Len(Sizes) /\ n \in 1..sent
                                      /\ \E p : \E f \in Nat : Within(n, p, f)
      BY <3>1, PayloadState DEF Is
    <3>3. PICK f \in Nat : \E p : Within(n, p, f)
      BY <3>2
    <3>4. /\ packet = [id |-> n, fragment |-> Body(n, f), total |-> Sizes[n] - f]
          /\ Len(c) <= Sizes[n] - f
      BY <3>3 DEF Within
    <3>5. Sizes[n] \in Nat /\ Len(c) \in Nat
      <4>1. n \in 1..Len(Sizes)
        BY <3>2 DEF Is
      <4>2. QED
        BY <4>1, <2>1, SizeFacts DEF Types
    <3>6. Sizes[n] - f \in Len(c)..Sizes[n]
      <4>1. Len(c) <= Sizes[n] - f
        BY <3>4
      <4>2. QED
        BY <4>1, <3>5
    <3>7. packet.id = n /\ packet.total = Sizes[n] - f
      BY <3>4
    <3>8. QED
      BY <3>2, <3>6, <3>7
  <2>6. QED
    BY <2>1, <2>3, <2>4, <2>5 DEF TypeOK, Types
<1>2. QED
  BY <1>1, RequestSafety, PTL

\* However the network cuts the stream, and wherever a crash of the sender ends
\* it, handle_read executes the packets that were sent, each once, in order and
\* with its payload, and refuses nothing but the invalid ones.
THEOREM PacketsExecuted == Spec => []ExecutesWhatWasSent
<1>1. RequestInv => ExecutesWhatWasSent
  <2> SUFFICES ASSUME RequestInv PROVE ExecutesWhatWasSent
    OBVIOUS
  <2>1. Types /\ AtEnd /\ at \in {"header", "payload", "ended"}
    BY DEF RequestInv, Types
  <2>2. sent \in Nat /\ refused \in Nat
    BY <2>1, SentFacts DEF Types
  <2>3. \E n \in 0..sent : ExecutedUpTo(n) /\ refused <= 2 * Bad(n)
    <3>1. CASE at = "header"
      <4>1. PICK m \in Nat, n \in Nat : n \in 0..sent /\ \E p : Between(n, p)
        BY <3>1, HeaderState
      <4>2. ExecutedUpTo(n) /\ (refused <= 2 * Bad(n) \/ refused < 2 * Bad(n))
        BY <4>1 DEF Between
      <4>3. Bad(n) \in Nat
        BY BadFacts
      <4>4. refused <= 2 * Bad(n)
        BY <4>2, <4>3, <2>2
      <4>5. QED
        BY <4>1, <4>2, <4>4
    <3>2. CASE at = "payload"
      <4>1. PICK m \in Nat, n \in Nat : n \in 1..sent /\ \E p : \E f \in Nat : Within(n, p, f)
        BY <3>2, PayloadState
      <4>2. ExecutedUpTo(n - 1) /\ refused <= 2 * Bad(n - 1)
        BY <4>1 DEF Within
      <4>3. n - 1 \in 0..sent
        BY <4>1, <2>2
      <4>4. QED
        BY <4>2, <4>3
    <3>3. CASE at = "ended"
      BY <3>3, <2>1 DEF AtEnd
    <3>4. QED
      BY <3>1, <3>2, <3>3, <2>1
  <2>4. PICK n \in 0..sent : ExecutedUpTo(n) /\ refused <= 2 * Bad(n)
    BY <2>3
  <2>5. refused <= 2 * Bad(sent)
    <3>1. n \in Nat /\ n <= sent
      BY <2>2
    <3>2. Bad(n) <= Bad(sent) /\ Bad(n) \in Nat /\ Bad(sent) \in Nat
      BY <3>1, <2>2, BadFacts
    <3>3. QED
      BY <3>2, <2>2, <2>4
  <2>6. QED
    BY <2>4, <2>5 DEF ExecutesWhatWasSent, Bad
<1>2. QED
  BY <1>1, RequestSafety, PTL
=============================================================================
