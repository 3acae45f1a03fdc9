-------------------------- MODULE ReplyStreamProofs --------------------------
(***************************************************************************)
(* Theorems about ReplyStream: for every sequence of answers and however   *)
(* the network cuts the stream, as long as each request got one answer no  *)
(* call of sendReceive returns the answer to another request, and a call   *)
(* returns its own if also the answers before it had a text.  After a      *)
(* COMMIT with several ACK_RESENDs nothing is claimed but that every call  *)
(* has one result.                                                         *)
(*                                                                         *)
(* The argument is about where \n is.  After the first delimiter an answer *)
(* has one \n, its last byte, so what one answer leaves unread has neither *)
(* a header nor a delimiter, and the delimiter a call waits for is the one *)
(* after the first header of its own.                                      *)
(***************************************************************************)
EXTENDS ReplyStream, LinesProofs

\* What may be left of an answer: no header, and \n only as the last byte.
Rest(x) ==
  /\ x \in Seq(Tokens)
  /\ \A k \in 1..Len(x) : ~IsHeader(x[k]) /\ (k < Len(x) => x[k] # LF)

\* In w the header of the i-th answer is at p, the first one, after what was
\* left before it.
FrontAt(w, p, i) ==
  /\ w \in Seq(Tokens)
  /\ p \in 1..Len(w) /\ p + 4 <= Len(w)
  /\ w[p] = Header(i) /\ w[p + 1] = CR /\ w[p + 2] = LF /\ w[p + 3] = CR /\ w[p + 4] = LF
  /\ \A k \in 1..Len(w) : k < p => ~IsHeader(w[k])
  /\ \A k \in 1..Len(w) : k < p - 1 => w[k] # LF

\* And w ends with that answer: in w the i-th answer begins at p, after what was left before it.
AnswerAt(w, p, i) ==
  /\ w \in Seq(Tokens)
  /\ p \in 1..Len(w) /\ p + 4 <= Len(w)
  /\ w[p] = Header(i) /\ w[p + 1] = CR /\ w[p + 2] = LF /\ w[p + 3] = CR /\ w[p + 4] = LF
  /\ \A k \in 1..Len(w) : k # p => ~IsHeader(w[k])
  /\ \A k \in 1..Len(w) : k < p - 1 => w[k] # LF
  /\ \A k \in 1..Len(w) : k > p + 4 /\ k < Len(w) => w[k] # LF

\* No header but that of the i-th answer.
NoOther(line, i) == \A k \in 1..Len(line) : \A j \in Nat : line[k] = Header(j) => j = i

\* All answers before the i-th have a text.
TextBefore(i) == \A j \in 1..(i - 1) : Texts[j] > 0

Own(i) == <<Header(i), CR>>

Types ==
  /\ calls \in Nat /\ calls <= Requests
  /\ answered \in Nat /\ answered <= Len(Texts)
  /\ answered > 0 => Of[answered] <= calls
  /\ net \in Seq(Tokens) /\ b \in Seq(Tokens) /\ header \in Seq(Tokens)
  /\ returned \in Seq(Seq(Tokens))
  /\ at \in {"idle", "header", "text"}

AtIdle ==
  at = "idle" =>
    /\ Len(returned) = calls
    /\ OneEach(calls + 1) =>
         /\ answered = calls
         /\ Rest(net)
         /\ TextBefore(calls + 1) => net = <<>>

\* The answer of the call has not come, or it has, and others to the same
\* request perhaps.
NotCome(s) == answered = calls - 1 /\ Rest(s) /\ (TextBefore(calls) => s = <<>>)

Come(s) ==
  /\ answered >= calls
  /\ \E p \in Nat :
       /\ FrontAt(s, p, calls)
       /\ TextBefore(calls) => p = 1
       /\ OneEach(calls + 1) => AnswerAt(s, p, calls)

AtHeader ==
  at = "header" =>
    /\ calls > 0 /\ Len(returned) = calls - 1
    /\ OneEach(calls) => NotCome(b \o net) \/ Come(b \o net)

AtText ==
  at = "text" =>
    /\ calls > 0 /\ Len(returned) = calls - 1
    /\ OneEach(calls) => header = Own(calls) /\ Texts[calls] > 0
    /\ OneEach(calls + 1) => answered = calls /\ Rest(b \o net)

\* What the calls returned.
Results ==
  \A i \in 1..Len(returned) :
    OneEach(i) => NoOther(returned[i], i) /\ (TextBefore(i) => returned[i] = Own(i))

StreamInv == Types /\ AtIdle /\ AtHeader /\ AtText /\ Results

-----------------------------------------------------------------------------
(***************************************************************************)
(* Answers, and what is left of them.                                      *)
(***************************************************************************)
\* What is behind the header of an answer is the rest of it.
LEMMA WireShape ==
  ASSUME NEW i \in 1..Len(Texts)
  PROVE  AnswerAt(Wire(i), 1, i)
<1> DEFINE n == Texts[i]
           body == Body(i, n)
           crlf == CRLF
           front == <<Header(i)>> \o Delim
           tail == body \o crlf
<1>1. i \in Nat /\ n \in Nat
  BY TextsAssumption
<1>2. crlf \in Seq(Tokens) /\ Len(crlf) = 2 /\ crlf[1] = CR /\ crlf[2] = LF
  BY TokenFacts DEF CRLF
<1>3. /\ front \in Seq(Tokens) /\ Len(front) = 5
      /\ front[1] = Header(i) /\ front[2] = CR /\ front[3] = LF /\ front[4] = CR /\ front[5] = LF
  BY <1>1, FrontBytes
<1> HIDE DEF crlf, front
<1>4. body \in Seq(Tokens) /\ Len(body) = n /\ \A k \in 1..n : body[k] = <<"body", i, k>>
  BY <1>1, BodyFacts DEF Body
<1> HIDE DEF body, n
<1>5. ASSUME NEW k \in 1..n PROVE ~IsHeader(body[k]) /\ body[k] # LF
  <2>1. k \in Nat /\ body[k] = <<"body", i, k>>
    BY <1>1, <1>4
  <2>2. QED
    BY <1>1, <2>1, BodyFacts, Zenon
<1>6. /\ tail \in Seq(Tokens) /\ Len(tail) = n + 2
      /\ \A k \in 1..(n + 2) : tail[k] = IF k <= n THEN body[k] ELSE crlf[k - n]
  <2>1. /\ tail \in Seq(Tokens) /\ Len(tail) = Len(body) + Len(crlf)
        /\ \A k \in 1..(Len(body) + Len(crlf)) :
             tail[k] = IF k <= Len(body) THEN body[k] ELSE crlf[k - Len(body)]
    BY <1>1, <1>2, <1>4, Joined
  <2> HIDE DEF tail
  <2>2. QED
    BY <1>1, <1>2, <1>4, <2>1
<1> HIDE DEF tail
<1>7. ASSUME NEW k \in 1..(n + 2) PROVE ~IsHeader(tail[k]) /\ (k < n + 2 => tail[k] # LF)
  <2>1. CASE k <= n
    BY <2>1, <1>1, <1>5, <1>6
  <2>2. CASE k = n + 1
    BY <2>2, <1>1, <1>2, <1>6, TokenFacts
  <2>3. CASE k = n + 2
    BY <2>3, <1>1, <1>2, <1>6, TokenFacts
  <2>4. QED
    BY <2>1, <2>2, <2>3, <1>1
<1> DEFINE last == IF n = 0 THEN crlf ELSE tail
<1>8. last \in Seq(Tokens) /\ Len(last) \in Nat /\ Len(last) >= 2
  BY <1>1, <1>2, <1>6
<1>9. ASSUME NEW k \in 1..Len(last) PROVE ~IsHeader(last[k]) /\ (k < Len(last) => last[k] # LF)
  <2>1. CASE n = 0
    <3>1. last = crlf
      BY <2>1
    <3> HIDE DEF last
    <3>2. k = 1 \/ k = 2
      BY <3>1, <1>2
    <3>3. QED
      BY <3>1, <3>2, <1>2, TokenFacts
  <2>2. CASE n # 0
    BY <2>2, <1>6, <1>7
  <2>3. QED
    BY <2>1, <2>2
<1>10. Wire(i) = front \o last
  BY DEF Wire, front, last, tail, body, crlf, n
<1> HIDE DEF last
<1> DEFINE w == front \o last
<1>11. /\ w \in Seq(Tokens) /\ Len(w) = 5 + Len(last)
      /\ \A k \in 1..(5 + Len(last)) : w[k] = IF k <= 5 THEN front[k] ELSE last[k - 5]
  <2>1. /\ w \in Seq(Tokens) /\ Len(w) = Len(front) + Len(last)
        /\ \A k \in 1..(Len(front) + Len(last)) :
             w[k] = IF k <= Len(front) THEN front[k] ELSE last[k - Len(front)]
    BY <1>3, <1>8, Joined
  <2> HIDE DEF w
  <2>2. QED
    BY <1>3, <1>8, <2>1
<1> HIDE DEF w
<1>12. w[1] = Header(i) /\ w[2] = CR /\ w[3] = LF /\ w[4] = CR /\ w[5] = LF
  BY <1>3, <1>8, <1>11
<1>13. ASSUME NEW k \in 1..Len(w), k # 1 PROVE ~IsHeader(w[k])
  <2>1. CASE k <= 5
    BY <2>1, <1>12, <1>13, TokenFacts
  <2>2. CASE k > 5
    <3>1. k - 5 \in 1..Len(last) /\ w[k] = last[k - 5]
      BY <2>2, <1>8, <1>11
    <3>2. QED
      BY <3>1, <1>9
  <2>3. k <= 5 \/ k > 5
    BY <1>8, <1>11
  <2>4. QED
    BY <2>1, <2>2, <2>3
<1>14. ASSUME NEW k \in 1..Len(w), k > 5, k < Len(w) PROVE w[k] # LF
  <2>1. k - 5 \in 1..Len(last) /\ k - 5 < Len(last) /\ w[k] = last[k - 5]
    BY <1>8, <1>11, <1>14
  <2>2. QED
    BY <2>1, <1>9
<1>15. AnswerAt(w, 1, i)
  BY <1>8, <1>11, <1>12, <1>13, <1>14 DEF AnswerAt
<1>16. QED
  BY <1>10, <1>15 DEF w

LEMMA RestDrop ==
  ASSUME NEW x, Rest(x), NEW k \in 0..Len(x)
  PROVE  Rest(Drop(x, k))
<1>1. x \in Seq(Tokens) /\ Len(x) \in Nat
  BY DEF Rest
<1> DEFINE y == Drop(x, k)
<1>2. y \in Seq(Tokens) /\ Len(y) = Len(x) - k /\ \A i \in 1..(Len(x) - k) : y[i] = x[k + i]
  BY <1>1, Cut
<1> HIDE DEF y
<1>3. ASSUME NEW i \in 1..Len(y) PROVE ~IsHeader(y[i]) /\ (i < Len(y) => y[i] # LF)
  <2>1. k + i \in 1..Len(x) /\ y[i] = x[k + i] /\ (i < Len(y) => k + i < Len(x))
    BY <1>1, <1>2
  <2>2. QED
    BY <2>1 DEF Rest
<1>4. Rest(y)
  BY <1>2, <1>3 DEF Rest
<1>5. QED
  BY <1>4 DEF y

\* An answer after the rest of another one.
LEMMA RestThenAnswer ==
  ASSUME NEW x, Rest(x), NEW i \in 1..Len(Texts)
  PROVE  AnswerAt(x \o Wire(i), Len(x) + 1, i)
<1> DEFINE a == Wire(i)
           w == x \o a
           n == Len(x)
<1>1. AnswerAt(a, 1, i)
  BY WireShape
<1> HIDE DEF a
<1>2. a \in Seq(Tokens) /\ x \in Seq(Tokens) /\ n \in Nat /\ Len(a) \in Nat /\ Len(a) >= 5
  BY <1>1 DEF AnswerAt, Rest
<1>3. /\ w \in Seq(Tokens) /\ Len(w) = n + Len(a)
      /\ \A k \in 1..(n + Len(a)) : w[k] = IF k <= n THEN x[k] ELSE a[k - n]
  BY <1>2, Joined
<1> HIDE DEF w
<1>4. /\ w[n + 1] = a[1] /\ w[n + 2] = a[2] /\ w[n + 3] = a[3] /\ w[n + 4] = a[4]
      /\ w[n + 5] = a[5]
  <2>1. ASSUME NEW j \in 1..5 PROVE w[n + j] = a[j]
    <3>1. n + j \in 1..(n + Len(a)) /\ ~(n + j <= n) /\ (n + j) - n = j
      BY <1>2
    <3>2. QED
      BY <3>1, <1>3
  <2>2. QED
    BY <2>1
<1>5. ASSUME NEW k \in 1..Len(w), k # n + 1 PROVE ~IsHeader(w[k])
  <2>1. CASE k <= n
    BY <2>1, <1>2, <1>3 DEF Rest
  <2>2. CASE k > n
    <3>1. k - n \in 1..Len(a) /\ k - n # 1 /\ w[k] = a[k - n]
      BY <2>2, <1>2, <1>3, <1>5
    <3>2. QED
      BY <3>1, <1>1 DEF AnswerAt
  <2>3. QED
    BY <2>1, <2>2, <1>2, <1>3
<1>6. ASSUME NEW k \in 1..Len(w), k < n PROVE w[k] # LF
  <2>1. k \in 1..n /\ k <= n
    BY <1>2, <1>6
  <2>2. k \in 1..Len(w) /\ w[k] = x[k]
    BY <1>2, <1>3, <2>1
  <2>3. QED
    BY <1>2, <1>6, <2>1, <2>2 DEF Rest
<1>7. ASSUME NEW k \in 1..Len(w), k > n + 5, k < Len(w) PROVE w[k] # LF
  <2>1. k - n \in 1..Len(a) /\ k - n > 5 /\ k - n < Len(a) /\ w[k] = a[k - n]
    BY <1>2, <1>3, <1>7
  <2>2. QED
    BY <2>1, <1>1 DEF AnswerAt
<1>8. a[1] = Header(i) /\ a[2] = CR /\ a[3] = LF /\ a[4] = CR /\ a[5] = LF
  BY <1>1 DEF AnswerAt
<1>9. AnswerAt(w, n + 1, i)
  BY <1>2, <1>3, <1>4, <1>5, <1>6, <1>7, <1>8 DEF AnswerAt
<1>10. QED
  BY <1>9 DEF w, a

\* Behind the header and its delimiter is the rest of the answer.
LEMMA AfterAnswer ==
  ASSUME NEW x \in Seq(Tokens), NEW y \in Seq(Tokens), NEW p \in Nat, NEW i \in Nat,
         AnswerAt(x \o y, p, i), Len(x) >= p + 4
  PROVE  Rest(y)
<1> DEFINE w == x \o y
<1>1. /\ w \in Seq(Tokens) /\ Len(w) = Len(x) + Len(y)
      /\ \A k \in 1..(Len(x) + Len(y)) : w[k] = IF k <= Len(x) THEN x[k] ELSE y[k - Len(x)]
  BY Joined
<1>2. Len(x) \in Nat /\ Len(y) \in Nat
  OBVIOUS
<1>3. AnswerAt(w, p, i)
  OBVIOUS
<1> HIDE DEF w
<1>4. ASSUME NEW k \in 1..Len(y) PROVE ~IsHeader(y[k]) /\ (k < Len(y) => y[k] # LF)
  <2> DEFINE q == Len(x) + k
  <2>1. q \in 1..Len(w) /\ q # p /\ q > p + 4 /\ (k < Len(y) => q < Len(w))
    BY <1>1, <1>2
  <2>2. ~(q <= Len(x)) /\ q - Len(x) = k
    BY <1>2
  <2>3. w[q] = y[k]
    BY <1>1, <2>1, <2>2
  <2> HIDE DEF q
  <2>4. QED
    BY <1>3, <2>1, <2>3 DEF AnswerAt
<1>5. QED
  BY <1>4 DEF Rest

LEMMA AnswerFront ==
  ASSUME NEW w, NEW p, NEW i, AnswerAt(w, p, i)
  PROVE  FrontAt(w, p, i)
BY DEF AnswerAt, FrontAt

\* More that comes behind a header.
LEMMA FrontJoined ==
  ASSUME NEW x, NEW y \in Seq(Tokens), NEW p, NEW i, FrontAt(x, p, i)
  PROVE  FrontAt(x \o y, p, i)
<1> DEFINE w == x \o y
<1>1. x \in Seq(Tokens) /\ Len(x) \in Nat /\ Len(y) \in Nat /\ p \in 1..Len(x) /\ p + 4 <= Len(x)
  BY DEF FrontAt
<1>2. w \in Seq(Tokens) /\ Len(w) = Len(x) + Len(y)
  BY <1>1, Joined
<1>3. ASSUME NEW k \in 1..Len(x) PROVE w[k] = x[k]
  BY <1>1, Joined
<1> HIDE DEF w
<1>4. /\ w[p] = x[p] /\ w[p + 1] = x[p + 1] /\ w[p + 2] = x[p + 2] /\ w[p + 3] = x[p + 3]
      /\ w[p + 4] = x[p + 4]
  BY <1>1, <1>3
<1>5. ASSUME NEW k \in 1..Len(w), k < p PROVE ~IsHeader(w[k]) /\ (k < p - 1 => w[k] # LF)
  <2>1. k \in 1..Len(x)
    BY <1>1, <1>5
  <2>2. QED
    BY <1>3, <1>5, <2>1 DEF FrontAt
<1>6. FrontAt(w, p, i)
  <2>1. p \in 1..Len(w) /\ p + 4 <= Len(w)
    BY <1>1, <1>2
  <2>2. \A k \in 1..Len(w) : k < p - 1 => w[k] # LF
    BY <1>1, <1>5
  <2>3. QED
    BY <1>2, <1>4, <1>5, <2>1, <2>2 DEF FrontAt
<1>7. QED
  BY <1>6 DEF w

\* A buffer with a delimiter has the answer's header and delimiter: no other
\* delimiter comes before that one.
LEMMA DelimIsOwn ==
  ASSUME NEW x \in Seq(Tokens), NEW y \in Seq(Tokens), NEW p \in Nat, NEW i \in Nat,
         FrontAt(x \o y, p, i), Has(x, Delim)
  PROVE  /\ Len(x) >= p + 4
         /\ \A k \in 1..Len(x) : x[k] = (x \o y)[k]
<1> DEFINE w == x \o y
<1>1. /\ w \in Seq(Tokens) /\ Len(w) = Len(x) + Len(y)
      /\ \A k \in 1..(Len(x) + Len(y)) : w[k] = IF k <= Len(x) THEN x[k] ELSE y[k - Len(x)]
  BY Joined
<1>2. Len(x) \in Nat /\ Len(y) \in Nat
  OBVIOUS
<1>3. FrontAt(w, p, i)
  OBVIOUS
<1>4. PICK d \in Nat : /\ d + 4 <= Len(x)
                       /\ x[d + 1] = CR /\ x[d + 2] = LF /\ x[d + 3] = CR /\ x[d + 4] = LF
  BY DelimFacts
<1> HIDE DEF w
<1>5. \A k \in 1..Len(x) : x[k] = w[k]
  BY <1>1, <1>2
<1>6. w[d + 2] = LF /\ w[d + 3] = CR /\ d + 2 \in 1..Len(w)
  BY <1>1, <1>2, <1>4, <1>5
<1>7. d + 2 # p /\ d + 3 # p /\ d + 2 # p + 1
  BY <1>3, <1>6, TokenFacts DEF FrontAt
<1>8. ~(d + 2 < p - 1)
  BY <1>3, <1>6 DEF FrontAt
<1>9. Len(x) >= p + 4
  BY <1>2, <1>4, <1>7, <1>8
<1>10. QED
  BY <1>5, <1>9 DEF w

LEMMA RestHasNoDelim ==
  ASSUME NEW x \in Seq(Tokens), NEW y \in Seq(Tokens), Rest(x \o y)
  PROVE  ~Has(x, Delim)
<1> DEFINE w == x \o y
<1>1. SUFFICES ASSUME Has(x, Delim) PROVE FALSE
  OBVIOUS
<1>2. /\ w \in Seq(Tokens) /\ Len(w) = Len(x) + Len(y)
      /\ \A k \in 1..(Len(x) + Len(y)) : w[k] = IF k <= Len(x) THEN x[k] ELSE y[k - Len(x)]
  BY Joined
<1>3. Len(x) \in Nat /\ Len(y) \in Nat /\ Rest(w)
  OBVIOUS
<1>4. PICK d \in Nat : d + 4 <= Len(x) /\ x[d + 2] = LF
  BY <1>1, DelimFacts
<1> HIDE DEF w
<1>5. d + 2 \in 1..Len(w) /\ d + 2 < Len(w) /\ w[d + 2] = LF
  BY <1>2, <1>3, <1>4
<1>6. QED
  BY <1>3, <1>5 DEF Rest

\* The two lines of a buffer that begins with the answer.
LEMMA OwnLines ==
  ASSUME NEW x \in Seq(Tokens), NEW i \in Nat, Len(x) >= 5,
         x[1] = Header(i), x[2] = CR, x[3] = LF, x[4] = CR, x[5] = LF,
         NEW e1 \in LineEnd(x, 1), NEW e2 \in LineEnd(x, e1 + 1)
  PROVE  e1 = 3 /\ e2 = 5 /\ Take(x, e1 - 1) = Own(i)
<1>1. Len(x) \in Nat /\ x[1] # LF /\ x[2] # LF /\ x[4] # LF
  BY TokenFacts
<1>2. e1 \in 1..(Len(x) + 1) /\ (e1 <= Len(x) => x[e1] = LF) /\ \A j \in 1..(e1 - 1) : x[j] # LF
  BY DEF LineEnd
<1>3. e1 # 1 /\ e1 # 2 /\ ~(e1 > 3)
  BY <1>1, <1>2
<1>4. e1 = 3
  BY <1>1, <1>2, <1>3
<1>5. e2 \in 4..(Len(x) + 1) /\ (e2 <= Len(x) => x[e2] = LF) /\ \A j \in 4..(e2 - 1) : x[j] # LF
  BY <1>4 DEF LineEnd
<1>6. e2 # 4 /\ ~(e2 > 5)
  BY <1>1, <1>5
<1>7. e2 = 5
  BY <1>1, <1>5, <1>6
<1> DEFINE t == Take(x, 2)
           o == Own(i)
<1>8. t \in Seq(Tokens) /\ Len(t) = 2 /\ t[1] = x[1] /\ t[2] = x[2]
  <2>1. 2 \in 0..Len(x)
    BY <1>1
  <2>2. t \in Seq(Tokens) /\ Len(t) = 2 /\ \A k \in 1..2 : t[k] = x[k]
    BY <2>1, Cut
  <2>3. QED
    BY <2>2
<1>9. o \in Seq(Tokens) /\ Len(o) = 2 /\ o[1] = Header(i) /\ o[2] = CR
  BY TokenFacts DEF Own
<1> HIDE DEF t, o
<1>10. \A k \in 1..2 : t[k] = o[k]
  BY <1>8, <1>9
<1>11. t = o
  BY <1>8, <1>9, <1>10, SeqEqual
<1>12. QED
  BY <1>4, <1>7, <1>11 DEF t, o

-----------------------------------------------------------------------------
(***************************************************************************)
(* The steps.                                                              *)
(***************************************************************************)
\* There are no more requests than answers.
LEMMA RequestsBound == Requests \in Nat /\ Requests <= Len(Texts)
<1>1. CASE Texts = <<>>
  BY <1>1, TextsAssumption DEF Requests
<1>2. CASE Texts # <<>>
  <2>1. Len(Texts) \in DOMAIN Texts
    BY <1>2, TextsAssumption, EmptySeq
  <2>2. QED
    BY <1>2, <2>1, TextsAssumption, OfAssumption DEF Requests
<1>3. QED
  BY <1>1, <1>2

\* If each request before the n-th got one answer, the n-th answer is for the
\* n-th request.
LEMMA OneEachFacts ==
  ASSUME NEW n \in Nat
  PROVE  /\ OneEach(n + 1) => OneEach(n)
         /\ \A j \in 1..Len(Texts) : OneEach(n + 1) /\ Of[j] <= n => j <= n
<1>1. \A j \in DOMAIN Texts : Of[j] \in Nat /\ j \in Nat
  BY TextsAssumption, OfAssumption
<1>2. DOMAIN Texts = 1..Len(Texts)
  BY TextsAssumption
<1>3. QED
  BY <1>1, <1>2 DEF OneEach

\* Nothing sent, nothing read.
LEMMA StreamInit == Init => StreamInv
<1> SUFFICES ASSUME Init PROVE StreamInv
  OBVIOUS
<1>1. Types
  BY TextsAssumption, RequestsBound, EmptySeq DEF Init, Types
<1>2. Rest(net)
  BY EmptySeq DEF Init, Rest
<1>3. AtIdle
  BY <1>2 DEF Init, AtIdle
<1>4. QED
  BY <1>1, <1>3 DEF Init, StreamInv, AtHeader, AtText, Results

\* A new call has an empty buffer, and the rest of the last answer before it.
LEMMA SendReceiveInv == StreamInv /\ SendReceive => StreamInv'
<1> SUFFICES ASSUME StreamInv, SendReceive PROVE StreamInv'
  OBVIOUS
<1>1. Types'
  <2>1. answered > 0 => Of[answered] \in Nat
    BY TextsAssumption, OfAssumption DEF StreamInv, Types
  <2>2. QED
    BY <2>1, TextsAssumption, RequestsBound, EmptySeq DEF StreamInv, Types, SendReceive
<1>2. at = "idle" /\ at' = "header"
  BY DEF SendReceive
<1>3. b' \o net' = net
  BY ConcatEmptySeq DEF StreamInv, Types, SendReceive
<1>4. /\ Len(returned) = calls
      /\ OneEach(calls + 1) =>
           answered = calls /\ Rest(net) /\ (TextBefore(calls + 1) => net = <<>>)
  BY <1>2 DEF StreamInv, AtIdle
<1>5. calls' = calls + 1 /\ calls \in Nat /\ UNCHANGED <<answered, returned>>
  BY DEF SendReceive, StreamInv, Types
<1>6. OneEach(calls') => NotCome(b \o net)'
  <2>1. calls' - 1 = calls
    BY <1>5
  <2>2. OneEach(calls + 1) =>
          /\ answered' = calls' - 1 /\ Rest(b' \o net') /\ (TextBefore(calls') => b' \o net' = <<>>)
    BY <1>3, <1>4, <1>5, <2>1
  <2>3. QED
    BY <1>5, <2>2 DEF NotCome, Rest, TextBefore
<1>7. AtHeader'
  BY <1>4, <1>5, <1>6 DEF AtHeader, OneEach
<1>8. AtIdle' /\ AtText'
  BY <1>2 DEF AtIdle, AtText
<1>9. Results'
  BY <1>5 DEF StreamInv, Results, NoOther, TextBefore, OneEach
<1>10. QED
  BY <1>1, <1>7, <1>8, <1>9 DEF StreamInv

\* The first answer to the request of a call comes behind what was left; more
\* answers to it come behind the first.
LEMMA AnswerInv == StreamInv /\ Answer => StreamInv'
<1> SUFFICES ASSUME StreamInv, Answer PROVE StreamInv'
  OBVIOUS
<1>1. /\ calls \in Nat /\ calls <= Requests /\ answered \in Nat /\ answered < Len(Texts)
      /\ Of[answered + 1] <= calls
      /\ b \in Seq(Tokens) /\ net \in Seq(Tokens) /\ answered' = answered + 1
      /\ UNCHANGED <<calls, at, b, header, returned>>
  BY DEF StreamInv, Types, Answer
<1>2. answered + 1 \in 1..Len(Texts) /\ net' = net \o Wire(answered + 1)
  BY <1>1, TextsAssumption DEF Answer
<1> DEFINE a == Wire(answered + 1)
           w == b \o net
<1>5. a \in Seq(Tokens)
  BY <1>2, WireShape DEF AnswerAt
<1>6. net' \in Seq(Tokens)
  BY <1>1, <1>2, <1>5, ConcatProperties
<1> HIDE DEF a
<1>7. b' \o net' = w \o a
  <2>1. (b \o net) \o a = b \o (net \o a)
    BY <1>1, <1>5, ConcatAssociative
  <2>2. b' = b /\ net' = net \o a
    BY <1>1, <1>2 DEF a
  <2>3. QED
    BY <2>1, <2>2, Zenon
<1>8. OneEach(calls + 1) => answered < calls
  BY <1>1, <1>2, OneEachFacts
<1>9. Types'
  BY <1>1, <1>2, <1>6 DEF StreamInv, Types
<1>10. AtIdle'
  <2>1. SUFFICES ASSUME at = "idle" PROVE AtIdle'
    BY <1>1 DEF AtIdle
  <2>2. Len(returned) = calls /\ ~OneEach(calls + 1)
    BY <1>1, <1>8, <2>1 DEF StreamInv, AtIdle
  <2>3. QED
    BY <1>1, <2>2 DEF AtIdle, OneEach
<1>11. AtText'
  <2>1. SUFFICES ASSUME at = "text" PROVE AtText'
    BY <1>1 DEF AtText
  <2>2. /\ calls > 0 /\ Len(returned) = calls - 1 /\ ~OneEach(calls + 1)
        /\ OneEach(calls) => header = Own(calls) /\ Texts[calls] > 0
    BY <1>1, <1>8, <2>1 DEF StreamInv, AtText
  <2>3. QED
    BY <1>1, <2>2 DEF AtText, OneEach, Own
<1>12. AtHeader'
  <2>1. SUFFICES ASSUME at = "header" PROVE AtHeader'
    BY <1>1 DEF AtHeader
  <2>2. /\ calls > 0 /\ Len(returned) = calls - 1
        /\ OneEach(calls) => NotCome(w) \/ Come(w)
    BY <2>1 DEF StreamInv, AtHeader
  <2> HIDE DEF w, a
  <2>3. ASSUME NotCome(w) PROVE Come(b \o net)'
    <3>1. answered' = calls /\ a = Wire(calls) /\ calls \in 1..Len(Texts)
      BY <1>1, <1>2, <2>2, <2>3 DEF NotCome, a
    <3>2. AnswerAt(w \o a, Len(w) + 1, calls)
      BY <2>3, <3>1, RestThenAnswer DEF NotCome
    <3>3. Len(w) \in Nat /\ (TextBefore(calls) => Len(w) = 0)
      BY <2>3 DEF Rest, NotCome
    <3>4. AnswerAt(b' \o net', Len(w) + 1, calls') /\ FrontAt(b' \o net', Len(w) + 1, calls')
      BY <1>1, <1>7, <3>2, AnswerFront
    <3>5. Len(w) + 1 \in Nat /\ (TextBefore(calls)' => Len(w) + 1 = 1)
      BY <1>1, <3>3 DEF TextBefore
    <3>6. QED
      BY <1>1, <3>1, <3>4, <3>5 DEF Come
  <2>4. ASSUME Come(w) PROVE Come(b \o net)'
    <3>1. answered >= calls
      BY <2>4 DEF Come
    <3>2. PICK p \in Nat : FrontAt(w, p, calls) /\ (TextBefore(calls) => p = 1)
      BY <2>4 DEF Come
    <3>3. FrontAt(b' \o net', p, calls')
      BY <1>1, <1>5, <1>7, <3>2, FrontJoined
    <3>4. (TextBefore(calls)' => p = 1) /\ ~OneEach(calls + 1)'
      BY <1>1, <1>8, <3>1, <3>2 DEF TextBefore, OneEach
    <3>5. answered' >= calls'
      BY <1>1, <3>1
    <3>6. QED
      BY <3>3, <3>4, <3>5 DEF Come
  <2>5. OneEach(calls)' => Come(b \o net)'
    BY <1>1, <2>2, <2>3, <2>4 DEF OneEach
  <2>6. QED
    BY <1>1, <2>2, <2>5 DEF AtHeader
<1>13. Results'
  BY <1>1 DEF StreamInv, Results, NoOther, TextBefore, OneEach
<1>14. QED
  BY <1>9, <1>10, <1>11, <1>12, <1>13 DEF StreamInv

\* What is read goes from the stream to the buffer.
LEMMA ReadUntilInv == StreamInv /\ ReadUntil => StreamInv'
<1> SUFFICES ASSUME StreamInv, ReadUntil PROVE StreamInv'
  OBVIOUS
<1>1. b \in Seq(Tokens) /\ net \in Seq(Tokens) /\ UNCHANGED <<calls, answered, at, header, returned>>
  BY DEF StreamInv, Types, ReadUntil
<1>2. PICK k \in 1..Len(net) : b' = b \o Take(net, k) /\ net' = Drop(net, k)
  BY DEF ReadUntil
<1> DEFINE u == Take(net, k)
           v == Drop(net, k)
<1>3. u \in Seq(Tokens) /\ v \in Seq(Tokens) /\ u \o v = net
  BY <1>1, Cut
<1> HIDE DEF u, v
<1>4. b' = b \o u /\ net' = v
  BY <1>2 DEF u, v
<1>5. b' \in Seq(Tokens) /\ net' \in Seq(Tokens)
  BY <1>1, <1>3, <1>4, ConcatProperties
<1>6. b' \o net' = b \o net
  <2>a. b \in Seq(Tokens) /\ u \in Seq(Tokens) /\ v \in Seq(Tokens)
    BY <1>1, <1>3
  <2>1. (b \o u) \o v = b \o (u \o v)
    BY <2>a, ConcatAssociative
  <2>2. QED
    BY <1>3, <1>4, <2>1, Zenon
<1>7. at # "idle"
  BY DEF ReadUntil
<1>8. Types'
  BY <1>1, <1>5 DEF StreamInv, Types
<1>9. AtIdle' /\ AtHeader' /\ AtText'
  <2>1. AtIdle'
    BY <1>1, <1>7 DEF AtIdle
  <2>2. /\ TextBefore(calls)' = TextBefore(calls) /\ Own(calls)' = Own(calls)
        /\ OneEach(calls)' = OneEach(calls) /\ OneEach(calls + 1)' = OneEach(calls + 1)
    BY <1>1
  <2>3. Rest(b \o net)' = Rest(b \o net)
    BY <1>6
  <2>4. NotCome(b \o net)' = NotCome(b \o net) /\ Come(b \o net)' = Come(b \o net)
    BY <1>1, <1>6 DEF NotCome, Come, Rest, TextBefore, FrontAt, AnswerAt, OneEach
  <2>5. AtHeader'
    BY <1>1, <2>2, <2>4 DEF StreamInv, AtHeader
  <2>6. AtText'
    BY <1>1, <2>2, <2>3 DEF StreamInv, AtText
  <2>7. QED
    BY <2>1, <2>5, <2>6
<1>10. Results'
  BY <1>1 DEF StreamInv, Results, NoOther, TextBefore, OneEach
<1>11. QED
  BY <1>8, <1>9, <1>10 DEF StreamInv

\* What a call returns at the end is its own result.
LEMMA NewResult ==
  ASSUME StreamInv, Len(returned) = calls - 1, calls > 0, UNCHANGED calls,
         NEW line \in Seq(Tokens),
         OneEach(calls) => NoOther(line, calls) /\ (TextBefore(calls) => line = Own(calls)),
         returned' = Append(returned, line)
  PROVE  returned' \in Seq(Seq(Tokens)) /\ Len(returned') = calls /\ Results'
<1>1. calls \in Nat /\ returned \in Seq(Seq(Tokens))
  BY DEF StreamInv, Types
<1>2. /\ returned' \in Seq(Seq(Tokens)) /\ Len(returned') = calls
      /\ returned'[calls] = line /\ \A i \in 1..(calls - 1) : returned'[i] = returned[i]
  BY <1>1, AppendProperties
<1>3. ASSUME NEW i \in 1..Len(returned')
      PROVE  OneEach(i) => NoOther(returned'[i], i) /\ (TextBefore(i) => returned'[i] = Own(i))
  <2>1. CASE i = calls
    BY <1>2, <2>1
  <2>2. CASE i # calls
    <3>1. i \in 1..Len(returned) /\ returned'[i] = returned[i]
      BY <1>1, <1>2, <2>2
    <3>2. QED
      BY <3>1 DEF StreamInv, Results
  <2>3. QED
    BY <2>1, <2>2
<1>4. Results'
  BY <1>3 DEF Results
<1>5. QED
  BY <1>2, <1>4

\* The delimiter a call found is the one behind the first answer to its own
\* request.  The header line is that answer's if it is the first line; if the
\* rest of another answer is in front of it, the call has no text to read.
LEMMA HeaderRead ==
  ASSUME StreamInv, at = "header", OneEach(calls), Has(b, Delim),
         NEW e1 \in LineEnd(b, 1), NEW e2 \in LineEnd(b, e1 + 1)
  PROVE  LET line == Take(b, e1 - 1)
         IN  /\ NoOther(line, calls) /\ (TextBefore(calls) => line = Own(calls))
             /\ NeedsText(line) => line = Own(calls) /\ Texts[calls] > 0
             /\ OneEach(calls + 1) =>
                  /\ answered = calls /\ Rest(net)
                  /\ NeedsText(line) => Rest(Drop(b, e2) \o net)
<1>1. /\ b \in Seq(Tokens) /\ net \in Seq(Tokens) /\ calls \in Nat /\ calls > 0
      /\ calls <= Requests /\ answered \in Nat /\ answered <= Len(Texts)
  BY DEF StreamInv, Types, AtHeader
<1>2. calls \in 1..Len(Texts) /\ DOMAIN Texts = 1..Len(Texts)
  BY <1>1, RequestsBound, TextsAssumption
<1>3. Come(b \o net)
  BY <1>1, RestHasNoDelim DEF StreamInv, AtHeader, NotCome
<1>4. PICK p \in Nat : /\ FrontAt(b \o net, p, calls) /\ (TextBefore(calls) => p = 1)
                       /\ OneEach(calls + 1) => AnswerAt(b \o net, p, calls)
  BY <1>3 DEF Come
<1>5. Len(b) >= p + 4 /\ \A k \in 1..Len(b) : b[k] = (b \o net)[k]
  BY <1>1, <1>4, DelimIsOwn
<1>6. OneEach(calls + 1) => answered = calls /\ Rest(net)
  <2>1. SUFFICES ASSUME OneEach(calls + 1) PROVE answered = calls /\ Rest(net)
    OBVIOUS
  <2>2. Rest(net)
    BY <1>1, <1>4, <1>5, <2>1, AfterAnswer
  <2>3. answered >= calls
    BY <1>3 DEF Come
  <2>4. answered \in 1..Len(Texts) /\ Of[answered] <= calls
    BY <1>1, <2>3, TextsAssumption DEF StreamInv, Types
  <2>5. answered <= calls
    BY <1>1, <2>1, <2>4, OneEachFacts
  <2>6. QED
    BY <1>1, <2>2, <2>3, <2>5
<1> DEFINE line == Take(b, e1 - 1)
           w == b \o net
<1>7. e1 \in 1..(Len(b) + 1) /\ e2 \in (e1 + 1)..(Len(b) + 1) /\ e1 - 1 \in 0..Len(b)
      /\ \A k \in 1..(e1 - 1) : b[k] # LF
  BY <1>1 DEF LineEnd
<1>8. /\ line \in Seq(Tokens) /\ Len(line) = e1 - 1
      /\ \A k \in 1..(e1 - 1) : line[k] = b[k]
  BY <1>1, <1>7, Cut
<1> HIDE DEF w
<1>9. FrontAt(w, p, calls) /\ \A k \in 1..Len(b) : b[k] = w[k]
  BY <1>4, <1>5 DEF w
<1>w. w \in Seq(Tokens) /\ Len(w) \in Nat /\ Len(w) = Len(b) + Len(net) /\ Len(b) \in Nat
  <2>1. Len(w) = Len(b) + Len(net)
    BY <1>1, Joined DEF w
  <2>2. QED
    BY <1>1, <1>9, <2>1 DEF FrontAt
<1>10. p = 1 => /\ e1 = 3 /\ e2 = 5 /\ line = Own(calls)
  <2>1. SUFFICES ASSUME p = 1 PROVE e1 = 3 /\ e2 = 5 /\ line = Own(calls)
    OBVIOUS
  <2>2. /\ w[1] = Header(calls) /\ w[2] = CR /\ w[3] = LF /\ w[4] = CR /\ w[5] = LF
    BY <1>9, <2>1 DEF FrontAt
  <2>3. Len(b) >= 5
    BY <1>1, <1>5, <2>1
  <2>4. /\ b[1] = Header(calls) /\ b[2] = CR /\ b[3] = LF /\ b[4] = CR /\ b[5] = LF
    BY <1>9, <1>w, <2>2, <2>3
  <2>5. QED
    BY <1>1, <2>3, <2>4, OwnLines
<1> HIDE DEF line
<1>hd. ASSUME NEW k \in 1..Len(line), IsHeader(line[k]) PROVE k = p /\ line[k] = Header(calls)
  <2>1. k \in 1..(e1 - 1)
    BY <1>7, <1>8
  <2>2. k \in 1..Len(b) /\ line[k] = b[k]
    BY <1>7, <1>8, <1>w, <2>1
  <2>3. k \in 1..Len(w) /\ line[k] = w[k]
    BY <1>1, <1>9, <1>w, <2>2
  <2>4. ~(k < p)
    BY <1>9, <1>hd, <2>3 DEF FrontAt
  <2>5. p + 2 \in 1..Len(b) /\ b[p + 2] = LF
    BY <1>5, <1>9, <1>w DEF FrontAt
  <2>6. ~(p + 2 < e1)
    BY <1>7, <2>5
  <2>7. k <= p + 1
    BY <1>7, <1>w, <2>1, <2>6
  <2>8. w[p] = Header(calls) /\ w[p + 1] = CR
    BY <1>9 DEF FrontAt
  <2>9. k # p + 1
    BY <1>hd, <2>3, <2>8, TokenFacts
  <2>10. k = p
    BY <1>w, <2>3, <2>4, <2>7, <2>9
  <2>11. QED
    BY <2>3, <2>8, <2>10
<1>11. NoOther(line, calls)
  <2>1. SUFFICES ASSUME NEW k \in 1..Len(line), NEW j \in Nat, line[k] = Header(j) PROVE j = calls
    BY DEF NoOther
  <2>2. IsHeader(line[k])
    BY <2>1, TokenFacts
  <2>3. QED
    BY <1>1, <1>hd, <2>1, <2>2, TokenFacts
<1>12. ASSUME NeedsText(line)
       PROVE  /\ line = Own(calls) /\ Texts[calls] > 0
              /\ OneEach(calls + 1) => Rest(Drop(b, e2) \o net)
  <2>1. PICK i \in DOMAIN Texts : line = Own(i)
    BY <1>12 DEF NeedsText, TextSize, Own
  <2>2. i \in Nat /\ line[1] = Header(i) /\ Len(line) = 2
    BY <2>1, TextsAssumption DEF Own
  <2>3. 1 \in 1..Len(line)
    BY <2>2
  <2>4. p = 1
    <3>1. IsHeader(line[1])
      BY <2>2, TokenFacts
    <3>2. QED
      BY <1>hd, <2>3, <3>1
  <2>5. line = Own(calls) /\ e2 = 5
    BY <1>10, <2>4
  <2>6. line[1][2] = calls
    BY <2>5 DEF Own, Header
  <2>7. Texts[calls] > 0
    BY <1>12, <2>1, <2>6 DEF NeedsText, TextSize, Own
  <2>8. Drop(b, e2) \o net = Drop(w, 5)
    <3> DEFINE u == Take(b, 5)
               v == Drop(b, 5)
               z == v \o net
    <3>1. 5 \in 0..Len(b)
      BY <1>5, <1>w, <2>4
    <3>2. u \in Seq(Tokens) /\ v \in Seq(Tokens) /\ Len(u) = 5 /\ u \o v = b
      BY <1>1, <3>1, Cut
    <3> HIDE DEF u, v
    <3>3. w = u \o z /\ z \in Seq(Tokens)
      <4>a. u \in Seq(Tokens) /\ v \in Seq(Tokens) /\ net \in Seq(Tokens)
        BY <1>1, <3>2
      <4>1. (u \o v) \o net = u \o (v \o net)
        BY <4>a, ConcatAssociative
      <4>2. z \in Seq(Tokens)
        BY <1>1, <3>2, ConcatProperties
      <4>3. QED
        BY <3>2, <4>1, <4>2, Zenon DEF w
    <3> HIDE DEF z
    <3>4. Drop(u \o z, 5) = z
      <4> DEFINE y == u \o z
                 d == Drop(y, 5)
      <4>1. /\ y \in Seq(Tokens) /\ Len(y) = Len(u) + Len(z)
            /\ \A k \in 1..(Len(u) + Len(z)) : y[k] = IF k <= Len(u) THEN u[k] ELSE z[k - Len(u)]
        BY <3>2, <3>3, Joined
      <4> HIDE DEF y
      <4>2. Len(z) \in Nat /\ 5 \in 0..Len(y)
        BY <3>2, <3>3, <4>1
      <4>3. /\ d \in Seq(Tokens) /\ Len(d) = Len(y) - 5
            /\ \A k \in 1..(Len(y) - 5) : d[k] = y[5 + k]
        BY <4>1, <4>2, Cut
      <4> HIDE DEF d
      <4>4. ASSUME NEW k \in 1..Len(z) PROVE d[k] = z[k]
        <5>1. /\ 5 + k \in 1..(Len(u) + Len(z)) /\ ~(5 + k <= Len(u)) /\ (5 + k) - Len(u) = k
              /\ k \in 1..(Len(y) - 5)
          BY <3>2, <4>1, <4>2
        <5>2. QED
          BY <4>1, <4>3, <5>1
      <4>5. Len(d) = Len(z)
        BY <3>2, <4>1, <4>2, <4>3
      <4>6. d = z
        BY <3>3, <4>3, <4>4, <4>5, SeqEqual
      <4>7. QED
        BY <4>6 DEF d, y
    <3>5. Drop(b, e2) = v
      BY <2>5 DEF v
    <3>6. QED
      BY <3>3, <3>4, <3>5, Zenon DEF z
  <2>9. OneEach(calls + 1) => Rest(Drop(w, 5))
    <3> SUFFICES ASSUME OneEach(calls + 1) PROVE Rest(Drop(w, 5))
      OBVIOUS
    <3>0. AnswerAt(w, p, calls)
      BY <1>4 DEF w
    <3> DEFINE d == Drop(w, 5)
    <3>1. 5 \in 0..Len(w)
      BY <2>4, <3>0 DEF AnswerAt
    <3>2. /\ d \in Seq(Tokens) /\ Len(d) = Len(w) - 5 /\ \A k \in 1..(Len(w) - 5) : d[k] = w[5 + k]
      BY <1>w, <3>1, Cut
    <3> HIDE DEF d
    <3>3. ASSUME NEW k \in 1..Len(d) PROVE ~IsHeader(d[k]) /\ (k < Len(d) => d[k] # LF)
      <4>1. /\ 5 + k \in 1..Len(w) /\ 5 + k # p /\ 5 + k > p + 4 /\ (k < Len(d) => 5 + k < Len(w))
            /\ d[k] = w[5 + k]
        BY <1>w, <2>4, <3>2
      <4>2. QED
        BY <3>0, <4>1 DEF AnswerAt
    <3>4. Rest(d)
      BY <3>2, <3>3 DEF Rest
    <3>5. QED
      BY <3>4 DEF d
  <2>10. QED
    BY <2>5, <2>7, <2>8, <2>9
<1>13. QED
  BY <1>4, <1>6, <1>10, <1>11, <1>12 DEF line

\* Reading the header line.
LEMMA ReadHeaderInv == StreamInv /\ ReadHeader => StreamInv'
<1> SUFFICES ASSUME StreamInv, ReadHeader PROVE StreamInv'
  OBVIOUS
<1>1. /\ b \in Seq(Tokens) /\ net \in Seq(Tokens) /\ calls \in Nat /\ calls <= Requests
      /\ UNCHANGED <<calls, answered, net>> /\ at = "header" /\ Has(b, Delim)
  BY DEF StreamInv, Types, ReadHeader
<1>2. calls > 0 /\ Len(returned) = calls - 1
  BY <1>1 DEF StreamInv, AtHeader
<1>3a. PICK e1 \in LineEnd(b, 1) : \E e2 \in LineEnd(b, e1 + 1) :
        /\ b' = Drop(b, e2) /\ header' = Take(b, e1 - 1)
        /\ \/ NeedsText(Take(b, e1 - 1)) /\ at' = "text" /\ UNCHANGED returned
           \/ /\ ~NeedsText(Take(b, e1 - 1)) /\ at' = "idle"
              /\ returned' = Append(returned, Take(b, e1 - 1))
  BY DEF ReadHeader
<1>3. PICK e2 \in LineEnd(b, e1 + 1) :
        /\ b' = Drop(b, e2) /\ header' = Take(b, e1 - 1)
        /\ \/ NeedsText(Take(b, e1 - 1)) /\ at' = "text" /\ UNCHANGED returned
           \/ /\ ~NeedsText(Take(b, e1 - 1)) /\ at' = "idle"
              /\ returned' = Append(returned, Take(b, e1 - 1))
  BY <1>3a
<1> DEFINE line == Take(b, e1 - 1)
<1>4. e1 \in 1..(Len(b) + 1) /\ e2 \in (e1 + 1)..(Len(b) + 1) /\ e1 - 1 \in 0..Len(b)
      /\ Len(b) \in Nat
  BY <1>1 DEF LineEnd
<1>5. line \in Seq(Tokens)
  BY <1>1, <1>4, Cut
<1>6. b' \in Seq(Tokens)
  <2>1. CASE e2 <= Len(b)
    BY <1>1, <1>3, <1>4, <2>1, Cut
  <2>2. CASE e2 = Len(b) + 1
    BY <1>1, <1>3, <1>4, <2>2 DEF Drop
  <2>3. QED
    BY <1>4, <2>1, <2>2
<1>7. OneEach(calls) =>
        /\ NoOther(line, calls) /\ (TextBefore(calls) => line = Own(calls))
        /\ NeedsText(line) => line = Own(calls) /\ Texts[calls] > 0
        /\ OneEach(calls + 1) =>
             /\ answered = calls /\ Rest(net)
             /\ NeedsText(line) => Rest(b' \o net')
  BY <1>1, <1>3, HeaderRead
<1>8. OneEach(calls + 1) => OneEach(calls)
  BY <1>1, OneEachFacts
<1>9. /\ header' = line
      /\ \/ NeedsText(line) /\ at' = "text" /\ UNCHANGED returned
         \/ ~NeedsText(line) /\ at' = "idle" /\ returned' = Append(returned, line)
  BY <1>3
<1> HIDE DEF line
<1>10. AtHeader'
  BY <1>9 DEF AtHeader
<1>11. CASE NeedsText(line)
  <2>1. at' = "text" /\ returned' = returned /\ header' = line
    BY <1>9, <1>11
  <2>2. AtIdle'
    BY <2>1 DEF AtIdle
  <2>3. AtText'
    BY <1>1, <1>2, <1>7, <1>8, <1>11, <2>1 DEF AtText, Own, OneEach, Rest
  <2>4. Types'
    BY <1>1, <1>5, <1>6, <2>1 DEF StreamInv, Types
  <2>5. Results'
    BY <2>1 DEF StreamInv, Results, NoOther, TextBefore, OneEach
  <2>6. QED
    BY <1>10, <2>2, <2>3, <2>4, <2>5 DEF StreamInv
<1>12. CASE ~NeedsText(line)
  <2>1. at' = "idle" /\ header' = line /\ returned' = Append(returned, line)
    BY <1>9, <1>12
  <2>2. returned' \in Seq(Seq(Tokens)) /\ Len(returned') = calls /\ Results'
    BY <1>1, <1>2, <1>5, <1>7, <2>1, NewResult
  <2>3. OneEach(calls) => ~TextBefore(calls + 1)
    <3>1. SUFFICES ASSUME OneEach(calls), TextBefore(calls + 1) PROVE FALSE
      OBVIOUS
    <3>2. TextBefore(calls) /\ Texts[calls] > 0
      BY <1>1, <1>2, <3>1 DEF TextBefore
    <3>3. line = Own(calls) /\ calls \in DOMAIN Texts
      BY <1>1, <1>2, <1>7, <3>1, <3>2, TextsAssumption, RequestsBound
    <3>4. line[1][2] = calls
      BY <3>3 DEF Own, Header
    <3>5. TextSize(line) = Texts[calls]
      BY <3>3, <3>4 DEF TextSize, Own
    <3>6. QED
      BY <1>12, <3>2, <3>5 DEF NeedsText
  <2>4. AtIdle' /\ AtText'
    BY <1>1, <1>7, <1>8, <2>1, <2>2, <2>3 DEF AtIdle, AtText, OneEach, TextBefore, Rest
  <2>5. Types'
    BY <1>1, <1>5, <1>6, <2>1, <2>2 DEF StreamInv, Types
  <2>6. QED
    BY <1>10, <2>2, <2>4, <2>5 DEF StreamInv
<1>13. QED
  BY <1>11, <1>12

\* The line end a call waits for after its header is the end of the answer.
LEMMA ReadTextInv == StreamInv /\ ReadText => StreamInv'
<1> SUFFICES ASSUME StreamInv, ReadText PROVE StreamInv'
  OBVIOUS
<1>1. /\ b \in Seq(Tokens) /\ net \in Seq(Tokens) /\ header \in Seq(Tokens) /\ calls \in Nat
      /\ at = "text" /\ at' = "idle" /\ Has(b, CRLF) /\ returned' = Append(returned, header)
      /\ UNCHANGED <<calls, answered, net, b, header>>
  BY DEF StreamInv, Types, ReadText
<1>2. /\ calls > 0 /\ Len(returned) = calls - 1
      /\ OneEach(calls) => header = Own(calls)
      /\ OneEach(calls + 1) => answered = calls /\ Rest(b \o net)
  BY <1>1 DEF StreamInv, AtText
<1>3. OneEach(calls) => NoOther(header, calls)
  <2>1. SUFFICES ASSUME OneEach(calls) PROVE NoOther(header, calls)
    OBVIOUS
  <2>2. Len(header) = 2 /\ header[1] = Header(calls) /\ header[2] = CR
    BY <1>2, <2>1 DEF Own
  <2>3. QED
    BY <1>1, <2>2, TokenFacts DEF NoOther
<1>4. returned' \in Seq(Seq(Tokens)) /\ Len(returned') = calls /\ Results'
  BY <1>1, <1>2, <1>3, NewResult
<1>5. OneEach(calls + 1) => net = <<>>
  <2> SUFFICES ASSUME OneEach(calls + 1) PROVE net = <<>>
    OBVIOUS
  <2> DEFINE w == b \o net
  <2>1. PICK k \in 1..Len(b) : b[k] = LF
    BY <1>1, CRLFFacts
  <2>2. /\ Len(w) = Len(b) + Len(net)
        /\ \A j \in 1..(Len(b) + Len(net)) : w[j] = IF j <= Len(b) THEN b[j] ELSE net[j - Len(b)]
    BY <1>1, Joined
  <2>3. Rest(w)
    BY <1>2
  <2> HIDE DEF w
  <2>4. k \in 1..Len(w) /\ w[k] = LF /\ Len(b) \in Nat /\ Len(net) \in Nat
    BY <1>1, <2>1, <2>2
  <2>5. ~(k < Len(w))
    BY <2>3, <2>4 DEF Rest
  <2>6. Len(net) = 0
    BY <2>1, <2>2, <2>4, <2>5
  <2>7. QED
    BY <1>1, <2>6, EmptySeq
<1>6. net = <<>> => Rest(net)
  BY EmptySeq DEF Rest
<1>7. AtIdle' /\ AtHeader' /\ AtText'
  BY <1>1, <1>2, <1>4, <1>5, <1>6 DEF AtIdle, AtHeader, AtText, OneEach, TextBefore, Rest
<1>8. Types'
  BY <1>1, <1>4 DEF StreamInv, Types
<1>9. QED
  BY <1>4, <1>7, <1>8 DEF StreamInv

-----------------------------------------------------------------------------
\* Every step of a client that reads answers cut anywhere keeps StreamInv: as
\* long as each request got one answer, what an answer leaves unread has no
\* header, and \n only at its end; after a COMMIT with several ACK_RESENDs only
\* types and the number of results are claimed.
THEOREM StreamSafety == Spec => []StreamInv
<1>1. Init => StreamInv
  BY StreamInit
<1>2. StreamInv /\ [Next]_vars => StreamInv'
  <2> SUFFICES ASSUME StreamInv, [Next]_vars PROVE StreamInv'
    OBVIOUS
  <2>1. CASE SendReceive
    BY <2>1, SendReceiveInv
  <2>2. CASE Answer
    BY <2>2, AnswerInv
  <2>3. CASE ReadUntil
    BY <2>3, ReadUntilInv
  <2>4. CASE ReadHeader
    BY <2>4, ReadHeaderInv
  <2>5. CASE ReadText
    BY <2>5, ReadTextInv
  <2>6. CASE UNCHANGED vars
    BY <2>6 DEF vars, StreamInv, Types, AtIdle, AtHeader, AtText, Results, NotCome, Come
  <2>7. QED
    BY <2>1, <2>2, <2>3, <2>4, <2>5, <2>6 DEF Next, Reads
<1>3. QED
  BY <1>1, <1>2, PTL DEF Spec

\* As long as every request before it got one answer, a call of sendReceive
\* returns no header of the answer to another request, for every sequence of
\* answers and every way the stream is cut.  The premise fails behind a COMMIT
\* that sendACK_RESEND answered several times.
THEOREM NoOtherAnswerReturned == Spec => []NoOtherAnswer
<1>1. StreamInv => NoOtherAnswer
  <2> SUFFICES ASSUME StreamInv PROVE NoOtherAnswer
    OBVIOUS
  <2>1. ASSUME NEW i \in DOMAIN returned, OneEach(i), NEW j \in DOMAIN Texts, Of[j] # i,
               NEW k \in DOMAIN returned[i]
        PROVE  returned[i][k] # Header(j)
    <3>1. /\ i \in 1..Len(returned) /\ returned[i] \in Seq(Tokens) /\ i \in Nat
      BY DEF StreamInv, Types
    <3>2. j \in Nat /\ Of[j] \in 1..j /\ k \in 1..Len(returned[i])
      BY <3>1, TextsAssumption, OfAssumption
    <3>3. j # i
      BY <2>1, <3>1, <3>2 DEF OneEach
    <3>4. QED
      BY <2>1, <3>1, <3>2, <3>3 DEF StreamInv, Results, NoOther
  <2>2. QED
    BY <2>1 DEF NoOtherAnswer
<1>2. QED
  BY <1>1, StreamSafety, PTL

\* A call returns the header of its own answer as long as every request before
\* it got one answer, and that had a text.
THEOREM OwnAnswerReturned == Spec => []OwnAnswerAfterText
<1>1. StreamInv => OwnAnswerAfterText
  <2> SUFFICES ASSUME StreamInv PROVE OwnAnswerAfterText
    OBVIOUS
  <2>1. ASSUME NEW i \in DOMAIN returned, OneEach(i), \A j \in 1..(i - 1) : Texts[j] > 0
        PROVE  returned[i] = <<Header(i), CR>>
    <3>1. i \in 1..Len(returned) /\ TextBefore(i)
      BY <2>1 DEF StreamInv, Types, TextBefore
    <3>2. QED
      BY <2>1, <3>1 DEF StreamInv, Results, Own
  <2>2. QED
    BY <2>1 DEF OwnAnswerAfterText
<1>2. QED
  BY <1>1, StreamSafety, PTL
=============================================================================
