---------------------------- MODULE LinesProofs ----------------------------
(***************************************************************************)
(* Lemmas about the streams of Lines, for the proofs about RequestStream   *)
(* and ReplyStream.                                                        *)
(***************************************************************************)
EXTENDS Lines, SequenceTheorems, TLAPS

Tokens == {CR, LF} \cup {Header(i) : i \in Nat} \cup {<<"body", i, k>> : i \in Nat, k \in Nat}

IsHeader(c) == \E j \in Nat : c = Header(j)

-----------------------------------------------------------------------------
(***************************************************************************)
(* Tokens and sequences of them.                                           *)
(***************************************************************************)
\* The bytes the stream is read by are none of the others.
LEMMA TokenFacts ==
  /\ CR \in Tokens /\ LF \in Tokens /\ CR # LF
  /\ ~IsHeader(CR) /\ ~IsHeader(LF)
  /\ \A i \in Nat : Header(i) \in Tokens /\ IsHeader(Header(i)) /\ Header(i) # CR /\ Header(i) # LF
  /\ \A i, j \in Nat : Header(i) = Header(j) => i = j
<1>1. CR \in Tokens /\ LF \in Tokens /\ CR # LF
  BY DEF Tokens, CR, LF
<1>2. \A i : Header(i) # CR /\ Header(i) # LF
  BY DEF CR, LF, Header
<1>3. \A i, j \in Nat : Header(i) = Header(j) => i = j
  BY DEF Header
<1>4. \A i \in Nat : Header(i) \in Tokens /\ IsHeader(Header(i))
  BY DEF Tokens, IsHeader
<1>5. QED
  BY <1>1, <1>2, <1>3, <1>4 DEF IsHeader

LEMMA BodyFacts ==
  ASSUME NEW i \in Nat, NEW k \in Nat
  PROVE  /\ <<"body", i, k>> \in Tokens /\ ~IsHeader(<<"body", i, k>>)
         /\ <<"body", i, k>> # LF /\ <<"body", i, k>> # CR
BY DEF Tokens, IsHeader, Header, LF, CR

LEMMA BodyBytes ==
  ASSUME NEW i \in Nat, NEW n \in Int, n >= -1
  PROVE  /\ Body(i, n) \in Seq(Tokens)
         /\ Len(Body(i, n)) = IF n = -1 THEN 0 ELSE n
         /\ \A k \in 1..n : Body(i, n)[k] = <<"body", i, k>>
<1>1. CASE n = -1
  <2>1. 1..n = 1..0
    BY <1>1
  <2>2. Body(i, n) = <<>>
    BY <2>1 DEF Body
  <2>3. Body(i, n) \in Seq(Tokens) /\ Len(Body(i, n)) = 0
    BY <2>2, EmptySeq
  <2>4. \A k \in 1..n : FALSE
    BY <2>1
  <2>5. QED
    BY <1>1, <2>3, <2>4
<1>2. CASE n \in Nat
  BY <1>2, BodyFacts DEF Body
<1>3. QED
  BY <1>1, <1>2

\* What a header is told by.
LEMMA Tags ==
  ASSUME NEW x \in Tokens
  PROVE  x[1] = "header" <=> IsHeader(x)
<1>1. CASE x = CR
  BY <1>1, TokenFacts DEF CR
<1>2. CASE x = LF
  BY <1>2, TokenFacts DEF LF
<1>3. CASE \E i \in Nat : x = Header(i)
  BY <1>3 DEF Header, IsHeader
<1>4. CASE \E i \in Nat, k \in Nat : x = <<"body", i, k>>
  BY <1>4, BodyFacts
<1>5. QED
  BY <1>1, <1>2, <1>3, <1>4 DEF Tokens

\* Take and Drop cut a stream in two.
LEMMA Cut ==
  ASSUME NEW x \in Seq(Tokens), NEW k \in 0..Len(x)
  PROVE  /\ Take(x, k) \in Seq(Tokens) /\ Len(Take(x, k)) = k
         /\ Drop(x, k) \in Seq(Tokens) /\ Len(Drop(x, k)) = Len(x) - k
         /\ \A i \in 1..k : Take(x, k)[i] = x[i]
         /\ \A i \in 1..(Len(x) - k) : Drop(x, k)[i] = x[k + i]
         /\ Take(x, k) \o Drop(x, k) = x
<1>1. Take(x, k) \in Seq(Tokens) /\ Len(Take(x, k)) = k /\ \A i \in 1..k : Take(x, k)[i] = x[i]
  BY DEF Take
<1>2. /\ Drop(x, k) \in Seq(Tokens) /\ Len(Drop(x, k)) = Len(x) - k
      /\ \A i \in 1..(Len(x) - k) : Drop(x, k)[i] = x[k + i]
  BY DEF Drop
<1>3. Take(x, k) \o Drop(x, k) = x
  <2> DEFINE u == Take(x, k)
             v == Drop(x, k)
             w == u \o v
  <2>1. u \in Seq(Tokens) /\ v \in Seq(Tokens) /\ Len(u) = k /\ Len(v) = Len(x) - k
    BY <1>1, <1>2
  <2>2. /\ \A i \in 1..k : u[i] = x[i]
        /\ \A i \in 1..(Len(x) - k) : v[i] = x[k + i]
    BY <1>1, <1>2
  <2> HIDE DEF u, v
  <2>3. /\ w \in Seq(Tokens) /\ Len(w) = Len(x)
        /\ \A i \in 1..Len(x) : w[i] = IF i <= k THEN u[i] ELSE v[i - k]
    BY <2>1, ConcatProperties
  <2> HIDE DEF w
  <2>4. ASSUME NEW i \in 1..Len(x) PROVE w[i] = x[i]
    BY <2>2, <2>3
  <2>5. w = x
    BY <2>3, <2>4, SeqEqual
  <2>6. QED
    BY <2>5 DEF u, v, w
<1>4. QED
  BY <1>1, <1>2, <1>3

LEMMA Joined ==
  ASSUME NEW x \in Seq(Tokens), NEW y \in Seq(Tokens)
  PROVE  /\ x \o y \in Seq(Tokens) /\ Len(x \o y) = Len(x) + Len(y)
         /\ \A k \in 1..(Len(x) + Len(y)) :
              (x \o y)[k] = IF k <= Len(x) THEN x[k] ELSE y[k - Len(x)]
BY ConcatProperties

\* A header and the delimiter behind it.
LEMMA FrontBytes ==
  ASSUME NEW i \in Nat
  PROVE  LET front == <<Header(i)>> \o Delim
         IN  /\ front \in Seq(Tokens) /\ Len(front) = 5
             /\ front[1] = Header(i) /\ front[2] = CR /\ front[3] = LF
             /\ front[4] = CR /\ front[5] = LF
<1> DEFINE crlf == CRLF
           delim == crlf \o crlf
           h == <<Header(i)>>
           front == h \o delim
<1>1. crlf \in Seq(Tokens) /\ Len(crlf) = 2 /\ crlf[1] = CR /\ crlf[2] = LF
  BY TokenFacts DEF CRLF
<1>2. h \in Seq(Tokens) /\ Len(h) = 1 /\ h[1] = Header(i)
  BY TokenFacts
<1>3. Delim = delim
  BY DEF Delim
<1> HIDE DEF crlf, h
<1>4. /\ delim \in Seq(Tokens) /\ Len(delim) = 4
      /\ \A k \in 1..4 : delim[k] = IF k <= 2 THEN crlf[k] ELSE crlf[k - 2]
  <2>1. /\ delim \in Seq(Tokens) /\ Len(delim) = Len(crlf) + Len(crlf)
        /\ \A k \in 1..(Len(crlf) + Len(crlf)) :
             delim[k] = IF k <= Len(crlf) THEN crlf[k] ELSE crlf[k - Len(crlf)]
    BY <1>1, Joined
  <2> HIDE DEF delim
  <2>2. QED
    BY <1>1, <2>1
<1> HIDE DEF delim
<1>5. delim[1] = CR /\ delim[2] = LF /\ delim[3] = CR /\ delim[4] = LF
  BY <1>1, <1>4
<1>6. /\ front \in Seq(Tokens) /\ Len(front) = 5
      /\ \A k \in 1..5 : front[k] = IF k <= 1 THEN h[k] ELSE delim[k - 1]
  <2>1. /\ front \in Seq(Tokens) /\ Len(front) = Len(h) + Len(delim)
        /\ \A k \in 1..(Len(h) + Len(delim)) :
             front[k] = IF k <= Len(h) THEN h[k] ELSE delim[k - Len(h)]
    BY <1>2, <1>4, Joined
  <2> HIDE DEF front
  <2>2. QED
    BY <1>2, <1>4, <2>1
<1> HIDE DEF front
<1>7. front[1] = Header(i) /\ front[2] = CR /\ front[3] = LF /\ front[4] = CR /\ front[5] = LF
  BY <1>2, <1>5, <1>6
<1>8. QED
  BY <1>3, <1>6, <1>7 DEF front, h

\* Cutting what was put together.
LEMMA CutJoined ==
  ASSUME NEW x \in Seq(Tokens), NEW y \in Seq(Tokens)
  PROVE  /\ \A k \in 0..Len(y) : x \o Take(y, k) = Take(x \o y, Len(x) + k)
         /\ \A k \in 0..Len(x) : Drop(x, k) \o y = Drop(x \o y, k)
         /\ \A k \in 0..Len(y) : (x \o Take(y, k)) \o Drop(y, k) = x \o y
<1> DEFINE w == x \o y
<1>1. /\ w \in Seq(Tokens) /\ Len(w) = Len(x) + Len(y) /\ Len(x) \in Nat /\ Len(y) \in Nat
      /\ \A k \in 1..(Len(x) + Len(y)) : w[k] = IF k <= Len(x) THEN x[k] ELSE y[k - Len(x)]
  BY Joined
<1> HIDE DEF w
<1>2. ASSUME NEW k \in 0..Len(y) PROVE x \o Take(y, k) = Take(w, Len(x) + k)
  <2> DEFINE u == Take(y, k)
             v == x \o u
             t == Take(w, Len(x) + k)
  <2>1. u \in Seq(Tokens) /\ Len(u) = k /\ \A i \in 1..k : u[i] = y[i]
    BY Cut
  <2> HIDE DEF u
  <2>2. /\ v \in Seq(Tokens) /\ Len(v) = Len(x) + k
        /\ \A i \in 1..(Len(x) + k) : v[i] = IF i <= Len(x) THEN x[i] ELSE u[i - Len(x)]
    <3>1. /\ v \in Seq(Tokens) /\ Len(v) = Len(x) + Len(u)
          /\ \A i \in 1..(Len(x) + Len(u)) : v[i] = IF i <= Len(x) THEN x[i] ELSE u[i - Len(x)]
      BY <2>1, Joined
    <3>2. QED
      BY <3>1, <2>1
  <2>3. t \in Seq(Tokens) /\ Len(t) = Len(x) + k /\ \A i \in 1..(Len(x) + k) : t[i] = w[i]
    <3>1. Len(x) + k \in 0..Len(w)
      BY <1>1
    <3>2. QED
      BY <3>1, <1>1, Cut
  <2> HIDE DEF v, t
  <2>4. ASSUME NEW i \in 1..Len(v) PROVE v[i] = t[i]
    <3>1. i \in 1..(Len(x) + k) /\ i \in 1..(Len(x) + Len(y)) /\ t[i] = w[i]
      BY <1>1, <2>2, <2>3
    <3>2. CASE i <= Len(x)
      <4>1. v[i] = x[i]
        BY <3>1, <3>2, <2>2
      <4>2. w[i] = x[i]
        BY <3>1, <3>2, <1>1
      <4>3. QED
        BY <3>1, <4>1, <4>2
    <3>3. CASE i > Len(x)
      <4>1. v[i] = u[i - Len(x)] /\ i - Len(x) \in 1..k
        BY <3>1, <3>3, <1>1, <2>2
      <4>2. w[i] = y[i - Len(x)]
        BY <3>1, <3>3, <1>1
      <4>3. QED
        BY <3>1, <4>1, <4>2, <2>1
    <3>4. QED
      BY <3>2, <3>3, <1>1
  <2>5. v = t
    BY <2>2, <2>3, <2>4, SeqEqual
  <2>6. QED
    BY <2>5 DEF v, t, u
<1>3. ASSUME NEW k \in 0..Len(x) PROVE Drop(x, k) \o y = Drop(w, k)
  <2> DEFINE u == Drop(x, k)
             v == u \o y
             t == Drop(w, k)
  <2>1. u \in Seq(Tokens) /\ Len(u) = Len(x) - k /\ \A i \in 1..(Len(x) - k) : u[i] = x[k + i]
    BY Cut
  <2> HIDE DEF u
  <2>2. /\ v \in Seq(Tokens) /\ Len(v) = Len(u) + Len(y)
        /\ \A i \in 1..(Len(u) + Len(y)) : v[i] = IF i <= Len(u) THEN u[i] ELSE y[i - Len(u)]
    BY <2>1, Joined
  <2>3. /\ t \in Seq(Tokens) /\ Len(t) = Len(w) - k
        /\ \A i \in 1..(Len(w) - k) : t[i] = w[k + i]
    <3>1. k \in 0..Len(w)
      BY <1>1
    <3>2. QED
      BY <3>1, <1>1, Cut
  <2> HIDE DEF v, t
  <2>4. ASSUME NEW i \in 1..Len(v) PROVE v[i] = t[i]
    <3>1. t[i] = w[k + i] /\ k + i \in 1..(Len(x) + Len(y))
      BY <1>1, <2>1, <2>2, <2>3
    <3>2. CASE i <= Len(u)
      <4>1. v[i] = u[i] /\ i \in 1..(Len(x) - k) /\ k + i <= Len(x)
        BY <3>2, <1>1, <2>1, <2>2
      <4>2. w[k + i] = x[k + i]
        BY <4>1, <3>1, <1>1
      <4>3. QED
        BY <4>1, <4>2, <3>1, <2>1
    <3>3. CASE i > Len(u)
      <4>1. v[i] = y[i - Len(u)] /\ k + i > Len(x) /\ k + i - Len(x) = i - Len(u)
        BY <3>3, <1>1, <2>1, <2>2
      <4>2. QED
        BY <4>1, <3>1, <1>1
    <3>4. QED
      BY <3>2, <3>3, <2>1
  <2>5. Len(v) = Len(t)
    BY <1>1, <2>1, <2>2, <2>3
  <2>6. v = t
    BY <2>2, <2>3, <2>4, <2>5, SeqEqual
  <2>7. QED
    BY <2>6 DEF v, t, u
<1>4. ASSUME NEW k \in 0..Len(y) PROVE (x \o Take(y, k)) \o Drop(y, k) = x \o y
  <2> DEFINE u == Take(y, k)
             v == Drop(y, k)
  <2>1. u \in Seq(Tokens) /\ v \in Seq(Tokens) /\ u \o v = y
    BY Cut
  <2> HIDE DEF u, v
  <2>2. x \in Seq(Tokens) /\ u \in Seq(Tokens) /\ v \in Seq(Tokens)
    BY <2>1
  <2>3. (x \o u) \o v = x \o (u \o v)
    BY <2>2, ConcatAssociative
  <2>4. QED
    BY <2>1, <2>3, Zenon DEF u, v
<1>5. QED
  BY <1>2, <1>3, <1>4 DEF w

\* A line ends at the first \n, or with the buffer.
LEMMA LineEndIs ==
  ASSUME NEW x \in Seq(Tokens), NEW i \in Nat, NEW e \in i..(Len(x) + 1),
         e <= Len(x) => x[e] = LF, \A j \in i..(e - 1) : x[j] # LF
  PROVE  LineEnd(x, i) = {e}
<1>1. Len(x) \in Nat
  OBVIOUS
<1>2. e \in LineEnd(x, i)
  BY DEF LineEnd
<1>3. ASSUME NEW d \in LineEnd(x, i) PROVE d = e
  <2>1. /\ d \in i..(Len(x) + 1) /\ (d <= Len(x) => x[d] = LF)
        /\ \A j \in i..(d - 1) : x[j] # LF
    BY DEF LineEnd
  <2>2. ~(d < e)
    BY <1>1, <2>1
  <2>3. ~(e < d)
    BY <1>1, <2>1
  <2>4. QED
    BY <1>1, <2>1, <2>2, <2>3
<1>4. QED
  BY <1>2, <1>3

\* The delimiter in a buffer, byte by byte.
LEMMA DelimFacts ==
  ASSUME NEW x \in Seq(Tokens), Has(x, Delim)
  PROVE  \E k \in Nat : /\ k + 4 <= Len(x)
                        /\ x[k + 1] = CR /\ x[k + 2] = LF /\ x[k + 3] = CR /\ x[k + 4] = LF
<1> DEFINE crlf == CRLF
           delim == crlf \o crlf
<1>1. crlf \in Seq(Tokens) /\ Len(crlf) = 2 /\ crlf[1] = CR /\ crlf[2] = LF
  BY TokenFacts DEF CRLF
<1> HIDE DEF crlf
<1>2. /\ Len(delim) = Len(crlf) + Len(crlf)
      /\ \A k \in 1..(Len(crlf) + Len(crlf)) :
           delim[k] = IF k <= Len(crlf) THEN crlf[k] ELSE crlf[k - Len(crlf)]
  BY <1>1, Joined
<1>3. Delim = delim
  BY DEF Delim, crlf
<1> HIDE DEF delim
<1>4. Len(delim) = 4 /\ delim[1] = CR /\ delim[2] = LF /\ delim[3] = CR /\ delim[4] = LF
  BY <1>1, <1>2
<1>5. PICK k \in 0..(Len(x) - 4) : SubSeq(x, k + 1, k + 4) = delim
  BY <1>3, <1>4 DEF Has
<1>6. k \in Nat /\ k + 4 <= Len(x)
  BY <1>5
<1>7. \A j \in 1..4 : SubSeq(x, k + 1, k + 4)[j] = x[k + j]
  BY <1>6
<1>8. x[k + 1] = CR /\ x[k + 2] = LF /\ x[k + 3] = CR /\ x[k + 4] = LF
  BY <1>4, <1>5, <1>7
<1>9. QED
  BY <1>6, <1>8

LEMMA CRLFFacts ==
  ASSUME NEW x \in Seq(Tokens), Has(x, CRLF)
  PROVE  \E k \in 1..Len(x) : x[k] = LF
<1> DEFINE crlf == CRLF
<1>1. Len(crlf) = 2 /\ crlf[2] = LF
  BY DEF CRLF
<1> HIDE DEF crlf
<1>2. PICK k \in 0..(Len(x) - 2) : SubSeq(x, k + 1, k + 2) = crlf
  BY <1>1 DEF Has, crlf
<1>3. k + 2 \in 1..Len(x) /\ SubSeq(x, k + 1, k + 2)[2] = x[k + 2]
  BY <1>2
<1>4. QED
  BY <1>1, <1>2, <1>3
=============================================================================
