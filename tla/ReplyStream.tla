---------------------------- MODULE ReplyStream ----------------------------
(***************************************************************************)
(* How Client::sendReceive finds the answer to a request in the stream:    *)
(* the answers of ServerTools::genAnswerStr, cut into chunks by the        *)
(* network, read into a buffer that each call has for itself.              *)
(***************************************************************************)
EXTENDS Lines

CONSTANTS
  Texts, \* the size fields of the answers, 0 for no text, in the order they are sent
  Of     \* the request each answer belongs to: sendACK_RESEND sends several for one COMMIT

ASSUME TextsAssumption == Texts \in Seq(Nat)

\* Requests are handled one after the other, and each is answered.
ASSUME OfAssumption ==
  /\ Of \in [DOMAIN Texts -> Nat]
  /\ \A j \in DOMAIN Texts : Of[j] \in 1..j
  /\ \A j \in 1..(Len(Texts) - 1) : Of[j + 1] \in {Of[j], Of[j] + 1}

Requests == IF Texts = <<>> THEN 0 ELSE Of[Len(Texts)]

VARIABLES
  calls,    \* calls of sendReceive
  answered, \* answers the server has sent
  net,      \* bytes of answers that the client has not read
  at,       \* where the client is: "idle", "header", "text"
  b,        \* the buffer of the call
  header,   \* the header line the call read
  returned  \* the header each call returned

vars == <<calls, answered, net, at, b, header, returned>>

-----------------------------------------------------------------------------
\* Mutant of Wire: an answer without a text has one blank line more.
WireLonger(i) == <<Header(i)>> \o Delim \o IF Texts[i] = 0 THEN Delim ELSE Body(i, Texts[i]) \o CRLF

\* The text is followed by \r\n, which its size does not count.
Wire(i) == <<Header(i)>> \o Delim \o IF Texts[i] = 0 THEN CRLF ELSE Body(i, Texts[i]) \o CRLF

Init ==
  /\ calls = 0 /\ answered = 0
  /\ net = <<>>
  /\ at = "idle"
  /\ b = <<>> /\ header = <<>>
  /\ returned = <<>>

SendReceive ==
  /\ at = "idle" /\ calls < Requests
  /\ calls' = calls + 1
  /\ at' = "header"
  /\ b' = <<>>
  /\ UNCHANGED <<answered, net, header, returned>>

\* The next answer the server sends: the one to the next request, or one more
\* ACK_RESEND to the same COMMIT, whether its call has returned or not.
Answer ==
  /\ answered < Len(Texts) /\ Of[answered + 1] <= calls
  /\ answered' = answered + 1
  /\ net' = net \o Wire(answered')
  /\ UNCHANGED <<calls, at, b, header, returned>>

\* read_until, the first one and the one for the text: chunks of any size,
\* until the buffer has the delimiter.
ReadUntil ==
  /\ \/ at = "header" /\ ~Has(b, Delim)
     \/ at = "text" /\ ~Has(b, CRLF)
  /\ \E k \in 1..Len(net) : b' = b \o Take(net, k) /\ net' = Drop(net, k)
  /\ UNCHANGED <<calls, answered, at, header, returned>>

\* getBytesResponse: what the header line says of a text.
TextSize(line) ==
  IF \E i \in DOMAIN Texts : line = <<Header(i), CR>> THEN Texts[line[1][2]] ELSE 0

\* Mutant of NeedsText: the text is left where it is.
NeedsTextNever(line) == FALSE

NeedsText(line) == TextSize(line) > 0

\* The header line and the blank line after it.
ReadHeader ==
  /\ at = "header" /\ Has(b, Delim)
  /\ \E e1 \in LineEnd(b, 1) : \E e2 \in LineEnd(b, e1 + 1) :
       LET line == Take(b, e1 - 1)
       IN  /\ b' = Drop(b, e2)
           /\ header' = line
           /\ \/ /\ NeedsText(line)
                 /\ at' = "text"
                 /\ UNCHANGED returned
              \/ /\ ~NeedsText(line)
                 /\ at' = "idle"
                 /\ returned' = Append(returned, line)
  /\ UNCHANGED <<calls, answered, net>>

\* Mutant of ReadText: it waits for the delimiter of a header.
ReadTextDelim ==
  /\ at = "text" /\ Has(b, Delim)
  /\ at' = "idle"
  /\ returned' = Append(returned, header)
  /\ UNCHANGED <<calls, answered, net, b, header>>

ReadText ==
  /\ at = "text" /\ Has(b, CRLF)
  /\ at' = "idle"
  /\ returned' = Append(returned, header)
  /\ UNCHANGED <<calls, answered, net, b, header>>

-----------------------------------------------------------------------------
Reads == ReadUntil \/ ReadHeader \/ ReadText

Next == SendReceive \/ Answer \/ Reads

\* Requests are answered, and the client's thread reads what arrives.
Spec == Init /\ [][Next]_vars /\ WF_vars(Answer) /\ WF_vars(Reads)

-----------------------------------------------------------------------------
\* Each request before the i-th got one answer.
OneEach(i) == \A j \in DOMAIN Texts : Of[j] < i => Of[j] = j

\* However the network cuts the stream, no call returns the answer to another
\* request before a COMMIT was answered with several ACK_RESENDs: what an
\* answer leaves unread, the blank line at its end or a text, may be taken for
\* a header, but is never so much that a call returns before its own answer
\* came.  The call that gets the ACK_RESENDs returns the first of them; the
\* others are there for the calls after it.
NoOtherAnswer ==
  \A i \in DOMAIN returned : OneEach(i) =>
    \A j \in DOMAIN Texts : Of[j] # i => \A k \in DOMAIN returned[i] : returned[i][k] # Header(j)

\* As long as each request got one answer and that has a text, nothing of it
\* is left for the next call, which returns the first answer to its own request.
OwnAnswerAfterText ==
  \A i \in DOMAIN returned :
    OneEach(i) /\ (\A j \in 1..(i - 1) : Texts[j] > 0) => returned[i] = <<Header(i), CR>>

\* A call whose request is answered returns, once or with several answers; it
\* does not wait for bytes that no answer has.
CallsReturn == \A i \in 1..Requests : calls >= i ~> Len(returned) >= i

-----------------------------------------------------------------------------
\* What a comment says and the code does not do: nothing of an answer without
\* a text is left either ("if data, get it, if not there was one more empty
\* line anyway", Client.cpp).
OwnAnswer == \A i \in DOMAIN returned : OneEach(i) => returned[i] = <<Header(i), CR>>
=============================================================================
