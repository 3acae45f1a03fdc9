--------------------------- MODULE RequestStream ---------------------------
(***************************************************************************)
(* How Session finds packets in the stream of a connection: the packets of *)
(* Client::genRequest and genEcho, cut into chunks by the network, and     *)
(* Session::handle_read, which puts them together again out of what        *)
(* async_read_until left in its buffer and a blocking read of the rest.    *)
(***************************************************************************)
EXTENDS Lines, FiniteSets

CONSTANTS
  Sizes,   \* the size fields of the packets a client sends, 0 for no payload
  Invalid  \* those of them whose header does not have four fields

ASSUME SizesAssumption == Sizes \in Seq(Nat) /\ Invalid \subseteq DOMAIN Sizes

\* What an invalid header without a payload leaves is a delimiter, and then
\* handle_read may take a header to pieces that has not arrived completely.
\* That is left out: such a packet is the last one.
ASSUME InvalidAssumption == \A i \in Invalid : Sizes[i] = 0 => i = Len(Sizes)

VARIABLES
  sent,     \* packets sent
  net,      \* bytes sent that the session has not read
  closed,   \* whether the client's end is closed
  at,       \* where the session is: "header", "payload" (blocking read), "ended"
  b, c,     \* its two buffers
  packet,   \* the packet in the blocking read
  executed, \* what was given to executeCommand
  refused   \* packets refused with error 204

vars == <<sent, net, closed, at, b, c, packet, executed, refused>>

-----------------------------------------------------------------------------
\* The size counts the \n after the payload.
Payload(i) == Body(i, Sizes[i] - 1)

Wire(i) == <<Header(i)>> \o Delim \o IF Sizes[i] = 0 THEN CRLF ELSE Payload(i) \o <<LF>>

NoPacket == [id |-> 0, fragment |-> <<>>, total |-> 0]

Init ==
  /\ sent = 0
  /\ net = <<>>
  /\ closed = FALSE
  /\ at = "header"
  /\ b = <<>> /\ c = <<>>
  /\ packet = NoPacket
  /\ executed = <<>>
  /\ refused = 0

SendPacket ==
  /\ ~closed
  /\ sent < Len(Sizes)
  /\ sent' = sent + 1
  /\ net' = net \o Wire(sent')
  /\ UNCHANGED <<closed, at, b, c, packet, executed, refused>>

\* closeSocket, or the end of the client's process or machine: of what was
\* sent, a part may be lost.
Close ==
  /\ ~closed
  /\ closed' = TRUE
  /\ \E k \in 0..Len(net) : net' = Take(net, k)
  /\ UNCHANGED <<sent, at, b, c, packet, executed, refused>>

-----------------------------------------------------------------------------
\* async_read_until: chunks of any size, until the buffer has the delimiter.
ReadUntil ==
  /\ at = "header" /\ ~Has(b, Delim)
  /\ \E k \in 1..Len(net) : b' = b \o Take(net, k) /\ net' = Drop(net, k)
  /\ UNCHANGED <<sent, closed, at, c, packet, executed, refused>>

\* Lines of less than 8 bytes are skipped, up to the line of the first header
\* (where that begins).
HeaderLine(buf) ==
  {k \in DOMAIN buf : /\ k > 1 => buf[k - 1] = LF
                      /\ \E e \in LineEnd(buf, k) : \E j \in k..(e - 1) : buf[j][1] = "header"
                      /\ \A j \in 1..(k - 1) : buf[j][1] # "header"}

\* validHeader: nothing but the fields of a header.
ValidHeader(line) ==
  \E i \in DOMAIN Sizes \ Invalid : line \in {<<Header(i)>>, <<Header(i), CR>>}

\* No header to be found, or an invalid one: error 204.  What follows the line
\* stays in the buffer.
Garbage ==
  /\ at = "header" /\ Has(b, Delim)
  /\ \/ HeaderLine(b) = {} /\ b' = <<>>
     \/ \E k \in HeaderLine(b) : \E e \in LineEnd(b, k) :
          ~ValidHeader(SubSeq(b, k, e - 1)) /\ b' = Drop(b, e)
  /\ refused' = refused + 1
  /\ UNCHANGED <<sent, net, closed, at, c, packet, executed>>

\* Mutant of WholePayload: the \n is expected in the fragment.
WholePayloadWithEnd(size, fragment) == size = Len(fragment)

\* The payload is in the fragment, with or without the \n after it.
WholePayload(size, fragment) == size = Len(fragment) + 1

\* Bytes for the blocking read.
Missing(size, fragment) == size - Len(fragment)

\* handle_read.  After the header line comes a blank one, and then a fragment:
\* what the buffer has of the payload, or the other blank line.
HandleRead ==
  /\ at = "header" /\ Has(b, Delim)
  /\ \E k \in HeaderLine(b) : \E e1 \in LineEnd(b, k) :
       /\ ValidHeader(SubSeq(b, k, e1 - 1))
       /\ \E e2 \in LineEnd(b, e1 + 1) : \E e3 \in LineEnd(b, e2 + 1) :
            LET id == b[k][2]
                fragment == SubSeq(b, e2 + 1, e3 - 1)
                whole == WholePayload(Sizes[id], fragment)
            IN  /\ b' = Drop(b, e3)
                /\ \/ /\ Sizes[id] = 0
                      /\ executed' = Append(executed, <<id, <<>> >>)
                      /\ UNCHANGED <<at, packet>>
                   \/ /\ Sizes[id] > 0 /\ whole
                      /\ executed' = Append(executed, <<id, fragment>>)
                      /\ UNCHANGED <<at, packet>>
                   \/ /\ Sizes[id] > 0 /\ ~whole
                      /\ at' = "payload"
                      /\ packet' = [ id |-> id, fragment |-> fragment,
                                     total |-> Missing(Sizes[id], fragment) ]
                      /\ UNCHANGED executed
  /\ UNCHANGED <<sent, net, closed, c, refused>>

\* Mutant of ToRead: it reads whatever there is.
ToReadAll == Len(net)

\* completion_condition: how many bytes read() still asks for.
ToRead == packet.total - Len(c)

ReadSome ==
  /\ at = "payload" /\ Len(c) < packet.total
  /\ \E k \in 1..Len(net) : k <= ToRead /\ c' = c \o Take(net, k) /\ net' = Drop(net, k)
  /\ UNCHANGED <<sent, closed, at, b, packet, executed, refused>>

\* The rest of handle_read.
PayloadRead ==
  /\ at = "payload" /\ Len(c) >= packet.total
  /\ \E e \in LineEnd(c, 1) :
       /\ executed' = Append(executed, <<packet.id, packet.fragment \o Take(c, e - 1)>>)
       /\ c' = Drop(c, e)
  /\ at' = "header"
  /\ packet' = NoPacket
  /\ UNCHANGED <<sent, net, closed, b, refused>>

\* Mutant of EndOfStream: a read that failed is taken as complete.
EndOfStreamExecutes ==
  /\ closed /\ net = <<>>
  /\ \/ at = "header" /\ ~Has(b, Delim) /\ UNCHANGED executed
     \/ at = "payload" /\ Len(c) < packet.total
        /\ executed' = Append(executed, <<packet.id, packet.fragment \o c>>)
  /\ at' = "ended"
  /\ UNCHANGED <<sent, net, closed, b, c, packet, refused>>

\* Mutant of EndOfStream: a session that waits for the payload stays.
EndOfStreamHeader ==
  /\ closed /\ net = <<>>
  /\ at = "header" /\ ~Has(b, Delim)
  /\ at' = "ended"
  /\ UNCHANGED <<sent, net, closed, b, c, packet, executed, refused>>

\* A read fails: the session is deleted, or gives up the packet it was reading.
EndOfStream ==
  /\ closed /\ net = <<>>
  /\ \/ at = "header" /\ ~Has(b, Delim)
     \/ at = "payload" /\ Len(c) < packet.total
  /\ at' = "ended"
  /\ UNCHANGED <<sent, net, closed, b, c, packet, executed, refused>>

-----------------------------------------------------------------------------
Reads == ReadUntil \/ Garbage \/ HandleRead \/ ReadSome \/ PayloadRead \/ EndOfStream

Next == SendPacket \/ Close \/ Reads

\* The session's thread runs, and what was sent arrives.
Spec == Init /\ [][Next]_vars /\ WF_vars(Reads)

-----------------------------------------------------------------------------
\* The bytes of the first n packets.
Bytes(n) ==
  {CR, LF} \cup {Header(i) : i \in 1..n}
    \cup UNION {{Payload(i)[k] : k \in DOMAIN Payload(i)} : i \in 1..n}

TypeOK ==
  /\ sent \in 0..Len(Sizes)
  /\ {net, b, c} \subseteq Seq(Bytes(sent))
  /\ closed \in BOOLEAN
  /\ at \in {"header", "payload", "ended"}
  /\ at = "header" => packet = NoPacket /\ c = <<>>
  /\ at = "payload" => packet.id \in 1..sent /\ packet.total \in Len(c)..Sizes[packet.id]
  /\ refused \in Nat

\* However the network cuts the stream, handle_read executes the packets that
\* were sent, each once, in order and with its payload, also those that follow
\* an invalid one; a packet that a crash of the sender cut off is not executed
\* with the part of the payload that came.  Only an invalid packet is refused,
\* once for its header and once for what follows that.
ExecutedUpTo(n) ==
  /\ {executed[k][1] : k \in DOMAIN executed} = (1..n) \ Invalid
  /\ \A j, k \in DOMAIN executed : j < k => executed[j][1] < executed[k][1]
  /\ \A k \in DOMAIN executed :
       LET i == executed[k][1]
       IN  executed[k] = <<i, IF Sizes[i] = 0 THEN <<>> ELSE Payload(i)>>

ExecutesWhatWasSent ==
  /\ \E n \in 0..sent : ExecutedUpTo(n)
  /\ refused <= 2 * Cardinality(Invalid \cap 1..sent)

\* handle_read does not get stuck in its blocking read: every packet is
\* executed, without help of a later one, unless the connection closes.
EveryPacketServed ==
  \A i \in DOMAIN Sizes \ Invalid :
    sent >= i ~> (closed \/ \E k \in DOMAIN executed : executed[k][1] = i)

\* A closed connection ends its session, also in the middle of a packet.
SessionEnds == closed ~> at = "ended"
=============================================================================
