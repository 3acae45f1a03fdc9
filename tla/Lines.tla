------------------------------- MODULE Lines -------------------------------
(***************************************************************************)
(* Byte streams as the protocol reads them: up to a delimiter, and line by *)
(* line.  A header line is one token, the i-th header of the stream, and a *)
(* body is a sequence of tokens that are none of the others.               *)
(***************************************************************************)
EXTENDS Naturals, Sequences

CR == <<"CR">>

LF == <<"LF">>

Header(i) == <<"header", i>>

Body(i, n) == [k \in 1..n |-> <<"body", i, k>>]

\* The blank line, and the delimiter of read_until.
CRLF == <<CR, LF>>

Delim == CRLF \o CRLF

Has(buf, pattern) ==
  \E k \in 0..(Len(buf) - Len(pattern)) : SubSeq(buf, k + 1, k + Len(pattern)) = pattern

\* std::getline: the place where the line from i on ends, at the first \n or
\* after the last byte.  (A set, with one element.)
LineEnd(buf, i) ==
  {k \in i..(Len(buf) + 1) : /\ k <= Len(buf) => buf[k] = LF
                             /\ \A j \in i..(k - 1) : buf[j] # LF}

\* The first k bytes of a stream, and the others.
Take(stream, k) == SubSeq(stream, 1, k)

Drop(stream, k) == SubSeq(stream, k + 1, Len(stream))
=============================================================================
