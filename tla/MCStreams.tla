------------------------------ MODULE MCStreams ------------------------------
(***************************************************************************)
(* Instances of RequestStream for TLC: the packets a client sends.         *)
(***************************************************************************)
EXTENDS RequestStream

\* Payloads of one and two bytes, a packet without one, an empty payload, and
\* again a packet without a payload.
Mixed == <<2, 3, 0, 1, 0>>
=============================================================================
