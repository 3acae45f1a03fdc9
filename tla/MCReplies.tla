------------------------------ MODULE MCReplies ------------------------------
(***************************************************************************)
(* Instances of ReplyStream for TLC: the answers of the server.            *)
(***************************************************************************)
EXTENDS ReplyStream

\* Answers with a text, as errors have, and such without one, the fifth request
\* a COMMIT that gets two ACK_RESENDs.
Mixed   == <<3, 1, 0, 2, 0, 0, 1>>
MixedOf == <<1, 2, 3, 4, 5, 5, 6>>

\* One ACK for each of two requests.
WithoutText   == <<0, 0>>
WithoutTextOf == <<1, 2>>
=============================================================================
