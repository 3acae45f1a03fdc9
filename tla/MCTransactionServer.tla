------------------------- MODULE MCTransactionServer -------------------------
(***************************************************************************)
(* Instances of TransactionServer for TLC.  Payloads and file names are    *)
(* only compared, so they may be permuted; transaction and sequence        *)
(* numbers are ordered and may not.                                        *)
(***************************************************************************)
EXTENDS TransactionServer, TLC

Symmetry == Permutations(Data) \cup Permutations(Files)
=============================================================================
