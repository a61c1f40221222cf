---------------------------- MODULE MCReplyLedger ----------------------------
(* Values for the constants of ReplyLedger: three retries of one body and a    *)
(* request that reuses the key with another.                                   *)
EXTENDS ReplyLedger

FourDigests == [q1 |-> "d1", q2 |-> "d1", q3 |-> "d1", q4 |-> "d2"]
=============================================================================
