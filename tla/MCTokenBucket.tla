---------------------------- MODULE MCTokenBucket ----------------------------
(* Three packets through a bucket of depth 2: one needs 2 tokens, one     *)
(* needs more than B and is dropped, one needs 1, so Q2 can hold two      *)
(* packets, both servers can be busy and a SIGINT can find both lists     *)
(* non-empty.                                                              *)
EXTENDS TokenBucket, TLC

MCNeed == <<2, 3, 1>>
MCServers == {"S1", "S2"}
=============================================================================
