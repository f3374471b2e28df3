------------------------------ MODULE MCKMutex ------------------------------
(* Three threads contending for one mutex: enough for a waiter to be       *)
(* cancelled by a third thread while the holder has yielded.               *)
EXTENDS KMutex, TLC

CONSTANTS t1, t2, t3, runq, mtxq

MCThreads == {t1, t2, t3}
MCWaitQueues == {mtxq}
=============================================================================
