------------------------------- MODULE MCProc -------------------------------
(* Idle, init and three more process slots, and as many pids as slots:    *)
(* pids wrap round past the live ones but never run out.                  *)
EXTENDS Proc, TLC

CONSTANTS p0, p1, p2, p3, p4, runq, f1

MCSlots == {p0, p1, p2, p3, p4}
MCWaitQueues == {PWait(s) : s \in MCSlots}
MCFiles == {f1}
=============================================================================
