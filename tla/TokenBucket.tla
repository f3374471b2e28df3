----------------------------- MODULE TokenBucket -----------------------------
(***************************************************************************)
(* The warmup2 token-bucket emulator (Homework/Warmup2/warmup2.c): a      *)
(* packet thread, a token thread, two server threads and a signal thread   *)
(* share one pthread mutex myLock and one condition variable cv.           *)
(*                                                                         *)
(* Every critical section runs to its unlock without waiting, except the   *)
(* server's pthread_cond_wait, so each critical section is one step here   *)
(* and the mutex itself needs no variable; cond_wait ends a step (pc       *)
(* "wait") and the thread re-enters at "lock" once woken.  The loop tests  *)
(* of packetFunc, tokenFunc and serverFunc read inputQSize, Q1 and Q2      *)
(* without the mutex, one operand at a time in the order written (each     *)
(* list test is a call to My402ListEmpty in another translation unit), so  *)
(* each read is a step of its own.  usleep, timestamps and printing are    *)
(* left out: a sleep is just a point where other threads run.  Packets     *)
(* are their ids 1..num; the packet with id k needs Need[k] tokens.        *)
(* Q1, Q2 and outputQ are the lists read from their anchors; each list    *)
(* call runs on their linked form (FromSeq) with the pointer code of      *)
(* my402list.c (module My402List).                                         *)
(***************************************************************************)
EXTENDS Integers, Sequences, FiniteSets, SequencesExt, My402List

CONSTANTS
    num,      \* num: packets to arrive
    B,        \* B: depth of the token bucket
    Need,     \* Need[k]: tokenNeed of the k-th packet (P, or the tsfile line)
    Servers   \* the two server threads, "S1" and "S2"

ASSUME num \in Nat /\ B \in Nat /\ Need \in [1..num -> Nat]

Threads == {"packet", "token", "sig"} \cup Servers

NoPacket == 0

VARIABLES
    inputQSize,    \* packets still to arrive
    packetId,      \* id of the last packet created (initPacket)
    Q1, Q2,        \* My402List Q1 and Q2, head first
    outputQ,       \* every packet that left the system, in order
    packetType,    \* packetType: 1 served, 2 dropped, 3 removed by SIGINT
    curTokenSize,  \* tokens in the bucket
    pc,            \* where each thread is
    q2Packet       \* serverFunc's local q2Packet, while it is in service

vars == <<inputQSize, packetId, Q1, Q2, outputQ, packetType, curTokenSize,
          pc, q2Packet>>

TypeOK ==
    /\ inputQSize \in 0..num /\ packetId \in 0..num
    /\ \A q \in {Q1, Q2, outputQ} : q \in Seq(1..num)
    /\ packetType \in [1..num -> 0..3]
    /\ curTokenSize \in 0..B
    /\ q2Packet \in [Servers -> {NoPacket} \cup 1..num]

(* setDefault and init: all packets still to arrive, empty lists and an   *)
(* empty bucket; main then creates the five threads.                       *)
Init ==
    /\ inputQSize = num /\ packetId = 0
    /\ Q1 = <<>> /\ Q2 = <<>> /\ outputQ = <<>>
    /\ packetType = [k \in 1..num |-> 0]
    /\ curTokenSize = 0
    /\ pc = [t \in Threads |-> IF t = "sig" THEN "sigwait" ELSE "chkIn"]
    /\ q2Packet = [s \in Servers |-> NoPacket]

(* pthread_cond_broadcast(&cv): every thread in cond_wait goes back to    *)
(* re-acquiring the mutex.                                                 *)
Broadcast(p) == [t \in DOMAIN p |-> IF p[t] = "wait" THEN "lock" ELSE p[t]]

(* My402ListAppend(&q, x) on a list q.                                     *)
ListAppend(q, x) == Objects(My402ListAppend(FromSeq(q), x))

(* The Q1-to-Q2 move at the end of packetFunc's and tokenFunc's critical  *)
(* sections, on b = [q1, q2, tok, pc]: when the head of Q1 has enough     *)
(* tokens, unlink it, take its tokens, append it to Q2 and broadcast.     *)
MoveQ1Head(b) ==
    LET L        == FromSeq(b.q1)
        elem     == My402ListFirst(L)
        q1Packet == L.obj[elem]
    IN  IF ~My402ListEmpty(L) /\ b.tok >= Need[q1Packet]
        THEN [b EXCEPT !.q1 = Objects(My402ListUnlink(L, elem)),
                       !.tok = @ - Need[q1Packet],
                       !.q2 = ListAppend(@, q1Packet), !.pc = Broadcast(@)]
        ELSE b

Bucket == [q1 |-> Q1, q2 |-> Q2, tok |-> curTokenSize, pc |-> pc]

CommitBucket(b) ==
    /\ Q1' = b.q1 /\ Q2' = b.q2 /\ curTokenSize' = b.tok /\ pc' = b.pc

(***************************************************************************)
(* packetFunc                                                              *)
(***************************************************************************)
(* while(inputQSize > 0), read without the mutex.                          *)
packetLoopTest ==
    /\ pc["packet"] = "chkIn"
    /\ pc' = [pc EXCEPT !["packet"] = IF inputQSize > 0 THEN "lock" ELSE "done"]
    /\ UNCHANGED <<inputQSize, packetId, Q1, Q2, outputQ, packetType,
                   curTokenSize, q2Packet>>

(* The critical section: recheck inputQSize; create the next packet; drop *)
(* it to outputQ when it needs more than B tokens, else append it to Q1   *)
(* and try to move the head of Q1 to Q2.                                   *)
packetArrive ==
    /\ pc["packet"] = "lock"
    /\ IF inputQSize <= 0
       THEN /\ pc' = [pc EXCEPT !["packet"] = "chkIn"]
            /\ UNCHANGED <<inputQSize, packetId, Q1, Q2, outputQ, packetType,
                           curTokenSize>>
       ELSE LET p == packetId + 1
                b == [Bucket EXCEPT !.pc["packet"] = "chkIn"]
            IN  /\ inputQSize' = inputQSize - 1
                /\ packetId' = p
                /\ IF Need[p] > B
                   THEN /\ packetType' = [packetType EXCEPT ![p] = 2]
                        /\ outputQ' = ListAppend(outputQ, p)
                        /\ CommitBucket(b)
                   ELSE /\ CommitBucket(MoveQ1Head([b EXCEPT !.q1 = ListAppend(@, p)]))
                        /\ UNCHANGED <<packetType, outputQ>>
    /\ UNCHANGED q2Packet

(***************************************************************************)
(* tokenFunc                                                               *)
(***************************************************************************)
(* A token that finds the bucket at curTokenSize = B is dropped.           *)
TokenArriveNoCap(tok) == tok + 1

TokenArrive(tok) == IF tok >= B THEN tok ELSE tok + 1

(* The loop test read in the opposite order, Q1 first.                     *)
TokenLoopTestQ1First ==
    /\ pc["token"] \in {"chkIn", "chkQ1"}
    /\ pc' = [pc EXCEPT !["token"] =
                 IF pc["token"] = "chkIn"
                 THEN IF Q1 # <<>> THEN "lock" ELSE "chkQ1"
                 ELSE IF inputQSize > 0 THEN "lock" ELSE "done"]
    /\ UNCHANGED <<inputQSize, packetId, Q1, Q2, outputQ, packetType,
                   curTokenSize, q2Packet>>

(* while(inputQSize > 0 || !My402ListEmpty(&Q1)), one operand per step.    *)
TokenLoopTest ==
    /\ pc["token"] \in {"chkIn", "chkQ1"}
    /\ pc' = [pc EXCEPT !["token"] =
                 IF pc["token"] = "chkIn"
                 THEN IF inputQSize > 0 THEN "lock" ELSE "chkQ1"
                 ELSE IF Q1 # <<>> THEN "lock" ELSE "done"]
    /\ UNCHANGED <<inputQSize, packetId, Q1, Q2, outputQ, packetType,
                   curTokenSize, q2Packet>>

(* The critical section: recheck; add the token or drop it; try to move   *)
(* the head of Q1 to Q2.                                                   *)
tokenTick ==
    /\ pc["token"] = "lock"
    /\ IF inputQSize <= 0 /\ Q1 = <<>>
       THEN /\ pc' = [pc EXCEPT !["token"] = "chkIn"]
            /\ UNCHANGED <<Q1, Q2, curTokenSize>>
       ELSE CommitBucket(MoveQ1Head([Bucket EXCEPT !.tok = TokenArrive(@),
                                                   !.pc["token"] = "chkIn"]))
    /\ UNCHANGED <<inputQSize, packetId, outputQ, packetType, q2Packet>>

(***************************************************************************)
(* serverFunc                                                              *)
(***************************************************************************)
(* while(Q2 empty && inputQSize > 0 && Q1 non-empty): the cond_wait test. *)
MustWait == Q2 = <<>> /\ inputQSize > 0 /\ Q1 # <<>>

(* The loop test read in the opposite order, Q2 first.                     *)
ServerLoopTestQ2First(s) ==
    /\ pc[s] \in {"chkIn", "chkQ1", "chkQ2"}
    /\ pc' = [pc EXCEPT ![s] =
                 CASE pc[s] = "chkIn" -> IF Q2 # <<>> THEN "lock" ELSE "chkQ1"
                   [] pc[s] = "chkQ1" -> IF Q1 # <<>> THEN "lock" ELSE "chkQ2"
                   [] OTHER -> IF inputQSize > 0 THEN "lock" ELSE "done"]
    /\ UNCHANGED <<inputQSize, packetId, Q1, Q2, outputQ, packetType,
                   curTokenSize, q2Packet>>

(* while(inputQSize > 0 || Q1 non-empty || Q2 non-empty), one operand per *)
(* step, left to right.                                                    *)
ServerLoopTest(s) ==
    /\ pc[s] \in {"chkIn", "chkQ1", "chkQ2"}
    /\ pc' = [pc EXCEPT ![s] =
                 CASE pc[s] = "chkIn" -> IF inputQSize > 0 THEN "lock" ELSE "chkQ1"
                   [] pc[s] = "chkQ1" -> IF Q1 # <<>> THEN "lock" ELSE "chkQ2"
                   [] OTHER -> IF Q2 # <<>> THEN "lock" ELSE "done"]
    /\ UNCHANGED <<inputQSize, packetId, Q1, Q2, outputQ, packetType,
                   curTokenSize, q2Packet>>

(* A server that unlinks the last packet of Q2 instead of the first.      *)
Q2LastPacket(L) == My402ListLast(L)

(* The element a server takes: My402ListFirst(&Q2).                      *)
Q2FirstPacket(L) == My402ListFirst(L)

(* Holding the mutex (after pthread_mutex_lock, or woken from cond_wait): *)
(* wait while MustWait; else take the first packet of Q2, if any, mark it *)
(* served, append it to outputQ and broadcast; then unlock.                *)
serverLock(s) ==
    /\ pc[s] = "lock"
    /\ \/ /\ MustWait
          /\ pc' = [pc EXCEPT ![s] = "wait"]
          /\ UNCHANGED <<Q2, outputQ, packetType, q2Packet>>
       \/ /\ ~MustWait /\ Q2 # <<>>
          /\ LET L    == FromSeq(Q2)
                 elem == Q2FirstPacket(L)
                 p    == L.obj[elem]
             IN  /\ Q2' = Objects(My402ListUnlink(L, elem))
                 /\ packetType' = [packetType EXCEPT ![p] = 1]
                 /\ outputQ' = ListAppend(outputQ, p)
                 /\ q2Packet' = [q2Packet EXCEPT ![s] = p]
                 /\ pc' = [Broadcast(pc) EXCEPT ![s] = "serve"]
       \/ /\ ~MustWait /\ Q2 = <<>>
          /\ pc' = [pc EXCEPT ![s] = "chkIn"]
          /\ UNCHANGED <<Q2, outputQ, packetType, q2Packet>>
    /\ UNCHANGED <<inputQSize, packetId, Q1, curTokenSize>>

(* pthread_cond_wait may return without a signal (POSIX).                 *)
spuriousWakeup(s) ==
    /\ pc[s] = "wait"
    /\ pc' = [pc EXCEPT ![s] = "lock"]
    /\ UNCHANGED <<inputQSize, packetId, Q1, Q2, outputQ, packetType,
                   curTokenSize, q2Packet>>

(* usleep(packetServiceTime) outside the mutex, then the departure.        *)
serverDepart(s) ==
    /\ pc[s] = "serve"
    /\ q2Packet' = [q2Packet EXCEPT ![s] = NoPacket]
    /\ pc' = [pc EXCEPT ![s] = "chkIn"]
    /\ UNCHANGED <<inputQSize, packetId, Q1, Q2, outputQ, packetType,
                   curTokenSize>>

(***************************************************************************)
(* signalFunc: sigwait returns on SIGINT (blocked in every thread by       *)
(* init's sigprocmask); under the mutex every packet of Q1, then of Q2,   *)
(* is marked removed and appended to outputQ; no packets are left to      *)
(* arrive; both lists are emptied; broadcast.  The loop ends after one    *)
(* signal.                                                                 *)
(***************************************************************************)
(* A handler that walks Q1 only.                                          *)
RemovedQ1Only == Objects(FromSeq(Q1))

(* The packets the two loops mark removed and append, in their order:    *)
(* the walks from My402ListFirst with My402ListNext over Q1, then Q2.     *)
Removed == Objects(FromSeq(Q1)) \o Objects(FromSeq(Q2))

(* One My402ListAppend(&outputQ, curPacket) per packet of s, in order.   *)
RECURSIVE AppendEach(_, _)
AppendEach(L, s) == IF s = <<>> THEN L ELSE AppendEach(My402ListAppend(L, Head(s)), Tail(s))

sigCatch ==
    /\ pc["sig"] = "sigwait"
    /\ packetType' = [k \in 1..num |->
                        IF k \in ToSet(Removed) THEN 3 ELSE packetType[k]]
    /\ outputQ' = Objects(AppendEach(FromSeq(outputQ), Removed))
    /\ inputQSize' = 0
    /\ Q1' = Objects(My402ListUnlinkAll(FromSeq(Q1)))
    /\ Q2' = Objects(My402ListUnlinkAll(FromSeq(Q2)))
    /\ pc' = [Broadcast(pc) EXCEPT !["sig"] = "done"]
    /\ UNCHANGED <<packetId, curTokenSize, q2Packet>>

(* The steps of each joined thread; SIGINT and spurious wakeups are not    *)
(* part of them: neither has to happen.                                    *)
packetStep == packetLoopTest \/ packetArrive
tokenStep == TokenLoopTest \/ tokenTick
serverStep(s) == ServerLoopTest(s) \/ serverLock(s) \/ serverDepart(s)

Next ==
    \/ packetStep \/ tokenStep \/ sigCatch
    \/ \E s \in Servers : serverStep(s) \/ spuriousWakeup(s)

(* Each thread that can run eventually runs (the kernel schedules every   *)
(* runnable pthread; a critical section never blocks, so a thread waiting *)
(* for myLock keeps finding it free).                                      *)
Spec ==
    /\ Init /\ [][Next]_vars
    /\ WF_vars(packetStep) /\ WF_vars(tokenStep)
    /\ \A s \in Servers : WF_vars(serverStep(s))

Joined == {"packet", "token"} \cup Servers

AllDone == \A t \in Joined : pc[t] = "done"

(***************************************************************************)
(* Properties                                                              *)
(***************************************************************************)
(* Every packet created by packetFunc is in exactly one of Q1, Q2 and      *)
(* outputQ; packetType is 0 exactly while it waits in Q1 or Q2, and a     *)
(* packet a server still holds was counted as served; until SIGINT no     *)
(* packet is skipped (packetId + inputQSize = num).  This is what         *)
(* printStatics relies on when it counts outputQ after the joins: the     *)
(* SIGINT handler, the moves by two threads and the two servers must      *)
(* neither lose nor duplicate a packet.                                    *)
PacketConservation ==
    LET all == Q1 \o Q2 \o outputQ
    IN  /\ IsInjective(all) /\ ToSet(all) = 1..packetId
        /\ \A k \in 1..packetId : packetType[k] = 0 <=> k \in ToSet(Q1 \o Q2)
        /\ \A s \in Servers : q2Packet[s] # NoPacket => packetType[q2Packet[s]] = 1
        /\ pc["sig"] # "done" => packetId + inputQSize = num

(* Packets begin service in the order they arrived: the packets served so *)
(* far, then Q2, then Q1, are in increasing id order, although two        *)
(* servers and two movers share the lists.                                 *)
ServedInArrivalOrder ==
    IsSorted(SelectSeq(outputQ, LAMBDA k : packetType[k] = 1) \o Q2 \o Q1, <)

(* When packet, token, S1 and S2 have all left their loops (main's joins *)
(* return), no packet is left in Q1 or Q2 and none is still to arrive,    *)
(* although each loop test reads the lists without the mutex.              *)
NoPacketLeftBehind ==
    AllDone => Q1 = <<>> /\ Q2 = <<>> /\ inputQSize = 0

(* The four joined threads all finish, with or without a SIGINT: no      *)
(* server is left in cond_wait and no thread spins forever.                *)
AllThreadsJoin == <>AllDone
=============================================================================
