----------------------------- MODULE My402List ------------------------------
(***************************************************************************)
(* my402list.c: a circular doubly linked list with an anchor element.     *)
(* A list value is a record:                                              *)
(*   num  - num_members                                                   *)
(*   next - the next pointer of the anchor and of every element allocated *)
(*   prev - the prev pointer, likewise                                    *)
(*   obj  - the obj field of every element ever allocated                 *)
(*   used - the elements malloc has handed out and free has not taken back*)
(* Elements are the positive integers; Anchor (0) is &anchor and NULL is  *)
(* -1.  malloc returns the least element not in use: which address it     *)
(* returns is not observable while no freed element is used: the code    *)
(* compares pointers only with each other and with NULL.  Every operation *)
(* is an operator from list to list, as the C function is a run of stores.*)
(***************************************************************************)
EXTENDS Integers, Sequences, FiniteSets, TLC

Anchor == 0
NULL == -1

(* p->f = v, for a field f held as a function: (v :> ...) @@ f extends    *)
(* the function to an element malloc has just handed out.                 *)
Store(f, p, v) == (p :> v) @@ f

(* My402ListInit: the memset list, anchor pointers NULL, no members.      *)
My402ListInit ==
    [num |-> 0, next |-> (Anchor :> NULL), prev |-> (Anchor :> NULL),
     obj |-> <<>>, used |-> {}]

My402ListLength(L) == L.num

My402ListEmpty(L) == L.num = 0

(* malloc(sizeof(My402ListElem)), which the model never lets fail.        *)
Malloc(L) == CHOOSE e \in 1 .. Cardinality(L.used) + 1 : e \notin L.used

My402ListFirst(L) == IF My402ListEmpty(L) THEN NULL ELSE L.next[Anchor]

My402ListLast(L) == IF My402ListEmpty(L) THEN NULL ELSE L.prev[Anchor]

My402ListNext(L, cur) == IF My402ListLast(L) = cur THEN NULL ELSE L.next[cur]

My402ListPrev(L, cur) == IF My402ListFirst(L) = cur THEN NULL ELSE L.prev[cur]

(* The stores every insertion makes once it has malloc'ed newElem and     *)
(* found its neighbours p and n: num_members++, newElem->obj = obj,       *)
(* newElem->prev = p, newElem->next = n, p->next = newElem and            *)
(* n->prev = newElem.  With p = n = &anchor (the empty case) these are    *)
(* the four anchor and newElem stores of Append and Prepend.              *)
LinkBetween(L, obj, p, n) ==
    LET e == Malloc(L)
    IN  [L EXCEPT !.num  = @ + 1,
                  !.obj  = Store(@, e, obj),
                  !.next = Store(Store(@, p, e), e, n),
                  !.prev = Store(Store(@, n, e), e, p),
                  !.used = @ \cup {e}]

My402ListAppend(L, obj) ==
    IF My402ListEmpty(L) THEN LinkBetween(L, obj, Anchor, Anchor)
    ELSE LinkBetween(L, obj, My402ListLast(L), Anchor)

My402ListPrepend(L, obj) ==
    IF My402ListEmpty(L) THEN LinkBetween(L, obj, Anchor, Anchor)
    ELSE LinkBetween(L, obj, Anchor, My402ListFirst(L))

My402ListInsertAfter(L, obj, elem) ==
    IF elem = NULL THEN My402ListAppend(L, obj)
    ELSE LinkBetween(L, obj, elem, L.next[elem])

(* InsertBefore with InsertAfter's neighbours, as a copy of it would be. *)
My402ListInsertBeforeAsAfter(L, obj, elem) ==
    IF elem = NULL THEN My402ListPrepend(L, obj)
    ELSE LinkBetween(L, obj, elem, L.next[elem])

My402ListInsertBefore(L, obj, elem) ==
    IF elem = NULL THEN My402ListPrepend(L, obj)
    ELSE LinkBetween(L, obj, L.prev[elem], elem)

(* prev->next = next; next->prev = prev; elem's pointers NULL; free;      *)
(* num_members--.                                                         *)
My402ListUnlink(L, elem) ==
    LET p == L.prev[elem]
        n == L.next[elem]
    IN  [L EXCEPT !.next = Store(Store(@, p, n), elem, NULL),
                  !.prev = Store(Store(@, n, p), elem, NULL),
                  !.used = @ \ {elem},
                  !.num  = @ - 1]

(* An UnlinkAll loop that stops once there is no next element, before    *)
(* unlinking the last one.                                                *)
RECURSIVE UnlinkLoopShort(_, _, _)
UnlinkLoopShort(L, cur, curNext) ==
    IF cur = NULL \/ curNext = NULL THEN L
    ELSE LET L1 == My402ListUnlink(L, cur)
         IN  UnlinkLoopShort(L1, curNext, My402ListNext(L1, curNext))

(* My402ListUnlinkAll's loop: unlink cur, then move to curNext, whose     *)
(* successor is read after the unlink; Next(list, NULL) is NULL once the *)
(* list is empty.                                                          *)
RECURSIVE UnlinkLoop(_, _, _)
UnlinkLoop(L, cur, curNext) ==
    IF cur = NULL THEN L
    ELSE LET L1 == My402ListUnlink(L, cur)
         IN  UnlinkLoop(L1, curNext, My402ListNext(L1, curNext))

(* The loop from First and its successor, then My402ListInit.  What it    *)
(* returns keeps the elements still in use, which Init does not free.     *)
My402ListUnlinkAll(L) ==
    LET first == My402ListFirst(L)
        L1    == UnlinkLoop(L, first, My402ListNext(L, first))
    IN  [My402ListInit EXCEPT !.used = L1.used]

(***************************************************************************)
(* Reading a list: the k-th element reached from the anchor with          *)
(* My402ListNext, as printTable's loop does, and the objects in that      *)
(* order.  A walk that runs off the elements in use stops short.          *)
(***************************************************************************)
RECURSIVE NodeAt(_, _)
NodeAt(L, k) ==
    IF k = 1 THEN My402ListFirst(L)
    ELSE LET p == NodeAt(L, k - 1)
         IN  IF p \in L.used THEN My402ListNext(L, p) ELSE NULL

Objects(L) ==
    LET n    == Cardinality({k \in 1 .. L.num : \A x \in 1 .. k : NodeAt(L, x) \in L.used})
    IN  [k \in 1 .. n |-> L.obj[NodeAt(L, k)]]

(* The list main would hold after appending the objects of s in order.   *)
FromSeq(s) ==
    LET n == Len(s)
    IN  IF n = 0 THEN My402ListInit
        ELSE [num  |-> n,
              next |-> [e \in 0 .. n |-> IF e = n THEN Anchor ELSE e + 1],
              prev |-> [e \in 0 .. n |-> IF e = 0 THEN n ELSE e - 1],
              obj  |-> s,
              used |-> 1 .. n]
=============================================================================
