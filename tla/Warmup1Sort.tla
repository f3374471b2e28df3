---------------------------- MODULE Warmup1Sort ----------------------------
(***************************************************************************)
(* warmup1.c: main reads transactions into a My402List, one per line, and *)
(* BubbleSortForwardList sorts them by timestamp before printTable prints *)
(* them.  The sort stops the program (exit(1)) when it compares two       *)
(* transactions with the same timestamp.                                   *)
(*                                                                         *)
(* A transaction is [ts, line, amt]: the timestamp checkTime returns, its *)
(* line number, and amountNum, the cents checkAmount returns, negated for *)
(* a "-" type.  The type and description only reach printTable as text    *)
(* and are left out.  A line that fails checkLine, checkType,  *)
(* checkTime, checkAmount or checkDesc stops the program.                  *)
(*                                                                         *)
(* One step is one iteration of a loop of main or of the sort; pc is     *)
(* where the program is: "read" (the fgets loop), "outer" and "inner"     *)
(* (the two loops of BubbleSortForwardList), "done" (sorted), "printed"   *)
(* (printTable has run), or one of the exits.  printTable is one step:    *)
(* table is its output, the Amount and Balance columns of each row as the *)
(* 14 characters transferFormat writes.  Then My402ListUnlinkAll frees   *)
(* the list ("freed").                                                     *)
(*                                                                         *)
(* list is myList read from the anchor.  Every list operation of a step   *)
(* runs on the linked form of list (FromSeq, the elements main appended   *)
(* in order) with the pointer stores of my402list.c, and list' is what the *)
(* result reads from the anchor; elem is the position of the sort's elem  *)
(* pointer in it (0 for NULL) and allocated the number of list elements   *)
(* malloc'ed and not freed.                                               *)
(***************************************************************************)
EXTENDS Integers, Sequences, SequencesExt, TLC, My402List

CONSTANTS
    Stamps,      \* timestamps the input lines may carry
    Amounts,     \* signed amountNum values (cents) the input lines may carry
    MaxLines     \* bound on the number of input lines

VARIABLES
    input,       \* the transactions in the order main appended them (history)
    list,        \* myList
    lineNum,
    pc,
    i, j,        \* the loop counters of BubbleSortForwardList
    swapped,     \* something_swapped
    table,       \* the rows printTable printed
    elem,        \* the position of BubbleSortForwardList's elem, 0 for NULL
    allocated    \* My402ListElems in use

vars == <<input, list, lineNum, pc, i, j, swapped, table, elem, allocated>>

Txn == [ts : Stamps, line : 1 .. MaxLines, amt : Amounts]

(* checkAmount accepts 1 to 7 digits, a dot and 2 digits, not zero; main *)
(* negates the cents for a "-" type.                                       *)
ASSUME \A a \in Amounts : a # 0 /\ -999999999 <= a /\ a <= 999999999

Init ==
    /\ input = <<>> /\ list = <<>>
    /\ lineNum = 0 /\ pc = "read"
    /\ i = 0 /\ j = 0 /\ swapped = FALSE
    /\ table = <<>> /\ elem = 0 /\ allocated = 0

(* Where element e of the list L lies, read from the anchor; 0 for NULL. *)
PositionOf(L, e) ==
    IF \E k \in 1 .. L.num : NodeAt(L, k) = e
    THEN CHOOSE k \in 1 .. L.num : NodeAt(L, k) = e
    ELSE 0

(* A read loop that forgets to count the line it appends.                 *)
ReadLineUncounted(ts, amt) ==
    /\ pc = "read" /\ lineNum < MaxLines
    /\ LET L == My402ListAppend(FromSeq(list), [ts |-> ts, line |-> lineNum + 1, amt |-> amt])
       IN  list' = Objects(L) /\ allocated' = Cardinality(L.used)
    /\ input' = list'
    /\ UNCHANGED <<lineNum, pc, i, j, swapped, table, elem>>

(* One iteration of main's fgets loop on a line that passes the checks:  *)
(* the transaction is appended to myList.                                  *)
ReadLine(ts, amt) ==
    /\ pc = "read" /\ lineNum < MaxLines
    /\ lineNum' = lineNum + 1
    /\ LET L == My402ListAppend(FromSeq(list), [ts |-> ts, line |-> lineNum + 1, amt |-> amt])
       IN  list' = Objects(L) /\ allocated' = Cardinality(L.used)
    /\ input' = list'
    /\ UNCHANGED <<pc, i, j, swapped, table, elem>>

(* A line that fails one of the field checks: exit(1).                     *)
BadLine ==
    /\ pc = "read" /\ lineNum < MaxLines
    /\ lineNum' = lineNum + 1 /\ pc' = "badline"
    /\ UNCHANGED <<input, list, i, j, swapped, table, elem, allocated>>

(* End of input: no transaction is an error; otherwise the sort starts.   *)
EndOfInput ==
    /\ pc = "read"
    /\ pc' = IF lineNum = 0 THEN "empty" ELSE "outer"
    /\ UNCHANGED <<input, list, lineNum, i, j, swapped, table, elem, allocated>>

(* for (i = 0; i < num_items; i++): a new pass starts with elem = First *)
(* and j = 0, or the sort ends.                                            *)
OuterTest ==
    /\ pc = "outer"
    /\ IF i < Len(list)
       THEN pc' = "inner" /\ j' = 0 /\ swapped' = FALSE
            /\ elem' = PositionOf(FromSeq(list), My402ListFirst(FromSeq(list)))
       ELSE pc' = "done" /\ UNCHANGED <<j, swapped, elem>>
    /\ UNCHANGED <<input, list, lineNum, i, table, allocated>>

(* The inner loop runs while j < num_items - i - 1; a variant one short.  *)
InnerBoundShort(n, k) == n - k - 2

InnerBound(n, k) == n - k - 1

(* BubbleForward(pList, &elem1, &elem2) on adjacent elements: both are   *)
(* unlinked, obj2 goes in after elem1's predecessor (or first) and obj1   *)
(* before elem2's successor (or last); the result is the list with the    *)
(* new *pp_elem1 and *pp_elem2.                                            *)
BubbleForward(L, elem1, elem2) ==
    LET obj1      == L.obj[elem1]
        obj2      == L.obj[elem2]
        elem1prev == My402ListPrev(L, elem1)
        elem2next == My402ListNext(L, elem2)
        L2        == My402ListUnlink(My402ListUnlink(L, elem1), elem2)
        L3        == IF elem1prev = NULL THEN My402ListPrepend(L2, obj2)
                     ELSE My402ListInsertAfter(L2, obj2, elem1prev)
        pe1       == IF elem1prev = NULL THEN My402ListFirst(L3)
                     ELSE My402ListNext(L3, elem1prev)
        L4        == IF elem2next = NULL THEN My402ListAppend(L3, obj1)
                     ELSE My402ListInsertBefore(L3, obj1, elem2next)
        pe2       == IF elem2next = NULL THEN My402ListLast(L4)
                     ELSE My402ListPrev(L4, elem2next)
    IN  <<L4, pe1, pe2>>

(* The duplicate test of the inner loop.                                  *)
SameTime(cur, nxt) == cur = nxt

(* One iteration of the inner loop: next_elem = Next(elem); exit on equal *)
(* timestamps; BubbleForward(&elem, &next_elem) when they are out of      *)
(* order; then elem = next_elem and j++.                                   *)
InnerStep ==
    /\ pc = "inner" /\ j < InnerBound(Len(list), i)
    /\ LET L         == FromSeq(list)
           e         == NodeAt(L, elem)
           next_elem == My402ListNext(L, e)
           cur       == L.obj[e].ts
           nxt       == L.obj[next_elem].ts
           r         == BubbleForward(L, e, next_elem)
       IN  CASE SameTime(cur, nxt) ->
                   pc' = "duplicate" /\ UNCHANGED <<list, j, swapped, elem, allocated>>
             [] cur > nxt ->
                   /\ list' = Objects(r[1]) /\ allocated' = Cardinality(r[1].used)
                   /\ elem' = PositionOf(r[1], r[3])
                   /\ swapped' = TRUE /\ j' = j + 1 /\ UNCHANGED pc
             [] OTHER ->
                   /\ elem' = PositionOf(L, next_elem) /\ j' = j + 1
                   /\ UNCHANGED <<list, pc, swapped, allocated>>
    /\ UNCHANGED <<input, lineNum, i, table>>

(* The end of a pass: break when nothing was swapped, else i++.          *)
InnerEnd ==
    /\ pc = "inner" /\ ~(j < InnerBound(Len(list), i))
    /\ IF swapped THEN pc' = "outer" /\ i' = i + 1 ELSE pc' = "done" /\ UNCHANGED i
    /\ UNCHANGED <<input, list, lineNum, j, swapped, table, elem, allocated>>

Digit == <<"0", "1", "2", "3", "4", "5", "6", "7", "8", "9">>
AbsVal(n) == IF n < 0 THEN -n ELSE n
moneyLimit == 1000000000

(* transferFormat's range test; a variant that lets the limit through.   *)
OverflowsOff(money) == money < -moneyLimit \/ money > moneyLimit

Overflows(money) == money <= -moneyLimit \/ money >= moneyLimit

(* transferFormat's digit loop from index 12 leftwards: a '.' before the  *)
(* dollars and a ',' before each further group of three, written only    *)
(* while digits remain.  Returns the buffer and the index it stopped at.  *)
RECURSIVE DigitLoop(_, _, _)
DigitLoop(t, m, idx) ==
    IF m > 0 /\ idx >= 1
    THEN LET t1  == [t EXCEPT ![idx] = Digit[(m % 10) + 1]]
             sep == m \div 10 > 0 /\ idx \in {11, 7, 3}
         IN  DigitLoop(IF sep THEN [t1 EXCEPT ![idx - 1] = IF idx = 11 THEN "." ELSE ","]
                              ELSE t1,
                       m \div 10, IF sep THEN idx - 2 ELSE idx - 1)
    ELSE <<t, idx>>

(* transferFormat(money, temp): the 14 characters temp[0..13] it writes   *)
(* ("nul" for a byte memset leaves 0).  Brackets for a negative amount;  *)
(* "?,???,???.??" from 1e9 cents either way; otherwise the digits of      *)
(* abs(money) (an int, which these values fit), zeros up to index 9, the  *)
(* '.' at 10 and blanks to the left.                                       *)
TransferFormat(money) ==
    LET t0 == [k \in 0 .. 13 |-> CASE k = 0  -> IF money < 0 THEN "(" ELSE " "
                                  [] k = 13 -> IF money < 0 THEN ")" ELSE " "
                                  [] OTHER  -> "nul"]
    IN  IF Overflows(money)
        THEN [k \in 0 .. 13 |-> CASE k = 10        -> "."
                                [] k \in {2, 6}    -> ","
                                [] k \in 1 .. 12   -> "?"
                                [] OTHER           -> t0[k]]
        ELSE LET r    == DigitLoop(t0, AbsVal(money), 12)
                 idx  == r[2]
                 last == IF idx >= 9 THEN 8 ELSE idx
             IN  [k \in 0 .. 13 |-> CASE k = 10             -> "."
                                    [] k \in last + 1 .. idx -> "0"
                                    [] k \in 1 .. last       -> " "
                                    [] OTHER                -> r[1][k]]

(* printTable: balance += amountNum row by row, in list order.           *)
RECURSIVE RunningBalance(_, _)
RunningBalance(s, k) == IF k = 0 THEN 0 ELSE RunningBalance(s, k - 1) + s[k].amt

(* printTable, after the sort: each row shows transferFormat of the       *)
(* row's amount and of the running balance.                               *)
printTable ==
    /\ pc = "done"
    /\ pc' = "printed"
    /\ table' = [k \in 1 .. Len(list) |->
                    [amount  |-> TransferFormat(list[k].amt),
                     balance |-> TransferFormat(RunningBalance(list, k))]]
    /\ UNCHANGED <<input, list, lineNum, i, j, swapped, elem, allocated>>

(* main's last step: My402ListUnlinkAll(&myList).                         *)
FreeList ==
    /\ pc = "printed"
    /\ pc' = "freed"
    /\ LET L == My402ListUnlinkAll(FromSeq(list))
       IN  list' = Objects(L) /\ allocated' = Cardinality(L.used)
    /\ UNCHANGED <<input, lineNum, i, j, swapped, table, elem>>

Next ==
    \/ \E ts \in Stamps, amt \in Amounts : ReadLine(ts, amt)
    \/ BadLine \/ EndOfInput
    \/ OuterTest \/ InnerStep \/ InnerEnd
    \/ printTable \/ FreeList

Spec == Init /\ [][Next]_vars

(***************************************************************************)
(* Properties                                                              *)
(***************************************************************************)
TypeOK ==
    /\ input \in Seq(Txn) /\ list \in Seq(Txn) /\ Len(list) <= MaxLines
    /\ lineNum \in 0 .. MaxLines
    /\ pc \in {"read", "outer", "inner", "done", "printed", "freed", "badline", "empty", "duplicate"}
    /\ i \in 0 .. MaxLines /\ j \in 0 .. MaxLines /\ swapped \in BOOLEAN
    /\ table \in Seq([amount : [0 .. 13 -> STRING], balance : [0 .. 13 -> STRING]])
    /\ elem \in 0 .. MaxLines /\ allocated \in 0 .. MaxLines + 2

HasDuplicate(s) == \E a, b \in 1 .. Len(s) : a # b /\ s[a].ts = s[b].ts

(* When printTable runs, myList holds exactly the transactions read, in  *)
(* the order a reference sort by timestamp gives (BubbleSortForwardList *)
(* with its early break and shrinking inner bound really sorts).          *)
SortMatchesReference ==
    pc \in {"done", "printed"} => list = SortSeq(input, LAMBDA x, y : x.ts < y.ts)

(* The sort exits with "two identical timestamps" exactly when the input *)
(* has two: such a pair never reaches printTable, as the sort compares    *)
(* every duplicate pair before it breaks or its inner bound shrinks past *)
(* them, and the exit is never taken without one.                         *)
DuplicatesCaught ==
    /\ pc \in {"done", "printed"} => ~HasDuplicate(input)
    /\ pc = "duplicate" => HasDuplicate(input)

(* How a cents value reads in a 14-character column: "(d,ddd,ddd.dd)"    *)
(* right-aligned, brackets only when negative, at least "0.dd", a comma   *)
(* only between digits shown; "?,???,???.??" when it has more than seven  *)
(* digits of dollars.                                                      *)
DigitAt == <<12, 11, 9, 8, 7, 5, 4, 3, 1>>   \* where the digit of 10^e goes, e = 0..8
Column(m) ==
    LET a == AbsVal(m)
        Shown(e) == e <= 2 \/ a >= 10^e
    IN  [k \in 0 .. 13 |->
           CASE k = 0  -> IF m < 0 THEN "(" ELSE " "
             [] k = 13 -> IF m < 0 THEN ")" ELSE " "
             [] a >= 10^9 -> IF k = 10 THEN "." ELSE IF k \in {2, 6} THEN "," ELSE "?"
             [] k = 10 -> "."
             [] k = 6  -> IF a >= 10^5 THEN "," ELSE " "
             [] k = 2  -> IF a >= 10^8 THEN "," ELSE " "
             [] OTHER  -> LET e == CHOOSE e \in 0 .. 8 : DigitAt[e + 1] = k
                          IN  IF Shown(e) THEN Digit[((a \div 10^e) % 10) + 1] ELSE " "]

(* The table printTable prints after the sort: row k shows the amount of *)
(* the k-th transaction and the sum of the first k amounts, each as its   *)
(* column reads.  It relates transferFormat's digit loop and its range   *)
(* test to what the columns mean, at the boundaries the amounts reach: a  *)
(* group of digits ending exactly, a balance of zero, of one cent, or of  *)
(* exactly 1e9 cents.                                                      *)
TableShowsBalances ==
    pc = "printed" =>
        /\ Len(table) = Len(list)
        /\ \A k \in 1 .. Len(list) :
              /\ table[k].amount = Column(list[k].amt)
              /\ table[k].balance =
                    Column(FoldLeft(LAMBDA x, y : x + y, 0, [x \in 1 .. k |-> list[x].amt]))
(* Every My402ListElem malloc'ed by My402ListAppend, Prepend or an       *)
(* insertion and not yet freed by My402ListUnlink is reached from the    *)
(* anchor: BubbleForward's two unlinks and two insertions neither lose    *)
(* nor leak an element, and after My402ListUnlinkAll none is in use.      *)
ElementsAccounted == allocated = Len(list) /\ (pc = "freed" => allocated = 0)
=============================================================================
