CONSTANTS
    Stamps <- MCStamps
    Amounts <- MCAmounts
    MaxLines = 4
SPECIFICATION Spec
\* The program stops after printTable or an exit(1).
CHECK_DEADLOCK FALSE
INVARIANTS
    TypeOK
    SortMatchesReference
    DuplicatesCaught
    TableShowsBalances
    ElementsAccounted
