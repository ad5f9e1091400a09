CONSTANTS
    t1 = t1
    Title <- MCTitle
    NoTitle = NoTitle
    RowsPerPage = 2
    MaxOid = 3
    MaxDialogs = 2
    AddRow = 0
    MaxTrouble = 1
SPECIFICATION Spec
INVARIANTS
    TypeOK
    DrawnMatchesRows
    ShownIsStored
PROPERTIES
    NextPageFollows
