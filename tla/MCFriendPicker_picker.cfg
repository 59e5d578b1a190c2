CONSTANTS
    kim = kim
    lee = lee
    kang = kang
    park = park
    empty = empty
    k = k
    kan = kan
    z = z
    none = none
    People <- MCPeople
    Friends <- MCFriends
    Words <- MCWords
    EmptyWord = empty
    NoWord = none
    Named <- MCNamed
    MaxEdits = 4
SPECIFICATION FairSpec
INVARIANTS
    ChecksMatch
    RowsMatchBar
PROPERTIES
    ImplementsSelection
    TextIsAnswered
CHECK_DEADLOCK FALSE
