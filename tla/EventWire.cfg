SPECIFICATION Spec
CONSTANTS
    Nil = Nil
    Kinds <- AllKinds
    States <- AllStates
    Rulings <- AllRulings
    Asks <- AllAsks
    Strings <- AllStrings
    Errors <- AllErrors
    MaxHops = 2
INVARIANTS
    RestoredSaysWhatItLost
    OnlyReadableRecords
CHECK_DEADLOCK FALSE
