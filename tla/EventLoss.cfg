SPECIFICATION Spec
CONSTANTS
    Nil = Nil
    Kinds <- AllKinds
    States <- AllStates
    Rulings <- AllRulings
    Asks <- AllAsks
    Strings <- AllStrings
    Errors <- AllErrors
    MaxHops = 2
INVARIANT
    LossIsReported
CHECK_DEADLOCK FALSE
