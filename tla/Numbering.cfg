\* CHECK_DEADLOCK: with MaxNumber numbers given on every key no request begins.
SPECIFICATION LiveSpec
CONSTANTS
    Workers = {w1, w2, w3}
    Keys = {k1, k2}
    NoKey = NoKey
    MaxNumber = 2
INVARIANTS
    TypeOK
    NumberedInOrder
    CounterMatchesRows
PROPERTIES
    EveryRequestEnds
    ImplementsSource
CHECK_DEADLOCK FALSE
