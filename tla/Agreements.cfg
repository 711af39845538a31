SPECIFICATION LiveSpec
CONSTANTS
    Workers = {w1}
    Scanners = {s1, s2}
    Contracts = {1, 2}
    FeeAgreements = {f1}
    EndDates = {1}
    LastDay = 3
    MaxKills = 1
    NoRecord = NoRecord
INVARIANT
    TypeOK
PROPERTIES
    FreshWritesFollowTable
    OverdueIsCaught
