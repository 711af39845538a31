SPECIFICATION Spec
CONSTANTS
    Workers = {w1, w2}
    Scanners = {s1, s2}
    Contracts = {1}
    FeeAgreements = {f1}
    EndDates = {1}
    LastDay = 3
    MaxKills = 1
    NoRecord = NoRecord
PROPERTY
    CancelledIsTerminal
