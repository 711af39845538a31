SPECIFICATION MCLiveSpec
CONSTANTS
    om = om
    la = la
    s1 = s1
    s2 = s2
    i1 = i1
    i2 = i2
    Runs = {s1, s2}
    Items = {i1, i2}
    Users = {om, la}
    Group <- MCGroup
    Days = {1, 2}
    Within = 1
    LastDay = 2
    MaxChanges = 3
    MaxKills = 2
INVARIANTS
    TypeOK
    NeverToldTwice
PROPERTIES
    ReadIsForever
    ScanLeavesNobodyOut
    EverybodyTold
