CONSTANTS
    t1 = t1
    t2 = t2
    t3 = t3
    p1 = p1
    p2 = p2
    Threads = {t1, t2, t3}
    Processes = {p1, p2}
    Home <- MCHome
    Windows = {t1, t3}
    Keys = {k1, k2}
    Values = {old, new}
    Absent = old
    Readers = {r}
    Nobody = Nobody
    MaxEdits = 2
    Kinds = {"lenient", "strict"}
    MaxFaults = 1
SPECIFICATION FairSpec
INVARIANTS TypeOK NoLitter
PROPERTIES KeepsPromise SavesEnd
