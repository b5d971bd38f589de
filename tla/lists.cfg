SPECIFICATION Spec
CONSTANTS
    Names = {n1, n2}
    Devices = {d1, d2, d3}
    Known = {d1, d2}
    MaxEntries = 3
    MaxFds = 1
    Absent = Absent
    Free = Free
    Null = Null
VIEW ListView
INVARIANTS
    ListTypeOK
    CounterIsLength
    ListIsComplete
    EntryIsOneDevice
    CurrentOrMarked
    OnlyNullLoses
PROPERTY ListCallsEnd
