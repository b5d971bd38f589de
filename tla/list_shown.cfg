SPECIFICATION Spec
CONSTANTS
    Names = {n1, n2}
    Devices = {d1, d2, d3}
    Known = {d1, d2}
    MaxEntries = 2
    MaxFds = 1
    Absent = Absent
    Free = Free
    Null = Null
INVARIANT DevicesAreShown
