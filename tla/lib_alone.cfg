SPECIFICATION FairSpec
CONSTANTS
    Clients = {c1}
    Passwords = {p1, p2}
    NoPassword = NoPassword
    UserKeys = {userKey}
    DeviceKeys = {deviceKey}
    JunkKey = JunkKey
    NoKey = NoKey
    KeyNames = {n1}
    NoName = NoName
    Labels = {l1}
    NoLabel = NoLabel
    MultiKeyCap = 1
    MaxRetry = 2
    MaxFds = 1
    Null = Null
    KeyNumbers <- MCKeyNumbers
    IntKeyNumbers <- MCIntKeyNumbers
    KeySizes <- MCKeySizes
VIEW View
INVARIANTS
    TypeOK
    FreshMeansCurrent
    StatusStillMine
PROPERTIES
    OwnVerdict
    PassIsApplied
    StateErrorIsTrue
    RandomKeyDelivered
    EveryLeakIsReported
    KeepsPromise
    CallReturns
