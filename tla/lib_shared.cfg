SPECIFICATION Spec
CONSTANTS
    Clients = {c1, c2}
    Passwords = {p1}
    NoPassword = NoPassword
    UserKeys = {deviceKey}
    DeviceKeys = {deviceKey}
    JunkKey = JunkKey
    NoKey = NoKey
    KeyNames = {NoName}
    NoName = NoName
    Labels = {NoLabel}
    NoLabel = NoLabel
    MultiKeyCap = 1
    MaxRetry = 2
    MaxFds = 1
    Null = Null
    KeyNumbers <- MCKeyNumbers
    IntKeyNumbers <- MCKeyNumbers
    KeySizes <- MCKeySizes
SYMMETRY Symmetry
VIEW View
CONSTRAINT OnlyInterleaving
INVARIANT FreshMeansCurrent
PROPERTIES
    OwnVerdict
    PassIsApplied
    KeepsPromise
