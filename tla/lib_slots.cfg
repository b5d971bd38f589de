SPECIFICATION Spec
CONSTANTS
    Clients = {c1}
    Passwords = {p1}
    NoPassword = NoPassword
    UserKeys = {deviceKey}
    DeviceKeys = {deviceKey}
    JunkKey = JunkKey
    NoKey = NoKey
    KeyNames = {n1}
    NoName = NoName
    Labels = {NoLabel}
    NoLabel = NoLabel
    MultiKeyCap = 2
    MaxRetry = 2
    MaxFds = 1
    Null = Null
    KeyNumbers <- MCKeyNumbers
    IntKeyNumbers <- MCIntKeyNumbers
    KeySizes <- MCKeySizes
VIEW View
CONSTRAINT OnlyInterleaving
PROPERTIES
    PassIsApplied
    NameKept
