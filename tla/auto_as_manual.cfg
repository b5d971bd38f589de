SPECIFICATION CliSpec
CONSTANTS
    Clients = {c1}
    Passwords = {owner, guess}
    Owner = owner
    Guess = guess
    NoPassword = NoPassword
    UserKeys = {userKey}
    DeviceKeys = {deviceKey}
    JunkKey = JunkKey
    NoKey = NoKey
    KeyNames = {n1}
    NoName = NoName
    Labels = {NoLabel}
    NoLabel = NoLabel
    MultiKeyCap = 1
    MaxRetry = 2
    MaxFds = 1
    Null = Null
    KeyNumbers <- MCKeyNumbers
    IntKeyNumbers <- MCIntKeyNumbers
    KeySizes <- MCKeySizes
    Unset = Unset
    CommandLines <- MCCommandLines
PROPERTY AutoAsManual
