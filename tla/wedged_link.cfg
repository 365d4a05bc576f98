SPECIFICATION Spec
CONSTANTS
    Configs <- MCConfigs
    Mac = {"m1"}
    ByteMod = 4
    DialTries = 1
    MaxLinks = 1
INVARIANTS
    SignalDisconnects
