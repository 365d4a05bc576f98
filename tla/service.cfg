SPECIFICATION FairSpec
CONSTANTS
    Configs <- MCConfigs
    Mac = {"m1", "m2", "m3"}
    ByteMod = 4
    DialTries = 2
    MaxLinks = 2
INVARIANTS
    Routed
PROPERTIES
    SignalEnds
    LinksReleased
    CallersServed
