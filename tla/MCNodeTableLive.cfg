SPECIFICATION FairSpec
CONSTANTS
    e1 = e1
    e2 = e2
    h1 = h1
    h2 = h2
    MaxNodes = 2
    Shorts = {s1, s2}
    NoShort = NoShort
    Ieees = {e1}
    NoIeee = NoIeee
    Halves = {h1, h2}
    Blank = Blank
    IdOf <- MCIdOf
    ClockMod = 5
    Timeout = 1
    PubPeriod = 1
    HbDelay = 1
    HbMax = 1
PROPERTIES
    SilentGoesOffline
