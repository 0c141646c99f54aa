SPECIFICATION CSpec
CONSTANTS
    e1 = e1
    e2 = e2
    h1 = h1
    h2 = h2
    MaxNodes = 2
    Shorts = {s1, s2}
    NoShort = NoShort
    Ieees = {e1, e2}
    NoIeee = NoIeee
    Halves = {h1, h2}
    Blank = Blank
    IdOf <- MCIdOf
    ClockMod = 8
    Timeout = 2
    PubPeriod = 2
    HbDelay = 1
    HbMax = 2
CONSTRAINT ClockStopped
INVARIANTS
    CurrentRoute
