CONSTANTS
    ch1 = ch1
    ch2 = ch2
    Change = {ch1, ch2}
    Probe = Probe
    Price = {500, 600}
    MaxClock = 2
    PoolMax = 2
SPECIFICATION FairServiceSpec
INVARIANTS
    PeriodsAbut
    MirrorShowsOpenPrice
    ConnectionsAccounted
    AnswerTellsOutcome
PROPERTIES
    HistoryAppendOnly
    StopsCleanly
    EveryRequestEnds
    ShutdownEnds
CHECK_DEADLOCK FALSE
