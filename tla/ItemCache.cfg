\* One page (pages do not touch each other), two writers, one late command at a time.
SPECIFICATION FairSpec
CONSTANTS
    Readers = {r1, r2}
    Writers = {w1, w2}
    Keys = {k1}
    Polls = 2
    BatchSize = 1
    MaxVersion = 1
    MaxLate = 1
INVARIANTS
    TypeOK
    OneWinnerUnlessOutlived
    VersionsOrdered
PROPERTIES
    ImplementsRegister
    EveryReadAnswered
    EventuallyFresh
