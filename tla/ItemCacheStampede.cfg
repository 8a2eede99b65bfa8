\* What the stampede protection promises, with the lock's own time-out.
SPECIFICATION Spec
CONSTANTS
    Readers = {r1, r2}
    Writers = {w1}
    Keys = {k1}
    Polls = 1
    BatchSize = 1
    MaxVersion = 1
    MaxLate = 0
SYMMETRY Symmetry
INVARIANTS
    OneWinner
