SPECIFICATION Spec
CONSTANTS
    Timers = {t1}
    FdEvents = {e1, e2, e3}
    Fds = {fd1, fd2}
    Ival = 2
    MaxLate = 1
    NoEvent = NoEvent
SYMMETRY FdSymmetry
INVARIANTS
    TypeOK
    ListsSound
    PassServesReady
PROPERTIES
    OnlyLiveCalled
