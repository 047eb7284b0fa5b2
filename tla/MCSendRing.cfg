SPECIFICATION FairSpec
CONSTANTS
    Size = 5
    HeadLen = 1
    Bodies = {1, 2}
    Headers = {2}
    Window = 3
    Marks = 2
INVARIANTS
    TypeOK
    RingHoldsQueue
    WriteEventArmed
PROPERTIES
    QueueDrains
    DropHappens
