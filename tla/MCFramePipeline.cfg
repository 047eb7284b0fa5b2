SPECIFICATION FairSpec
CONSTANTS
    f1 = f1
    f2 = f2
    jpeg = jpeg
    alaw = alaw
    v1 = v1
    v2 = v2
    a1 = a1
    Frames = {f1, f2}
    HeapSlots = 2
    Encoders = {jpeg, alaw}
    Slots <- MCSlots
    Dests = {v1, v2, a1}
    Source <- MCSource
    Loop = Loop
    NoFrame = NoFrame
INVARIANTS
    TypeOK
    HeapMutexReleased
    NoLostFrame
    FramesOwned
PROPERTIES
    ImplementsChannel
    FramesReturn
