SPECIFICATION PacketsSpec
CONSTANTS
    MaxData = 7
    Main = 2
    Restart = 1
    Tables = 2
    Align = 2
    Lengths <- MCLengths
    Images <- MCImages
    SeqCount = 8
INVARIANTS
    WithinMaximum
