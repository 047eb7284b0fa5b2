SPECIFICATION Spec
CONSTANTS
    Writers = {"any"}
    Requests <- MCOneWriter
    Initial <- MCInitial
    Starts <- MCStarts
    BadEscape = "%"
    Inodes = {1, 2, 3, 4}
    NoFile = NoFile
INVARIANTS
    ConfigPrecise
    CopySurvives
    KeyNeedsMode
    SuccessMeansDone
