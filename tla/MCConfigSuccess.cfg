SPECIFICATION Spec
CONSTANTS
    Writers = {"rest", "cgi"}
    Requests <- MCTwoWriters
    Initial <- MCInitial
    Starts <- MCStarts
    BadEscape = "%"
    Inodes = {1, 2, 3, 4, 5, 6}
    NoFile = NoFile
INVARIANTS
    SuccessMeansStored
