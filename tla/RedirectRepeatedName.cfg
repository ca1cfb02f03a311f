SPECIFICATION Spec
CONSTANTS
    Nil = Nil
    Texts <- MCRepeats
    Files <- MCRepeatFiles
    Requests <- MCRequests
INVARIANT LaterSegmentWins
