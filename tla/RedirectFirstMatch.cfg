SPECIFICATION Spec
CONSTANTS
    Nil = Nil
    Texts <- MCTexts
    Files <- MCFiles
    Requests <- MCRequests
INVARIANTS
    TypeOK FirstMatchWins AnswerReadsAsThePath CapturesRebuildThePath
    DestinationKeepsItsShape
