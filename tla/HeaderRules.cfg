SPECIFICATION Spec
CONSTANTS
    Nil = Nil
    Texts <- MCTexts
    Files <- MCFiles
    Settings <- MCSettings
    Requests <- MCRequests
    Upstream <- MCUpstream
INVARIANTS
    TypeOK ConfigFileIsRefused RulesOfTheServedFile OperationsInOrder EveryRuleInFileOrder
    NarrowestRuleWins ValuesKeepTheirShape
