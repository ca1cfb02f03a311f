SPECIFICATION Spec
CONSTANTS
    Nil = Nil
    RuleLimits = {1, 2}
    MaxFileSize = 9
    MaxLineLength = 2
    Lengths = {0, 2, 3}
    MaxLines = 3
INVARIANT OnlyPatternsEndRules
CHECK_DEADLOCK FALSE
