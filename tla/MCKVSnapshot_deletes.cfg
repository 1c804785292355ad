SPECIFICATION Spec
CONSTANTS
    Keys = {k1, k2}
    Values = {v1, v2}
    NoValue = NoValue
    Entries <- AllCommands
INVARIANT OnlyForgottenKeysDiffer
