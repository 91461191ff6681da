\* Counterexample: a chapter loaded in two versions is its own parent.
SPECIFICATION Spec
CONSTANTS
    MaxCommodities = 2
    MaxIndent = 2
    Suffixes = {10, 80}
    Versions = {1}
    AnyVersions = TRUE
INVARIANT
    ClimbNeverReturns
\* the traversal ends with the list
CHECK_DEADLOCK FALSE
