\* Counterexample: a good whose indent skips a level is its own ancestor.
SPECIFICATION Spec
CONSTANTS
    MaxCommodities = 2
    MaxIndent = 2
    Suffixes = {10, 80}
    Versions = {}
    AnyVersions = FALSE
INVARIANT
    NobodyAboveItself
\* the traversal ends with the list
CHECK_DEADLOCK FALSE
