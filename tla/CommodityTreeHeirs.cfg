\* Counterexample: the heir of an end-dated heading is no potential parent.
SPECIFICATION Spec
CONSTANTS
    MaxCommodities = 5
    MaxIndent = 2
    Suffixes = {10, 80}
    Versions = {}
    AnyVersions = FALSE
INVARIANT
    HeirIsPotentialParent
\* the traversal ends with the list
CHECK_DEADLOCK FALSE
