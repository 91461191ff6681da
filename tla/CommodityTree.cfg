\* Lists of up to five goods, in any order of indents and suffixes; the
\* second and the third may come in several versions.
SPECIFICATION Spec
CONSTANTS
    MaxCommodities = 5
    MaxIndent = 3
    Suffixes = {10, 20, 80}
    Versions = {2, 3}
    AnyVersions = FALSE
INVARIANTS
    TreeOfTheList
    ClimbNeverReturns
\* the traversal ends with the list
CHECK_DEADLOCK FALSE
