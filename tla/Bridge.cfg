SPECIFICATION Spec
CONSTANT MaxIn = 3
INVARIANTS
    TypeOK
    RefsCountUsers
    HandlesOnce
    EndReleasesAll
    LineFeedsTranslated
PROPERTY ShellEndReleases
CHECK_DEADLOCK FALSE
