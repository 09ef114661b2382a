CONSTANT DottedKeys = TRUE
CONSTANT EdgeLinks = FALSE
SPECIFICATION Spec
CHECK_DEADLOCK FALSE
INVARIANTS ListedPathsMatch
