CONSTANT DottedKeys = FALSE
CONSTANT EdgeLinks = FALSE
SPECIFICATION Spec
CHECK_DEADLOCK FALSE
INVARIANTS BrowsedOnce IndexIsExact SearchFindsAll ListedPathsMatch RefListIsExact RefPathIsShortest BytesAreTold FieldsInOrder DiffTellsAll EditsSurvive ChaseFollowsAll OddsAreExact PackedIsRead WalkShowsAll ShownIsFound
