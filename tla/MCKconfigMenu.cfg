SPECIFICATION Spec
INVARIANTS TreeInSourceOrder VisibleAsWritten SelectedAsWritten ShownUnderShown CycleReported
CHECK_DEADLOCK FALSE
