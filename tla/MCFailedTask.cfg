\* The chat alone. No deadlock check: programs end.
SPECIFICATION ChatSpec
CHECK_DEADLOCK FALSE
INVARIANT FailedTasksStop
