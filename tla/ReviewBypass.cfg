SPECIFICATION WorkflowSpec
CONSTANT Tasks = {t1}
INVARIANT DoneTasksAreReviewed
CHECK_DEADLOCK FALSE
