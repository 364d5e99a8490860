\* The kernel and one new task.
CONSTANT MaxTasks = 2
SPECIFICATION Spec
PROPERTY StartsAtEntry
\* The model ends when the registers are not the task's own.
CHECK_DEADLOCK FALSE
