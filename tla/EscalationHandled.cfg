\* One user at a time, the snooze sweep and the pipeline.
SPECIFICATION Spec
CONSTANTS
    User = {u1}
    Sweep = sweep
    Pipeline = pipeline
    Runner = {r1}
    Delay <- TwoSteps
    RepeatMax = 1
    RepeatAfter = 1
    Interval = 1
    Snoozes = {1}
    Operations <- AllOperations
    MaxTime = 2
    MaxOps = 2
    MaxReminders = 3
    NULL = NULL
INVARIANTS TypeOK PagedOnce RungsResumed SpacingKept AckStopsPaging
PROPERTIES RemindersPaced
CHECK_DEADLOCK FALSE
