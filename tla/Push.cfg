\* Three logins and two events on connections that break and tokens that are too old.
CONSTANTS
    MaxRuns = 3
    MaxEvents = 2
    Env = {"drop", "refuse"}
SPECIFICATION FairSpec
CHECK_DEADLOCK FALSE
INVARIANTS TypeOK NothingLost QueueIsWritten NewestInTable EndedLeavesTable
PROPERTIES ImplementsStream LoginConnects EventHandled
