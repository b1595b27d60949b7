\* The pool ends and stays; nothing is left to do.
CONSTANTS
    Manifest <- MCManifest
    Concurrency = 2
    MaxStalls = 2
    Tasks = 1
    Crumbs = {"blank", "crumb", "done"}
    MaxMishaps = 1
SPECIFICATION Spec
CHECK_DEADLOCK FALSE
INVARIANTS TypeOK LiveLoopsHoldSlots ReviewIsOfFinishedWork
PROPERTIES HaltIsEarned EveryTribeIsSettled
