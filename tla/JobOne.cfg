\* One job, one kill and one user edit, with everything that can happen around them.
CONSTANTS
    Jobs = {j1}
    Workers = {w1}
    NoWorker = NoWorker
    MisKeyed = {}
    Kills = {k1}
    Edits = {e1}
    Events = {"break", "refuse", "login", "prep", "crash", "restart", "mgrcrash", "delete", "reconf"}
SPECIFICATION Spec
INVARIANTS TypeOK StatusJustified RunningIsListed RanJobsLeaveTheList
PROPERTIES ReportsInOrder LastWordStays ImplementsLifecycle
CHECK_DEADLOCK FALSE
