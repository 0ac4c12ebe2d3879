\* Two jobs, two workers of which one has another key, a kill; every job settles.
CONSTANTS
    Jobs = {j1, j2}
    Workers = {w1, w2}
    NoWorker = NoWorker
    MisKeyed = {w2}
    Kills = {k1}
    Edits = {}
    Events = {"login", "prep"}
SPECIFICATION FairSpec
PROPERTIES JobSettles CancelledJobsLeave
CHECK_DEADLOCK FALSE
