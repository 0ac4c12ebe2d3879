\* Two workers that log in as one user, with two handlers and one.
CONSTANTS
    wm = wm
    wx = wx
    tm = tm
    tn = tn
    tx = tx
    um = um
    Users = {um}
    Logins <- Calls
    Requests <- Calls
    Events = {"expire", "password"}
    Workers = {wm, wx}
    Account <- OneAccount
    Threads = {tm, tn, tx}
    Home <- MostOnOne
    NoGuid = NoGuid
SPECIFICATION WorkerLoginFairSpec
INVARIANTS LostNeedsRival
PROPERTIES ThreadsEnd
CHECK_DEADLOCK FALSE
