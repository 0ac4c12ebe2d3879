\* One login and two requests of one user.
CONSTANTS
    Users = {u1}
    Logins = {g1}
    Requests = {r1, r2}
    Events = {}
SPECIFICATION SessionsSpec
INVARIANTS TouchOnlyUpdates
CHECK_DEADLOCK FALSE
