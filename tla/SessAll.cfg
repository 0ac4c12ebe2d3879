\* Three logins and a request of two users, an admin, expiry.
CONSTANTS
    Users = {u1, u2}
    Logins = {g1, g2, g3}
    Requests = {r1}
    Events = {"expire", "password", "admin"}
SPECIFICATION SessionsFairSpec
INVARIANTS OneSession
PROPERTIES ClosedForGood LoginsEnd
CHECK_DEADLOCK FALSE
