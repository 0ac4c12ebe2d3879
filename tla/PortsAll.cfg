\* Two calls and one port; the source is installed twice.
CONSTANTS
    Calls = {c1, c2}
    NoCall = NoCall
    NPorts = 1
    MaxSource = 2
    Events = {"slow", "die", "body", "dbfail", "source"}
SPECIFICATION PortsFairSpec
INVARIANTS OwnPlugin TokenOutlivesPlugin
PROPERTIES NoOldFile  ImplementsPool
CHECK_DEADLOCK FALSE
