\* A script that writes more to stderr than its pipe holds.
CONSTANTS
    MaxOut = 2
    MaxErr = 2
    OutCap = 1
    ErrCap = 1
    Newlines = {2}
    Events = {}
SPECIFICATION OutputScriptSpec
PROPERTIES StderrIsRead
CHECK_DEADLOCK FALSE
