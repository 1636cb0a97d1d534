SPECIFICATION FlightSpec
CONSTANTS
    Job = "batch"
    Launchers = {l1, l2}
    Threads = {t1, t2}
    Loops = {}
    MaxReboots = 0
    MaxErrors = 0
INVARIANT OneAtATime
CHECK_DEADLOCK FALSE
