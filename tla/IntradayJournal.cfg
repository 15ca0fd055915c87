\* One request and one sweep at a time, which overlap each other; two sessions.
SPECIFICATION Spec
CONSTANTS
    u = u
    w = w
    Users  <- MCUsers
    Worker  = w
    Rows    = {1, 2}
    LastDay = 1
    Sides   = {"long", "short"}
    Entries = {3, 4}
    Stops   = {2, 3, 4, 5}
INVARIANTS StopIsProtective SecondRowIsUndone
PROPERTIES OvernightIsFlattened MovedStopTightens
CHECK_DEADLOCK FALSE
