\* A worker and one request over every session of three more prints.
SPECIFICATION Spec
CONSTANTS
    w = w
    m = m
    Worker    = w
    Requests <- MCRequests
    Sides     = {"long", "short"}
    Qtys      = {1, 10}
    Charts   <- MCCharts
    MaxPrints = 3
INVARIANTS WalkAgreesUntilT1 BookedWasReached
PROPERTIES StopOnlyTightens
CHECK_DEADLOCK FALSE
