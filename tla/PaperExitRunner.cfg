\* The runner after T1, which the documents let run to T2 and T3.
SPECIFICATION Spec
CONSTANTS
    w = w
    m = m
    Worker    = w
    Requests <- MCRequests
    Sides     = {"long"}
    Qtys      = {10}
    Charts   <- MCCharts
    MaxPrints = 3
PROPERTY RunnerStoppedOnReturn
CHECK_DEADLOCK FALSE
