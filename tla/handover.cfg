\* Two processes, a break of the lease, a failed sync: what is left is made good.
CONSTANTS
    Process = {p1, p2}
    StepUp = {d1}
    MaxBreaks = 1
    MaxCrashes = 0
    MaxFaults = 0
SPECIFICATION WholeFair
PROPERTY HandedOver
CHECK_DEADLOCK FALSE
