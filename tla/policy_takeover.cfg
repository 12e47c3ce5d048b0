\* A process that stood by takes the lease with the policies of its start.
CONSTANTS
    Procs = {p, q}
    Cards = {c1}
    Runs = {r1}
    MaxMandates = 1
    MaxTMs = 1
    MaxFailures = 1
    Forced = FALSE
    Nothing = nothing
    NoPolicy = nopolicy
SPECIFICATION Spec
INVARIANT RevokeStopsEverything
CHECK_DEADLOCK FALSE
