\* Two purchases through one loop, one engine thread and one lock.
CONSTANTS
    Auth = {a1, a2}
    NoAuth = noauth
    MaxFaults = 1
    MaxCrashes = 0
SPECIFICATION Spec
INVARIANT AcceptedMatchesLedger
