\* One purchase, every failure: two faults and a crash anywhere in its life.
CONSTANTS
    Auth = {a1}
    NoAuth = noauth
    MaxFaults = 2
    MaxCrashes = 1
SPECIFICATION FairSpec
INVARIANTS TypeOK NoStaleClose NothingCountedUnapproved TeamApprovalRecorded
INVARIANTS CustomerApprovalKept OneResolvePerProcess
PROPERTIES PurchaseKept EverythingEnds
