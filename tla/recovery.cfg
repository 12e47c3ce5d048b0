\* A run with a failed call, a policy that changes and a crash: rows and documents catch up.
SPECIFICATION FairSpec
PROPERTY RowsCatchUp
CHECK_DEADLOCK FALSE
