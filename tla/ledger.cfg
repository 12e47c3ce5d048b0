\* Money and memory together: three purchases on two cards and in two runs.
CONSTANTS
    Purchase = {p1, p2, p3}
    Unseen = Unseen
    Facts <- AllFacts
    Setting = "ask"
    Limit = 100
    LimitDays = 2
    MaxOrders = 2
    CountDays = 2
    OrderLimit = 70
    SingleItem = TRUE
    OldDevices = {"phone"}
    DuplicateWindow = 2
    SplitWindow = 1
SPECIFICATION Spec
SYMMETRY Symmetry
INVARIANTS MoneyFollowsAnswers ApprovalsFitTheWindow 
INVARIANTS RepeatsAreAsked ItemBoughtOnce DoubtsNeedAYes WatchHolds
PROPERTY DecidedForGood
CHECK_DEADLOCK FALSE
