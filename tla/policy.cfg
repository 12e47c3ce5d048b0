\* Two cards, one run and one failure; two runs; drafts, previews and meters.
CONSTANTS
    Procs = {p}
    Cards = {c1, c2}
    Runs = {r1, r2}
    MaxMandates = 2
    MaxTMs = 2
    MaxFailures = 1
    Forced = TRUE
    Nothing = nothing
    NoPolicy = nopolicy
    Instructions <- SomeInstructions
    Histories <- NoOneOrTwoPrices
    Values <- TwoAndFive
    Days <- NoneOrAWeek
    Kinds <- MoreKinds
    MaxRules = 2
    Forms <- SomeForms
    Prices <- UpToTwelve
    Drafts <- SomeDrafts
    FormDrafts <- SomeFormDrafts
    MeteredDrafts <- SomeMeteredDrafts
    Shops <- OldAndNew
    Charges <- OneAndThree
    PreviewDays = 3
    MaxGap = 2
    MaxPast = 3
SYMMETRY Alike
SPECIFICATION WholeSpec
INVARIANTS  RevokedStaysRevoked RevokeStopsHere RunsFollowTheRows  PreviewsKeepTheirWord
CHECK_DEADLOCK FALSE
