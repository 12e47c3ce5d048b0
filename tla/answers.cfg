\* Documents, replayed step-ups, messages, drafts and the rows of the app, to their end.
SPECIFICATION FairSpec
PROPERTY EveryoneIsAnswered
CHECK_DEADLOCK FALSE
