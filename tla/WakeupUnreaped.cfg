SPECIFICATION FairSpec
CONSTANT PollErrors = FALSE
PROPERTY DrawnRegardless
