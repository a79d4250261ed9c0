SPECIFICATION MCSpec
CONSTANTS
  Guids <- TwoArticles
  MaxVersion = 2
  MaxAge = 1
  MaxItems = 1
  ResetUnread = TRUE
  AutoEnqueue = TRUE
  DeleteReadOnQuit = TRUE
  UserOps = {"delete", "toggle", "quit"}
INVARIANTS DeletedStaysDeleted ListMatchesCache NothingSkipped
PROPERTIES ReadStaysRead EnqueuedOnce FlaggedStays
