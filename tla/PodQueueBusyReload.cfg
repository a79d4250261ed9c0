SPECIFICATION MCSpec
CONSTANTS
  u1 = u1
  u2 = u2
  Urls <- TwoUrls
  InitialQueue <- TwoQueued
  Ops <- NoCancel
  PromptThreads = FALSE
  MaxThreads = 2
  MaxDownloads = 1
  MaxParallel = 1
  MaxLines = 2
INVARIANTS NoReloadWhileDownloading
CHECK_DEADLOCK FALSE
