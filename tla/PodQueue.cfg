SPECIFICATION MCSpec
CONSTANTS
  u1 = u1
  u2 = u2
  Urls <- TwoUrls
  InitialQueue <- TwoQueued
  Ops <- Orderly
  PromptThreads = TRUE
  MaxThreads = 2
  MaxDownloads = 1
  MaxParallel = 2
  MaxLines = 3
INVARIANTS DownloadingHasThread DeletedIsForgotten QueueOnDisk ReadyInOrder ShownIsSpared
PROPERTIES KeepsQueue QueuedIsStarted
