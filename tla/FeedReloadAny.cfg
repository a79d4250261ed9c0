SPECIFICATION MCSpec
CONSTANTS
  u1 = u1 u2 = u2 u3 = u3
  d1 = d1
  Urls <- AllUrls
  InitialUrls <- TwoUrls
  UrlFiles <- OtherFile
  Downloaders = {d1}
  ReloadThreads = 1
  SortByKey = TRUE
  OnlyVisible = TRUE
  UiOps = {"reload", "urls"}
  UI = UI Nobody = Nobody
  MaxObj = 4
CHECK_DEADLOCK FALSE
INVARIANTS ScreenIsCurrent DownloadingHasThread
PROPERTY KeepsSubscriptions
