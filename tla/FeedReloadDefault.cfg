SPECIFICATION LiveSpec
CONSTANTS
  u1 = u1 u2 = u2 u3 = u3
  Urls <- AllUrls
  InitialUrls <- TwoUrls
  UrlFiles <- NoFiles
  Downloaders = {d1, d2}
  ReloadThreads = 2
  SortByKey = FALSE
  OnlyVisible = FALSE
  UiOps = {"open", "reload"}
  UI = UI Nobody = Nobody
  MaxObj = 4
INVARIANTS OneFeedPerUrl ListedFeedsHaveArticles ReloadsWhatWasAsked ReloadAllReachesAll
PROPERTIES IsSubscriptions ReloadAllEnds
