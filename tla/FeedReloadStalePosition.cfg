SPECIFICATION Spec
CONSTANTS
  u1 = u1 u2 = u2 u3 = u3
  Urls <- AllUrls
  InitialUrls <- ThreeUrls
  UrlFiles <- NoFiles
  Downloaders = {d1}
  ReloadThreads = 1
  SortByKey = TRUE
  OnlyVisible = FALSE
  UiOps = {"reload"}
  UI = UI Nobody = Nobody
  MaxObj = 5
INVARIANT OneFeedPerUrl
