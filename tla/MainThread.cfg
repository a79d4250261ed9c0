SPECIFICATION MainSpec
CONSTANTS
  NFeeds = 3
  TagOf <- Tags
  Initially <- Counts
  MaxArticles <- Most
  Configs <- ThreeConfigs
  FeedList = feedlist
  Plain = {a1, a2}
  DialogLists = {d1}
  Modal = {m1}
  NoForm = none
  AskingForms = {"feeds", "items"}
  Texts = {"", "a"}
  Limit = 2
  MaxQuestions = 3
  MaxStored = 1
  Sources <- EverySource
  UrlsFiles <- SomeUrlsFiles
  Opmls <- SomeOpmls
  Answers <- SomeAnswers
  TitleOrder <- SomeTitles
  MaxNames = 5
  MaxChanges = 3
  Documents <- SomeDocuments
  MyUri <- SomeUri
  Parts = {"forms", "lists", "settings", "questions", "filters", "urls", "documents"}
CHECK_DEADLOCK FALSE
INVARIANTS FeedsAreCurrent OrdinaryDumpIsReusable GroupedAsWritten NameLeadsToFeed OrderMakesNoDifference
PROPERTIES
  NextUnreadFindsOne GoesBack
  ActsOnWhatIsShown IsOpenDialogs
  AnswersBelongToQuestion HistoryIsKept ImportKeepsPlainSubscriptions
