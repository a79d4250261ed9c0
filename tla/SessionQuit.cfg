SPECIFICATION MCLiveSpec
CONSTANTS
  Parts = {"processes"}
  p1 = p1 p2 = p2 p3 = p3
  Procs = {p1, p2}
  Gone = Gone
  Modes = {"view"}
  Configs = {"plain"}
  Signals = {}
  a1 = a1 a2 = a2 m1 = m1
  Articles = {a1, a2} PageOf <- PageOfArticle Pages = 2 Markers = {m1}
  Kinds = {"ttrss", "newsblur", "ocnews", "oldreader"}
  Touched <- TouchedArticles
  Main = main
  Reloader = reloader
  d1 = d1 d2 = d2 UiThread = ui Downloaders = {d1, d2} Ranger = ranger Nobody = nobody
PROPERTIES QuitEnds
CHECK_DEADLOCK FALSE
