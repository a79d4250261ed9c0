----------------------------- MODULE MCServices -----------------------------
(* Values for the constants of Services: the page of each article, and what  *)
(* is done with it.                                                          *)
EXTENDS TLC

CONSTANTS a1, a2

PageOfArticle == [k \in {"ttrss", "newsblur", "ocnews", "oldreader"} |->
                   IF k = "newsblur" THEN (a1 :> 1) @@ (a2 :> 2) ELSE (a1 :> 1) @@ (a2 :> 1)]
TouchedArticles == [k \in {"ttrss", "newsblur", "ocnews", "oldreader"} |->
  CASE k = "ttrss" -> [read |-> {a1}, delete |-> {}, here |-> {}, flags |-> {}, elsewhere |-> {}, older |-> {}]
    [] k = "oldreader" -> [read |-> {a1}, delete |-> {}, here |-> {}, flags |-> {}, elsewhere |-> {}, older |-> {}]
    [] k = "newsblur" -> [read |-> {a1}, delete |-> {a2}, here |-> {a1}, flags |-> {a1}, elsewhere |-> {a2}, older |-> {a2}]
    [] OTHER -> [read |-> {a1}, delete |-> {a2}, here |-> {a1}, flags |-> {a1}, elsewhere |-> {a2}, older |-> {}]]
=============================================================================
