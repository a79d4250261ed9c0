----------------------------- MODULE MCArticles -----------------------------
(* Two articles of one feed, in two parts:                                   *)
(*   any     reading, toggling and deleting while reloads enqueue podcasts   *)
(*           and reset what was read, and the end of the program; the        *)
(*           document lists the oldest article first, so that max-items      *)
(*           keeps another one when it is stored than when it is loaded;     *)
(*   limits  three versions of the document, in any order, and flags, under  *)
(*           max-items and keep-articles-days.                               *)
EXTENDS Articles

TwoArticles == 1 .. 2

VARIABLE part

Limits == INSTANCE Articles
            WITH MaxVersion <- 3, ResetUnread <- FALSE, AutoEnqueue <- FALSE, DeleteReadOnQuit <- FALSE,
                 UserOps <- {"flags"}

OldestFirst == \A g, h \in doc.items : g < h => doc.place[g] < doc.place[h]

MCInit == \/ part = "any" /\ Init /\ OldestFirst
          \/ part = "limits" /\ Limits!Init
MCNext == \/ part = "any" /\ Next /\ OldestFirst' /\ UNCHANGED part
          \/ part = "limits" /\ Limits!Next /\ UNCHANGED part
MCSpec == MCInit /\ [][MCNext]_<<part, vars>>
=============================================================================
