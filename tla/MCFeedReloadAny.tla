-------------------------- MODULE MCFeedReloadAny --------------------------
(* Feeds with a sort order other than the default one, in three parts:       *)
(*   any     everything goes on at once, also a reread of the urls file: the *)
(*           instance that the configuration gives to FeedReload (which     *)
(*           leaves out the article list, and a sort without a reread);      *)
(*   alone   nothing but a background reload, with a range thread, reloads;  *)
(*   quiet   no background reload, and the main thread does what it wants.   *)
EXTENDS FeedReload

CONSTANTS u1, u2, u3, d1

VARIABLE part

AllUrls == {u1, u2, u3}
TwoUrls == <<u1, u2>>
OtherFile == {<<u3>>}

Alone == INSTANCE FeedReload
           WITH InitialUrls <- <<u1, u2, u3>>, UrlFiles <- {}, ReloadThreads <- 2,
                OnlyVisible <- FALSE, UiOps <- {"open"}, MaxObj <- 5
Quiet == INSTANCE FeedReload
           WITH UrlFiles <- {<<u2, u1>>, <<u3>>}, Downloaders <- {}, OnlyVisible <- FALSE,
                UiOps <- {"open", "reload", "sort", "urls"}, MaxObj <- 5

MCInit == \/ part = "any" /\ Init
          \/ part = "alone" /\ Alone!Init
          \/ part = "quiet" /\ Quiet!Init
MCNext == \/ part = "any" /\ Next /\ UNCHANGED part
          \/ part = "alone" /\ Alone!Next /\ UNCHANGED part
          \/ part = "quiet" /\ Quiet!Next /\ UNCHANGED part
MCSpec == MCInit /\ [][MCNext]_<<part, vars>>

-----------------------------------------------------------------------------
\* As long as the background reload and the main thread do not both reload, the
\* vector is the list of Subscriptions in spite of the sorting: no feed is lost
\* or there twice (controller::reload, reload_urls_file, sort_feeds).
SeparateList == IF part = "any" THEN <<>> ELSE Listed
Separate == INSTANCE Subscriptions WITH list <- SeparateList
KeepsSubscriptions == Separate!Spec
=============================================================================
