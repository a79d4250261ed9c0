------------------------------- MODULE Lists -------------------------------
(* Going through feeds and articles: the cursors of the feed list and of one *)
(* article list, the lists with their filters, and the article that is shown *)
(* (feedlist_formaction, itemlist_formaction, itemview_formaction,           *)
(* view::get_next_unread and its like, view::run). A key is an action: the   *)
(* operation, then prepare() and the drawing of the form that is on top. The *)
(* order of the feeds is fixed, the newest article comes first. Left out:    *)
(* query feeds, search results, hidden feeds, filters other than the ones    *)
(* for unread, and what the Articles module has (deleting, toggling, flags). *)
EXTENDS Integers, Sequences, FiniteSetsExt, Functions

CONSTANTS
  NFeeds,      \* feeds are 1..NFeeds, in their order
  TagOf,       \* per feed its tag
  Initially,   \* per feed the number of articles at the start
  MaxArticles, \* per feed a bound on the number of its articles
  Configs      \* configurations: next_feed, first_unread, hover, jump: BOOLEAN

Feeds == 1 .. NFeeds
Articles == UNION {{f} \X (1 .. MaxArticles[f]) : f \in Feeds}
NoFeed == 0
NoPos == -1
NoArticle == <<0, 0>>

ASSUME ListsAssumption ==
  /\ NFeeds \in Nat \ {0}
  /\ MaxArticles \in [Feeds -> Nat] /\ Initially \in [Feeds -> Nat]
  /\ \A f \in Feeds : Initially[f] <= MaxArticles[f]
  /\ \A c \in Configs : c \in [{"next_feed", "first_unread", "hover", "jump"} -> BOOLEAN]

VARIABLES
  cfg,    \* goto-next-feed, goto-first-unread, mark-as-read-on-hover,
          \* markfeedread-jumps-to-next-unread
  count,  \* per feed the number of its articles
  unread, \* unread articles
  ui      \* what the main thread has, a record:
          \*   screen: which form is on top; beyond: a vector was read beyond its end
          \*   show_feeds, show_items: show-read-feeds, show-read-articles
          \*   the feed list: tag, feed_filter, feeds (visible_feeds), feedpos,
          \*     named (the feed that the cursor was drawn on), redraw, zero_feedpos,
          \*     feed_kept (filterpos)
          \*   the article list: feed, item_filter, items (visible_items), itempos,
          \*     stale (invalidated), old_itempos, item_kept (filterpos)
          \*   article: the one that is shown; replaced: history, the list under it
          \*     was replaced by a reload since

vars == <<cfg, count, unread, ui>>

HasUnread(f, ur) == \E a \in ur : a[1] = f
ArticlesOf(f) == [k \in 1 .. count[f] |-> <<f, count[f] + 1 - k>>]

\* The elements of seq that are in S, in their order.
Filtered(seq, S) ==
  LET pick[n \in 0 .. Len(seq)] ==
        IF n = 0 THEN <<>> ELSE IF seq[n] \in S THEN Append(pick[n - 1], seq[n]) ELSE pick[n - 1]
  IN  pick[Len(seq)]

\* feedlist_formaction::update_visible_feeds
VisibleFeeds(u, ur) ==
  Filtered([f \in Feeds |-> f],
           {f \in Feeds : (u.tag = "" \/ TagOf[f] = u.tag) /\ (u.feed_filter => HasUnread(f, ur))})
\* itemlist_formaction::do_update_visible_items, with the articles of a feed
VisibleItems(u, all, ur) == IF u.item_filter THEN Filtered(all, ur) ELSE all

-----------------------------------------------------------------------------
(* Looking for a line. Positions are counted from 0.                         *)
FeedHits(u, ur) == {i \in 0 .. Len(u.feeds) - 1 : HasUnread(u.feeds[i + 1], ur)}
ItemHits(u, ur) == {i \in 0 .. Len(u.items) - 1 : u.items[i + 1] \in ur}
FirstOf(hits) == IF hits = {} THEN NoPos ELSE Min(hits)
LastOf(hits) == IF hits = {} THEN NoPos ELSE Max(hits)

\* mutant: the search does not begin again at the top
NextOf_NoWrap(hits, start, pos) == FirstOf({i \in hits : i >= start})
\* From start to the end, then from the top to pos.
NextOf(hits, start, pos) ==
  IF \E i \in hits : i >= start THEN FirstOf({i \in hits : i >= start}) ELSE FirstOf({i \in hits : i <= pos})
PreviousOf(hits, start, pos) ==
  IF \E i \in hits : i <= start THEN LastOf({i \in hits : i <= start}) ELSE LastOf({i \in hits : i >= pos})

Beyond(u) == [u EXCEPT !.beyond = TRUE]

(* A search of the feed list: what it finds, and whether it reads beyond the *)
(* end of visible_feeds before it finds anything.                            *)
NextUnreadFeed(u, ur) ==
  LET i == NextOf(FeedHits(u, ur), u.feedpos + 1, u.feedpos)
  IN  [to |-> i, beyond |-> i = NoPos /\ u.feedpos >= Len(u.feeds)]
PreviousUnreadFeed(u, ur) ==
  [to |-> PreviousOf(FeedHits(u, ur), u.feedpos - 1, u.feedpos), beyond |-> u.feedpos > Len(u.feeds)]
NextFeed(u, ur) ==
  [to |-> IF u.feedpos + 1 < Len(u.feeds) THEN u.feedpos + 1 ELSE NoPos, beyond |-> FALSE]
PreviousFeed(u, ur) == [to |-> u.feedpos - 1, beyond |-> u.feedpos > Len(u.feeds)]

(* The searches of the article list; fresh: from the cursor on.              *)
NextUnreadItem(u, ur, fresh) == NextOf(ItemHits(u, ur), IF fresh THEN u.itempos ELSE u.itempos + 1, u.itempos)
PreviousUnreadItem(u, ur, fresh) == PreviousOf(ItemHits(u, ur), IF fresh THEN u.itempos ELSE u.itempos - 1, u.itempos)
NextItem(u, ur, fresh) ==
  LET i == IF fresh THEN u.itempos ELSE u.itempos + 1 IN IF i < Len(u.items) THEN i ELSE NoPos
PreviousItem(u, ur, fresh) == IF fresh THEN u.itempos ELSE u.itempos - 1

Ways == {"next unread", "previous unread", "next", "previous"}
FindFeed(way, u, ur) ==
  CASE way = "next unread" -> NextUnreadFeed(u, ur)
    [] way = "previous unread" -> PreviousUnreadFeed(u, ur)
    [] way = "next" -> NextFeed(u, ur)
    [] way = "previous" -> PreviousFeed(u, ur)
FindItem(way, u, ur, fresh) ==
  CASE way = "next unread" -> NextUnreadItem(u, ur, fresh)
    [] way = "previous unread" -> PreviousUnreadItem(u, ur, fresh)
    [] way = "next" -> NextItem(u, ur, fresh)
    [] way = "previous" -> PreviousItem(u, ur, fresh)

-----------------------------------------------------------------------------
(* itemlist_formaction: set_feed() and init().                               *)
Entered(u, f, ur) ==
  LET v == [u EXCEPT !.feed = f, !.item_filter = ~u.show_items, !.itempos = 0, !.stale = TRUE]
      w == [v EXCEPT !.items = VisibleItems(v, ArticlesOf(f), ur)]
      i == NextUnreadItem(w, ur, TRUE)
  IN  IF cfg.first_unread /\ i # NoPos THEN [w EXCEPT !.itempos = i] ELSE w

(* view::get_next_unread_feed and its like.                                  *)
GotoFeed(u, ur, way) ==
  LET hit == FindFeed(way, u, ur)
  IN  IF hit.beyond THEN Beyond(u)
      ELSE IF hit.to = NoPos THEN u
      ELSE Entered([u EXCEPT !.feedpos = hit.to], u.feeds[hit.to + 1], ur)

(* view::get_next_unread and its like: in the same feed, or else in the next *)
(* one; found, and where the cursors are then.                               *)
Goto(u, ur, way) ==
  LET i == FindItem(way, u, ur, FALSE)
      hit == FindFeed(way, u, ur)
      v == GotoFeed(u, ur, way)
      k == FindItem(way, v, ur, TRUE)
  IN  IF i # NoPos THEN [found |-> TRUE, ui |-> [u EXCEPT !.itempos = i]]
      ELSE IF ~cfg.next_feed THEN [found |-> FALSE, ui |-> u]
      ELSE IF hit.beyond \/ hit.to = NoPos THEN [found |-> FALSE, ui |-> v]
      ELSE [found |-> k # NoPos, ui |-> IF k = NoPos THEN v ELSE [v EXCEPT !.itempos = k]]

\* itemview_formaction: set_feed() and set_guid() with what the list is on
Opened(u) ==
  IF u.itempos < Len(u.items)
  THEN [u EXCEPT !.screen = "article", !.article = u.items[u.itempos + 1], !.replaced = FALSE]
  ELSE Beyond(u)

\* itemlist_formaction::set_redraw: the filter is the one of show-read-articles again.
Redrawn(u) == [u EXCEPT !.stale = TRUE, !.item_filter = ~u.show_items]

(* pop_current_formaction() back to the article list, recalculate_form().    *)
Closed(u) ==
  LET back == u.old_itempos # NoPos /\ u.itempos > u.old_itempos /\ ~u.show_items
  IN  [Redrawn(u) EXCEPT !.screen = "items", !.article = NoArticle, !.replaced = FALSE,
                !.itempos = IF back THEN u.old_itempos ELSE @,
                !.old_itempos = IF back THEN NoPos ELSE @]

-----------------------------------------------------------------------------
(* prepare() and the drawing, in which a cursor beyond the last line is put  *)
(* on it (the list widget of STFL).                                          *)
PositionOf(x, seq) == FirstOf({i \in 0 .. Len(seq) - 1 : seq[i + 1] = x})
OnList(pos, seq) == IF seq # <<>> /\ pos >= Len(seq) THEN Len(seq) - 1 ELSE pos

\* feedlist_formaction::set_pos
Placed(u) ==
  LET i == PositionOf(u.feed_kept, u.feeds)
  IN  [u EXCEPT !.feed_kept = NoFeed,
                !.zero_feedpos = @ /\ u.feed_kept # NoFeed,
                !.feedpos = CASE u.feed_kept # NoFeed -> (IF i = NoPos THEN 0 ELSE i)
                              [] u.feed_kept = NoFeed /\ u.zero_feedpos -> 0
                              [] OTHER -> @]

ShownFeeds(u, ur) ==
  LET v == IF u.redraw THEN Placed([u EXCEPT !.redraw = FALSE, !.feeds = VisibleFeeds(u, ur)]) ELSE u
      w == [v EXCEPT !.feedpos = OnList(@, v.feeds)]
  IN  [ui |-> [w EXCEPT !.named = IF w.feeds = <<>> THEN NoFeed ELSE w.feeds[w.feedpos + 1]], unread |-> ur]

ShownItems(u, ur) ==
  LET all == ArticlesOf(u.feed)
      v == IF u.stale THEN [u EXCEPT !.items = VisibleItems(u, all, ur)] ELSE u
      hovered == IF cfg.hover THEN {v.items[v.itempos + 1]} ELSE {}
      kept == IF u.item_kept = NoPos THEN v.itempos
              ELSE LET i == PositionOf(all[u.item_kept + 1], v.items) IN IF i = NoPos THEN 0 ELSE i
  IN  IF cfg.hover /\ v.itempos >= Len(v.items) THEN [ui |-> Beyond(v), unread |-> ur]
      ELSE [ui |-> [v EXCEPT !.stale = FALSE, !.item_kept = NoPos, !.itempos = OnList(kept, v.items)],
            unread |-> ur \ hovered]

\* One round of the loop of view::run, after an operation.
Shown(u, ur) ==
  CASE u.beyond -> [ui |-> u, unread |-> ur]
    [] ~u.beyond /\ u.screen = "feeds" -> ShownFeeds(u, ur)
    [] ~u.beyond /\ u.screen = "items" -> ShownItems(u, ur)
    [] ~u.beyond /\ u.screen = "article" -> [ui |-> u, unread |-> ur]

Show(u, ur) ==
  /\ LET shown == Shown(u, ur) IN ui' = shown.ui /\ unread' = shown.unread
  /\ UNCHANGED <<cfg, count>>
On(screen) == ui.screen = screen /\ ~ui.beyond

FirstUi == [screen |-> "feeds", beyond |-> FALSE, show_feeds |-> TRUE, show_items |-> TRUE,
            tag |-> "", feed_filter |-> FALSE, feeds |-> <<>>, feedpos |-> 0, named |-> NoFeed,
            redraw |-> TRUE, zero_feedpos |-> FALSE, feed_kept |-> NoFeed,
            feed |-> NoFeed, item_filter |-> FALSE, items |-> <<>>, itempos |-> 0, stale |-> FALSE,
            old_itempos |-> NoPos, item_kept |-> NoPos, article |-> NoArticle, replaced |-> FALSE]
Init ==
  /\ cfg \in Configs /\ count = Initially
  /\ unread \in SUBSET {a \in Articles : a[2] <= Initially[a[1]]}
  /\ \E f, i \in BOOLEAN :
       LET u == [FirstUi EXCEPT !.show_feeds = f, !.show_items = i, !.feed_filter = ~f]
       IN  ui = ShownFeeds(u, unread).ui

-----------------------------------------------------------------------------
(* The feed list.                                                            *)
\* controller::mark_all_read
Without(fs) == {a \in unread : a[1] \notin fs}

\* view::push_itemlist
OpenFeed ==
  /\ On("feeds") /\ ui.feeds # <<>> /\ ui.named # NoFeed /\ count[ui.named] > 0
  /\ Show(Entered([ui EXCEPT !.screen = "items", !.old_itempos = NoPos, !.item_kept = NoPos], ui.named, unread), unread)

\* mutant: the feed list is not drawn again
MarkFeedRead_NoRedraw ==
  /\ On("feeds") /\ ui.feeds # <<>> /\ ui.named # NoFeed
  /\ Show([ui EXCEPT !.feedpos = IF Len(ui.feeds) > ui.named /\ ~ui.feed_filter THEN ui.named ELSE @],
          Without({ui.named}))
\* The cursor goes on by the position among all feeds, not the visible ones.
MarkFeedRead ==
  /\ On("feeds") /\ ui.feeds # <<>> /\ ui.named # NoFeed
  /\ Show([ui EXCEPT !.redraw = TRUE,
                     !.feedpos = IF Len(ui.feeds) > ui.named /\ ~ui.feed_filter THEN ui.named ELSE @],
          Without({ui.named}))

MarkAllFeedsRead ==
  /\ On("feeds")
  /\ Show([ui EXCEPT !.redraw = TRUE], Without(IF ui.tag = "" THEN Feeds ELSE Range(ui.feeds)))

\* save_filterpos()
KeepFeed(u) == IF u.feedpos < Len(u.feeds) THEN [u EXCEPT !.feed_kept = u.feeds[u.feedpos + 1]] ELSE u
ToggleShowReadFeeds ==
  /\ On("feeds")
  /\ Show(KeepFeed([ui EXCEPT !.show_feeds = ~@, !.feed_filter = ui.show_feeds, !.redraw = TRUE]), unread)

SetTag == /\ On("feeds")
          /\ \E t \in {TagOf[f] : f \in Feeds} \ {""} :
               Show([ui EXCEPT !.tag = t, !.redraw = TRUE, !.zero_feedpos = TRUE], unread)
\* Also what quitting does while there is a tag.
ClearTag == /\ On("feeds") /\ Show([ui EXCEPT !.tag = "", !.redraw = TRUE, !.zero_feedpos = TRUE], unread)

MoveTo(hit) ==
  Show(IF hit.beyond THEN Beyond(ui) ELSE IF hit.to = NoPos THEN ui ELSE [ui EXCEPT !.feedpos = hit.to], unread)
MoveInFeeds ==
  /\ On("feeds")
  /\ \/ MoveTo(NextUnreadFeed(ui, unread)) \/ MoveTo(PreviousUnreadFeed(ui, unread))
     \/ MoveTo(NextFeed(ui, unread)) \/ MoveTo(PreviousFeed(ui, unread))
     \/ \E i \in FeedHits(ui, unread) : MoveTo([to |-> i, beyond |-> FALSE])

\* handle_cmdline_num
GotoFeedNumber ==
  /\ On("feeds")
  /\ \E f \in Feeds : MoveTo([to |-> PositionOf(f, ui.feeds), beyond |-> ui.feeds = <<>>])

-----------------------------------------------------------------------------
(* The article list.                                                         *)
OpenItem == On("items") /\ ui.items # <<>> /\ Show(Opened([ui EXCEPT !.old_itempos = ui.itempos]), unread)

MoveInItems ==
  /\ On("items")
  /\ \E way \in Ways : Show(Goto(ui, unread, way).ui, unread)

\* view::get_random_unread, for any choice of a feed i and of an article
RandomFeed(u, ur, i) == Entered([u EXCEPT !.feedpos = i], u.feeds[i + 1], ur)
RandomItem ==
  /\ On("items")
  /\ \/ \E i \in ItemHits(ui, unread) : Show([ui EXCEPT !.itempos = i], unread)
     \/ /\ ItemHits(ui, unread) = {} /\ cfg.next_feed
        /\ \E i \in FeedHits(ui, unread) : LET u == RandomFeed(ui, unread, i) IN
             \E k \in ItemHits(u, unread) : Show([u EXCEPT !.itempos = k], unread)

MoveToFeed ==
  /\ On("items")
  /\ \E way \in Ways : Show(GotoFeed(ui, unread, way), unread)

MarkListRead ==
  /\ On("items")
  /\ LET ur == Without({ui.feed})
         u == IF cfg.jump THEN Goto(ui, ur, "next unread").ui ELSE ui
     IN  Show([u EXCEPT !.stale = TRUE], ur)

\* save_filterpos(), by the position among all articles
KeepItem(u) ==
  IF u.itempos < Len(u.items)
  THEN [u EXCEPT !.item_kept = PositionOf(u.items[u.itempos + 1], ArticlesOf(u.feed))] ELSE u
ToggleShowReadItems ==
  /\ On("items")
  /\ Show(KeepItem([ui EXCEPT !.show_items = ~@, !.item_filter = ui.show_items, !.stale = TRUE]), unread)
ClearFilter == On("items") /\ Show(KeepItem([ui EXCEPT !.item_filter = FALSE, !.stale = TRUE]), unread)

\* feedlist_formaction::mark_pos_if_visible
MarkedFeed(u) ==
  LET v == [u EXCEPT !.feeds = VisibleFeeds(u, unread)]
      here == PositionOf(u.feed, v.feeds)
      after == {f \in u.feed + 1 .. NFeeds : HasUnread(f, unread)}
      next == IF after = {} THEN NoPos ELSE PositionOf(Min(after), v.feeds)
  IN  IF here # NoPos THEN [v EXCEPT !.feedpos = here] ELSE IF next # NoPos THEN [v EXCEPT !.feedpos = next] ELSE v

\* mutant: the cursor of the feed list stays where it was
QuitItems_NoMark ==
  /\ On("items")
  /\ Show([ui EXCEPT !.screen = "feeds", !.redraw = TRUE, !.feed = NoFeed, !.items = <<>>, !.itempos = 0], unread)
QuitItems ==
  /\ On("items")
  /\ Show([MarkedFeed(ui) EXCEPT !.screen = "feeds", !.redraw = TRUE, !.feed = NoFeed, !.items = <<>>, !.itempos = 0],
          unread)

-----------------------------------------------------------------------------
(* The article. Every operation marks it read first.                         *)
Read == unread \ {ui.article}

Left(r) == Show(IF r.ui.beyond THEN r.ui ELSE IF r.found THEN Opened(r.ui) ELSE Closed(r.ui), Read)
NextUnread == On("article") /\ Left(Goto(ui, Read, "next unread"))
PreviousUnread == On("article") /\ Left(Goto(ui, Read, "previous unread"))
Next_ == On("article") /\ Left(Goto(ui, Read, "next"))
Previous == On("article") /\ Left(Goto(ui, Read, "previous"))

RandomUnread ==
  /\ On("article")
  /\ \/ ~(cfg.next_feed /\ FeedHits(ui, Read) # {}) /\ Show(Closed(ui), Read)
     \/ /\ cfg.next_feed
        /\ \E i \in FeedHits(ui, Read) : LET u == RandomFeed(ui, Read, i) IN
             \E k \in ItemHits(u, Read) : Show(Opened([u EXCEPT !.itempos = k]), Read)

\* It is unread again, and closed.
ToggleItemRead == On("article") /\ Show(Closed(ui), unread \cup {ui.article})
QuitArticle == On("article") /\ Show(Closed(ui), Read)

-----------------------------------------------------------------------------
(* A reload that the user asked for, in the background, brings an article    *)
(* (controller::reload, not unattended): the lists are filled anew, the one  *)
(* of the feed twice, with set_redraw() in between (notify_itemlist_change), *)
(* and drawn when the next event comes.                                      *)
Arrive ==
  /\ ~ui.beyond
  /\ \E f \in Feeds :
       /\ count[f] < MaxArticles[f] /\ count' = [count EXCEPT ![f] = @ + 1]
       /\ unread' = unread \cup {<<f, count[f] + 1>>}
       /\ LET u == [ui EXCEPT !.feeds = VisibleFeeds(ui, unread')]
              v == [Redrawn(u) EXCEPT !.replaced = @ \/ ui.screen = "article"]
          IN  ui' = IF ui.feed # f THEN u
                    ELSE [v EXCEPT !.items = VisibleItems(v, [k \in 1 .. count'[f] |-> <<f, count'[f] + 1 - k>>], unread')]
  /\ UNCHANGED cfg

\* No key comes for a while.
Timeout == ~ui.beyond /\ Show(ui, unread)

Keys == \/ OpenFeed \/ MarkFeedRead \/ MarkAllFeedsRead \/ ToggleShowReadFeeds \/ SetTag \/ ClearTag
        \/ MoveInFeeds \/ GotoFeedNumber \/ OpenItem \/ MoveInItems \/ RandomItem \/ MoveToFeed
        \/ MarkListRead \/ ToggleShowReadItems \/ ClearFilter \/ QuitItems \/ NextUnread
        \/ PreviousUnread \/ Next_ \/ Previous \/ RandomUnread \/ ToggleItemRead \/ QuitArticle
Next == Keys \/ Arrive \/ Timeout
Spec == Init /\ [][Next]_vars

-----------------------------------------------------------------------------
(* While the feed list is on the screen it has the feeds that the tag and    *)
(* the filter let through, whatever was read in between (do_redraw of        *)
(* feedlist_formaction, controller::update_feedlist).                        *)
FeedsAreCurrent == On("feeds") => ui.feeds = VisibleFeeds(ui, unread)

(* Leaving an article goes back to its line in the list, wherever "next" and *)
(* the like have led, if read articles are shown and no reload has replaced  *)
(* the list (itemlist_formaction::recalculate_form); leaving the list puts   *)
(* the cursor on the feed that was left if it is still visible               *)
(* (feedlist_formaction::mark_pos_if_visible).                               *)
GoesBack ==
  [][/\ On("article") /\ ui.show_items /\ ~ui.replaced /\ QuitArticle
          => ui'.itempos < Len(ui'.items) /\ ui'.items[ui'.itempos + 1] = ui.article
     /\ On("items") /\ QuitItems /\ ui.feed \in Range(ui'.feeds) => ui'.named = ui.feed]_vars

(* next-unread of the article view gets to an unread article, with           *)
(* goto-next-feed, as long as one of the feeds in the feed list has one      *)
(* (view::get_next_unread).                                                  *)
NextUnreadFindsOne ==
  [][On("article") /\ cfg.next_feed /\ NextUnread /\ FeedHits(ui, unread') # {} => On("article")' /\ ui'.article \in unread']_vars
=============================================================================
