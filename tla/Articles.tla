------------------------------ MODULE Articles ------------------------------
(* The articles of one feed in three places: the rows of the cache file      *)
(* (cache.cpp), the items of the feed object in controller::feeds and in the *)
(* article list, and the article view, whose feed object may be an older one.*)
(* A reload thread (controller::reload, rss_parser) replaces the feed object *)
(* while the main thread works on its items; the process may stop at any     *)
(* point. An article is a number: its guid and the rank of its date.         *)
EXTENDS Naturals, Sequences, FiniteSets, Functions

CONSTANTS
  Guids,              \* the articles the feed ever carries; greater is newer
  MaxVersion,         \* bound: how often the feed's document changes
  MaxAge,             \* bound: the oldest articles that may reach keep-articles-days
  MaxItems,           \* max-items, 0 for no limit
  ResetUnread,        \* the feed is named by reset-unread-on-update
  AutoEnqueue,        \* podcast-auto-enqueue
  DeleteReadOnQuit,   \* cleanup-on-quit and delete-read-articles-on-quit
  UserOps             \* what the user does

ASSUME GuidsAreRanks == Guids \subseteq Nat \ {0} /\ IsFiniteSet(Guids)
ASSUME BoundsAreNumbers == MaxVersion \in Nat \ {0} /\ MaxAge \in Nat /\ MaxItems \in Nat
ASSUME OptionsAreBooleans == {ResetUnread, AutoEnqueue, DeleteReadOnQuit} \subseteq BOOLEAN

VARIABLES
  doc,          \* the feed's document on its server: version, items, their text
                \*   and their place in it
  tooOld,       \* articles up to this one are older than keep-articles-days
  db,           \* rss_item: the rows, by guid
  stamp,        \* rss_feed: NoRow, or the Last-Modified stored with the feed
  listed,       \* the items of the feed the article list shows, by guid
  screen,       \* the form on top
  article,      \* the article view: guid, whose items it holds, and its item
  user,         \* the main thread's operation: position, item, steps to do
  reload,       \* the reload thread: step, document, items, steps to do
  touched,      \* ghost: articles of which a row or item was written since the
                \*   other one was read
  hidden,       \* ghost: articles the user deleted and the feed still carries
  interrupted   \* ghost: a download was stamped and its articles not stored

vars == <<doc, tooOld, db, stamp, listed, screen, article, user, reload,
          touched, hidden, interrupted>>

NoRow == MaxVersion + 1    \* no row in rss_feed for this feed

ItemOf(row) == [unread |-> row.unread, deleted |-> row.deleted,
                enqueued |-> row.enqueued, flagged |-> row.flagged]

\* What get_item_by_guid makes up for a guid the feed object does not hold.
Dummy == [unread |-> TRUE, deleted |-> FALSE, enqueued |-> FALSE, flagged |-> FALSE]

\* An item as the main thread holds it: one of the listed feed's, or (own) one
\* that no listed feed holds any more. A dummy's guid is empty, here 0.
InList(g) == [guid |-> g, own |-> FALSE, item |-> Dummy]
DummyHandle == [guid |-> 0, own |-> TRUE, item |-> Dummy]
ItemAt(h) == IF h.own THEN h.item ELSE listed[h.guid]

Closed == [guid |-> 0, feed |-> "none", item |-> Dummy]
AtRest == [pos |-> 0, on |-> DummyHandle, todo |-> <<>>]
NoDoc == [version |-> 0, items |-> {}, text |-> <<>>, place |-> <<>>]
NoReload == [pc |-> "idle", doc |-> NoDoc, items |-> <<>>, todo |-> {}]
Idle == user.todo = <<>>

\* controller::feeds_mutex is held from save_feed to the end of the swap,
\* cache::mtx for each call of the cache: the long one is externalize_rssfeed.
FeedsFree == reload.pc \notin {"store", "read", "show", "again", "enqueue", "mark", "notify"}
CacheFree == reload.pc # "store"

-----------------------------------------------------------------------------
\* cache::internalize_rssfeed: the newest MaxItems rows that are not deleted, and
\* the flagged ones. The other rows that are not deleted are removed.
Shown(d) == {g \in DOMAIN d : ~d[g].deleted}
\* mutant: max-items does not look at the flags
Kept_IgnoresFlags(d) ==
  {g \in Shown(d) : MaxItems = 0 \/ Cardinality({h \in Shown(d) : h > g}) < MaxItems}
Kept(d) == {g \in Shown(d) : \/ MaxItems = 0
                             \/ Cardinality({h \in Shown(d) : h > g}) < MaxItems
                             \/ d[g].flagged}
Limited(d) == Restrict(d, DOMAIN d \ (Shown(d) \ Kept(d)))
Loaded(d) == [g \in Kept(d) |-> ItemOf(d[g])]

\* rss_feed::purge_deleted_items
Purged(items) == Restrict(items, {g \in DOMAIN items : ~items[g].deleted})

\* The item at a position of the list, which shows the newest first.
VisibleAt(i) ==
  CHOOSE g \in DOMAIN listed : Cardinality({h \in DOMAIN listed : h >= g}) = i

NewRow(text) == [unread |-> TRUE, deleted |-> FALSE, enqueued |-> FALSE,
                 flagged |-> FALSE, text |-> text]
Inserted(d, g, text) ==
  [h \in DOMAIN d \cup {g} |-> IF h = g THEN NewRow(text) ELSE d[h]]

\* mutant: the text is not compared before the unread flag is set
Saved_ResetsAlways(d, g, text) ==
  IF g \in DOMAIN d
    THEN [d EXCEPT ![g].text = text, ![g].unread = TRUE]
    ELSE Inserted(d, g, text)
\* mutant: the downloaded item's enqueued flag is written with the rest of it
Saved_ForgetsQueue(d, g, text) ==
  IF g \in DOMAIN d
    THEN [d EXCEPT ![g].text = text, ![g].enqueued = FALSE]
    ELSE Inserted(d, g, text)
\* cache::update_rssitem_unlocked: a new row, or the text and, for a changed
\* text of a feed of reset-unread-on-update, the unread flag of the old one.
Saved(d, g, text) ==
  IF g \in DOMAIN d
    THEN [d EXCEPT ![g].text = text,
                   ![g].unread = @ \/ (ResetUnread /\ d[g].text # text)]
    ELSE Inserted(d, g, text)

\* cache::update_rssitem_unread_and_enqueued writes both flags of the item it
\* is given; an UPDATE of a guid without a row changes nothing.
SaveUnreadAndEnqueued(d, g, item) ==
  IF g \in DOMAIN d
    THEN [d EXCEPT ![g].unread = item.unread, ![g].enqueued = item.enqueued]
    ELSE d

-----------------------------------------------------------------------------
\* A document lists its articles in any order; a smaller place comes first. (An
\* article it does not list is given a place of no meaning, its own number.)
Places == Bijection(Guids, Guids)
Orders(items) == {place \in Places : \A g \in Guids \ items : place[g] = g}
Before(d, g) == {h \in d.items : d.place[h] < d.place[g]}

Init ==
  /\ doc \in [version : {1}, items : SUBSET Guids, text : {[g \in Guids |-> 1]}, place : Places]
  /\ doc.place \in Orders(doc.items)
  /\ tooOld = 0 /\ db = <<>> /\ stamp = NoRow /\ listed = <<>>
  /\ screen = "feeds" /\ article = Closed /\ user = AtRest /\ reload = NoReload
  /\ touched = {} /\ hidden = {} /\ interrupted = FALSE

program == <<db, stamp, listed, screen, article, user, reload>>
ghosts == <<touched, hidden, interrupted>>

\* The server changes the document: an article comes or goes, or is edited, and
\* the articles may be listed in another order.
Publish(g) ==
  /\ doc.version < MaxVersion
  /\ \E items \in {doc.items \cup {g}, doc.items \ {g}} : \E place \in Orders(items) :
       doc' = [version |-> doc.version + 1, items |-> items, place |-> place,
               text |-> [doc.text EXCEPT ![g] = doc.version + 1]]
  /\ UNCHANGED <<tooOld, program, ghosts>>

\* Days pass, and one more article is older than keep-articles-days.
Age ==
  /\ tooOld < MaxAge
  /\ tooOld' = tooOld + 1
  /\ UNCHANGED <<doc, program, ghosts>>

-----------------------------------------------------------------------------
(* The reload thread.                                                        *)
At(pc) == reload.pc = pc
Goto(pc) == reload' = [reload EXCEPT !.pc = pc]

\* rss_parser::download_http: the stored stamp is read and sent, the server
\* answers with its document unless it is the one stamped (then there is no
\* article and nothing is done, as after an error of the download).
Fetch ==
  /\ At("idle") /\ stamp # doc.version
  /\ reload' = [reload EXCEPT !.pc = "stamp", !.doc = doc]
  /\ hidden' = IF doc.items = {} THEN hidden ELSE hidden \cap doc.items
  /\ UNCHANGED <<doc, tooOld, db, stamp, listed, screen, article, user, touched,
                 interrupted>>

\* mutant: the articles of the document are not spared ("AND guid NOT IN")
StoreStamp_PrunesAll ==
  /\ At("stamp")
  /\ stamp' = IF stamp = NoRow THEN NoRow ELSE reload.doc.version
  /\ IF reload.doc.items = {}
       THEN reload' = NoReload /\ interrupted' = FALSE /\ UNCHANGED db
       ELSE /\ Goto("lock")
            /\ interrupted' = TRUE
            /\ db' = Restrict(db, {g \in DOMAIN db : ~db[g].deleted})
  /\ touched' = touched \cup (DOMAIN db \ DOMAIN db')
  /\ UNCHANGED <<doc, tooOld, listed, screen, article, user, hidden>>
\* cache::update_lastmodified, an UPDATE: nothing for a feed without a row. Then,
\* when the document has articles, rss_feed::remove_old_deleted_items.
StoreStamp ==
  /\ At("stamp")
  /\ stamp' = IF stamp = NoRow THEN NoRow ELSE reload.doc.version
  /\ IF reload.doc.items = {}
       THEN reload' = NoReload /\ interrupted' = FALSE /\ UNCHANGED db
       ELSE /\ Goto("lock")
            /\ interrupted' = TRUE
            /\ db' = Restrict(db, {g \in DOMAIN db : db[g].deleted => g \in reload.doc.items})
  /\ touched' = touched \cup (DOMAIN db \ DOMAIN db')
  /\ UNCHANGED <<doc, tooOld, listed, screen, article, user, hidden>>

\* The first MaxItems articles of a document, whatever their dates.
FirstOf(d) == {g \in d.items : MaxItems = 0 \/ Cardinality(Before(d, g)) < MaxItems}

\* mutant: the iterator is moved to where the articles to keep begin
StartStore_KeepsLast ==
  /\ At("lock")
  /\ stamp' = IF stamp = NoRow THEN 0 ELSE stamp
  /\ LET d == reload.doc
     IN  reload' = [reload EXCEPT !.pc = "store",
           !.todo = {g \in d.items : MaxItems = 0 \/ Cardinality(d.items \ Before(d, g)) <= MaxItems}]
  /\ UNCHANGED <<doc, tooOld, db, listed, screen, article, user, ghosts>>
\* controller::save_feed, cache::externalize_rssfeed: the feed's own row, and
\* the articles to store; those after the first MaxItems are erased.
StartStore ==
  /\ At("lock")
  /\ stamp' = IF stamp = NoRow THEN 0 ELSE stamp
  /\ reload' = [reload EXCEPT !.pc = "store", !.todo = FirstOf(reload.doc)]
  /\ UNCHANGED <<doc, tooOld, db, listed, screen, article, user, ghosts>>

\* One article is stored, the last of the document first, unless it is too old.
StoreItem ==
  /\ At("store")
  /\ \E g \in reload.todo :
       /\ \A h \in reload.todo : reload.doc.place[g] >= reload.doc.place[h]
       /\ db' = IF g > tooOld THEN Saved(db, g, reload.doc.text[g]) ELSE db
       /\ reload' = [reload EXCEPT !.todo = @ \ {g},
                                   !.pc = IF reload.todo = {g} THEN "read" ELSE "store"]
       /\ interrupted' = (interrupted /\ reload.todo # {g})
       /\ touched' = touched \cup {g}
  /\ UNCHANGED <<doc, tooOld, stamp, listed, screen, article, user, hidden>>

\* A statement fails: controller::reload catches dbexception and gives up.
StoreFails ==
  /\ At("store")
  /\ reload' = NoReload
  /\ UNCHANGED <<doc, tooOld, db, stamp, listed, screen, article, user, ghosts>>

\* internalize_rssfeed in save_feed, and again in reload: what it read becomes
\* the feed on screen only in a later step.
ReadRows ==
  /\ At("read") \/ At("again")
  /\ db' = Limited(db)
  /\ LET queued == IF At("again") /\ AutoEnqueue
                     THEN {g \in Kept(db) : ~db[g].enqueued} ELSE {}
     IN  reload' = [reload EXCEPT !.doc = NoDoc, !.items = Loaded(db),
                  !.todo = queued,
                  !.pc = IF At("read") THEN "show" ELSE IF queued = {} THEN "notify" ELSE "enqueue"]
  /\ touched' = IF At("read") THEN touched \cup (DOMAIN db \ DOMAIN db') ELSE {}
  /\ UNCHANGED <<doc, tooOld, stamp, listed, screen, article, user, hidden, interrupted>>

\* An item the main thread is working on leaves the list with its feed. (In the
\* article list nothing keeps it alive: the process may as well stop here.)
Detached ==
  IF Idle \/ user.on.own
    THEN user
    ELSE [user EXCEPT !.on.own = TRUE, !.on.item = listed[user.on.guid]]

\* save_feed: the old feed object is cleared, feeds[pos] and the list get the new.
ShowFeed ==
  /\ At("show")
  /\ listed' = reload.items
  /\ user' = Detached
  /\ article' = IF article.feed = "listed" THEN [article EXCEPT !.feed = "cleared"] ELSE article
  /\ reload' = [reload EXCEPT !.pc = "again", !.items = <<>>]
  /\ UNCHANGED <<doc, tooOld, db, stamp, screen, ghosts>>

\* controller::enqueue_items on the new feed object, before the list shows it:
\* the flag in memory (the queue file is PodQueue's), ...
EnqueueItem ==
  /\ At("enqueue")
  /\ \E g \in reload.todo :
       /\ \A h \in reload.todo : g >= h
       /\ reload' = [reload EXCEPT !.items[g].enqueued = TRUE, !.pc = "mark"]
  /\ UNCHANGED <<doc, tooOld, db, stamp, listed, screen, article, user, ghosts>>

\* ... and the row of the same item.
MarkEnqueued ==
  /\ At("mark")
  /\ \E g \in reload.todo :
       /\ \A h \in reload.todo : g >= h
       /\ db' = SaveUnreadAndEnqueued(db, g, reload.items[g])
       /\ reload' = [reload EXCEPT !.todo = @ \ {g},
                                   !.pc = IF reload.todo = {g} THEN "notify" ELSE "enqueue"]
  /\ UNCHANGED <<doc, tooOld, stamp, listed, screen, article, user, ghosts>>

\* view::notify_itemlist_change: the list gets the feed loaded last. The one
\* that save_feed made is not cleared: an article view on it keeps its items.
NotifyList ==
  /\ At("notify")
  /\ listed' = reload.items
  /\ user' = Detached
  /\ article' = IF article.feed = "listed"
                  THEN [article EXCEPT !.feed = "kept", !.item = listed[article.guid]]
                  ELSE article
  /\ reload' = NoReload
  /\ UNCHANGED <<doc, tooOld, db, stamp, screen, ghosts>>

Reload == Fetch \/ StoreStamp  \/ StartStore \/ StoreItem \/ StoreFails
            \/ ReadRows \/ ShowFeed \/ EnqueueItem \/ MarkEnqueued \/ NotifyList

-----------------------------------------------------------------------------
(* The main thread between operations.                                       *)
\* view::push_itemlist
OpenList ==
  /\ Idle /\ screen = "feeds" /\ FeedsFree
  /\ listed' = Purged(listed)
  /\ screen' = IF DOMAIN listed' = {} THEN "feeds" ELSE "list"
  /\ UNCHANGED <<doc, tooOld, db, stamp, article, user, reload, ghosts>>

\* itemlist_formaction: OP_QUIT
CloseList ==
  /\ Idle /\ screen = "list"
  /\ listed' = Purged(listed)
  /\ screen' = "feeds"
  /\ UNCHANGED <<doc, tooOld, db, stamp, article, user, reload, ghosts>>

\* itemlist_formaction: OP_PURGE_DELETED
PurgeList ==
  /\ Idle /\ screen = "list"
  /\ listed' = Purged(listed)
  /\ UNCHANGED <<doc, tooOld, db, stamp, screen, article, user, reload, ghosts>>

\* mutant: the loop over the items of the feed in memory is missing
MarkFeedRead_RowsOnly ==
  /\ Idle /\ screen \in {"feeds", "list"} /\ FeedsFree
  /\ db' = [g \in DOMAIN db |-> [db[g] EXCEPT !.unread = FALSE]]
  /\ UNCHANGED <<doc, tooOld, stamp, listed, screen, article, user, reload, ghosts>>
\* OP_MARKFEEDREAD of either list: controller::mark_all_read(pos), all of it
\* under feeds_mutex: the rows, then the items.
MarkFeedRead ==
  /\ Idle /\ screen \in {"feeds", "list"} /\ FeedsFree
  /\ db' = [g \in DOMAIN db |-> [db[g] EXCEPT !.unread = FALSE]]
  /\ listed' = [g \in DOMAIN listed |-> [listed[g] EXCEPT !.unread = FALSE]]
  /\ UNCHANGED <<doc, tooOld, stamp, screen, article, user, reload, ghosts>>

\* itemlist_formaction: OP_OPEN
OpenArticle ==
  /\ Idle /\ screen = "list"
  /\ \E g \in DOMAIN listed : article' = [Closed EXCEPT !.guid = g, !.feed = "listed"]
  /\ screen' = "article"
  /\ UNCHANGED <<doc, tooOld, db, stamp, listed, user, reload, ghosts>>

\* The item of the article view: get_item_by_guid of the feed the view holds.
ArticleItem ==
  CASE article.feed = "listed" /\ article.guid \in DOMAIN listed -> InList(article.guid)
    [] article.feed = "kept" -> [guid |-> article.guid, own |-> TRUE, item |-> article.item]
    [] OTHER -> DummyHandle

\* A key in the article list at a position of it, or in the article view (position
\* 0): what the operation will do, step by step. The view first marks its article
\* read, whatever the key.
ListOps ==
  [delete |-> <<"read", "flip", "judge">>,
   toggle |-> <<"undelete", "again", "unmark", "toggle">>,
   flags |-> <<"flag", "again", "saveFlags">>]
ArticleOps ==
  [delete |-> <<"read", "delete", "mark", "next">>, toggle |-> <<"read", "unread", "close">>,
   flags |-> <<"read", "again", "flag", "saveFlags">>, quit |-> <<"read", "close">>]

PressInList(op, i) ==
  /\ Idle /\ screen = "list" /\ op \in UserOps \cap DOMAIN ListOps
  /\ i \in 1 .. Cardinality(DOMAIN listed)
  /\ user' = [pos |-> i, on |-> InList(VisibleAt(i)), todo |-> ListOps[op]]
  /\ UNCHANGED <<doc, tooOld, db, stamp, listed, screen, article, reload, ghosts>>

PressInArticle(op) ==
  /\ Idle /\ screen = "article" /\ op \in UserOps \cap DOMAIN ArticleOps
  /\ user' = [pos |-> 0, on |-> ArticleItem, todo |-> ArticleOps[op]]
  /\ UNCHANGED <<doc, tooOld, db, stamp, listed, screen, article, reload, ghosts>>

-----------------------------------------------------------------------------
(* The main thread within an operation. The article list looks the item up   *)
(* by its position at each step, in whatever list it shows by then; past its *)
(* end the behaviour is undefined, and here the process can only stop. The   *)
(* article view holds on to the item it began with.                          *)
Doing(step) == ~Idle /\ Head(user.todo) = step
Target == IF user.pos = 0 THEN user.on ELSE InList(VisibleAt(user.pos))
InRange == user.pos <= Cardinality(DOMAIN listed)

Then(h, todo) == user' = IF todo = <<>> THEN AtRest ELSE [user EXCEPT !.todo = todo, !.on = h]

\* A step on item h leaves it as item, and then the steps todo.
Change(h, item, todo) ==
  /\ Then(IF h.own THEN [h EXCEPT !.item = item] ELSE h, todo)
  /\ listed' = IF h.own THEN listed ELSE [listed EXCEPT ![h.guid] = item]
  /\ article' = IF h.own /\ user.pos = 0 /\ article.feed = "kept"
                  THEN [article EXCEPT !.item = item]
                  ELSE article

\* Acting on article g makes the rows a reload has read for the list out of date,
\* or those that the list has.
Touch(g, own) ==
  touched' = IF own \/ reload.pc \in {"show", "enqueue", "mark", "notify"}
               THEN touched \cup {g} ELSE touched

\* rss_item::set_unread: nothing if the flag is that already, else the flag in
\* memory and then the row.
SetUnread ==
  /\ ~Idle /\ Head(user.todo) \in {"read", "unread", "toggle"} /\ InRange
  /\ LET h == Target
         item == ItemAt(h)
         unread == CASE Doing("read") -> FALSE
                     [] Doing("unread") -> TRUE
                     [] Doing("toggle") -> ~item.unread
     IN  IF item.unread = unread
           THEN Change(h, item, Tail(user.todo)) /\ UNCHANGED touched
           ELSE /\ Change(h, [item EXCEPT !.unread = unread], <<"save">> \o Tail(user.todo))
                /\ Touch(h.guid, h.own)
  /\ UNCHANGED <<doc, tooOld, db, stamp, screen, reload, hidden, interrupted>>

\* cache::update_rssitem_unread_and_enqueued of the item as it is by then.
SaveUnread ==
  /\ Doing("save") /\ CacheFree
  /\ db' = SaveUnreadAndEnqueued(db, user.on.guid, ItemAt(user.on))
  /\ Then(user.on, Tail(user.todo))
  /\ Touch(user.on.guid, user.on.own)
  /\ UNCHANGED <<doc, tooOld, stamp, listed, screen, article, reload, hidden, interrupted>>

\* rss_item::set_deleted, the flag in memory: OP_DELETE turns it over in the list
\* and sets it in the view, OP_TOGGLEITEMREAD clears it in the list.
SetDeleted ==
  /\ ~Idle /\ Head(user.todo) \in {"flip", "delete", "undelete"} /\ InRange
  /\ LET h == Target
         item == ItemAt(h)
         deleted == CASE Doing("flip") -> ~item.deleted
                      [] Doing("delete") -> TRUE
                      [] Doing("undelete") -> FALSE
     IN  /\ Change(h, [item EXCEPT !.deleted = deleted], Tail(user.todo))
         /\ Touch(h.guid, h.own)
  /\ UNCHANGED <<doc, tooOld, db, stamp, screen, reload, hidden, interrupted>>

\* cache::mark_item_deleted, by guid: the item's, or in the view the view's own.
MarkDeleted ==
  /\ (Doing("mark") \/ Doing("unmark")) /\ CacheFree
  /\ LET g == IF user.pos = 0 THEN article.guid ELSE user.on.guid
         carried == reload.pc \in {"stamp", "lock", "store"} => g \in reload.doc.items
     IN  /\ db' = IF g \in DOMAIN db THEN [db EXCEPT ![g].deleted = Doing("mark")] ELSE db
         /\ hidden' = IF Doing("mark") /\ g \in DOMAIN db /\ carried
                        THEN hidden \cup {g} ELSE hidden \ {g}
         /\ Touch(g, user.on.own)
  /\ Then(user.on, Tail(user.todo))
  /\ UNCHANGED <<doc, tooOld, stamp, listed, screen, article, reload, interrupted>>

\* rss_item::set_flags: the flags in memory (here: the article is flagged) ...
SetFlags ==
  /\ Doing("flag") /\ InRange
  /\ LET h == Target
         item == ItemAt(h)
     IN  /\ Change(h, [item EXCEPT !.flagged = ~@], Tail(user.todo))
         /\ Touch(h.guid, h.own)
  /\ UNCHANGED <<doc, tooOld, db, stamp, screen, reload, hidden, interrupted>>

\* ... and cache::update_rssitem_flags, the row.
SaveFlags ==
  /\ Doing("saveFlags") /\ CacheFree
  /\ LET g == user.on.guid
     IN  /\ db' = IF g \in DOMAIN db THEN [db EXCEPT ![g].flagged = ItemAt(user.on).flagged] ELSE db
         /\ Touch(g, user.on.own)
  /\ Then(user.on, Tail(user.todo))
  /\ UNCHANGED <<doc, tooOld, stamp, listed, screen, article, reload, hidden, interrupted>>

\* The item is looked up anew for the call that follows: by finished_qna in the
\* article view, by position in the list. OP_DELETE there writes the deleted flag
\* of the item it finds now (judge).
LookUpAgain ==
  /\ (Doing("again") \/ Doing("judge")) /\ InRange
  /\ LET h == IF user.pos = 0 THEN ArticleItem ELSE Target
         mark == IF ItemAt(h).deleted THEN "mark" ELSE "unmark"
     IN  Then(h, (IF Doing("judge") THEN <<mark>> ELSE <<>>) \o Tail(user.todo))
  /\ UNCHANGED <<doc, tooOld, db, stamp, listed, screen, article, reload, ghosts>>

\* The view is left, or (view::get_next_unread) shows an unread article of the
\* list's feed and is left only when there is none.
LeaveArticle ==
  /\ Doing("close") \/ Doing("next")
  /\ LET unread == IF Doing("next") THEN {g \in DOMAIN listed : listed[g].unread} ELSE {}
     IN  IF unread = {}
           THEN article' = Closed /\ screen' = "list"
           ELSE /\ \E g \in unread : article' = [Closed EXCEPT !.guid = g, !.feed = "listed"]
                /\ UNCHANGED screen
  /\ user' = AtRest
  /\ UNCHANGED <<doc, tooOld, db, stamp, listed, reload, ghosts>>

User == \/ OpenList \/ CloseList \/ PurgeList \/ MarkFeedRead \/ OpenArticle
        \/ \E op \in UserOps, i \in Guids : PressInList(op, i)
        \/ \E op \in UserOps : PressInArticle(op)
        \/ SetUnread \/ SaveUnread \/ SetDeleted \/ MarkDeleted \/ SetFlags \/ SaveFlags
        \/ LookUpAgain \/ LeaveArticle

-----------------------------------------------------------------------------
\* The process stops, and with it everything but the cache file, and the next one
\* starts: cache::clean_old_articles, then internalize_rssfeed.
Restart(rows) ==
  LET young == Restrict(rows, {g \in DOMAIN rows : g > tooOld})
  IN  /\ db' = Limited(young)
      /\ listed' = Loaded(young)
      /\ screen' = "feeds" /\ article' = Closed /\ user' = AtRest /\ reload' = NoReload
      /\ touched' = {}
      /\ UNCHANGED <<doc, tooOld, stamp, hidden, interrupted>>

Crash == Restart(db)

\* The user leaves: cache::cleanup_cache may mark all read articles deleted.
Quit ==
  /\ Idle /\ screen = "feeds" /\ CacheFree
  /\ Restart([g \in DOMAIN db |-> [db[g] EXCEPT !.deleted = @ \/ (DeleteReadOnQuit /\ ~db[g].unread)]])

Next == Age \/ (\E g \in Guids : Publish(g)) \/ Reload \/ User \/ Crash \/ Quit

Spec == Init /\ [][Next]_vars

-----------------------------------------------------------------------------
Item == [unread : BOOLEAN, deleted : BOOLEAN, enqueued : BOOLEAN, flagged : BOOLEAN]
Row == [unread : BOOLEAN, deleted : BOOLEAN, enqueued : BOOLEAN, flagged : BOOLEAN,
        text : 1 .. MaxVersion]
Document == [version : 1 .. MaxVersion, items : SUBSET Guids, text : [Guids -> 1 .. MaxVersion],
             place : Places]
Handle == [guid : Guids \cup {0}, own : BOOLEAN, item : Item]

\* What is left to do of an operation of the article list, and of the view.
ListPlans ==
  {<<"read", "flip", "judge">>, <<"save", "flip", "judge">>, <<"flip", "judge">>, <<"judge">>,
   <<"mark">>, <<"unmark">>, <<"undelete", "again", "unmark", "toggle">>,
   <<"again", "unmark", "toggle">>, <<"unmark", "toggle">>, <<"toggle">>, <<"save">>,
   <<"flag", "again", "saveFlags">>, <<"again", "saveFlags">>, <<"saveFlags">>}
ArticlePlans ==
  {<<"read", "delete", "mark", "next">>, <<"save", "delete", "mark", "next">>,
   <<"delete", "mark", "next">>, <<"mark", "next">>, <<"next">>,
   <<"read", "unread", "close">>, <<"save", "unread", "close">>, <<"unread", "close">>,
   <<"read", "close">>, <<"save", "close">>, <<"close">>,
   <<"read", "again", "flag", "saveFlags">>, <<"save", "again", "flag", "saveFlags">>,
   <<"again", "flag", "saveFlags">>, <<"flag", "saveFlags">>, <<"saveFlags">>}

\* Rows and items by guid.
IsCache(d) == \E S \in SUBSET Guids : d \in [S -> Row]
IsList(items) == \E S \in SUBSET Guids : items \in [S -> Item]

ScreenTyped ==
  /\ screen \in {"feeds", "list", "article"}
  /\ article \in [guid : Guids \cup {0}, feed : {"none", "listed", "cleared", "kept"}, item : Item]
UserTyped == user \in [pos : Nat, on : Handle, todo : {<<>>} \cup ListPlans \cup ArticlePlans]
ReloadTyped ==
  /\ DOMAIN reload = {"pc", "doc", "items", "todo"}
  /\ reload.pc \in {"idle", "stamp", "lock", "store", "read", "show", "again", "enqueue", "mark",
                    "notify"}
  /\ reload.doc \in Document \cup {NoDoc} /\ reload.todo \subseteq Guids
  /\ IsList(reload.items)
GhostsTyped == touched \subseteq Guids \cup {0} /\ hidden \subseteq Guids /\ interrupted \in BOOLEAN

TypeOK ==
  /\ doc \in Document /\ tooOld \in Nat /\ stamp \in 0 .. NoRow
  /\ IsCache(db) /\ IsList(listed)
  /\ ScreenTyped /\ UserTyped /\ ReloadTyped /\ GhostsTyped

-----------------------------------------------------------------------------
\* An article once read becomes unread only because the user said so, or because
\* its text changed in a feed of reset-unread-on-update. The exception are the
\* articles acted on while a reload replaces the feed: controller::enqueue_items
\* then writes the unread flag of an item read from the cache before.
ReadStaysRead ==
  [][\A g \in DOMAIN db \cap DOMAIN db' :
       ~db[g].unread /\ db'[g].unread =>
         \/ At("mark") /\ g \in touched
         \/ ResetUnread /\ db'[g].text # db[g].text
         \/ Doing("save") /\ user.on.guid = g /\ ItemAt(user.on).unread]_vars

\* A podcast put in the queue once is not queued again: its row keeps the mark.
\* The exception are again articles acted on while a reload replaces the feed: the
\* user's change of the unread flag writes both flags of the old item.
EnqueuedOnce ==
  [][\A g \in DOMAIN db \cap DOMAIN db' :
       db[g].enqueued => db'[g].enqueued \/ (Doing("save") /\ g \in touched')]_vars

\* An article that the user deleted stays out of the list for as long as the feed
\* carries it: whatever the reloads, the limits and the restarts do, its row is
\* never replaced by one that is not marked deleted.
DeletedStaysDeleted == \A g \in hidden \cap DOMAIN db : db[g].deleted

\* No article is skipped: when no reload runs and the stored stamp is that of the
\* document, so that the server will answer "not modified", the first articles of
\* the document, as many as max-items allows, are stored with their text, unless
\* storing them was cut short. What is missing is older than keep-articles-days, or
\* max-items newer ones have rows.
NothingSkipped ==
  reload.pc = "idle" /\ stamp = doc.version /\ ~interrupted =>
    \A g \in FirstOf(doc) :
      \/ g <= tooOld
      \/ g \in DOMAIN db /\ db[g].text = doc.text[g]
      \/ MaxItems > 0 /\ Cardinality({h \in DOMAIN db : h > g}) >= MaxItems

\* The limits never remove a flagged article that is not deleted, but for
\* keep-articles-days.
FlaggedStays ==
  [][\A g \in DOMAIN db \ DOMAIN db' : db[g].flagged => db[g].deleted \/ g <= tooOld]_vars

\* When neither thread is at work the list and the cache agree on every article of
\* the list, but for those acted on while a reload was replacing the feed and those
\* that a reload wrote and then failed to show.
ListMatchesCache ==
  Idle /\ reload.pc = "idle" =>
    \A g \in DOMAIN listed \ touched : g \in DOMAIN db /\ ItemOf(db[g]) = listed[g]

\* rss_feed::get_item_by_guid is never asked for a guid that its feed does not
\* hold: "should never happen!" (rss.cpp).
NoDummyItem == ~Idle => user.on.guid # 0
=============================================================================
