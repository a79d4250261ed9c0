------------------------------- MODULE Locks -------------------------------
(* Which mutex is taken while which is held: feeds_mutex of the controller,  *)
(* mtx of the view and of the cache, redraw_mtx of an article list and the   *)
(* item_mutex of feeds, by the main thread, the downloadthreads and a        *)
(* reloadrangethread. An operation is the sequence of its steps: take a      *)
(* mutex, give it back, or touch it, which is to take it and to give it back *)
(* with nothing in between. One feed stands for those that are downloaded,   *)
(* "real", and one for those that collect the articles of others, "query"    *)
(* (query feeds and search results). Left out: a feed nobody else knows yet, *)
(* and locks under which nothing is called.                                  *)
EXTENDS Integers, Sequences

CONSTANTS UiThread, Downloaders, Ranger, Nobody

\* The threads are different, and the empty holder is none.
ASSUME LocksAssumption ==
  /\ UiThread # Ranger /\ UiThread \notin Downloaders /\ Ranger \notin Downloaders
  /\ Nobody \notin {UiThread, Ranger} \cup Downloaders

VARIABLES
  screen,       \* the form on top: "feeds", or the article list of "real" or "query"
  filter,       \* the filter of that list asks for unread_count
  reload_mutex, \* its holder
  stage,        \* per downloadthread the part of the reload it is in
  todo,         \* per thread the steps it still has to take
  holder        \* per mutex the thread that has it

lockVars == <<screen, filter, reload_mutex, stage, todo, holder>>

AllThreads == {UiThread, Ranger} \cup Downloaders
Mutexes == {"feeds", "view", "cache", "redraw", "real", "query"}

Touch(m) == <<<<"touch", m>>>>
With(m, body) == <<<<"take", m>>>> \o body \o <<<<"give", m>>>>

-----------------------------------------------------------------------------
(* Of the view and the controller.                                           *)
SetStatus == Touch("view")
\* unread_item_count(), set_feedptrs() and the like, for all feeds
EachFeed == Touch("real") \o Touch("query")
\* mutant: the view's mutex is taken first
UpdateFeedlist_Swapped == With("view", With("feeds", EachFeed))
\* update_feedlist() with view::set_feedlist()
UpdateFeedlist == With("feeds", With("view", EachFeed))
SortFeeds == With("feeds", EachFeed)
\* get_all_feeds() and update_items(), with a query for unread_count
PrepareQueryFeed ==
  SetStatus \o Touch("feeds") \o With("query", Touch("real")) \o Touch("query") \o SetStatus

\* reload() of one feed: save_feed(), internalize_rssfeed(), enqueue_items(),
\* and the feed list if somebody is watching
SaveFeed(watched) ==
  With("feeds", Touch("cache") \o Touch("real") \o Touch("cache") \o With("real", Touch("cache"))
                \o (IF watched THEN With("view", EachFeed) ELSE <<>>))
Reload(watched) == SetStatus \o Touch("cache") \o SaveFeed(watched) \o SetStatus

-----------------------------------------------------------------------------
(* Of the forms.                                                             *)
\* rss_item::set_unread
SetUnread == Touch("real") \o Touch("cache")
\* do_update_visible_items() with the filter's look at an article's feed,
\* mark-as-read-on-hover, and the head line
PrepareItems(list, asks) ==
  With("redraw", With(list, IF asks THEN Touch("real") ELSE <<>>) \o SetUnread \o Touch(list))
Prepare(s, asks) == IF s = "feeds" THEN SortFeeds \o UpdateFeedlist ELSE PrepareItems(s, asks)

\* controller::mark_all_read: of a feed at a position, of a list without a url,
\* of all feeds
MarkReadAt == With("feeds", Touch("cache") \o Touch("real"))
MarkQueryRead == With("feeds", With("cache", Touch("query")) \o With("query", Touch("real")))
MarkResultsRead == With("query", Touch("real")) \o With("cache", Touch("query"))
MarkAllRead == Touch("cache") \o With("feeds", EachFeed)
\* mark_pos_if_visible(), when the list is left
MarkPosition == With("feeds", With("view", EachFeed)) \o With("feeds", EachFeed)

Operations(s) ==
  CASE s = "feeds" -> {MarkReadAt, MarkQueryRead, MarkAllRead, PrepareQueryFeed, Reload(TRUE)}
    [] s = "real"  -> {MarkReadAt, SetUnread, MarkPosition, Reload(TRUE)}
    [] s = "query" -> {MarkQueryRead, MarkResultsRead, SetUnread, MarkPosition, PrepareQueryFeed}

-----------------------------------------------------------------------------
LocksInit ==
  /\ screen \in {"feeds", "real", "query"} /\ filter \in BOOLEAN
  /\ reload_mutex = Nobody /\ stage = [d \in Downloaders |-> "idle"]
  /\ todo = [t \in AllThreads |-> <<>>] /\ holder = [m \in Mutexes |-> Nobody]

Idle(t) == todo[t] = <<>>
Does(t, steps) == todo' = [todo EXCEPT ![t] = steps]

\* A thread takes its next step, if it can.
Step(t) ==
  /\ ~Idle(t)
  /\ LET op == Head(todo[t])[1]
         m == Head(todo[t])[2]
     IN  \/ op = "take" /\ holder[m] = Nobody /\ holder' = [holder EXCEPT ![m] = t]
         \/ op = "give" /\ holder' = [holder EXCEPT ![m] = Nobody]
         \/ op = "touch" /\ holder[m] = Nobody /\ UNCHANGED holder
  /\ Does(t, Tail(todo[t]))
  /\ UNCHANGED <<screen, filter, reload_mutex, stage>>

\* view::run: prepare(), then an operation.
Press ==
  /\ Idle(UiThread)
  /\ \E op \in Operations(screen) : Does(UiThread, Prepare(screen, filter) \o op)
  /\ UNCHANGED <<screen, filter, reload_mutex, stage, holder>>
\* A list is opened or closed, a filter entered.
ChangeForm ==
  /\ Idle(UiThread)
  /\ screen' \in {"feeds", "real", "query"} /\ filter' \in BOOLEAN
  /\ <<screen', filter'>> # <<screen, filter>>
  /\ UNCHANGED <<reload_mutex, stage, todo, holder>>

\* downloadthread with the mutex that it only tries, and the ranges of reload_all().
TryLock(d) ==
  /\ stage[d] = "idle" /\ reload_mutex = Nobody
  /\ reload_mutex' = d /\ stage' = [stage EXCEPT ![d] = "range"]
  /\ todo' = [todo EXCEPT ![d] = SortFeeds \o Reload(TRUE), ![Ranger] = Reload(TRUE)]
  /\ UNCHANGED <<screen, filter, holder>>

GoesOn(d, from, to, steps) ==
  /\ stage[d] = from /\ Idle(d)
  /\ stage' = [stage EXCEPT ![d] = to] /\ Does(d, steps)
  /\ UNCHANGED <<screen, filter, reload_mutex, holder>>
Join(d) == Idle(Ranger) /\ GoesOn(d, "range", "query feeds", PrepareQueryFeed)
\* force_redraw() prepares the form that is on top, in this thread.
ForceRedraw(d) == GoesOn(d, "query feeds", "redraw", Prepare(screen, filter))
SortAfter(d) == GoesOn(d, "redraw", "sort", SortFeeds \o UpdateFeedlist \o EachFeed)
Unlock(d) ==
  /\ stage[d] = "sort" /\ Idle(d)
  /\ stage' = [stage EXCEPT ![d] = "idle"] /\ reload_mutex' = Nobody
  /\ UNCHANGED <<screen, filter, todo, holder>>

LocksNext ==
  \/ Press \/ ChangeForm
  \/ \E t \in AllThreads : Step(t)
  \/ \E d \in Downloaders : TryLock(d) \/ Join(d) \/ ForceRedraw(d) \/ SortAfter(d) \/ Unlock(d)
LocksSpec == LocksInit /\ [][LocksNext]_lockVars

-----------------------------------------------------------------------------
WaitsFor(t, u) == ~Idle(t) /\ Head(todo[t])[1] # "give" /\ holder[Head(todo[t])[2]] = u

(* No threads wait for each other, although item_mutex and the cache's mtx   *)
(* are taken in either order: what takes them in one (cache::mark_all_read)  *)
(* is about a feed that the other (enqueue_items) does not have, unless a    *)
(* filter leads from one to the other, in a second background reload. Only a *)
(* thread that waits for itself is left: do_update_visible_items() has the   *)
(* item_mutex of its feed when the filter asks that feed for unread_count.   *)
NobodyWaitsInACircle ==
  \A waiting \in (SUBSET AllThreads) \ {{}} :
    (\A t \in waiting : \E u \in waiting : WaitsFor(t, u))
      => \E t \in waiting : WaitsFor(t, t) /\ holder["redraw"] = t
=============================================================================
