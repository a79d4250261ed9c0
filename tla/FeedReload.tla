----------------------------- MODULE FeedReload -----------------------------
(***************************************************************************)
(* The reload machinery of newsbeuter's controller: the vector of feeds    *)
(* the main thread shows, the detached downloadthreads ("reload all",      *)
(* auto-reload), the reloadrangethreads among which one of them divides    *)
(* the vector, and the main thread, which reloads single feeds, opens      *)
(* them, sorts the vector and rereads the urls file.                       *)
(*                                                                         *)
(* A feed is named by its position in the vector wherever the code hands   *)
(* it on, and reload() uses the position it got before the download, with  *)
(* feeds_mutex free in between. The positions here count from 1.           *)
(***************************************************************************)
EXTENDS Integers, Sequences, FiniteSets

CONSTANTS
  Urls,              \* the URL of every feed there may be
  InitialUrls,       \* what the urls file holds at startup, in its order
  UrlFiles,          \* what the user may edit the urls file into
  Downloaders,       \* the detached downloadthreads
  ReloadThreads,     \* "reload-threads"
  SortByKey,         \* "feed-sort-order": FALSE for the default "none"
  OnlyVisible,       \* "reload-only-visible-feeds"
  UiOps,             \* what the user does: see UiOperations
  UI, Nobody,        \* the main thread; no thread
  MaxObj             \* bound on the rss_feed objects ever allocated

UiOperations == {"open", "reload", "sort", "urls"}

\* An urls file that names no feed twice. (file_urlreader does not look.)
IsUrlFile(s) ==
  /\ s \in Seq(Urls)
  /\ \A i, j \in DOMAIN s : s[i] = s[j] => i = j

ASSUME FeedReloadAssumption ==
  /\ IsUrlFile(InitialUrls)
  /\ \A s \in UrlFiles : IsUrlFile(s)
  /\ Len(InitialUrls) \in Nat \ {0}
  /\ ReloadThreads \in Nat \ {0}
  /\ {SortByKey, OnlyVisible} \subseteq BOOLEAN
  /\ UiOps \subseteq UiOperations
  /\ UI \notin Downloaders /\ UI \notin Nat
  /\ \A d \in Downloaders : d \notin Nat
  /\ Nobody \notin Downloaders
  /\ MaxObj \in Nat

\* The reloadrangethreads of the one reload_all() that holds reload_mutex.
Workers == 1 .. (ReloadThreads - 1)
Threads == {UI} \cup Downloaders \cup Workers

Statuses == {"SUCCESS", "TO_BE_DOWNLOADED", "DURING_DOWNLOAD", "DL_ERROR"}

VARIABLES
  feeds,         \* controller::feeds, the index in obj of each feed
  obj,           \* the rss_feed objects, in the order of their allocation
  reload_mutex,  \* the downloadthread that holds it, or Nobody
  dl,            \* per downloadthread: where it is and what it was asked for
  todo,          \* per thread: the positions it still has to reload
  call,          \* per thread: the call of reload() it is in, or NoCall
  ui,            \* what the main thread is in the middle of
  shown,         \* the feed list on screen: the object in each of its lines
  itemlist,      \* the open article list, or Closed
  crashed        \* an index was used beyond the end of the vector

vars == <<feeds, obj, reload_mutex, dl, todo, call, ui, shown, itemlist,
          crashed>>

NoCall == [pos |-> 0, old |-> 0, want |-> {}]
Closed == [url |-> "none", pos |-> 0]
Idle == [pc |-> "idle", want |-> {}, indexes |-> {}]
UiIdle == [pc |-> "idle", new |-> <<>>]

Url(o) == obj[o].url

NewFeed(url, order) ==
  [url |-> url, order |-> order, status |-> "SUCCESS", cleared |-> FALSE]

-----------------------------------------------------------------------------
(* Helpers *)

\* std::stable_sort of s by the keys: an element's rank is the number of the
\* elements the sort leaves in front of it, itself included.
Rank(s, key, i) ==
  Cardinality({j \in DOMAIN s : key[j] < key[i] \/ (key[j] = key[i] /\ j <= i)})
StableSort(s, key) ==
  [r \in DOMAIN s |-> s[CHOOSE i \in DOMAIN s : Rank(s, key, i) = r]]

\* sort_feeds(): by the order in the urls file, or by a title, a tag or an
\* article count, of which the model only keeps that it may be any key.
SortResults(s) ==
  IF SortByKey
  THEN {StableSort(s, key) : key \in [DOMAIN s -> 1 .. Len(s)]}
  ELSE {StableSort(s, [i \in DOMAIN s |-> obj[s[i]].order])}

\* utils::partition_indexes(0, n - 1, parts): the positions of part i.
PartSize(n, parts) == n \div parts
\* (Mutant: a range ends before its last position.)
Partition_HalfOpen(n, parts, i) ==
  { p \in 1 .. n : (i - 1) * PartSize(n, parts) < p /\ p < (IF i < parts THEN i * PartSize(n, parts) ELSE n) }
Partition(n, parts, i) ==
  { p \in 1 .. n : /\ (i - 1) * PartSize(n, parts) < p
                   /\ i < parts => p <= i * PartSize(n, parts) }

\* reload_all() never uses more threads than there are feeds.
NumThreads == IF ReloadThreads > Len(feeds) THEN Len(feeds) ELSE ReloadThreads

Busy(t) == call[t] # NoCall
SetStatus(o, st) == [obj EXCEPT ![o].status = st]

\* controller::run() has loaded the feeds and sorted them.
Init ==
  /\ obj = [i \in DOMAIN InitialUrls |-> NewFeed(InitialUrls[i], i)]
  /\ feeds \in SortResults([i \in DOMAIN InitialUrls |-> i])
  /\ reload_mutex = Nobody
  /\ dl = [d \in Downloaders |-> Idle]
  /\ todo = [t \in Threads |-> {}]
  /\ call = [t \in Threads |-> NoCall]
  /\ ui = UiIdle
  /\ shown = feeds
  /\ itemlist = Closed
  /\ crashed = FALSE

-----------------------------------------------------------------------------
(* controller::reload(pos), run by any of the threads *)

\* Mutant: position and index confused when the feed is looked up.
BeginReload_OffByOne(t, pos, want) ==
  IF pos <= Len(feeds)
  THEN LET o == feeds[1 + (pos % Len(feeds))]
       IN /\ call' = [call EXCEPT ![t] = [pos |-> pos, old |-> o, want |-> want]]
          /\ obj' = SetStatus(o, "DURING_DOWNLOAD")
  ELSE UNCHANGED <<call, obj>>

\* The read of feeds[pos], without feeds_mutex, and set_status.
BeginReload(t, pos, want) ==
  IF pos <= Len(feeds)
  THEN /\ call' = [call EXCEPT ![t] = [pos |-> pos, old |-> feeds[pos],
                                       want |-> want]]
       /\ obj' = SetStatus(feeds[pos], "DURING_DOWNLOAD")
  ELSE UNCHANGED <<call, obj>>        \* "Error: invalid feed!"

\* Mutants: the new feed is stored one position too far; its own articles are
\* dropped instead of the old object's.
StoreFeed_NextPosition(t) ==
  LET c == call[t]
      stored == Append(obj, NewFeed(Url(c.old), obj[c.old].order))
  IN /\ Busy(t) /\ c.pos < Len(feeds) /\ Len(obj) < MaxObj
     /\ feeds' = [feeds EXCEPT ![c.pos + 1] = Len(obj) + 1]
     /\ obj' = [stored EXCEPT ![c.old].status = "SUCCESS"]
     /\ shown' = feeds'
     /\ call' = [call EXCEPT ![t] = NoCall]
     /\ UNCHANGED <<reload_mutex, dl, todo, ui, itemlist, crashed>>
StoreFeed_ClearsNew(t) ==
  LET c == call[t]
      stored == Append(obj, NewFeed(Url(c.old), obj[c.old].order))
  IN /\ Busy(t) /\ c.pos <= Len(feeds) /\ Len(obj) < MaxObj
     /\ feeds' = [feeds EXCEPT ![c.pos] = Len(obj) + 1]
     /\ obj' = [stored EXCEPT ![Len(obj) + 1].cleared = TRUE,
                              ![c.old].status = "SUCCESS"]
     /\ shown' = feeds'
     /\ call' = [call EXCEPT ![t] = NoCall]
     /\ UNCHANGED <<reload_mutex, dl, todo, ui, itemlist, crashed>>

\* parse() returned articles: under feeds_mutex save_feed() puts a new object
\* at the position, whatever is there by now, and empties the object that was
\* there. The call ends with the old object at the given status.
Stored(t, order, emptied, status) ==
  LET c == call[t]
      new == Len(obj) + 1
  IN /\ Busy(t) /\ c.pos <= Len(feeds) /\ new <= MaxObj
     /\ feeds' = [feeds EXCEPT ![c.pos] = new]
     /\ obj' = [o \in 1 .. new |->
                  IF o = new THEN NewFeed(Url(c.old), order)
                  ELSE [obj[o] EXCEPT
                          !.cleared = @ \/ o \in emptied,
                          !.status = IF o = c.old THEN status ELSE @]]
     /\ call' = [call EXCEPT ![t] = NoCall]
     /\ UNCHANGED <<reload_mutex, dl, todo, ui, itemlist, crashed>>

\* All of it: internalize_rssfeed() once more, the object the call began with
\* is emptied as well, and the feed list is redrawn.
StoreFeed(t) ==
  /\ Stored(t, obj[call[t].old].order, {feeds[call[t].pos], call[t].old}, "SUCCESS")
  /\ shown' = feeds'

\* The second internalize_rssfeed() throws, and the feed keeps the order that
\* save_feed() gave it, of the object it has replaced; or enqueue_items()
\* throws, after the order has been set. Either way the object the call began
\* with keeps its articles, unless it is the one replaced, and nothing is
\* redrawn.
StoreThenFail(t) ==
  /\ Busy(t) /\ call[t].pos <= Len(feeds)
  /\ \E o \in {feeds[call[t].pos], call[t].old} :
       Stored(t, obj[o].order, {feeds[call[t].pos]}, "DL_ERROR")
  /\ UNCHANGED shown

\* The same with a position that is no longer in the vector.
StoreBeyondEnd(t) ==
  /\ Busy(t) /\ call[t].pos > Len(feeds)
  /\ crashed' = TRUE
  /\ UNCHANGED <<feeds, obj, reload_mutex, dl, todo, call, ui, shown, itemlist>>

\* parse() returned no article; or it threw, or save_feed() did before it had
\* touched the vector.
NothingStored(t, status) ==
  /\ Busy(t)
  /\ obj' = SetStatus(call[t].old, status)
  /\ call' = [call EXCEPT ![t] = NoCall]
  /\ UNCHANGED <<feeds, reload_mutex, dl, todo, ui, shown, itemlist, crashed>>
\* (Mutant: the early way out forgets the status.)
EmptyFeed_KeepsStatus(t) == NothingStored(t, obj[call[t].old].status)
EmptyFeed(t) == NothingStored(t, "SUCCESS")
FailedFeed(t) == NothingStored(t, "DL_ERROR")

EndReload(t) ==
  \/ StoreFeed(t) \/ StoreThenFail(t) \/ StoreBeyondEnd(t)
  \/ EmptyFeed(t) \/ FailedFeed(t)

-----------------------------------------------------------------------------
(* The downloadthreads and the reloadrangethreads *)

At(d, pc) == dl[d].pc = pc
Goto(d, pc) == dl' = [dl EXCEPT ![d].pc = pc]

\* trylock_reload_mutex(); without it the thread is over.
TryLock(d) ==
  /\ At(d, "try")
  /\ IF reload_mutex = Nobody
     THEN /\ reload_mutex' = d
          /\ Goto(d, IF dl[d].indexes = {} THEN "reset" ELSE "indexes")
          /\ todo' = [todo EXCEPT ![d] = dl[d].indexes]
     ELSE /\ dl' = [dl EXCEPT ![d] = Idle]
          /\ UNCHANGED <<reload_mutex, todo>>
  /\ UNCHANGED <<feeds, obj, call, ui, shown, itemlist, crashed>>

\* reload_all(): reset_status of every feed and the size, under feeds_mutex,
\* and then the ranges of the threads. With no feed at all there is no range:
\* the only thread would count from 0 to 2^32 - 1, for ever.
ResetStatus(d) ==
  /\ At(d, "reset")
  /\ obj' = [o \in DOMAIN obj |->
               IF \E i \in DOMAIN feeds : feeds[i] = o
               THEN [obj[o] EXCEPT !.status = "TO_BE_DOWNLOADED"] ELSE obj[o]]
  /\ IF feeds = <<>>
     THEN Goto(d, "endless") /\ UNCHANGED todo
     ELSE /\ Goto(d, "ranges")
          /\ todo' = [t \in Threads |->
               IF t = d THEN Partition(Len(feeds), NumThreads, NumThreads)
               ELSE IF t \in 1 .. (NumThreads - 1)
                    THEN Partition(Len(feeds), NumThreads, t) ELSE todo[t]]
  /\ UNCHANGED <<feeds, reload_mutex, call, ui, shown, itemlist, crashed>>

\* The next reload() of reload_range() or of reload_indexes(). A range is
\* reloaded in the order of its feeds' domains, which is any order here.
NextFeed(t) ==
  /\ t # UI /\ ~Busy(t)
  /\ \E pos \in todo[t] :
       /\ todo' = [todo EXCEPT ![t] = @ \ {pos}]
       /\ BeginReload(t, pos, dl[reload_mutex].want)
  /\ UNCHANGED <<feeds, reload_mutex, dl, ui, shown, itemlist, crashed>>

\* reload_all() has joined its threads, reload_indexes() is through.
RangesDone ==
  \A t \in Threads \ {UI} : todo[t] = {} /\ ~Busy(t)
Join(d) ==
  /\ At(d, "ranges") /\ RangesDone /\ Goto(d, "sort")
  /\ UNCHANGED <<feeds, obj, reload_mutex, todo, call, ui, shown, itemlist, crashed>>
IndexesDone(d) ==
  /\ At(d, "indexes") /\ todo[d] = {} /\ ~Busy(d) /\ Goto(d, "unlock")
  /\ UNCHANGED <<feeds, obj, reload_mutex, todo, call, ui, shown, itemlist, crashed>>

\* Mutant: sorted without update_feedlist() after it.
SortAfter_NoUpdate(d) ==
  /\ At(d, "sort") /\ Goto(d, "unlock")
  /\ feeds' \in SortResults(feeds)
  /\ UNCHANGED <<obj, reload_mutex, todo, call, ui, shown, itemlist, crashed>>

\* sort_feeds() and update_feedlist(), each under feeds_mutex.
SortAfter(d) ==
  /\ At(d, "sort") /\ Goto(d, "update")
  /\ feeds' \in SortResults(feeds)
  /\ UNCHANGED <<obj, reload_mutex, todo, call, ui, shown, itemlist, crashed>>
UpdateAfter(d) ==
  /\ At(d, "update") /\ Goto(d, "unlock")
  /\ shown' = feeds
  /\ UNCHANGED <<feeds, obj, reload_mutex, todo, call, ui, itemlist, crashed>>

\* Mutant: the thread ends without unlock_reload_mutex().
Unlock_Forgotten(d) ==
  /\ At(d, "unlock")
  /\ dl' = [dl EXCEPT ![d] = Idle]
  /\ UNCHANGED <<feeds, obj, reload_mutex, todo, call, ui, shown, itemlist, crashed>>

Unlock(d) ==
  /\ At(d, "unlock")
  /\ reload_mutex' = Nobody
  /\ dl' = [dl EXCEPT ![d] = Idle]
  /\ UNCHANGED <<feeds, obj, todo, call, ui, shown, itemlist, crashed>>

Downloader(d) ==
  \/ TryLock(d) \/ ResetStatus(d) \/ Join(d) \/ IndexesDone(d)
  \/ SortAfter(d) \/ UpdateAfter(d) \/ Unlock(d)
  \/ NextFeed(d) \/ EndReload(d)
Worker(w) == NextFeed(w) \/ EndReload(w)

-----------------------------------------------------------------------------
(* The main thread *)

UiFree == ui.pc = "idle" /\ ~Busy(UI)

\* The reloadthread, or the program's start, spawns a thread for all feeds.
AutoReload(d) ==
  /\ At(d, "idle")
  /\ dl' = [dl EXCEPT ![d] = [pc |-> "try", want |-> Urls, indexes |-> {}]]
  /\ UNCHANGED <<feeds, obj, reload_mutex, todo, call, ui, shown, itemlist, crashed>>

\* OP_RELOADALL, with the lines V of the list visible under its filter. The
\* visible positions are only handed over with OnlyVisible.
StartReloadAll(d, V) ==
  /\ At(d, "idle") /\ UiFree /\ itemlist = Closed
  /\ dl' = [dl EXCEPT ![d] =
       [pc |-> "try",
        want |-> IF OnlyVisible THEN {Url(shown[i]) : i \in V} ELSE Urls,
        indexes |-> IF OnlyVisible THEN V ELSE {}]]
  /\ UNCHANGED <<feeds, obj, reload_mutex, todo, call, ui, shown, itemlist, crashed>>

\* OP_OPEN: get_feed() throws for a bad position; a feed without articles is
\* not opened. The article list remembers the position.
OpenFeed(i) ==
  /\ "open" \in UiOps /\ UiFree /\ itemlist = Closed
  /\ IF i > Len(feeds)
     THEN crashed' = TRUE /\ UNCHANGED itemlist
     ELSE /\ ~obj[feeds[i]].cleared
          /\ itemlist' = [url |-> Url(feeds[i]), pos |-> i]
          /\ UNCHANGED crashed
  /\ UNCHANGED <<feeds, obj, reload_mutex, dl, todo, call, ui, shown>>
CloseFeed ==
  /\ UiFree /\ itemlist # Closed /\ itemlist' = Closed
  /\ UNCHANGED <<feeds, obj, reload_mutex, dl, todo, call, ui, shown, crashed>>

\* OP_RELOAD in the feed list and in an article list: on this thread and
\* without reload_mutex.
ReloadSelected(i) ==
  /\ "reload" \in UiOps /\ UiFree /\ itemlist = Closed
  /\ BeginReload(UI, i, {Url(shown[i])})
  /\ UNCHANGED <<feeds, reload_mutex, dl, todo, ui, shown, itemlist, crashed>>
ReloadOpen ==
  /\ "reload" \in UiOps /\ UiFree /\ itemlist # Closed
  /\ BeginReload(UI, itemlist.pos, {itemlist.url})
  /\ UNCHANGED <<feeds, reload_mutex, dl, todo, ui, shown, itemlist, crashed>>

\* prepare() of the feed list after "feed-sort-order" was changed.
SortList ==
  /\ "sort" \in UiOps /\ UiFree /\ itemlist = Closed
  /\ feeds' \in SortResults(feeds)
  /\ ui' = [ui EXCEPT !.pc = "update"]
  /\ UNCHANGED <<obj, reload_mutex, dl, todo, call, shown, itemlist, crashed>>
UpdateList ==
  /\ ui.pc = "update"
  /\ shown' = feeds
  /\ ui' = UiIdle
  /\ UNCHANGED <<feeds, obj, reload_mutex, dl, todo, call, itemlist, crashed>>

\* reload_urls_file(): the new vector is built from the old one without the
\* lock, the objects of known URLs kept and given their new order; then it
\* replaces the vector, and sort_feeds() and update_feedlist() follow.
BuildFeeds(file) ==
  LET Known(u) == {i \in DOMAIN feeds : Url(feeds[i]) = u}
      First(u) == CHOOSE i \in Known(u) : \A j \in Known(u) : i <= j
      New == {k \in DOMAIN file : Known(file[k]) = {}}
      Id(k) == Len(obj) + Cardinality({n \in New : n <= k})
      kept == {feeds[First(file[k])] : k \in DOMAIN file \ New}
  IN /\ "urls" \in UiOps /\ UiFree
     /\ Len(obj) + Cardinality(New) <= MaxObj
     /\ ui' = [pc |-> "swap",
               new |-> [k \in DOMAIN file |->
                          IF k \in New THEN Id(k) ELSE feeds[First(file[k])]]]
     /\ obj' = [o \in 1 .. (Len(obj) + Cardinality(New)) |->
                  IF o > Len(obj)
                  THEN LET k == CHOOSE n \in New : Id(n) = o
                       IN NewFeed(file[k], k)
                  ELSE IF o \in kept
                       THEN LET k == CHOOSE n \in DOMAIN file : file[n] = Url(o)
                            IN [obj[o] EXCEPT !.order = k]
                       ELSE obj[o]]
     /\ UNCHANGED <<feeds, reload_mutex, dl, todo, call, shown, itemlist, crashed>>
SwapFeeds ==
  /\ ui.pc = "swap"
  /\ feeds' = ui.new
  /\ ui' = [pc |-> "sort", new |-> <<>>]
  /\ UNCHANGED <<obj, reload_mutex, dl, todo, call, shown, itemlist, crashed>>
SortNewFeeds ==
  /\ ui.pc = "sort"
  /\ feeds' \in SortResults(feeds)
  /\ ui' = [ui EXCEPT !.pc = "update"]
  /\ UNCHANGED <<obj, reload_mutex, dl, todo, call, shown, itemlist, crashed>>

UiStep ==
  \/ \E d \in Downloaders, V \in SUBSET DOMAIN shown : StartReloadAll(d, V)
  \/ \E i \in DOMAIN shown : OpenFeed(i) \/ ReloadSelected(i)
  \/ CloseFeed \/ ReloadOpen \/ EndReload(UI)
  \/ SortList \/ UpdateList
  \/ \E file \in UrlFiles : BuildFeeds(file)
  \/ SwapFeeds \/ SortNewFeeds

Next ==
  /\ ~crashed
  /\ \/ UiStep
     \/ \E d \in Downloaders : AutoReload(d) \/ Downloader(d)
     \/ \E w \in Workers : Worker(w)

Spec == Init /\ [][Next]_vars

\* The background threads run on: a download ends at the latest when curl's
\* timeout strikes, and nothing they wait for is held by the main thread. The
\* user need not do anything.
LiveSpec ==
  /\ Spec
  /\ \A d \in Downloaders : WF_vars(~crashed /\ Downloader(d))
  /\ \A w \in Workers : WF_vars(~crashed /\ Worker(w))

-----------------------------------------------------------------------------
(* Properties *)

Feed == [url : Urls, order : Nat, status : Statuses, cleared : BOOLEAN]
Call == [pos : Nat, old : Nat, want : SUBSET Urls]
Phases == {"idle", "try", "reset", "endless", "ranges", "indexes", "sort",
           "update", "unlock"}

\* The type invariant of the module's state.
TypeOK ==
  /\ feeds \in Seq(Nat) /\ obj \in Seq(Feed)
  /\ reload_mutex \in Downloaders \cup {Nobody}
  /\ dl \in [Downloaders -> [pc : Phases, want : SUBSET Urls, indexes : SUBSET Nat]]
  /\ todo \in [Threads -> SUBSET Nat]
  /\ call \in [Threads -> Call]
  /\ ui \in [pc : {"idle", "update", "swap", "sort"}, new : Seq(Nat)]
  /\ shown \in Seq(Nat)
  /\ itemlist \in [url : Urls \cup {"none"}, pos : Nat]
  /\ crashed \in BOOLEAN

\* "there is only one feed with a given URL" (controller::mark_all_read): no
\* reload puts its feed where another one has been sorted to meanwhile.
OneFeedPerUrl ==
  \A i, j \in DOMAIN feeds : Url(feeds[i]) = Url(feeds[j]) => i = j

\* While nobody edits the urls file, each of its feeds stays in the vector:
\* reload() overwrites no feed but the one it has downloaded.
NoFeedLost ==
  \A k \in DOMAIN InitialUrls : \E i \in DOMAIN feeds : Url(feeds[i]) = InitialUrls[k]

\* A feed in the vector has its articles: clear_items() in reload() and
\* save_feed() only hits objects that have left the vector.
ListedFeedsHaveArticles == \A i \in DOMAIN feeds : ~obj[feeds[i]].cleared

\* reload() downloads a feed that its caller asked for: the selected one ("Reload
\* the currently selected feed."), or one of those visible when the user
\* pressed "reload all" under reload-only-visible-feeds.
ReloadsWhatWasAsked ==
  \A t \in Threads : Busy(t) => Url(call[t].old) \in call[t].want

\* When reload_all() has joined its threads, every feed had its turn: none is
\* left "to be downloaded", so the ranges of the threads leave no gap.
ReloadAllReachesAll ==
  \A d \in Downloaders : At(d, "sort") =>
    \A i \in DOMAIN feeds : obj[feeds[i]].status # "TO_BE_DOWNLOADED"

\* A feed shown as being downloaded is being downloaded by some thread: no
\* end of a reload() leaves the mark on an object still in the vector.
DownloadingHasThread ==
  \A i \in DOMAIN feeds : obj[feeds[i]].status = "DURING_DOWNLOAD" =>
    \E t \in DOMAIN call : Busy(t) /\ call[t].old = feeds[i]

\* What the user selects on screen. The feed list has as many lines as the
\* vector has feeds, whatever the threads do to it, so that no key leaves it
\* ("invalid feed index (bug)", controller::get_feed). A line shows the feed at
\* its position; or, while a background reload is between sort_feeds() and
\* update_feedlist(), another feed of the vector; or the object that a store
\* has emptied before it failed. Only while the main thread itself replaces or
\* sorts the vector it may be different, and then it reads no key.
ShowsFeed(i) ==
  \E j \in DOMAIN feeds :
    /\ feeds[j] = shown[i]
    /\ j = i \/ \E d \in DOMAIN dl : At(d, "update")
ScreenIsCurrent ==
  ui.pc \in {"idle", "swap"} =>
    /\ Len(shown) = Len(feeds)
    /\ \A i \in DOMAIN shown : ShowsFeed(i) \/ obj[shown[i]].cleared

\* reload_mutex keeps two background reloads apart: the positions they still
\* have to do are never two lists at once.
OneBackgroundReload ==
  \A d, e \in Downloaders :
    dl[d].pc \notin {"idle", "try"} /\ dl[e].pc \notin {"idle", "try"} => d = e

\* No position is used beyond the end of the vector.
NoIndexBeyondEnd == ~crashed

\* A background reload ends and gives reload_mutex back, whatever the other
\* threads do and however its downloads end.
ReloadAllEnds ==
  \A d \in Downloaders : /\ At(d, "try") ~> At(d, "idle")
                         /\ reload_mutex = d ~> reload_mutex # d

\* The feed list is the list of Subscriptions, a feed's version being the object
\* that is in the vector for it.
Listed == [i \in DOMAIN feeds |-> [url |-> Url(feeds[i]), version |-> feeds[i]]]
Abstract == INSTANCE Subscriptions WITH list <- Listed
IsSubscriptions == Abstract!Spec
=============================================================================
