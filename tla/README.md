# newsbeuter and podbeuter in TLA+

This directory holds a formal model of the two programs of this repository:
*newsbeuter*, an RSS/Atom reader for text terminals, and *podbeuter*, the
download manager that works off the queue of enclosures newsbeuter fills. Each
module models one part of the code in `src/`; TLC checks it on small instances,
and TLAPS proves the most important results for instances of every size.

Paths below are relative to the repository (`src/` is its source directory).

## 1. The system

### 1.1 newsbeuter's threads and locks

One **main thread** runs `view::run()`: it reads a key from STFL, hands the
operation to the form action on top of a stack, and redraws. One **reloadthread**
wakes up at intervals and asks the controller for an auto-reload. Each reload of
many feeds is a detached **downloadthread**, which tries `reload_mutex` and gives
up if another one holds it; inside, `reload_all()` divides the vector of feeds
among **reloadrangethreads** and joins them. `markreadthread`s talk to remote
services. Single feeds are reloaded on the main thread itself, without
`reload_mutex`.

| shared state | guarded by | but also touched |
|---|---|---|
| `controller::feeds`, a vector of `shared_ptr<rss_feed>` | `feeds_mutex` | `reload()` reads `feeds[pos]` before and stores at `pos` after a download with the mutex free in between; `reload_urls_file()` and `reload_range()` read it without |
| the articles of a feed | `item_mutex` of the feed | flags of single articles |
| the SQLite cache | `rsscache`'s `mtx` | `fetch_descriptions()` |
| the stack of form actions | `view::mtx` for redrawing | pushed and popped without; `notify_itemlist_change()` walks it from a reload |
| the queue file | nothing | appended to by newsbeuter, rewritten by podbeuter |
| podbeuter's vector of downloads | nothing | threads hold addresses of its elements |
| lock files | `lockf` | removed by name |
| session id of Tiny Tiny RSS | `auth_lock` while logging in | read by every call without |

### 1.2 Components

The list with the sources is in `PROJECT.json` (`components`); in short:

| component | state | operations | hard because of |
|---|---|---|---|
| reload controller | the vector, statuses of feeds, `reload_mutex`, positions kept by threads and lists | `reload`, `reload_range`, `reload_indexes`, `reload_all`, `sort_feeds`, `reload_urls_file`, opening a feed | interleavings, stale positions |
| podbeuter | queue file, vector of downloads, download threads, files on disk | queue reload, automatic download, download, cancel, delete, purge, play, quit | no lock at all, crash, resumed downloads |
| start-up and shut-down | lock file, cache lock, early returns | `controller::run`, import and export | order of acquisition, threads alive at the end |
| lock file | the file and the kernel's lock | `try_fs_lock`, `remove_fs_lock` | several processes |
| article cache | tables `rss_feed`, `rss_item` | externalize, internalize, search, clean-up, flags | truncation, crash between statements |
| articles in memory | flags, counters, query feeds | `set_unread`, `update_items`, `mark_all_read`, sort, ignores | two copies of one flag |
| feed retrieval | Last-Modified and ETag | `rss_parser::parse`, `download_http` | retry, order of the writes |
| view | stack of form actions, current one, status line | push, pop, dialogs, next unread | walked by other threads, indexes |
| forms for feeds, articles, article | visible lines, positions, filter | keys, jumps, questions | positions across changes |
| question-and-answer line | queue of prompts | `start_qna`, `finished_qna` | sequences of prompts |
| history | lines, position | add, prev, next, load, save | boundaries |
| urls file and OPML | urls, tags | reload, write | nothing concurrent |
| remote services | session, read flags | login, fetch, mark | expired sessions, two sides |
| configuration | settings, key bindings, macros | parse, bind, unbind | nested includes |
| filter language | expression tree | `matches` | types of operands |
| feed parsers | none that outlives a call | walk over the elements | elements that replace each other, in any order |
| text rendering, logging | none that outlives a call | conversions | reached by unit tests |

### 1.3 What correct means

* **reload controller**: no feed is lost, duplicated or emptied by the reloads that
  run at the same time; a reload downloads the feed that was asked for; "reload
  all" reaches all; a background reload ends and frees `reload_mutex`; the
  screen's lines are the vector's.
* **podbeuter**: an URL leaves the queue only by the user's wish; what is in
  memory is on disk; a file shown as complete is; every queued download is started; no thread writes through a pointer into a vector
  that has been replaced.
* **cache and articles**: a flag set by the user survives reloads and restarts; a
  deleted article does not come back; what is listed is what is stored; no article
  vanishes between its download and its row.
* **view**: the current form action is on the stack; a dialog's index is the
  dialog it was drawn for; no thread uses a form action that is gone.
* **start-up**: two processes never use one cache; nothing is stored after the
  clean-up; the program ends from every state.
* **remote services**: when nothing is under way an article is unread here exactly if
  it is at the service; a call fails only if something outside failed it.
* **lists**: the lines are the visible feeds and articles, "next unread" finds one if
  there is one, and closing a form puts the cursor back.
* **questions, history, configuration, urls**: answers belong to the question that is
  finished; a history, a dump and a rewritten urls file can be read back.
* **filters, documents**: a filter means what is written; the order of a document's
  elements makes no difference.
* **mutexes**: no threads wait for each other in a circle.

## 2. Modules and how they compose

| module | models | composed and run by |
|---|---|---|
| `Subscriptions` | what the feed list promises (abstract) | refined by `FeedReload` |
| `FeedReload` | vector, reloads, threads, main thread | `MCFeedReload`, `MCFeedReloadAny` |
| `FeedReloadProofs` | TLAPS proofs for `FeedReload`, in the default configuration and in any | |
| `PodQueue` | podbeuter and the queue file | `MCPodQueue` |
| `PodQueueProofs` | TLAPS proofs for `PodQueue` | |
| `Articles` | one feed's articles in cache, list and article view; limits, crashes | `MCArticles` |
| `ArticlesProofs` | TLAPS proofs for `Articles` | |
| `Session` | processes with one home directory: lock, start, run, end | `MCSession` |
| `SessionProofs` | TLAPS proofs for `Session` and `Locks` | |
| `Services` | read flags and stars at four kinds of remote service | `MCSession`, with the values of `MCServices` |
| `ServicesProofs` | TLAPS proofs for `Services` and `UrlSources` | |
| `Locks` | which mutex is taken while which is held | `MCSession` |
| `OpenDialogs` | what the dialogs promise (abstract) | refined by `FormStack` |
| `FormStack` | stack of forms, list of dialogs, modal forms, questions | `MCMainThread` |
| `FormStackProofs` | TLAPS proofs for `FormStack`: it implements `OpenDialogs` | |
| `Lists` | cursors, filters and jumps of feed list, article list, article | `MCLists`, `MCMainThread` |
| `Settings` | options, keys, macros, filters, colours; config files and dump | `MCSettings`, `MCMainThread` |
| `Questions` | question-and-answer line and histories | `MCMainThread` |
| `Filters` | parser and matcher of the filter language | `MCFilters`, `MCMainThread` |
| `UrlSources` | urls file, OPML, services' lists, import and export | `MCUrlSources`, `MCMainThread` |
| `Documents` | from a feed's document to articles | `MCDocuments`, `MCMainThread` |
| `Folding` | what a fold over a sequence computes, for any operator, with TLAPS proofs | instances in `MainThreadProofs`, `ServicesProofs` |
| `MainThreadProofs` | TLAPS proofs for `Lists`, `Questions`, `Documents` | |

A composing module with a variable `part` takes one of its parts at a time: the
parts share no state in the code (or their sharing is what another module is about),
so that the union of their behaviours is all there is to see, and their product
would only repeat it. The part's other variables keep their first value.

What a careful team would add next: the walk of `notify_itemlist_change()` through
the stack (section 4), and a store of flags as the abstract specification of `Articles`.

## 3. Modules

### 3.1 `FeedReload`: the reload controller

State: `feeds`, the vector, as indexes into `obj`, the `rss_feed` objects in the
order of their allocation (a `shared_ptr` never dangles, so objects are never
freed in the model). An object has its URL, its order in the urls file, its
download status, and whether its articles have been dropped (`clear_items()`).
`reload_mutex` is its holder. `dl[d]` is the place a downloadthread is at, with the
positions it was given. `todo[t]` holds the positions that thread t still has to
reload, `call[t]` the call of `reload()` it is in: the position, the object found
there before the download, and (a history variable) the feeds whoever asked for
the reload meant. `ui`, `shown` and `itemlist` are the main thread's: what it is in
the middle of, the lines on screen, and the open article list.

Actions: `BeginReload`/`EndReload` are the two halves of `reload(pos)`, before and
after the download, which takes no lock. `StoreFeed` is one action because
`save_feed()`, `internalize_rssfeed()` and the assignment happen under
`feeds_mutex`; `EmptyFeed` and `FailedFeed` are its other ends; `StoreBeyondEnd` is
the undefined behaviour of an index beyond the vector's end, which stops the model
(`crashed`). `TryLock`, `ResetStatus`, `NextFeed`, `Join`, `SortAfter`,
`UpdateAfter`, `Unlock` are `downloadthread` and `reload_all()`. The `Ui...`
operations are the form actions that use a position: `OpenFeed`, `ReloadSelected`,
`ReloadOpen`, `StartReloadAll`, `SortList`, and `reload_urls_file()` in its steps
`BuildFeeds`, `SwapFeeds`, `SortNewFeeds`, `UpdateList`.

Abstracted: what a feed contains (any download may have articles, have none or
fail), titles and tags (with `SortByKey` a sort may have any result a stable sort
has for some keys), the order within a range (sorted by domain: any order).
`parse()`'s result does not depend on the feed. Query feeds are not in this model.

Bounds: `MaxObj` bounds the downloads with articles; three feeds and one or two
background threads are enough for two ranges of different size, two background
reloads that compete, and a third thread (the main one) that reloads. With two
urls files a feed disappears and another one appears.

Fairness (`LiveSpec`): weak fairness of each background thread. A download ends
at the latest at `download-timeout`; a mutex that a thread waits for is given back
(threads do not wait in a circle, 3.12); the user is not assumed to do anything.

`Subscriptions` is the abstract list; `IsSubscriptions` says that `FeedReload`
implements it, the version of a line being the object in the vector.

| run | shows |
|---|---|
| `feeds_default` | default configuration, two feeds, two downloadthreads, two ranges, everything but a changed urls file: no feed twice or emptied, none left out, the right one reloaded, the abstract list implemented, and every background reload ends |
| `feeds_any` | any sort order, in three parts: `any`, everything at once, also a reread of the urls file, where the lines on screen are still the vector's (`ScreenIsCurrent`) and a feed marked as being downloaded is (`DownloadingHasThread`); `alone`, three feeds and only background reloads, and `quiet`, only the main thread with two urls files, where the vector still implements `Subscriptions` (`KeepsSubscriptions`) |
| `feeds_stale_position` | a refutation, see section 5 |

### 3.2 `FeedReloadProofs`: the default configuration

For the default configuration (`feed-sort-order none`, `reload-only-visible-feeds no`,
urls file not edited meanwhile) and for **every** urls file, every number of
downloadthreads and range threads and every sequence of keys, TLAPS proves
`TypeCorrect`, `VectorKept`, `ArticlesKept`, `ReloadsRightFeed`, `ReachesAll`,
`MutualExclusion` and `ImplementsSubscriptions`. `TypeOK`, with the bounds of
all positions, is proved and not run.

The argument is the inductive invariant `IInv`. None of the properties is
inductive by itself: that `reload()` overwrites the right line needs to know that
the position in `call[t]` and the object in `call[t].old` belong to the same line of
the urls file (`CallInv`), which needs the same of every position somebody may begin
with: the vector (`VectorInv`), the screen and the open article list (`ScreenInv`),
and the ranges. That the vector keeps its order needs that sorting a sorted vector
changes nothing (`SortKeepsSorted`, about the model of `std::stable_sort`). That no
feed is left out needs that the ranges cover the vector (`PartitionCovers`, by
division with rest, for any number of feeds and threads) and that, while ranges
are reloaded, a feed still waiting is in one of them (`CoverInv`). `ThreadInv` ties
the threads' places to the holder of `reload_mutex`.

The assumptions are `FeedReloadAssumption` (the constants have the right types, no
URL twice in an urls file) and `DefaultConfiguration`. The run `feeds_stale_position`
shows why the sort order must be fixed.

### 3.2a `FeedReloadProofs`: any configuration

For **any** configuration: any sort order, `reload-only-visible-feeds`, rereads of any of
any set of urls files. Feeds may then be stored over one another and a position may leave
the vector, so `IInv` is lost. What is left is the inductive invariant `General`: the
state is well typed and what refers to an object refers to one that exists
(`WellFormed`), only the holder of `reload_mutex` has positions to do (`MutexInv`), a
downloading mark has its thread (`MarksHeld`), and the screen is current. From it follow
`AlwaysTyped`, `ScreenStaysCurrent`, `MarkedIsDownloaded` and `AlwaysOneReload`.

The finding `feeds_stale_position` needs a background reload and the main thread's own work
on the vector. `PositionsHold` excludes just that: there is no background reload at all, or the
main thread only opens feeds. Then, still for any sort order and any rereads, `Sound` is an
invariant: every call of `reload()` has at its position the feed it was called for
(`CallsAtHome`), because whoever moves feeds is alone (`BusyInv`, `NobodyReloads`). With it,
`SoundVector` (no feed twice, none emptied) and `SortedSubscriptions` (the vector implements
`Subscriptions`) are proved. Two lemmas carry them: a stable sort permutes its argument for any
keys (`StableSortPermutes`, from `RankFacts` by counting), and what `reload_urls_file()`
builds has one object per line of the file, the old one where there is one (`BuiltAs`).
Neither alternative of `PositionsHold` is empty: the parts `alone` and `quiet` of the run
`feeds_any` are instances of them.

### 3.3 `PodQueue`: podbeuter

State: `queuefile`, the lines; `disk`, what is in each URL's file; `downloads`, the
vector with its `capacity`; `view`, the main thread with its place and locals;
`thread`, the poddlthreads, each with the number of the element whose address it
holds (0 once that element is gone); `enqueue`, newsbeuter between searching the
queue file and appending to it.

Actions: `Start`, then `queueloader::reload()` in the steps another process or
thread can come between: `Scan` for each element of the vector, `ReadLine` for each line
of the file, `OpenForWriting`, `WriteLine` for each line, `Swap`. The loop of `pb_view::run()` is `CountDownloads`, `SetBudget` and
`StartDownload` for automatic download, then one key: `Toggle`, `More`, `Less`,
`Download`, `LookAtStatus` with `SetNewStatus` (play, mark finished, cancel,
delete), `Purge`, `Quit`, or none. `OpenFile`, `OpenFails`, `TransferDone`,
`TransferFails`, `AfterFailure` are `poddlthread::run()` with its retry.
`SearchQueue` and `AppendToQueue` are newsbeuter's `enqueue_url()`. `Crash` ends
podbeuter at any point. A step through a dangling address sets `dangling` and stops
the model.

Abstracted: each URL has a file name of its own; how much of a file is there
(absent, partial, complete, garbled: two writers); rates, progress, the player.

Bounds: `MaxThreads` threads at once (a thread that could not be started waits),
`MaxLines` lines, two URLs. Two are enough for elements that change places and for
a limit of one to be broken.

Fairness (`LiveSpec`): the main loop (its `form.run(500)` times out) and every
thread. That a transfer ends is an assumption about servers and network: the code
sets `CURLOPT_TIMEOUT` to 0. The user is not assumed to do anything.

| run | shows |
|---|---|
| `pod_any` | keys in any order, threads as late as they like: no entry is lost, a deleted one does not come back, no download stays "in progress" |
| `pod_orderly` | crashes, restarts, newsbeuter's appending and a limit that the user raises and lowers, with prompt threads and no cancelling: the queue in memory is on disk, files shown as complete are, no reload under a thread; every queued download is started (`QueuedIsStarted`, under `LiveSpec`) |
| `pod_busy_reload` | a refutation, see section 5 |

`PromptThreads` is what separates `pod_orderly` from `pod_busy_reload`: in
practice a thread opens its file long before the next key or time-out, and then
the reload's check is right; nothing in the code makes it wait.

### 3.4 `PodQueueProofs`

For every set of URLs, every queue file, capacity and number of threads and every set of
keys TLAPS proves

* without any hypothesis: `DownloadsHaveThreads` (`DownloadingHasThread`),
  `CrashLosesNothing` (`QueueOnDisk`) and `DeletedAreForgotten` (`DeletedIsForgotten`);
* `QueueIsKept` (`KeepsQueue`) if newsbeuter appends nothing and nothing kills podbeuter
  (`Undisturbed`): a line that is appended while the file is rewritten is overwritten, and a
  crash in the middle leaves half a file, both in the code and in the model;
* `NoThreadIsCut` (`NoReloadWhileDownloading`) if a thread has opened its file before the next
  key and nothing is cancelled (`Prompt`); `pod_busy_reload` is the counterexample without;
* `CompleteIfReady` (`ReadyIsComplete`) if moreover the key "download" is not pressed, which
  transfers a file that is complete once more, and the first queue file has no marks
  (`Orderly`), a mark being a claim about a file that is older than the model's beginning.

`TypesHold` is the type invariant with the bounds of the vector's positions: whoever holds an
address in the vector holds a position in it (`SlotsThere`), or knows it is gone.

The invariants follow one entry on its way through a reload: the vector, the vector being
built (`view.temp`), the lines to write, the file. `ReloadInv` says that at each point what is
on the next station is still on the last one: `Copied`, what was carried over is in the
vector; `Written`, the lines already written are the first of those to write; `OnDisk`, except
while it is rewritten the file has every URL of the vector. `NoTwins`, no URL is
in the vector twice, is what "already known" in `queueloader.cpp` gives; `Forgotten`, a deleted
entry is still in the vector when the lines of the file are looked up, gives
`DeletedIsForgotten`. `QueueInv` adds, for `KeepsQueue`, that each
line read so far is carried over or in the vector, so that the only way out of the queue is to
be in the vector and not to be carried over: deleted, or purged. `PromptInv`
ties threads and elements one to one (`PointsRight`, `Apart`) and says that an element with a
thread is shown as in progress (`Shown`), so that the reload's check sees it; while the
reload looks through the vector any thread's element is still ahead (`NoneBehind`). `ReadyInv` follows completeness over the same stations and
through the mark in the file (`MarkedReady`), which is all that a restart has, and through
the transfers (`OwnFile`, each transfer writes the file that it began or resumed alone).

Each invariant has one lemma for the keys
(`Ordinary`), one for each step of the reload, and one for the threads.

### 3.5 `Articles`: one feed between cache, list and article view

State: `db`, the rows of `rss_item` that belong to the feed (unread, deleted,
enqueued, flagged, and the version of the text), and `stamp`, the Last-Modified in
its row of `rss_feed`; `listed`, the items of the feed object the article list
shows; `article`, the article view with its guid and whether the feed object it was
opened with is still the listed one, was cleared (`clear_items()`), or was dropped
with its items; `user`, the main thread's operation with the item it is on and the
steps it has to do; `reload`, a reload thread with its place, its document and the
items it has read. `doc` is the feed's document on the server and `tooOld` the
clock against `keep-articles-days`. An article is a number, its guid and its rank by
date. Three history variables name what the properties except: `touched`, articles of
which the row or the item was written since the other one was read from or written to it
(acted on while a reload was replacing the feed, or written by a reload that has not
shown them yet), `hidden`, articles the user deleted and the feed has carried since,
`interrupted`, a store cut short after its stamp.

Actions, the reload thread: `Fetch` (`download_http`), `StoreStamp`
(`update_lastmodified()`, then `remove_old_deleted_items()`), `StartStore` and a
`StoreItem` for each article (`externalize_rssfeed`), `StoreFails`, `ReadRows`
(`internalize_rssfeed` with `max-items`, called twice), `ShowFeed` (`save_feed`),
`EnqueueItem` and `MarkEnqueued` (`enqueue_items`), `NotifyList`. The main thread:
`OpenList`, `CloseList`, `PurgeList`, `MarkFeedRead`, `OpenArticle`, and the keys of
list and view, `PressInList` and `PressInArticle`, which set out the steps of the
operation: `SetUnread`/`SaveUnread`, `SetDeleted`/`MarkDeleted`,
`SetFlags`/`SaveFlags`, `LookUpAgain`, `LeaveArticle`. Flag in memory and row are
separate steps, as in the code; in the list each step takes the item at a position
of whatever list is there by then. `Crash` and `Quit` end the process;
`Restart` is what the next one does (`clean_old_articles()`, load).

Abstracted: titles, authors and contents are one version number; Last-Modified and
ETag are one stamp, and the server answers "not modified" exactly when the stamp
is that of its document; flags are set or not. A list that shrinks under an
operation leaves a position beyond its end: undefined behaviour, after which the
model only lets the process stop. Left out: remote services (`Services` has
`override_unread`), `always-download`, query feeds, errors while loading or enqueueing, a second reload
of the same feed at the same time (`FeedReload` has those).

Bounds: two articles, two or three versions of the document, one day that passes,
`max-items` of one: enough for an article to be pushed out, to come back, to change,
and for the list to change its order under an operation.

| run | shows |
|---|---|
| `articles` | two parts. `any`: delete, toggle and quit in list and view, automatic enqueueing, `reset-unread-on-update`, cleaning at the end, failures and crashes anywhere. `limits`: three versions and flags under `max-items` and `keep-articles-days`. Deleted articles stay deleted, read ones read and queued ones queued; when all is quiet the list agrees with the cache; no article is skipped because of a stamp, no flagged one is removed |
| `articles_dummy` | a refutation, see section 5 |

The exceptions are as narrow as the code allows: `ReadStaysRead` excepts only the row
that `enqueue_items()` writes, `EnqueuedOnce` only the one the user's change of the
unread flag writes. What they hide is real: an article read or unread by the user while the
reload of its feed is between `internalize_rssfeed()` and the end of
`enqueue_items()` gets its old flag back in the cache; a reload that fails while it
stores leaves the list behind the cache for the articles stored before; and a crash
between the stamp and the articles leaves them out until the document changes again. Also, an
OP_DELETE in the list that a reload overtakes between `set_deleted()` and
`mark_deleted()` writes the new item's flag, and the article is not deleted.

### 3.6 `ArticlesProofs`

For every number of articles, versions and days and every setting of the options,
TLAPS proves `DeletedKept` (`DeletedStaysDeleted`) and `FlaggedKept`
(`FlaggedStays`), from `GuidsAreRanks` (guids are positive numbers).

`DeletedStaysDeleted` is not inductive: a deleted row may be removed altogether (it
is too old, or the document has dropped the article), and the next store must not
insert the article anew as an unread one. `HiddenInv` adds what forbids that: a hidden
article without a row is older than `keep-articles-days`, and that limit never moves
back (`Barred`); the document that `remove_old_deleted_items()` compares the rows
with carries every hidden article (`Carried`); documents and work lists hold
articles of the feed only. `max-items` never removes a deleted row
(`LimitedKeeps`). `FlaggedKept` is an action property from the same invariant: the
five steps that remove rows are `StoreStamp`, the two loads and the two ends of
the process.

The other properties of `articles` are proved for every instance too:

| theorem | property |
|---|---|
| `ArticlesInvariance`, `ArticlesTyped` | the inductive invariant `ArticlesInv`, and `TypeOK` |
| `ListShowsCache` | `ListMatchesCache` |
| `ReadRowsStayRead` | `ReadStaysRead` |
| `QueuedOnlyOnce` | `EnqueuedOnce` |
| `NoArticleSkipped` | `NothingSkipped` |

`ListMatchesCache` speaks of the moments when both threads are at rest. What holds at the
others is the invariant: an operation under way has one of the lists of steps its key
can leave (`ListPlans`, `ArticlePlans`), and row and item of its article differ exactly in
what those steps have still to write (`WillSave`, `WillMark`, `WillFlag`), those of every
other article not at all (`ListInv`); it holds the item at its position of the list, or one
of its own once a reload has taken the list away (`UserInv`); the items a reload has read
agree with the rows, but for the newest one on its way into the queue (`ReadInv`,
`QueueInv`); and what is being stored is a document of the feed (`DocInv`). The two
action properties follow from it by what each step may do to a row (`RowStep`): keep the
flags or mark as read, download, write the item put in the queue, write back the main thread's.

`NothingSkipped` needs `SkipInv` on top: the document downloaded is the server's or an
earlier one (`FetchInv`); from the stamp to the last article the download counts as
interrupted, and the stamp is its version, or the 0 of a feed row just made (`StampInv`); while it is
stored, the articles not left to store are held, that is, stored with their text, too old, or
followed by `MaxItems` newer ones (`StoreInv`). `HeldGrows`, `HeldYoung` and
`HeldLimited` say that nothing else takes that away; the last one needs that the limit
drops an article only while it keeps `MaxItems` newer ones (`KeptNewest`), which is a
count by the positions of the articles in the list (`Positions`, a pigeonhole
argument).

### 3.7 `FormStack`: the view's stack of forms

State: `stack` and `current`, the position of the form on screen, which need not be
the top; `parent`; `rows`, the lines a list of dialogs shows, which are drawn anew
only when it has closed a dialog; `loops`, the calls of `run_modal()` that have not
returned; `asking`, the form whose operation waits for `confirm()` or for a program in
the foreground, with an empty pointer on top of the stack; `quitting`, the loop that
pops all forms; `crashed`, a position used beyond the end.

Actions: `Open`, `ViewDialogs`, `RunModal` push a form with the one on screen as its
parent (`Pushed`); `Close` and `PopAll` are `pop_current_formaction()` (`Popped`), which
goes to the parent; `NextDialog` and `PrevDialog` go round the stack; `Draw`,
`SelectRow`, `CloseRow` are the list of dialogs; `Ask` and `Answer` the two ends of a
question, with what the feed list and the file browser do after it;
`ModalReturns` the end of a nested loop; `Quit` sets out `PopAll`.

Abstracted: which form shows what. Article lists, articles, help and lists of URLs
(`Plain`) do the same to the stack, and so do file browser and selections (`Modal`).
Left out: reload threads that write status messages or walk the stack (section 4).

`OpenDialogs` is the abstract specification, after `src/doc/newsbeuter.txt` ("Advanced
Dialog Management"): a tree of open dialogs, of which one has the focus.
`IsOpenDialogs` says that the stack with its positions implements it.

It is the part `forms` of the run `main_thread`: with three plain forms, a list of
dialogs and a modal form, after every sequence of keys, lines of the list mean what they
show (`ActsOnWhatIsShown`), and the stack implements the tree of dialogs (`IsOpenDialogs`).

The bounds: three plain forms give a child, a grandchild and an unrelated form, so
that a parent can be closed before its children. Nothing else is bounded: forms are used
again once nobody refers to them. The program really ends, hence
`CHECK_DEADLOCK FALSE`.

`MayStray = FALSE` is a restriction on the user: with a list of dialogs or a modal form
on screen, next-dialog, prev-dialog and view-dialogs are not pressed. Without it TLC
finds each of the properties violated (section 5).

### 3.7a `FormStackProofs`

From `FormsAssumption` (a form is of one class, and none is the empty pointer) TLAPS proves,
for any forms: `FormsInvariance`, `StackIsOpenDialogs` (`IsOpenDialogs`, the refinement) and
`RowsAreDialogs` (`ActsOnWhatIsShown`). Their one hypothesis is `~MayStray`, the restriction on
the user's keys above: without it the two properties are false of the code.

The inductive invariant `FormsInv` is `TypeOK` and

* `Sound`: no form is twice in the stack; a form above the bottom has another form of the stack
  as parent; `current` is a position of the stack. It is a statement about a view, kept by each
  of its functions (`PushedView`, `PushedEmptyView`, `TakenOutView`, `PoppedView`), also by two of
  them in a row, as after the question whether to overwrite a file. While the program ends and
  the feed list may be popped first, `Sound` is all that remains, and enough for `crashed` never
  to happen: heirs then inherit from themselves, but the position stays in range.
* `AskInv`: the empty pointer is in the stack only while a question is asked, then on top, above a
  form that is the one to go back to. `pop_current_formaction()` reads the form it removes, and
  without this conjunct could take the children of an empty pointer for those without a parent.
* `TopInv`: a list of dialogs or a modal form is on top, and on screen unless it asks. So there
  is at most one, and a question's answer can close the file browser and no other form.
* `LinesInv`: the lines of a list of dialogs are the stack below it, one by one. This is why a
  line's number may be taken for a position, before (`CloseRow`) and after (`SelectRow`) the list
  itself is taken out.

Each action has a lemma that it keeps `FormsInv` and is a step of `OpenDialogs`: `OpenedStep` for
the three that open, `SwitchStep` for next and previous, `ClosedStep` for those that end in
`pop_current_formaction()`, of which `ParentsWithout` says what is left of the tree; `Ask`, `Draw`,
`ModalReturns` and `PopAll` are none that the user sees.

### 3.8 `Session`: processes with one home directory

State, per process: `mode`, what it was started for; `at`, its place in
`controller::run()`; `lock_file` and `fd`, the name it locks and the inode it has opened;
`held`, the inodes it has locked; `saver`, a thread that is storing a feed; `mtx`, whether
`cleanup_cache()` has kept the cache's mutex. `file` is what each name leads to. The
history variable `foul` has the processes without a right to the lock: they took none
(an export), they opened a file that its owner then removed, or lost theirs to another
process that removed it.

Actions, in the order of the code: `Start`, `OpenLock` and `TakeLock` or `Refused` (the two
halves of `try_fs_lock()`), `ReadConfig` (a `cache-file` gives the first lock up and takes
another), `OpenCache`, `ReadUrls`, `Load`, `Work` with their early returns, `Quit`,
`CleanUp`, `Return`, `Destroy`; `BeginStore` and `StoreFeed` are a reload thread; `Hangup`
is `ctrl_c_action()`, `Kill` the end without any of it. The kernel drops the locks of a
process that ends, and nothing else.

`OneProcessPerCache` says who can be to blame if two processes have a cache open;
`NothingStoredAfterCleanUp` is what `cache.cpp:625` is for; `QuitEnds` is refuted
(section 5), under fairness of every process and of its storing thread, as both run until
they wait.

Left out: `--import-from-opml`, which takes no lock and opens no cache.

### 3.9 `SessionProofs`

For every number of processes, every set of modes, configurations and signals TLAPS
proves `TypesHold`, `AloneWithTheCache` (`OneProcessPerCache`) and `MutexStaysKept`
(`NothingStoredAfterCleanUp`) from `SessionAssumption` (the constants name modes,
configurations and signals that exist; no file is not a file).

The invariant `LockInv` has, besides `TypeOK`: `OpenedBeforeLock`, who is about to lock has
opened a file of the name it wants; `LocksDisjoint`, no inode is locked twice, which is the
kernel's promise; and `HasTheFile`, a process inside with a right to the lock has locked the
inode that the name leads to *now*. Two processes with the right would then have locked the
same inode. `HasTheFile` is what has to be added: that a file was locked says nothing
once it was removed by name. `RemovalKeeps` and `MoveKeeps` are its two cases, steps that
remove a file and steps that do not.

### 3.10 `Services`: articles at a remote service

State: `service`, one of Tiny Tiny RSS, NewsBlur, ownCloud News, The Old Reader (FeedHQ's
code is The Old Reader's, with the same calls); `server`, its labels and star of each
article; `sid`, `auth_lock`; `call`, per thread the call it is in; `reload`, the pages a
reload has fetched; `local`, the rows. `excused` has what may differ until the next
reload since a call was lost or another program changed it, `hit` the threads whose call
something outside has failed.

Actions: `Read`, `Toggle`, `Delete`, `MarkFeedRead`, `MarkHere`, `EditFlags` are keys, each with
the call that it makes (Tiny Tiny RSS's marks in a detached `markreadthread`); `LogOn` and
`LeaveProgram` the process; `GetToken`, `Send`, `Answer`, `SessionRefused`, `Lose`, `Login`,
`LoggedIn`, `Waited`, `CallReturns` are a call, with
`run_op()`'s second try and `authenticate()`'s wait for a login that is under way;
`BeginReload`, `NextPage`, `RemoveOldDeleted`, `Store` a reload with the labels and
`override_unread`; `Expire`, `OtherDevice`, `Age` the world outside.

Bounds: two articles on two pages of NewsBlur's answer, one `markreadthread` besides the
main and the reload thread; per service and operation `Touched` names the articles it is
used on.

### 3.11 `ServicesProofs`: `Services`

From `ServicesAssumption` (the main thread, the reload thread and the markreadthreads are
different threads, the kinds are services there are, an article is on one of the pages) TLAPS
proves, for any articles, pages and markreadthreads and for each kind of service:
`TypesHold`; `DeletedAreKept` (`FailedFetchKeepsDeleted`); `OnlyTheHitFail`
(`FailsOnlyWhenHit`); `FlagsAgree` (`AgreesWhenQuiet`).

The actions are first brought to a few forms (`Steps`): the keys that set the read flag all
are `Pressed`, whatever thread makes the call; the eight steps of a call are a `Request`, of
which `Moved` says that it goes on for the same articles. On them rest four invariants.

* `FetchInv`: the pages before the one that is asked for have been fetched, so that a fetch
  that was not cut short has everything; all services but NewsBlur bring everything at once or
  nothing. A row that goes (`RowsGo`) is then one that a fetch broken off has not seen.
* `HitInv`: a call that has no other try left and waits to be sent, is sent or waits for
  another's login while the session is no good has been hit already. That a call fails only
  then is not inductive by itself: the failure comes steps after its cause.
* `ReadInv`: of an article that is not excused, one call at most is under way, it says what is
  here, and once served the service has that; without a call both sides agree; what a reload
  has fetched and not yet stored is still true, and no call is under way for it. It is stated per
  article and guarded by the excuse, so that a step that excuses an article owes nothing for
  it; `ReadKept` then covers every article that a step is not about.
* `StarInv`: the same for the star, which needs in addition that an article without a row has
  none at the service, and that NewsBlur has none at all: only there can a row come back that
  was gone.

### 3.12 `Locks`: which mutex is taken while which is held

An operation is the sequence of its steps (take, give back, touch); `todo` has what is left
of it for each thread, `holder` who has a mutex. The main thread prepares the form on
screen and does one of its operations, over and over; a `downloadthread` goes through
the stages of `reload_all()`, of which `ForceRedraw` prepares the form that is on screen, in
its thread, with whatever filter it has. Two feeds stand for all: one that is downloaded and
one that collects articles of others, a query feed or a search result.

`NobodyWaitsInACircle` holds though the order of the mutexes is not a partial one:
`cache::mark_all_read()` takes the cache's mutex and then `item_mutex`, `enqueue_items()` the
other way round. They are about different feeds, and the circle over a filter with
`unread_count`, which leads from one to the other, would need a second reload, which
`reload_mutex` forbids. What it excepts is a thread that waits for itself: with such a
filter `do_update_visible_items()` takes the `item_mutex` it has (section 5).

`SessionProofs` proves it for every number of downloadthreads (`NobodyEverWaitsInACircle`), from
`LocksAssumption`: the threads are different, and nobody is none of them. `Allowed` says which
mutex may be taken, or touched, while which are held: one of a higher `Rank` (`redraw`, `feeds`,
`view`, `query`, `real`, `cache`), or one of the two exceptions, by what the thread is at
(`Role`): the main thread, a reload, or what comes after a reload. `Between(role, s, g, h)` says
that the steps `s`, taken with the mutexes `g`, keep to that and end with `h`. `TouchInOrder`,
`WithInOrder` and `Both` show it for the three ways to put steps together, and a lemma per
operation (`ReloadInOrder`, `PrepareInOrder`, `MarkReadInOrder`, ...) for the programs themselves.

The invariant `MutexInv` has, besides the types: `OneReloads`, only the holder of `reload_mutex`
is at a stage, and the ranger works only while its reload is at the ranges; and `InOrder`, what
each thread has left to do leads from the mutexes it has to none. The circle: of the mutexes
waited for take the one of the highest rank. Whoever has it waits for one that is not higher, so
by an exception. Either it waits for itself with `redraw` held, as allowed, or it is the main
thread, with the cache's mutex, and wants that of a query feed; whoever has that wants the one of
a downloaded feed and is past its downloads; and whoever has that one is still downloading (or
is again a thread that waits for itself), which `OneReloads` excludes. This is the argument above about the second reload.

### 3.13 `MCSession`

| run | shows |
|---|---|
| `session` | three parts. `processes`: three with one home directory, with a lock that is held, removed and taken anew, hung up and killed anywhere (they are alike, hence symmetry); `services`; `locks`. All safety properties of the three modules |
| `session_quit` | a refutation, see section 5 |

### 3.14 `Lists`: going through feeds and articles

State: `ui`, one record with the cursors, lines, filters and tags of the feed list and of one
article list and the article shown; `unread` and `count` of each feed; `cfg`. Each key is an action:
the operation, then what `prepare()` and drawing do to lists and cursor (`Shown`), as
`view::run()` does them before the next key. `Arrive` is a reload that brings an article,
`Timeout` the redraw of each minute. A position used beyond the end of a vector sets
`beyond` and stops the model: undefined behaviour.

`FeedsAreCurrent`: the feed list has the feeds that filter and tag let through.
`NextUnreadFindsOne`: next-unread gets to an unread article whenever there is one in a
feed of the list. `GoesBack`: closing an article or a list puts the cursor where it should be.

Bounds: three feeds with two, one and no article (which may come), two with one tag;
three configurations: everything automatic, only the next feed, and only
mark-as-read-on-hover.

### 3.14a `Folding`

The code goes through lists: lines of a file, outlines of a document, elements of an entry,
names on a list. The models say so with `FoldLeft` of the community modules, a recursive
function. `Folding` has one theorem after another about a fold with an operator `Op` that is a
constant of the module, so that a module with a fold takes an instance with its own.

* `Induction`: a set of numbers with 0 and with the successor of each member has all of them. No
  induction theorem of the library can be instantiated here; this one is about a set instead of
  an operator, and is proved by counting: subtracting 1 would map the numbers that are missing up
  to n into themselves, one to one but not onto. `LeastExists` follows: a set of numbers that is
  not empty has a least one.
* `FoldSteps`: a fold passes through values that begin with the base and go from one to the next
  by `Op`; `FoldKeeps`: what each step keeps, the fold keeps.
* `FoldOrder`: if of the elements of a sequence any two steps may change places, two sequences that
  list the same elements once have the same fold. Both are led back to one that ends with the same
  element (`RunWithout`, which takes an element out and puts it at the end; `RunsMeet`).

### 3.14b `MainThreadProofs`: `Lists`

For any number of feeds and articles, any tags and configurations TLAPS proves `ListsInvariant`,
`FeedListIsCurrent` (`FeedsAreCurrent`), `LeavingGoesBack` (`GoesBack`) and
`NextUnreadGetsToOne` (`NextUnreadFindsOne`).

The inductive invariant `ListsInv` is about the moment when a key comes: the fields have their
types (`Typed`), and everything an operation left to be made up for has been made up for
(`AtRest`): no cursor or position is still to be set, an article list without a filter has all
articles of its feed, an article on screen is the one at the list's position unless a reload has
replaced the list, the feed list is the filtered one (`Current`). Between the operation and the
drawing this does not hold; `Ready` says what does, per form on top, and each operation has a lemma
that it leads from `AtRest` to `Ready`, each `prepare()` one that it leads back. `Settled` is what
is true while next-unread goes from one feed's list to the next one's. That the walk finds an
unread article needs what the two searches compute: the first position after the cursor, or the
first of all, that satisfies a condition, over a filtered sequence (`Picks`, by `Induction`).
Where the code reads beyond a vector's end (section 5) the model stops, and the properties say so.

### 3.15 `Settings`: configuration

State: `settings`, the objects that handle configuration commands (options with their type, key
bindings per dialog, macros, filters, ignore rules, colours, highlights); `saved`, a dumped
file. `Source` reads a file line by line with its includes, as `configparser` does: the first
error ends it, what was before it stays. `SetValue`, `Toggle`, `ResetToDefault` are the
command line's, `DumpConfig` and `Restart` write a file and read it.

`OrdinaryDumpIsReusable`: reading the dump gives the same settings, for settings that are
`Dumpable`; that predicate names what the dump loses (section 5). Two commands on top of each of
the config files of `MCSettings` get to every pair.

### 3.16 `Questions`: question-and-answer line and history

State: `line`, per form its prompts left, its responses, the operation they end in; `inside`,
what the view knows; `top`; `history`; and `finished`, what was done with the last responses.
`AnswersBelongToQuestion` and `HistoryIsKept` (a session begins with the newest lines of the
last). Bounds: two forms, two questions a session, histories of one line and one that was
added, `history-limit` 1.

`MainThreadProofs` proves both for any forms, texts, histories and limits, with the inductive
invariant `QuestionsInv`: the operation of a form is one with prompts, those that are left and
those answered make up its list (`Begun`), the answers are to the prompts in order and of one
number (`InOrder`), unless a macro answered meanwhile; and no history has an empty line, which
`load_from_file()` would stop at. `QuestionsAssumption` says what the constants are.
That the next session begins with the newest lines is about three sequences, the one written (back
to front, cut at the limit), the file's lines, and the one read by a fold that puts each line in
front.

### 3.17 `Filters`

`gen` is the `FilterParser` with its nodes, position and flag; `ParseString` enters any prefix of
a filter (an error, unless it is all of it). `Parse` is the descent of the generated parser with its
calls of the generator, `Matches` the matcher, exceptions included. `Meaning` is the reference
definition: `and` and `or` have the same strength and go from left to right, blocks first.
All filters of up to three comparisons with up to two blocks, one after the other with the same
parser, against articles and feeds that tell the comparisons apart.

### 3.18 `UrlSources`

`reader` is what a urlreader has; `file`, `opml`, `answer` are what it reads from, and `known` the
names that `ocnews_api` keeps. `Reload`, `Restart`, `EditUrls`, `ServiceChanges`, `Import`,
`ImportOwnExport`. `tokenize_quoted()` takes an unquoted `#` at the beginning of a word for a
comment. `ImportKeepsPlainSubscriptions` is for urls without blanks that do not begin with `#`;
`NameLeadsToFeed` for titles that occur twice, and change. The outlines of an OPML document are
listed in its order, each with the number of its parent.

`ServicesProofs` proves both properties for any files, documents, answers of the services and
titles. `UrlsAssumption` says what these are: a file is a list of lines, a line of strings, a string
of words; an outline's attributes are lists of words and its parent comes before it; an answer
of ownCloud News gives each feed one number, none of them "0"; and `TitleOrder`, by which the names
are sorted, has each title once.

`NamesLeadToFeeds` (`NameLeadsToFeed`). `UrlsInv`: what is read is lists, and the names in
`known_feeds` are finitely many, so that the walk along the stars (`FreeName`) ends, at a name that
nobody has; without that nothing could be said of a name. Of each fold (`UrlLines`, `Outlines`,
`Names`, `Queries`, `Entries`, instances of `Folding`) the proof needs what it keeps; then that a
name just given leads to the feed it was given to (`NameIn`), that sorting permutes, and that no
query feed is a name.

`ImportsKeepSubscriptions` (`ImportKeepsPlainSubscriptions`). `ImportInv`: the urls file is a file,
and the urls of the local reader are strings whose tags are words (`Readable`), also after imports
and exports: what is written of a reader is a file again, what is exported a document. Without it
nothing could be said of the tokens of a line. The argument has three parts.
`DocumentArrives`: an import keeps what was there, and all feeds of the document are there after it,
whatever folders they are in. `RoundTrip`: when the urls are plain, a line that is written
gives back its url and its tags, line by line of the whole file; tags may have blanks, since
they are written in quotes. `NothingArrives`: a document whose feeds are there adds nothing. The
hypothesis `OneWord` is needed for the second part alone, and there only so that a url without
quotes is one token and no comment.

### 3.19 `Documents`

`Fetch` takes a document and sends its elements in any order; `Parse` is the parser that the root
element selects, then `rss_parser`. `OrderMakesNoDifference` compares with one fixed order,
for the documents of `MCDocuments`: one per format, with the elements that stand in for one another.

`OrderIsForgotten` proves it for any documents with any number of entries and elements, in all
formats. `DocumentsAssumption` says what a document is here: finitely many elements, each thing
said once (`SaysOnce`; enclosures, categories and links of different uses may repeat). The property
excepts entries with several enclosures, of which the last one counts. The inductive invariant
`DocumentsInv`: what is stored was parsed from some order that lists the elements of `doc`, each
once. That the order is forgotten then is `FoldOrder`, once per parser and part (`RssElements`,
`RdfElements`, `AtomElements`, `About`): two steps for different elements write different fields, or
both add a label, and no step reads a field that another writes. This is what the code owes to
keeping the creator, the other date and the summary apart until the last element, and the mutant
that writes a creator as an author breaks.

### 3.20 `MCMainThread`

| run | shows |
|---|---|
| `main_thread` | the parts `forms`, `lists`, `settings`, `questions`, `filters`, `urls`, `documents`, with the properties named above |
| `filter_grouping` | a refutation, see section 5 |

## 4. What is proved and what is only checked

Proved by TLAPS: the theorems of `FeedReloadProofs` (3.2, 3.2a), `PodQueueProofs` (3.4),
`ArticlesProofs` (3.6), `FormStackProofs` (3.7a), `SessionProofs` (3.9, 3.12), `ServicesProofs`
(3.11, 3.18) and `MainThreadProofs` (3.14b, 3.16, 3.19) with `Folding` (3.14a), from the assumptions
named there, down to the library's facts about finite sets and sequences. Induction over numbers and
over sequences is proved with them, as far as these models need it.

Model-checked only:

* every liveness property, `ReloadAllEnds`, `QueuedIsStarted`, `QuitEnds`: liveness under fairness and
  ENABLED are beyond the provers here;
* `OrdinaryDumpIsReusable` (`Settings`) and `GroupedAsWritten` (`Filters`): files include files and
  blocks contain blocks, so that reading and parsing are RECURSIVE operators, which the provers cannot
  expand;
* `KeepsSubscriptions` is the conjunction, by part, of what `SortedSubscriptions` (3.2a) proves;
* `FormStack` with `MayStray`.

Liveness is stated where the code makes something happen by itself: a background reload ends
(`ReloadAllEnds`), a queued download starts (`QueuedIsStarted`), the program ends
(`QuitEnds`, refuted). The main thread's parts wait for the user, who promises nothing.

Not modelled:

* `notify_itemlist_change()` from a reload thread while the main thread pushes and pops forms
  (`view.cpp:592`): a data race on a vector, of which any outcome is possible;
* text rendering (HTML, formats, wrapping, STFL's quoting), logging: conversions without state;
* query feeds' contents, searches, the effect of ignore rules, pipes and external programs;
* the cache's schema and its migration; SQLite is taken to do what a statement says, at once;
* the bytes of configuration files, urls, filters and documents: modules have tokens, words
  and elements;
* an urls file emptied while newsbeuter runs, in the liveness run (the range of
  `controller.cpp:874` then wraps round; `FeedReload` has the branch).

## 5. Disagreements between the code and its documentation

Each of these is a run with `expect: violation` and an entry under `findings`:

* `feeds_stale_position`: a reload on the main thread and a sort by a background
  reload lose a feed and list another one twice (`controller.cpp:742`).
* `pod_busy_reload`: a purge replaces the vector while threads point into it.
* `articles_dummy`: a key in the article view after its feed was reloaded works on a
  made-up item (`rss.cpp:230`, "should never happen!").
* `session_quit`: quitting while a feed is stored may never end (`cache.cpp:625`).
* `filter_grouping`: `a or ((b) and c)` is evaluated as `(a or b) and c`
  (`FilterParser.cpp:78`).

Others were met while modelling; the modules have the behaviour, or say that they leave it
out, and no run is spent on them.

Feeds and downloads (`FeedReload`, `PodQueue`, `Articles`): "reload" in an article list
reloads another feed after a sort; with `reload-only-visible-feeds` and nothing visible,
everything is reloaded; an URL that newsbeuter appends while podbeuter rewrites the queue file
is lost; automatic download starts an entry twice when its thread is late; a played entry
stays in the queue when podbeuter is closed, and purging keeps what was downloaded and not
played, against `src/doc/chapter-podcasts.txt`; `download-retries` has no effect
(`rss_parser.cpp:154`), against `src/doc/configcommands.dsv:23`.

Forms (`FormStack`, `Lists`): a list of dialogs left with next-dialog keeps its lines, and
when it is returned to after another dialog was closed, ENTER switches to the wrong dialog or
to none (the next key then dereferences an empty pointer), against
`src/doc/newsbeuter.txt:1026-1029` (`MayStray = TRUE` in `MainThread.cfg`); a modal form left the
same way makes `run_modal()` return when any form is closed; after a question the top of the
stack is on screen (`view.cpp:842` admits it); ESC at "Do you really want to overwrite"
overwrites (`filebrowser_formaction.cpp:102`). mark-feed-read in the feed list moves the cursor by
the position among all feeds, not the visible ones; next-unread on an empty feed list, a number
typed there, "previous" into a feed without visible articles, and mark-as-read-on-hover on a list
that has shrunk read beyond a vector's end; clear-filter leaves the matcher as it was.

Processes and mutexes (`Session`, `Locks`): an export takes no lock, yet removes the running
instance's lock file at its end (`controller.cpp:577`), and so does a SIGHUP before the lock was
taken; usage errors and the import and export of read articles leave the file; a filter
with `unread_count` on an article list (`src/doc/newsbeuter.txt:393` offers it for articles)
locks the feed's `item_mutex` twice in one thread (`itemlist_formaction.cpp:632`, `rss.cpp:126`).

Services (`Services`, `UrlSources`): marking the results of a search, and opening all unread
articles, does not tell the service; the session id is read without its mutex; ownCloud's
names are never forgotten, so that rereading the list gives every feed a new one with a star;
Tiny Tiny RSS finds the number of a feed by the first `#` of its url.

Configuration, questions, urls (`Settings`, `Questions`, `UrlSources`): the dump cannot always be
read again, against `src/doc/newsbeuter.txt:314`: it loses highlight-article and the operations
"one" to "zero", splits macros at a `;` in an argument, keeps what `:set` took without looking at
its type, and forgets one of two keys of an operation that moves the cursor; a search in an
article is dumped as a highlight line. An import writes urls with blanks without their quotes and
may add them again (`urlreader.cpp:79`), against `src/doc/newsbeuter.txt:231`. A cancelled bookmark
dialog leaves its prompts, and the `bookmark` macro then fails an assertion (`formaction.cpp:283`);
in an article that macro never saves; a macro with an argument mixes its answers with those
of an open question; the next line of a history right after the previous one is the same line.

Filters and documents: the attribute `feedlink` gives the feed's title (`rss.cpp:343`); after an
erroneous filter one flag of the parser is not reset; an empty `<author>` of RSS reads before the
beginning of a string.

## 6. Running it

    tlc -config FeedReloadDefault.cfg MCFeedReload.tla
    tlc -config FeedReloadAny.cfg MCFeedReloadAny.tla
    tlc -config PodQueueAny.cfg MCPodQueue.tla
    tlc -config PodQueueOrderly.cfg MCPodQueue.tla
    tlc -config Articles.cfg MCArticles.tla
    tlc -config Session.cfg MCSession.tla
    tlc -config MainThread.cfg MCMainThread.tla
    tlapm FeedReloadProofs.tla
    tlapm PodQueueProofs.tla
    tlapm ArticlesProofs.tla
    tlapm FormStackProofs.tla
    tlapm SessionProofs.tla
    tlapm ServicesProofs.tla
    tlapm Folding.tla
    tlapm MainThreadProofs.tla

`PROJECT.json` lists every run with its configuration, for every checked property a
mutation of a definition that breaks it, the source lines of every definition, the
hazards the properties are for, and the theorems.
