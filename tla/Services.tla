------------------------------ MODULE Services ------------------------------
(* Articles kept at a remote service (remote_api.cpp, ttrss_api.cpp,         *)
(* newsblur_api.cpp, ocnews_api.cpp, oldreader_api.cpp, feedhq_api.cpp,      *)
(* markreadthread.cpp): the read flag and the star of an article live here   *)
(* and at the service, calls are lost or find their session expired, Tiny    *)
(* Tiny RSS's marks run in detached threads, and a reload copies the         *)
(* service's flags over the local ones (rss_parser.cpp, cache.cpp).          *)
(* Left out: the texts of the requests.                                      *)
EXTENDS Integers

CONSTANTS
  Articles,      \* the articles of one feed
  PageOf,        \* per service the page of its list that an article is on at first
  Pages,         \* the pages of NewsBlur that are fetched, from newsblur-min-items
  Markers,       \* the markreadthreads that may run at once
  Kinds,         \* the services to look at
  Touched,       \* bound: per service and operation the articles it is used on
  Main, Reloader \* the main thread; the reload thread

VARIABLES
  service,   \* urls-source
  running,   \* newsbeuter has been started and has logged in
  server,    \* the service: per article its labels and its star
  onPage,    \* the service: per article the page of its list; one after the last page
             \* that is fetched: newer articles have taken its place
  sid,       \* the session: "none", "valid", or "expired" at the service
  auth_lock, \* the threads that hold ttrss_api's auth_lock: none or one
  call,      \* per thread the request it is in
  reload,    \* the reload thread: place, articles fetched, whether there were any, an error met
  local,     \* per article its row: is there, unread, deleted, flagged
  excused,   \* history: flags of articles that may differ from the service; why is
             \* said where they are added
  hit        \* history: threads whose call met a failure outside of the program

serviceVars == <<service, running, server, onPage, sid, auth_lock, call, reload, local, excused, hit>>

ASSUME ServicesAssumption ==
  /\ Main # Reloader /\ {Main, Reloader} \cap Markers = {}
  /\ Kinds \subseteq {"ttrss", "newsblur", "ocnews", "oldreader", "feedhq"}
  /\ Pages \in Nat \ {0} /\ PageOf \in [Kinds -> [Articles -> Nat \ {0}]]
  /\ Touched \in [Kinds -> [read : SUBSET Articles, delete : SUBSET Articles, here : SUBSET Articles,
                           flags : SUBSET Articles, elsewhere : SUBSET Articles, older : SUBSET Articles]]

ReadFlag == "read flag"
Star == "star"

Threads == {Main, Reloader} \cup Markers

-----------------------------------------------------------------------------
(* The services and what they have in common.                                *)
LogsInAgain == service = "ttrss"
MarksInBackground == service = "ttrss"
AsksForToken == service \in {"oldreader", "feedhq"}
LastPage == IF service = "newsblur" THEN Pages ELSE 1
Page(k) == {a \in Articles : onPage[a] = k}

\* What a mark makes of an article's labels at the service.
Marked(labels, read) ==
  IF AsksForToken
  THEN IF read THEN (labels \ {"kept-unread"}) \cup {"read"} ELSE (labels \ {"read"}) \cup {"kept-unread"}
  ELSE {IF read THEN "read" ELSE "unread"}
UnreadThere(a) == "read" \notin server[a].labels

\* rss_parser::fill_feed_items: the labels are looked for in this order, "fresh",
\* "kept-unread", "read", and the last one found decides.
UnreadByLabels(labels) == "read" \notin labels

NoCall == [op |-> "none", article |-> {}, value |-> FALSE, at |-> "idle", sid |-> "none", try_login |-> TRUE]
\* A request begins; those who ask for a token first do so for every change.
Begun(op, as, value) ==
  [NoCall EXCEPT !.op = op, !.article = as, !.value = value,
                 !.at = IF AsksForToken /\ op # "fetch" THEN "token" ELSE "send"]
Busy(t) == call[t].op # "none"
InFlight(a) == \E t \in Threads : call[t].op = "mark" /\ a \in call[t].article
Fetched == DOMAIN reload.items
\* Nothing that could still change an article's flag here or there.
Settled(a) == ~InFlight(a) /\ a \notin Fetched

NoReload == [at |-> "idle", items |-> [a \in {} |-> {}], page |-> 0, brought |-> FALSE, cut |-> FALSE]

ServicesInit ==
  /\ service \in Kinds /\ running = FALSE /\ sid = "none" /\ auth_lock = {}
  /\ server = [a \in Articles |-> [labels |-> IF AsksForToken THEN {"fresh"} ELSE {"unread"}, star |-> FALSE]]
  /\ onPage = PageOf[service]
  /\ call = [t \in Threads |-> NoCall]
  /\ reload = NoReload
  /\ local = [a \in Articles |-> [row |-> FALSE, unread |-> TRUE, deleted |-> FALSE, flag |-> FALSE]]
  /\ excused = Articles \X {ReadFlag} /\ hit = {}

-----------------------------------------------------------------------------
(* The main thread. Each operation sets the flags here and calls the service *)
(* without looking at the result; one that Tiny Tiny RSS marks in the        *)
(* background goes on at once.                                               *)
Free == running /\ ~Busy(Main)

\* controller::run: without a login newsbeuter does not start.
LogOn ==
  /\ ~running /\ running' = TRUE /\ sid' = "valid"
  /\ UNCHANGED <<service, server, onPage, auth_lock, call, reload, local, excused, hit>>

\* mutant: the service is told the opposite
Calls_Inverted(as, read) ==
  \E t \in IF MarksInBackground THEN Markers ELSE {Main} :
    /\ ~Busy(t)
    /\ call' = [call EXCEPT ![t] = Begun("mark", as, ~read)]
    /\ hit' = IF LogsInAgain \/ sid = "valid" THEN hit ELSE hit \cup {t}
    /\ excused' = excused \cup {a \in as : ~Settled(a)} \X {ReadFlag}
\* controller::mark_article_read: a call that another one for the same article
\* may overtake, or that a reload has already looked past, excuses it.
Calls(as, read) ==
  \E t \in IF MarksInBackground THEN Markers ELSE {Main} :
    /\ ~Busy(t)
    /\ call' = [call EXCEPT ![t] = Begun("mark", as, read)]
    /\ hit' = IF LogsInAgain \/ sid = "valid" THEN hit ELSE hit \cup {t}
    /\ excused' = excused \cup {a \in as : ~Settled(a)} \X {ReadFlag}

\* Opening an article; OP_OPENBROWSER_AND_MARK.
Read(a) ==
  /\ Free /\ local[a].row /\ local[a].unread
  /\ local' = [local EXCEPT ![a].unread = FALSE]
  /\ Calls({a}, TRUE)
  /\ UNCHANGED <<service, running, server, onPage, sid, auth_lock, reload>>

\* OP_TOGGLEITEMREAD in an article list.
Toggle(a) ==
  /\ Free /\ local[a].row
  /\ local' = [local EXCEPT ![a].unread = ~@, ![a].deleted = FALSE]
  /\ Calls({a}, local[a].unread)
  /\ UNCHANGED <<service, running, server, onPage, sid, auth_lock, reload>>

\* OP_DELETE in an article list.
Delete(a) ==
  /\ Free /\ local[a].row
  /\ local' = [local EXCEPT ![a].unread = FALSE, ![a].deleted = ~@]
  /\ Calls({a}, TRUE)
  /\ UNCHANGED <<service, running, server, onPage, sid, auth_lock, reload>>

\* controller::mark_all_read, which waits for the service with feeds_mutex held.
MarkFeedRead ==
  /\ Free /\ \E a \in Articles : local[a].row
  /\ local' = [a \in Articles |-> [local[a] EXCEPT !.unread = FALSE]]
  /\ call' = [call EXCEPT ![Main] = Begun("mark", Articles, TRUE)]
  /\ hit' = IF LogsInAgain \/ sid = "valid" THEN hit ELSE hit \cup {Main}
  /\ excused' = excused \cup {a \in Articles : ~Settled(a)} \X {ReadFlag}
  /\ UNCHANGED <<service, running, server, onPage, sid, auth_lock, reload>>

\* OP_MARKFEEDREAD in a search result or a query feed, and
\* OP_OPENALLUNREADINBROWSER_AND_MARK: the service is not told.
MarkHere(a) ==
  /\ Free /\ local[a].row /\ local[a].unread
  /\ local' = [local EXCEPT ![a].unread = FALSE]
  /\ excused' = excused \cup {<<a, ReadFlag>>}
  /\ UNCHANGED <<service, running, server, onPage, sid, auth_lock, call, reload, hit>>

\* controller::update_flags, for the flag that stands for the service's star.
EditFlags(a) ==
  /\ Free /\ local[a].row /\ service # "newsblur"
  /\ local' = [local EXCEPT ![a].flag = ~@]
  /\ call' = [call EXCEPT ![Main] = Begun("star", {a}, ~local[a].flag)]
  /\ hit' = IF LogsInAgain \/ sid = "valid" THEN hit ELSE hit \cup {Main}
  /\ UNCHANGED <<service, running, server, onPage, sid, auth_lock, reload, excused>>

\* The end of the process takes the threads with it; what they sent may arrive.
LeaveProgram ==
  /\ Free /\ running' = FALSE /\ auth_lock' = {} /\ sid' = "none"
  /\ \E last \in [Articles -> {Main} \cup Markers] :
       server' = [a \in Articles |->
         IF /\ a \in call[last[a]].article /\ call[last[a]].at = "sent" /\ call[last[a]].sid = "valid"
         THEN [server[a] EXCEPT !.labels = Marked(@, call[last[a]].value)] ELSE server[a]]
  /\ excused' = excused \cup {a \in Articles : InFlight(a)} \X {ReadFlag}
  /\ call' = [t \in Threads |-> NoCall] /\ hit' = {}
  /\ reload' = NoReload
  /\ UNCHANGED <<service, onPage, local>>

-----------------------------------------------------------------------------
(* A request of thread t.                                                    *)
At(t, place) == Busy(t) /\ call[t].at = place
Proceeds(t, place) == call' = [call EXCEPT ![t].at = place]

\* get_new_token; a request with an empty token is refused.
GetToken(t) ==
  /\ At(t, "token")
  /\ \/ sid = "valid" /\ Proceeds(t, "send") /\ hit' = hit
     \/ Proceeds(t, "failed") /\ hit' = hit \cup {t}
  /\ UNCHANGED <<service, running, server, onPage, sid, auth_lock, reload, local, excused>>

\* run_op puts the session into the request.
Send(t) ==
  /\ At(t, "send")
  /\ call' = [call EXCEPT ![t].at = "sent", ![t].sid = sid]
  /\ UNCHANGED <<service, running, server, onPage, sid, auth_lock, reload, local, excused, hit>>

\* What the request does at the service.
Serve(t) ==
  LET c == call[t]
  IN  CASE c.op = "mark" -> server' = [a \in Articles |->
              IF a \in c.article THEN [server[a] EXCEPT !.labels = Marked(@, c.value)] ELSE server[a]]
        [] c.op = "star" -> server' = [a \in Articles |->
              IF a \in c.article THEN [server[a] EXCEPT !.star = c.value] ELSE server[a]]
        [] OTHER -> server' = server

\* The answer of the service. What a page shows of an article with a mark under
\* way may be older or newer than the mark. A page has articles, these or newer
\* ones, if one of them is on it or on a later one.
Answer(t) ==
  /\ At(t, "sent") /\ call[t].sid = "valid"
  /\ Serve(t) /\ Proceeds(t, "done")
  /\ IF call[t].op # "fetch" THEN UNCHANGED <<reload, excused>>
     ELSE /\ reload' = [reload EXCEPT
               !.items = [a \in DOMAIN @ \cup Page(reload.page) |-> IF a \in DOMAIN @ THEN @[a] ELSE server[a].labels],
               !.brought = @ \/ \E a \in Articles : onPage[a] >= reload.page]
          /\ excused' = excused \cup {a \in Page(reload.page) : InFlight(a)} \X {ReadFlag}
  /\ UNCHANGED <<service, running, onPage, sid, auth_lock, local, hit>>

\* mutant: an expired session is not renewed
SessionRefused_NoLogin(t) ==
  /\ At(t, "sent") /\ call[t].sid # "valid"
  /\ Proceeds(t, "failed")
  /\ UNCHANGED <<service, running, server, onPage, sid, auth_lock, reload, local, excused, hit>>
\* The session has expired: run_op logs in once.
SessionRefused(t) ==
  /\ At(t, "sent") /\ call[t].sid # "valid"
  /\ Proceeds(t, IF LogsInAgain /\ call[t].try_login THEN "login" ELSE "failed")
  /\ UNCHANGED <<service, running, server, onPage, sid, auth_lock, reload, local, excused, hit>>

\* The request or the answer is lost.
Lose(t) ==
  /\ At(t, "sent") /\ Proceeds(t, "failed") /\ hit' = hit \cup {t}
  /\ server' = server \/ (call[t].sid = "valid" /\ Serve(t))
  /\ UNCHANGED <<service, running, onPage, sid, auth_lock, reload, local, excused>>

\* ttrss_api::authenticate: whoever finds auth_lock taken waits for the other's login.
Login(t) ==
  /\ At(t, "login")
  /\ IF auth_lock = {} THEN auth_lock' = {t} /\ Proceeds(t, "logging in")
     ELSE auth_lock' = auth_lock /\ Proceeds(t, "waiting")
  /\ UNCHANGED <<service, running, server, onPage, sid, reload, local, excused, hit>>

Retries(t, ok) ==
  call' = [call EXCEPT ![t].at = IF ok THEN "send" ELSE "failed", ![t].try_login = FALSE]

\* retrieve_sid, and the end of authenticate: a login that fails fails for those
\* who wait as well.
LoggedIn(t) ==
  /\ At(t, "logging in")
  /\ auth_lock' = {}
  /\ \E ok \in BOOLEAN :
       /\ sid' = IF ok THEN "valid" ELSE "none"
       /\ Retries(t, ok)
       /\ hit' = IF ok THEN hit
                 ELSE hit \cup {t} \cup {u \in Threads : Busy(u) /\ (call[u].at = "waiting" \/ ~call[u].try_login)}
  /\ UNCHANGED <<service, running, server, onPage, reload, local, excused>>

\* The lock is free again, and sid is what the other's login left.
Waited(t) ==
  /\ At(t, "waiting") /\ auth_lock = {} /\ Retries(t, sid # "none")
  /\ UNCHANGED <<service, running, server, onPage, sid, auth_lock, reload, local, excused, hit>>

\* The call returns, and nobody looks at its result.
CallReturns(t) ==
  /\ t # Reloader /\ Busy(t) /\ call[t].at \in {"done", "failed"}
  /\ call' = [call EXCEPT ![t] = NoCall] /\ hit' = hit \ {t}
  /\ excused' = IF call[t].at = "failed"
                THEN excused \cup call[t].article \X {IF call[t].op = "star" THEN Star ELSE ReadFlag}
                ELSE IF call[t].op = "star" THEN excused \ (call[t].article \X {Star}) ELSE excused
  /\ UNCHANGED <<service, running, server, onPage, sid, auth_lock, reload, local>>

-----------------------------------------------------------------------------
(* The reload thread: fetch_feed() page by page, then rss_parser::parse() and *)
(* the store under feeds_mutex.                                               *)
BeginReload ==
  /\ running /\ reload.at = "idle"
  /\ reload' = [NoReload EXCEPT !.at = "fetching", !.page = 1]
  /\ call' = [call EXCEPT ![Reloader] = Begun("fetch", {}, FALSE)]
  /\ hit' = IF LogsInAgain \/ sid = "valid" THEN hit ELSE hit \cup {Reloader}
  /\ UNCHANGED <<service, running, server, onPage, sid, auth_lock, local, excused>>

\* A page has come, or an error: what has been fetched so far is then the feed.
NextPage ==
  /\ Busy(Reloader) /\ call[Reloader].at \in {"done", "failed"}
  /\ IF call[Reloader].at = "done" /\ reload.page < LastPage
     THEN /\ reload' = [reload EXCEPT !.page = @ + 1]
          /\ call' = [call EXCEPT ![Reloader] = Begun("fetch", {}, FALSE)]
          /\ hit' = IF sid = "valid" THEN hit \ {Reloader} ELSE hit \cup {Reloader}
     ELSE /\ reload' = [reload EXCEPT !.at = "fetched", !.cut = call[Reloader].at = "failed"]
          /\ call' = [call EXCEPT ![Reloader] = NoCall]
          /\ hit' = hit \ {Reloader}
  /\ UNCHANGED <<service, running, server, onPage, sid, auth_lock, local, excused>>

\* mutant: without a look at whether anything has come
RemoveOldDeleted_Always ==
  /\ reload.at = "fetched" /\ reload' = [reload EXCEPT !.at = "parsed"]
  /\ local' = [a \in Articles |-> IF a \notin Fetched
                                  THEN [local[a] EXCEPT !.row = @ /\ ~local[a].deleted] ELSE local[a]]
  /\ UNCHANGED <<service, running, server, onPage, sid, auth_lock, call, excused, hit>>
\* rss_feed::remove_old_deleted_items; nothing is done for a feed without articles.
RemoveOldDeleted ==
  /\ reload.at = "fetched" /\ reload' = [reload EXCEPT !.at = "parsed"]
  /\ local' = [a \in Articles |-> IF reload.brought /\ a \notin Fetched
                                  THEN [local[a] EXCEPT !.row = @ /\ ~local[a].deleted] ELSE local[a]]
  /\ UNCHANGED <<service, running, server, onPage, sid, auth_lock, call, excused, hit>>

\* controller::reload with cache::update_rssitem_unlocked, which sets the unread
\* flag of a row when the article has a label. It waits for mark_all_read(). An
\* article that has its flag from the service, as it is there now, is the same.
Store ==
  /\ reload.at = "parsed" /\ call[Main].article # Articles
  /\ LET stored(a) == [row |-> TRUE,
                       unread |-> IF reload.items[a] # {} THEN UnreadByLabels(reload.items[a])
                                  ELSE ~local[a].row \/ local[a].unread,
                       deleted |-> local[a].row /\ local[a].deleted,
                       flag |-> local[a].row /\ local[a].flag]
     IN  local' = [a \in Articles |-> IF a \in Fetched THEN stored(a) ELSE local[a]]
  /\ excused' = excused \ ({a \in Fetched : /\ reload.items[a] # {} \/ ~local[a].row
                                            /\ ~InFlight(a) /\ reload.items[a] = server[a].labels}
                          \X {ReadFlag})
  /\ reload' = NoReload
  /\ UNCHANGED <<service, running, server, onPage, sid, auth_lock, call, hit>>

-----------------------------------------------------------------------------
(* The service by itself.                                                    *)
\* A call that was sent with the session, or waits for one, may fail by this.
Expire ==
  /\ sid = "valid" \/ \E t \in Threads : call[t].sid = "valid"
  /\ sid' = IF sid = "valid" THEN "expired" ELSE sid
  /\ call' = [t \in Threads |-> IF call[t].sid = "valid" THEN [call[t] EXCEPT !.sid = "expired"] ELSE call[t]]
  /\ hit' = hit \cup {t \in Threads : Busy(t) /\ (LogsInAgain => ~call[t].try_login \/ call[t].at = "waiting")}
  /\ UNCHANGED <<service, running, server, onPage, auth_lock, reload, local, excused>>

\* Another program marks an article.
OtherDevice(a) ==
  /\ \E read \in BOOLEAN : server' = [server EXCEPT ![a].labels = Marked(@, read)]
  /\ server' # server
  /\ excused' = excused \cup {<<a, ReadFlag>>}
  /\ UNCHANGED <<service, running, onPage, sid, auth_lock, call, reload, local, hit>>

\* An article is no longer fresh.
Age(a) ==
  /\ "fresh" \in server[a].labels
  /\ server' = [server EXCEPT ![a].labels = @ \ {"fresh"}]
  /\ UNCHANGED <<service, running, onPage, sid, auth_lock, call, reload, local, excused, hit>>

\* There are newer articles: this one is further down the list. How many come in
\* an answer is for newsblur-min-items, oldreader-min-items and feedhq-min-items
\* to say, or for the service.
Older(a) ==
  /\ onPage[a] <= LastPage /\ onPage' = [onPage EXCEPT ![a] = @ + 1]
  /\ UNCHANGED <<service, running, server, sid, auth_lock, call, reload, local, excused, hit>>

ServicesNext ==
  \/ LogOn \/ MarkFeedRead \/ LeaveProgram \/ BeginReload \/ NextPage \/ RemoveOldDeleted \/ Store \/ Expire
  \/ \E a \in Touched[service].read : Read(a) \/ Toggle(a)
  \/ \E a \in Touched[service].delete : Delete(a)
  \/ \E a \in Touched[service].here : MarkHere(a)
  \/ \E a \in Touched[service].flags : EditFlags(a)
  \/ \E a \in Touched[service].elsewhere : OtherDevice(a)
  \/ \E a \in Touched[service].older : Older(a)
  \/ \E a \in Articles : Age(a)
  \/ \E t \in Threads : GetToken(t) \/ Send(t) \/ Answer(t) \/ SessionRefused(t) \/ Lose(t) \/ Login(t)
                        \/ LoggedIn(t) \/ Waited(t) \/ CallReturns(t)

ServicesSpec == ServicesInit /\ [][ServicesNext]_serviceVars

-----------------------------------------------------------------------------

(* Once nothing is under way for an article, it is unread here exactly if it *)
(* is at the service, and flagged exactly if it has the star; a reload makes *)
(* up for what it has been excused for (mark_article_read, the labels in     *)
(* fill_feed_items, override_unread in cache.cpp).                           *)
AgreesWhenQuiet ==
  \A a \in Articles : local[a].row /\ Settled(a) =>
    /\ <<a, ReadFlag>> \in excused \/ (local[a].unread <=> UnreadThere(a))
    /\ Busy(Main) \/ <<a, Star>> \in excused \/ (local[a].flag <=> server[a].star)

(* A call fails only if something outside of the program failed it: its own  *)
(* request, a login it depended on, or a session that expired once more than *)
(* run_op allows for (ttrss_api::run_op, authenticate).                      *)
FailsOnlyWhenHit == \A t \in Threads : call[t].at = "failed" => t \in hit

(* A deleted article is forgotten only by a fetch that broke off after its   *)
(* first page or when newer articles have taken its place among those that   *)
(* are fetched, never by a fetch that brought nothing (cache.cpp:797).       *)
FailedFetchKeepsDeleted ==
  [][\A a \in Articles : local[a].row /\ ~local'[a].row =>
       reload.brought /\ (reload.cut \/ onPage[a] > LastPage)]_serviceVars
=============================================================================
