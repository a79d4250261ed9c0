--------------------------- MODULE ServicesProofs ---------------------------
(* Proofs about Services for any articles, pages and markreadthreads, and    *)
(* for each of the services; and about where the feeds come from, a service, *)
(* the urls file or OPML, for any of these.                                  *)
(* UrlSources: whatever a service or a file says, every name under which a   *)
(* feed is listed leads to one feed. The inductive invariant is UrlsInv: the *)
(* files can be read line by line, and the names that are remembered are     *)
(* finitely many, so that a new one is found for every title.                *)
(* An import keeps what the urls file has: with ImportInv, what is written   *)
(* of a reader can be read again token by token (RoundTrip), so that the     *)
(* same urls and tags come back.                                             *)
EXTENDS Services, UrlSources, FiniteSetTheorems, SequenceTheorems, TLAPS

Labels == {"fresh", "kept-unread", "read", "unread"}
Sids == {"none", "valid", "expired"}
CallPlaces == {"idle", "token", "send", "sent", "login", "logging in", "waiting", "done", "failed"}
CallStates == [op : {"none", "mark", "star", "fetch"}, article : SUBSET Articles, value : BOOLEAN,
               at : CallPlaces, sid : Sids, try_login : BOOLEAN]
Reloads == [at : {"idle", "fetching", "fetched", "parsed"},
            items : UNION {[as -> SUBSET Labels] : as \in SUBSET Articles}, page : Nat,
            brought : BOOLEAN, cut : BOOLEAN]
ServerStates == [labels : SUBSET Labels, star : BOOLEAN]
Rows == [row : BOOLEAN, unread : BOOLEAN, deleted : BOOLEAN, flag : BOOLEAN]

TypeOK ==
  /\ service \in Kinds /\ running \in BOOLEAN /\ sid \in Sids /\ auth_lock \subseteq Threads
  /\ server \in [Articles -> ServerStates] /\ local \in [Articles -> Rows]
  /\ call \in [Threads -> CallStates] /\ reload \in Reloads
  /\ excused \subseteq Articles \X {ReadFlag, Star} /\ hit \subseteq Threads

\* Who makes which calls.
CallsOK ==
  /\ \A t \in Threads : call[t].at = "idle" <=> ~Busy(t)
  /\ \A t \in Threads : ~Busy(t) => call[t] = NoCall
  /\ call[Reloader].op \in {"none", "fetch"} /\ call[Reloader].article = {}
  /\ call[Main].op \in {"none", "mark", "star"}
  /\ \A m \in Markers : call[m].op \in {"none", "mark"}
  /\ \A t \in Threads : call[t].at \in {"login", "logging in", "waiting"} => LogsInAgain
  /\ ~running => \A t \in Threads : ~Busy(t)

TypeInv == TypeOK /\ CallsOK


-----------------------------------------------------------------------------
(* Types.                                                                    *)
LEMMA NoCallTyped == NoCall \in CallStates
BY DEF NoCall, CallStates, CallPlaces, Sids

LEMMA BegunTyped ==
  ASSUME NEW op \in {"mark", "star", "fetch"}, NEW as \in SUBSET Articles, NEW value \in BOOLEAN
  PROVE  /\ Begun(op, as, value) \in CallStates
         /\ Begun(op, as, value).op = op /\ Begun(op, as, value).article = as
         /\ Begun(op, as, value).value = value
         /\ Begun(op, as, value).at \in {"token", "send"}
         /\ op = "fetch" => Begun(op, as, value).at = "send"
         /\ Begun(op, as, value).sid = "none" /\ Begun(op, as, value).try_login = TRUE
BY DEF Begun, NoCall, CallStates, CallPlaces, Sids

\* One thread's call changes its place, and what else is said.
LEMMA CallMoves ==
  ASSUME call \in [Threads -> CallStates], NEW t \in Threads, NEW place \in CallPlaces, Proceeds(t, place)
  PROVE  /\ call' \in [Threads -> CallStates]
         /\ \A u \in Threads : u # t => call'[u] = call[u]
         /\ call'[t].at = place /\ call'[t].op = call[t].op /\ call'[t].article = call[t].article
         /\ call'[t].value = call[t].value /\ call'[t].sid = call[t].sid
         /\ call'[t].try_login = call[t].try_login
BY DEF Proceeds, CallStates

LEMMA CallSent ==
  ASSUME call \in [Threads -> CallStates], sid \in Sids, NEW t \in Threads, Send(t)
  PROVE  /\ call' \in [Threads -> CallStates]
         /\ \A u \in Threads : u # t => call'[u] = call[u]
         /\ call'[t].at = "sent" /\ call'[t].op = call[t].op /\ call'[t].article = call[t].article
         /\ call'[t].value = call[t].value /\ call'[t].sid = sid
         /\ call'[t].try_login = call[t].try_login
BY ZenonT(30) DEF Send, CallStates, CallPlaces

LEMMA CallRetries ==
  ASSUME call \in [Threads -> CallStates], NEW t \in Threads, NEW ok \in BOOLEAN, Retries(t, ok)
  PROVE  /\ call' \in [Threads -> CallStates]
         /\ \A u \in Threads : u # t => call'[u] = call[u]
         /\ call'[t].at = IF ok THEN "send" ELSE "failed"
         /\ call'[t].op = call[t].op /\ call'[t].article = call[t].article
         /\ call'[t].value = call[t].value /\ call'[t].sid = call[t].sid
         /\ call'[t].try_login = FALSE
<1> DEFINE place == IF ok THEN "send" ELSE "failed"
<1>1. place \in CallPlaces
  BY DEF CallPlaces
<1>2. call' = [call EXCEPT ![t].at = place, ![t].try_login = FALSE]
  BY DEF Retries
<1> HIDE DEF place
<1>3. /\ call' \in [Threads -> CallStates]
      /\ \A u \in Threads : u # t => call'[u] = call[u]
      /\ call'[t].at = place
      /\ call'[t].op = call[t].op /\ call'[t].article = call[t].article
      /\ call'[t].value = call[t].value /\ call'[t].sid = call[t].sid
      /\ call'[t].try_login = FALSE
  BY <1>1, <1>2 DEF CallStates
<1>. QED
  BY <1>3 DEF place

LEMMA CallExpires ==
  ASSUME call \in [Threads -> CallStates], Expire
  PROVE  /\ call' \in [Threads -> CallStates]
         /\ \A t \in Threads :
              /\ call'[t].at = call[t].at /\ call'[t].op = call[t].op /\ call'[t].article = call[t].article
              /\ call'[t].value = call[t].value /\ call'[t].try_login = call[t].try_login
              /\ call'[t].sid = IF call[t].sid = "valid" THEN "expired" ELSE call[t].sid
              /\ call[t].sid # "valid" => call'[t] = call[t]
<1>1. \A t \in Threads : call'[t] = IF call[t].sid = "valid" THEN [call[t] EXCEPT !.sid = "expired"] ELSE call[t]
  BY DEF Expire
<1>2. \A t \in Threads :
              /\ call'[t] \in CallStates
              /\ call'[t].at = call[t].at /\ call'[t].op = call[t].op /\ call'[t].article = call[t].article
              /\ call'[t].value = call[t].value /\ call'[t].try_login = call[t].try_login
              /\ call'[t].sid = IF call[t].sid = "valid" THEN "expired" ELSE call[t].sid
  BY <1>1 DEF CallStates, Sids
<1>3. call' = [t \in Threads |-> IF call[t].sid = "valid" THEN [call[t] EXCEPT !.sid = "expired"] ELSE call[t]]
  BY DEF Expire
<1>. QED
  BY <1>1, <1>2, <1>3

\* What a mark and a star do at the service.
LEMMA MarkedTyped ==
  ASSUME NEW labels \in SUBSET Labels, NEW read \in BOOLEAN
  PROVE  Marked(labels, read) \in SUBSET Labels /\ ("read" \in Marked(labels, read) <=> read)
BY DEF Marked, Labels

LEMMA Served ==
  ASSUME TypeOK, NEW t \in Threads, Serve(t)
  PROVE  /\ server' \in [Articles -> ServerStates]
         /\ \A a \in Articles :
              /\ a \notin call[t].article \/ call[t].op # "mark" => server'[a].labels = server[a].labels
              /\ a \in call[t].article /\ call[t].op = "mark" =>
                   server'[a].labels = Marked(server[a].labels, call[t].value)
              /\ a \notin call[t].article \/ call[t].op # "star" => server'[a].star = server[a].star
              /\ a \in call[t].article /\ call[t].op = "star" => server'[a].star = call[t].value
<1>. USE DEF TypeOK
<1>0. call[t].value \in BOOLEAN /\ \A a \in Articles : server[a] \in ServerStates /\ server[a].labels \in SUBSET Labels
  BY DEF CallStates, ServerStates
<1>1. CASE call[t].op = "mark"
  <2>1. server' = [a \in Articles |-> IF a \in call[t].article
                     THEN [server[a] EXCEPT !.labels = Marked(@, call[t].value)] ELSE server[a]]
    BY <1>1 DEF Serve
  <2>2. \A a \in Articles : Marked(server[a].labels, call[t].value) \in SUBSET Labels
    BY <1>0, MarkedTyped
  <2>. QED
    BY <1>0, <1>1, <2>1, <2>2 DEF ServerStates
<1>2. CASE call[t].op = "star"
  <2>1. server' = [a \in Articles |-> IF a \in call[t].article
                     THEN [server[a] EXCEPT !.star = call[t].value] ELSE server[a]]
    BY <1>2 DEF Serve
  <2>. QED
    BY <1>0, <1>2, <2>1 DEF ServerStates
<1>3. CASE call[t].op \notin {"mark", "star"}
  BY <1>3 DEF Serve
<1>. QED
  BY <1>1, <1>2, <1>3

-----------------------------------------------------------------------------
(* What the actions have in common.                                          *)
OwnThread(t) == t \in Threads \ {Reloader}

LEMMA ThreadsDiffer ==
  /\ Main \in Threads /\ Reloader \in Threads /\ Main # Reloader
  /\ \A m \in Markers : m \in Threads /\ m # Main /\ m # Reloader
<1>1. Main # Reloader /\ \A m \in Markers : m \notin {Main, Reloader}
  BY ServicesAssumption
<1>. QED
  BY <1>1 DEF Threads

\* The keys that set the read flags of as here and tell the service.
Presses(t, as, read) ==
  /\ OwnThread(t) /\ ~Busy(t) /\ running
  /\ local' \in [Articles -> Rows]
  /\ \A a \in Articles : /\ local'[a].row = local[a].row /\ local'[a].flag = local[a].flag
                         /\ local'[a].unread = IF a \in as THEN ~read ELSE local[a].unread
  /\ call' = [call EXCEPT ![t] = Begun("mark", as, read)]
  /\ hit' = IF LogsInAgain \/ sid = "valid" THEN hit ELSE hit \cup {t}
  /\ excused' = excused \cup {a \in as : ~Settled(a)} \X {ReadFlag}
  /\ UNCHANGED <<service, running, server, sid, auth_lock, reload>>
Pressed == \E t \in Threads, as \in SUBSET Articles, read \in BOOLEAN : Presses(t, as, read)

LEMMA CallsPresses ==
  ASSUME NEW a \in Articles, NEW read \in BOOLEAN, Free, Calls({a}, read),
         local' \in [Articles -> Rows],
         \A b \in Articles : /\ local'[b].row = local[b].row /\ local'[b].flag = local[b].flag
                             /\ local'[b].unread = IF b \in {a} THEN ~read ELSE local[b].unread,
         UNCHANGED <<service, running, server, sid, auth_lock, reload>>
  PROVE  Pressed
<1>1. PICK t \in IF MarksInBackground THEN Markers ELSE {Main} :
        /\ ~Busy(t)
        /\ call' = [call EXCEPT ![t] = Begun("mark", {a}, read)]
        /\ hit' = IF LogsInAgain \/ sid = "valid" THEN hit ELSE hit \cup {t}
        /\ excused' = excused \cup {b \in {a} : ~Settled(b)} \X {ReadFlag}
  BY DEF Calls
<1>2. OwnThread(t) /\ t \in Threads
  <2>1. t \in {Main} \cup Markers
    <3>1. CASE MarksInBackground
      BY <3>1
    <3>2. CASE ~MarksInBackground
      BY <3>2
    <3>. QED
      BY <3>1, <3>2
  <2>. QED
    BY <2>1, ThreadsDiffer DEF OwnThread
<1>3. Presses(t, {a}, read)
  BY <1>1, <1>2 DEF Presses, Free
<1>. QED
  BY <1>2, <1>3 DEF Pressed

LEMMA KeysPress ==
  ASSUME TypeOK, MarkFeedRead \/ \E a \in Articles : Read(a) \/ Toggle(a) \/ Delete(a)
  PROVE  Pressed
<1>. USE DEF TypeOK
<1>1. CASE MarkFeedRead
  <2>1. Presses(Main, Articles, TRUE)
    <3>1. local' = [a \in Articles |-> [local[a] EXCEPT !.unread = FALSE]]
      BY <1>1 DEF MarkFeedRead
    <3>2. /\ local' \in [Articles -> Rows]
          /\ \A a \in Articles : /\ local'[a].row = local[a].row /\ local'[a].flag = local[a].flag
                                 /\ local'[a].unread = FALSE
      BY <3>1 DEF Rows
    <3>3. OwnThread(Main) /\ ~Busy(Main) /\ running
      BY <1>1, ThreadsDiffer DEF MarkFeedRead, OwnThread, Free
    <3>. QED
      BY <1>1, <3>2, <3>3 DEF Presses, MarkFeedRead
  <2>. QED
    BY <2>1 DEF Pressed, Threads
<1>2. ASSUME NEW a \in Articles, Read(a)
      PROVE  Pressed
  <2>1. local' = [local EXCEPT ![a].unread = FALSE]
    BY <1>2 DEF Read
  <2>2. /\ local' \in [Articles -> Rows]
        /\ \A b \in Articles : /\ local'[b].row = local[b].row /\ local'[b].flag = local[b].flag
                               /\ local'[b].unread = IF b \in {a} THEN ~TRUE ELSE local[b].unread
    BY <2>1 DEF Rows
  <2>. QED
    BY <1>2, <2>2, CallsPresses DEF Read
<1>3. ASSUME NEW a \in Articles, Toggle(a)
      PROVE  Pressed
  <2> DEFINE new == [local[a] EXCEPT !.unread = ~@, !.deleted = FALSE]
             read == local[a].unread
  <2>1. local[a] \in Rows /\ read \in BOOLEAN
    BY DEF Rows
  <2>2. new \in Rows /\ new.row = local[a].row /\ new.flag = local[a].flag /\ new.unread = ~read
    BY <2>1 DEF Rows
  <2>3. local' = [local EXCEPT ![a] = new] /\ Calls({a}, read) /\ Free
        /\ UNCHANGED <<service, running, server, sid, auth_lock, reload>>
    BY <1>3 DEF Toggle
  <2> HIDE DEF new, read
  <2>4. /\ local' \in [Articles -> Rows]
        /\ \A b \in Articles : /\ local'[b].row = local[b].row /\ local'[b].flag = local[b].flag
                               /\ local'[b].unread = IF b \in {a} THEN ~read ELSE local[b].unread
    BY <2>2, <2>3
  <2>. QED
    BY <2>1, <2>3, <2>4, CallsPresses
<1>4. ASSUME NEW a \in Articles, Delete(a)
      PROVE  Pressed
  <2> DEFINE new == [local[a] EXCEPT !.unread = FALSE, !.deleted = ~@]
  <2>1. local[a] \in Rows
    OBVIOUS
  <2>2. new \in Rows /\ new.row = local[a].row /\ new.flag = local[a].flag /\ new.unread = FALSE
    BY <2>1 DEF Rows
  <2>3. local' = [local EXCEPT ![a] = new] /\ Calls({a}, TRUE) /\ Free
        /\ UNCHANGED <<service, running, server, sid, auth_lock, reload>>
    BY <1>4 DEF Delete
  <2> HIDE DEF new
  <2>4. /\ local' \in [Articles -> Rows]
        /\ \A b \in Articles : /\ local'[b].row = local[b].row /\ local'[b].flag = local[b].flag
                               /\ local'[b].unread = IF b \in {a} THEN ~TRUE ELSE local[b].unread
    BY <2>2, <2>3
  <2>. QED
    BY <2>3, <2>4, CallsPresses
<1>. QED
  BY <1>1, <1>2, <1>3, <1>4

LEMMA HereSet ==
  ASSUME TypeOK, NEW a \in Articles, MarkHere(a)
  PROVE  /\ local' \in [Articles -> Rows]
         /\ \A b \in Articles : /\ local'[b].row = local[b].row /\ local'[b].flag = local[b].flag
                                /\ b # a => local'[b] = local[b]
<1>1. local' = [local EXCEPT ![a].unread = FALSE]
  BY DEF MarkHere
<1>. QED
  BY <1>1 DEF TypeOK, Rows

LEMMA FlagsSet ==
  ASSUME TypeOK, NEW a \in Articles, EditFlags(a)
  PROVE  /\ local' \in [Articles -> Rows]
         /\ \A b \in Articles : /\ local'[b].row = local[b].row /\ local'[b].unread = local[b].unread
                                /\ b # a => local'[b] = local[b]
         /\ local'[a].flag = ~local[a].flag
         /\ call' = [call EXCEPT ![Main] = Begun("star", {a}, ~local[a].flag)]
<1> DEFINE new == [local[a] EXCEPT !.flag = ~@]
<1>1. local[a] \in Rows
  BY DEF TypeOK
<1>2. new \in Rows /\ new.row = local[a].row /\ new.unread = local[a].unread /\ new.flag = ~local[a].flag
  BY <1>1 DEF Rows
<1>3. local' = [local EXCEPT ![a] = new] /\ call' = [call EXCEPT ![Main] = Begun("star", {a}, ~local[a].flag)]
  BY DEF EditFlags
<1> HIDE DEF new
<1>4. /\ local' \in [Articles -> Rows] /\ local'[a] = new
      /\ \A b \in Articles : b # a => local'[b] = local[b]
  BY <1>2, <1>3 DEF TypeOK
<1>5. \A b \in Articles : local'[b].row = local[b].row /\ local'[b].unread = local[b].unread
  BY <1>2, <1>4
<1>6. local'[a].flag = ~local[a].flag
  BY <1>2, <1>4
<1>. QED
  BY <1>3, <1>4, <1>5, <1>6

LEMMA LeftAs ==
  ASSUME TypeInv, LeaveProgram
  PROVE  /\ server' \in [Articles -> ServerStates]
         /\ \A a \in Articles : /\ server'[a].star = server[a].star
                                /\ ~InFlight(a) => server'[a] = server[a]
         /\ call' = [t \in Threads |-> NoCall]
<1>. USE DEF TypeInv, TypeOK
<1>1. PICK last \in [Articles -> {Main} \cup Markers] :
        server' = [a \in Articles |->
          IF /\ a \in call[last[a]].article /\ call[last[a]].at = "sent" /\ call[last[a]].sid = "valid"
          THEN [server[a] EXCEPT !.labels = Marked(@, call[last[a]].value)] ELSE server[a]]
  BY DEF LeaveProgram
<1>2. \A a \in Articles : last[a] \in Threads /\ call[last[a]].value \in BOOLEAN
                          /\ server[a] \in ServerStates /\ server[a].labels \in SUBSET Labels
  BY ThreadsDiffer DEF CallStates, ServerStates
<1>3. \A a \in Articles : Marked(server[a].labels, call[last[a]].value) \in SUBSET Labels
  BY <1>2, MarkedTyped
<1>4. \A a \in Articles : ~InFlight(a) => ~(a \in call[last[a]].article /\ call[last[a]].at = "sent")
  <2>. SUFFICES ASSUME NEW a \in Articles, a \in call[last[a]].article, call[last[a]].at = "sent"
                PROVE  InFlight(a)
    OBVIOUS
  <2>1. last[a] \in Threads /\ Busy(last[a])
    BY <1>2 DEF CallsOK
  <2>2. last[a] # Main
    BY <2>1 DEF LeaveProgram, Free
  <2>3. last[a] \in Markers
    BY <2>2
  <2>4. call[last[a]].op = "mark"
    BY <2>1, <2>3 DEF CallsOK, Busy
  <2>. QED
    BY <2>1, <2>4 DEF InFlight
<1>5. server' \in [Articles -> ServerStates] /\ \A a \in Articles : server'[a].star = server[a].star
  BY <1>1, <1>2, <1>3 DEF ServerStates
<1>6. \A a \in Articles : ~InFlight(a) => server'[a] = server[a]
  BY <1>1, <1>4
<1>. QED
  BY <1>5, <1>6 DEF LeaveProgram

LEMMA NoReloadTyped ==
  /\ NoReload \in Reloads /\ NoReload.at = "idle" /\ DOMAIN NoReload.items = {}
  /\ NoReload.page = 0 /\ NoReload.brought = FALSE /\ NoReload.cut = FALSE
<1>1. [a \in {} |-> {}] \in [{} -> SUBSET Labels]
  OBVIOUS
<1>2. [a \in {} |-> {}] \in UNION {[as -> SUBSET Labels] : as \in SUBSET Articles}
  BY <1>1
<1>3. DOMAIN [a \in {} |-> {}] = {}
  OBVIOUS
<1>. QED
  BY <1>2, <1>3 DEF NoReload, Reloads

\* What a page adds to the articles fetched.
LEMMA PageAdded ==
  ASSUME TypeOK, Answer(Reloader), call[Reloader].op = "fetch"
  PROVE  /\ reload' \in Reloads
         /\ reload'.at = reload.at /\ reload'.page = reload.page /\ reload'.cut = reload.cut
         /\ Fetched' = Fetched \cup Page(reload.page)
         /\ \A a \in Fetched' : reload'.items[a] = IF a \in Fetched THEN reload.items[a] ELSE server[a].labels
<1>. USE DEF TypeOK
<1> DEFINE as == Fetched \cup Page(reload.page)
           items == [a \in as |-> IF a \in Fetched THEN reload.items[a] ELSE server[a].labels]
<1> DEFINE some == reload.brought \/ \E a \in Articles : onPage[a] >= reload.page
<1>1. reload' = [reload EXCEPT !.items = items, !.brought = some]
  BY DEF Answer, Fetched
<1>1b. some \in BOOLEAN
  BY DEF Reloads
<1>2. PICK old \in SUBSET Articles : reload.items \in [old -> SUBSET Labels]
  BY DEF Reloads
<1>3. as \in SUBSET Articles
  BY <1>2 DEF Fetched, Page
<1>4. \A a \in as : items[a] \in SUBSET Labels
  BY <1>2, <1>3 DEF Fetched, ServerStates
<1>5. items \in [as -> SUBSET Labels]
  BY <1>4
<1>6. items \in UNION {[s -> SUBSET Labels] : s \in SUBSET Articles}
  BY <1>3, <1>5
<1>7. DOMAIN items = as /\ \A a \in as : items[a] = IF a \in Fetched THEN reload.items[a] ELSE server[a].labels
  OBVIOUS
<1> HIDE DEF items, some
<1>8. reload' \in Reloads /\ reload'.items = items /\ reload'.at = reload.at /\ reload'.page = reload.page
      /\ reload'.cut = reload.cut
  BY <1>1, <1>1b, <1>6 DEF Reloads
<1>. QED
  BY <1>7, <1>8 DEF Fetched

LEMMA ReloadTyped ==
  ASSUME TypeOK
  PROVE  /\ Fetched \subseteq Articles /\ \A a \in Fetched : reload.items[a] \in SUBSET Labels
         /\ reload.page \in Nat /\ reload.cut \in BOOLEAN
<1>1. PICK as \in SUBSET Articles : reload.items \in [as -> SUBSET Labels]
  BY DEF TypeOK, Reloads
<1>. QED
  BY <1>1 DEF Fetched, TypeOK, Reloads

LEMMA OldRemoved ==
  ASSUME TypeOK, RemoveOldDeleted
  PROVE  /\ local' \in [Articles -> Rows]
         /\ \A a \in Articles :
              /\ local'[a].flag = local[a].flag /\ local'[a].unread = local[a].unread
              /\ local'[a].row => local[a].row
              /\ a \in Fetched \/ ~reload.brought => local'[a] = local[a]
         /\ reload' \in Reloads /\ Fetched' = Fetched /\ reload'.at = "parsed" /\ reload'.items = reload.items
         /\ reload'.cut = reload.cut /\ reload'.brought = reload.brought
<1>1. local' = [a \in Articles |-> IF reload.brought /\ a \notin Fetched
                                  THEN [local[a] EXCEPT !.row = @ /\ ~local[a].deleted] ELSE local[a]]
      /\ reload' = [reload EXCEPT !.at = "parsed"]
  BY DEF RemoveOldDeleted
<1> DEFINE new(a) == [local[a] EXCEPT !.row = @ /\ ~local[a].deleted]
<1>2. \A a \in Articles : local[a] \in Rows
  BY DEF TypeOK
<1>3. \A a \in Articles : new(a) \in Rows /\ new(a).flag = local[a].flag /\ new(a).unread = local[a].unread
                          /\ (new(a).row => local[a].row)
  BY <1>2 DEF Rows
<1>4. \A a \in Articles : local'[a] = IF reload.brought /\ a \notin Fetched THEN new(a) ELSE local[a]
  BY <1>1
<1>4b. \E new2 \in [Articles -> Rows] : local' = new2
  <2>1. local' = [a \in Articles |-> IF reload.brought /\ a \notin Fetched THEN new(a) ELSE local[a]]
    BY <1>1
  <2> HIDE DEF new
  <2>. QED
    BY <1>2, <1>3, <2>1
<1> HIDE DEF new
<1>5. /\ local' \in [Articles -> Rows]
      /\ \A a \in Articles :
              /\ local'[a].flag = local[a].flag /\ local'[a].unread = local[a].unread
              /\ local'[a].row => local[a].row
              /\ a \in Fetched \/ ~reload.brought => local'[a] = local[a]
  BY <1>3, <1>4, <1>4b
<1>6. /\ reload' \in Reloads /\ reload'.at = "parsed" /\ reload'.items = reload.items
      /\ reload'.cut = reload.cut /\ reload'.brought = reload.brought
  BY <1>1 DEF TypeOK, Reloads
<1>. QED
  BY <1>5, <1>6 DEF Fetched

LEMMA Stored ==
  ASSUME TypeOK, Store
  PROVE  /\ local' \in [Articles -> Rows]
         /\ \A a \in Articles :
              /\ a \notin Fetched => local'[a] = local[a]
              /\ a \in Fetched =>
                   /\ local'[a].row
                   /\ local'[a].unread = IF reload.items[a] # {} THEN UnreadByLabels(reload.items[a])
                                         ELSE ~local[a].row \/ local[a].unread
                   /\ local'[a].flag <=> local[a].row /\ local[a].flag
<1> DEFINE stored(a) == [row |-> TRUE,
                         unread |-> IF reload.items[a] # {} THEN UnreadByLabels(reload.items[a])
                                    ELSE ~local[a].row \/ local[a].unread,
                         deleted |-> local[a].row /\ local[a].deleted,
                         flag |-> local[a].row /\ local[a].flag]
<1>1. local' = [a \in Articles |-> IF a \in Fetched THEN stored(a) ELSE local[a]]
  BY DEF Store
<1>2. \A a \in Articles : local[a] \in Rows
  BY DEF TypeOK
<1>3. \A a \in Articles :
        /\ stored(a) \in Rows /\ stored(a).row
        /\ stored(a).unread = IF reload.items[a] # {} THEN UnreadByLabels(reload.items[a])
                                         ELSE ~local[a].row \/ local[a].unread
        /\ stored(a).flag <=> local[a].row /\ local[a].flag
  BY <1>2 DEF Rows, UnreadByLabels
<1> HIDE DEF stored
<1>. QED
  BY <1>1, <1>2, <1>3

Request(t) ==
  \/ GetToken(t) \/ Send(t) \/ Answer(t) \/ SessionRefused(t) \/ Lose(t) \/ Login(t) \/ LoggedIn(t) \/ Waited(t)

Moved(t) ==
  /\ call' \in [Threads -> CallStates] /\ Busy(t)
  /\ \A u \in Threads : u # t => call'[u] = call[u]
  /\ call'[t].op = call[t].op /\ call'[t].article = call[t].article /\ call'[t].value = call[t].value
  /\ call'[t].at # "idle"
  /\ call'[t].at = "done" => Answer(t)
  /\ call'[t].at \in {"login", "logging in", "waiting"} => LogsInAgain

\* A request goes on for the same mark, star or page.
LEMMA RequestMoves ==
  ASSUME TypeInv, NEW t \in Threads, Request(t)
  PROVE  Moved(t)
<1>. USE DEF TypeInv, TypeOK
<1>0. Busy(t)
  BY DEF Request, GetToken, Send, Answer, SessionRefused, Lose, Login, LoggedIn, Waited, At
<1>1. ASSUME NEW place \in CallPlaces, Proceeds(t, place), place # "idle", place = "done" => Answer(t),
             place \in {"login", "logging in", "waiting"} => LogsInAgain
      PROVE  Moved(t)
  <2>1. /\ call' \in [Threads -> CallStates]
        /\ \A u \in Threads : u # t => call'[u] = call[u]
        /\ call'[t].at = place /\ call'[t].op = call[t].op /\ call'[t].article = call[t].article
        /\ call'[t].value = call[t].value
    BY <1>1, CallMoves
  <2>. QED
    BY <1>0, <1>1, <2>1 DEF Moved
<1>2. /\ {"send", "failed", "done", "login", "logging in", "waiting"} \subseteq CallPlaces
      /\ ~LogsInAgain => ~At(t, "login")
  BY DEF CallPlaces, CallsOK, At
<1>3. CASE Answer(t)
  <2>1. Proceeds(t, "done")
    BY <1>3 DEF Answer
  <2>. QED
    BY <1>1, <1>2, <1>3, <2>1
<1>4. CASE GetToken(t) \/ Lose(t) \/ SessionRefused(t) \/ Login(t)
  <2>1. \E place \in {"send", "failed", "login", "logging in", "waiting"} :
          Proceeds(t, place) /\ (place \in {"login", "logging in", "waiting"} => LogsInAgain)
    <3>1. CASE GetToken(t)
      BY <3>1 DEF GetToken
    <3>2. CASE Lose(t)
      BY <3>2 DEF Lose
    <3>3. CASE SessionRefused(t)
      <4>1. Proceeds(t, IF LogsInAgain /\ call[t].try_login THEN "login" ELSE "failed")
        BY <3>3 DEF SessionRefused
      <4>2. CASE LogsInAgain /\ call[t].try_login
        BY <4>1, <4>2
      <4>3. CASE ~(LogsInAgain /\ call[t].try_login)
        <5>1. Proceeds(t, "failed")
          BY <4>1, <4>3
        <5>. QED
          BY <5>1
      <4>. QED
        BY <4>2, <4>3
    <3>4. CASE Login(t)
      <4>1. LogsInAgain
        BY <1>2, <3>4 DEF Login
      <4>. QED
        BY <3>4, <4>1 DEF Login
    <3>. QED
      BY <1>4, <3>1, <3>2, <3>3, <3>4
  <2>2. PICK place \in {"send", "failed", "login", "logging in", "waiting"} :
          Proceeds(t, place) /\ (place \in {"login", "logging in", "waiting"} => LogsInAgain)
    BY <2>1
  <2>4. place \in CallPlaces /\ place # "idle" /\ place # "done"
    BY <1>2, <2>2
  <2>. QED
    BY <1>1, <2>2, <2>4
<1>5. CASE Send(t)
  BY <1>0, <1>5, CallSent DEF Moved
<1>6. CASE LoggedIn(t) \/ Waited(t)
  <2>1. PICK ok \in BOOLEAN : Retries(t, ok)
    BY <1>6 DEF LoggedIn, Waited
  <2>2. call'[t].at \in {"send", "failed"}
    BY <2>1, CallRetries
  <2>. QED
    BY <1>0, <2>1, <2>2, CallRetries DEF Moved
<1>. QED
  BY <1>3, <1>4, <1>5, <1>6 DEF Request

\* The calls of a thread begin and end.
LEMMA CallSet ==
  ASSUME TypeInv, NEW t \in Threads, NEW c \in CallStates, call' = [call EXCEPT ![t] = c], service' = service,
         c.at = "idle" <=> c.op = "none", c.op = "none" => c = NoCall,
         t = Reloader => c.op \in {"none", "fetch"} /\ c.article = {},
         t # Reloader => c.op \in {"none", "mark"} \/ (t = Main /\ c.op = "star"),
         c.at \notin {"login", "logging in", "waiting"},
         running' = TRUE \/ (running' = running /\ c.op = "none")
  PROVE  CallsOK' /\ call' \in [Threads -> CallStates]
<1>1. call'[t] = c /\ \A u \in Threads : u # t => call'[u] = call[u]
  BY DEF TypeInv, TypeOK
<1>2. \A u \in Threads : (call'[u].at = "idle" <=> ~Busy(u)') /\ (~Busy(u)' => call'[u] = NoCall)
  BY ZenonT(30), <1>1 DEF TypeInv, CallsOK, Busy
<1>3. /\ call'[Reloader].op \in {"none", "fetch"} /\ call'[Reloader].article = {}
      /\ call'[Main].op \in {"none", "mark", "star"}
      /\ \A m \in Markers : call'[m].op \in {"none", "mark"}
  BY <1>1, ThreadsDiffer DEF TypeInv, CallsOK
<1>4. \A u \in Threads : call'[u].at \in {"login", "logging in", "waiting"} => LogsInAgain'
  BY <1>1 DEF TypeInv, CallsOK, LogsInAgain
<1>5. ~running' => \A u \in Threads : ~Busy(u)'
  BY <1>1 DEF TypeInv, CallsOK, Busy
<1>6. call' \in [Threads -> CallStates]
  BY DEF TypeInv, TypeOK
<1>. QED
  BY <1>2, <1>3, <1>4, <1>5, <1>6 DEF CallsOK

LEMMA CallsMoved ==
  ASSUME TypeInv, NEW t \in Threads, Moved(t), UNCHANGED <<service, running>>
  PROVE  CallsOK'
<1>. USE DEF Moved
<1>1. \A u \in Threads : (call'[u].at = "idle" <=> ~Busy(u)') /\ (~Busy(u)' => call'[u] = NoCall)
  BY ZenonT(30) DEF TypeInv, CallsOK, Busy
<1>2. /\ call'[Reloader].op \in {"none", "fetch"} /\ call'[Reloader].article = {}
      /\ call'[Main].op \in {"none", "mark", "star"}
      /\ \A m \in Markers : call'[m].op \in {"none", "mark"}
  BY ThreadsDiffer DEF TypeInv, CallsOK
<1>3. \A u \in Threads : call'[u].at \in {"login", "logging in", "waiting"} => LogsInAgain'
  BY DEF TypeInv, CallsOK, LogsInAgain
<1>4. ~running' => \A u \in Threads : ~Busy(u)'
  BY DEF TypeInv, CallsOK, Busy
<1>. QED
  BY <1>1, <1>2, <1>3, <1>4 DEF CallsOK

LEMMA TypeInit == ServicesInit => TypeInv
<1>. SUFFICES ASSUME ServicesInit PROVE TypeInv
  OBVIOUS
<1>1. /\ service \in Kinds /\ running \in BOOLEAN /\ sid \in Sids /\ auth_lock \subseteq Threads
      /\ excused \subseteq Articles \X {ReadFlag, Star} /\ hit \subseteq Threads
  BY DEF ServicesInit, Sids
<1>2. server \in [Articles -> ServerStates] /\ local \in [Articles -> Rows]
  BY DEF ServicesInit, ServerStates, Rows, Labels
<1>3. call \in [Threads -> CallStates] /\ reload \in Reloads
  BY NoCallTyped, NoReloadTyped DEF ServicesInit
<1>4. CallsOK
  BY ThreadsDiffer DEF ServicesInit, CallsOK, Busy, NoCall
<1>. QED
  BY <1>1, <1>2, <1>3, <1>4 DEF TypeInv, TypeOK

LEMMA TypePressed == ASSUME TypeInv, Pressed PROVE TypeInv'
<1>1. PICK t \in Threads, as \in SUBSET Articles, read \in BOOLEAN : Presses(t, as, read)
  BY DEF Pressed
<1>2. CallsOK' /\ call' \in [Threads -> CallStates]
  <2> DEFINE c == Begun("mark", as, read)
  <2>1. /\ c \in CallStates /\ c.op = "mark" /\ c.at \in {"token", "send"}
    BY DEF Begun, NoCall, CallStates, CallPlaces, Sids
  <2>2. call' = [call EXCEPT ![t] = c] /\ t # Reloader /\ service' = service /\ running' = TRUE
    BY <1>1 DEF Presses, OwnThread, TypeInv, TypeOK
  <2> HIDE DEF c
  <2>. QED
    BY <2>1, <2>2, CallSet
<1>3. excused' \subseteq Articles \X {ReadFlag, Star} /\ hit' \subseteq Threads
  BY <1>1 DEF Presses, TypeInv, TypeOK
<1>. QED
  BY <1>1, <1>2, <1>3 DEF TypeInv, TypeOK, Presses

LEMMA TypeRequest == ASSUME TypeInv, NEW t \in Threads, Request(t) PROVE TypeInv'
<1>1. Moved(t)
  BY RequestMoves
<1>2. UNCHANGED <<service, running, local>>
  BY DEF Request, GetToken, Send, Answer, SessionRefused, Lose, Login, LoggedIn, Waited
<1>3. CallsOK'
  BY <1>1, <1>2, CallsMoved
<1>4. sid' \in Sids /\ auth_lock' \subseteq Threads
  BY DEF Request, GetToken, Send, Answer, SessionRefused, Lose, Login, LoggedIn, Waited, TypeInv, TypeOK, Sids
<1>5. hit' \subseteq Threads
  BY DEF Request, GetToken, Send, Answer, SessionRefused, Lose, Login, LoggedIn, Waited, TypeInv, TypeOK
<1>6. server' \in [Articles -> ServerStates]
  <2>1. Serve(t) \/ server' = server
    BY DEF Request, GetToken, Send, Answer, SessionRefused, Lose, Login, LoggedIn, Waited
  <2>. QED
    BY <2>1, Served DEF TypeInv, TypeOK
<1>7. reload' \in Reloads /\ excused' \subseteq Articles \X {ReadFlag, Star}
  <2>1. CASE Answer(t) /\ call[t].op = "fetch"
    <3>1. t = Reloader
      BY <2>1 DEF TypeInv, CallsOK, Threads
    <3>2. Page(reload.page) \subseteq Articles
      BY DEF Page
    <3>3. excused' = excused \cup {a \in Page(reload.page) : InFlight(a)} \X {ReadFlag}
      BY <2>1 DEF Answer
    <3>. QED
      BY <2>1, <3>1, <3>2, <3>3, PageAdded DEF TypeInv, TypeOK
  <2>2. CASE ~(Answer(t) /\ call[t].op = "fetch")
    <3>1. reload' = reload /\ excused' = excused
      BY <2>2 DEF Request, GetToken, Send, Answer, SessionRefused, Lose, Login, LoggedIn, Waited
    <3>. QED
      BY <3>1 DEF TypeInv, TypeOK
  <2>. QED
    BY <2>1, <2>2
<1>. QED
  BY <1>1, <1>2, <1>3, <1>4, <1>5, <1>6, <1>7 DEF TypeInv, TypeOK, Moved

LEMMA TypeReload ==
  ASSUME TypeInv, BeginReload \/ NextPage \/ RemoveOldDeleted \/ Store
  PROVE  TypeInv'
<1>. USE DEF TypeInv, TypeOK
<1>0. "fetching" \in {"idle", "fetching", "fetched", "parsed"} /\ {} \in SUBSET Articles /\ FALSE \in BOOLEAN
  OBVIOUS
<1>1. CASE BeginReload
  <2> DEFINE c == Begun("fetch", {}, FALSE)
  <2>1. c \in CallStates /\ c.op = "fetch" /\ c.article = {} /\ c.at = "send"
    BY <1>0, BegunTyped
  <2>2. call' = [call EXCEPT ![Reloader] = c] /\ reload' = [NoReload EXCEPT !.at = "fetching", !.page = 1]
        /\ running' = TRUE /\ hit' \subseteq Threads
        /\ UNCHANGED <<service, running, server, sid, auth_lock, local, excused>>
    BY <1>1, ThreadsDiffer DEF BeginReload
  <2> HIDE DEF c
  <2>3. CallsOK' /\ call' \in [Threads -> CallStates]
    BY <2>1, <2>2, CallSet, ThreadsDiffer
  <2>4. reload' \in Reloads
    BY <2>2, NoReloadTyped DEF Reloads
  <2>. QED
    BY <2>2, <2>3, <2>4
<1>2. CASE NextPage
  <2>1. /\ running = TRUE /\ hit' \subseteq Threads
        /\ UNCHANGED <<service, running, server, sid, auth_lock, local, excused>>
    <3>1. running = TRUE
      BY <1>2, ThreadsDiffer DEF NextPage, CallsOK
    <3>2. hit' \in {hit, hit \ {Reloader}, hit \cup {Reloader}}
      BY <1>2 DEF NextPage
    <3>. QED
      BY <1>2, <3>1, <3>2, ThreadsDiffer DEF NextPage
  <2> DEFINE c == Begun("fetch", {}, FALSE)
  <2>2. CASE call' = [call EXCEPT ![Reloader] = c] /\ reload' = [reload EXCEPT !.page = @ + 1]
    <3>1. c \in CallStates /\ c.op = "fetch" /\ c.article = {} /\ c.at = "send"
      BY <1>0, BegunTyped
    <3> HIDE DEF c
    <3>2. CallsOK' /\ call' \in [Threads -> CallStates]
      BY <2>1, <2>2, <3>1, CallSet, ThreadsDiffer
    <3>3. reload' \in Reloads
      BY <2>2 DEF Reloads
    <3>. QED
      BY <2>1, <3>2, <3>3
  <2>3. CASE \E cut \in BOOLEAN : /\ call' = [call EXCEPT ![Reloader] = NoCall]
                                  /\ reload' = [reload EXCEPT !.at = "fetched", !.cut = cut]
    <3>1. PICK cut \in BOOLEAN : /\ call' = [call EXCEPT ![Reloader] = NoCall]
                                 /\ reload' = [reload EXCEPT !.at = "fetched", !.cut = cut]
      BY <2>3
    <3>2. NoCall.op = "none" /\ NoCall.article = {} /\ NoCall.at = "idle"
      BY DEF NoCall
    <3>3. CallsOK' /\ call' \in [Threads -> CallStates]
      BY <2>1, <3>1, <3>2, NoCallTyped, CallSet, ThreadsDiffer
    <3>4. reload' \in Reloads
      BY <3>1 DEF Reloads
    <3>. QED
      BY <2>1, <3>3, <3>4
  <2>. QED
    <3>1. (call[Reloader].at = "failed") \in BOOLEAN
      OBVIOUS
    <3>. QED
      BY <1>2, <2>2, <2>3, <3>1 DEF NextPage
<1>3. CASE RemoveOldDeleted
  <2>1. UNCHANGED <<service, running, server, sid, auth_lock, call, excused, hit>>
    BY <1>3 DEF RemoveOldDeleted
  <2>. QED
    BY <1>3, <2>1, OldRemoved DEF CallsOK, Busy, LogsInAgain
<1>4. CASE Store
  <2>1. UNCHANGED <<service, running, server, sid, auth_lock, call, hit>> /\ reload' = NoReload
        /\ excused' \subseteq excused
    BY <1>4 DEF Store
  <2>. QED
    BY <1>4, <2>1, Stored, NoReloadTyped DEF CallsOK, Busy, LogsInAgain
<1>. QED
  BY <1>1, <1>2, <1>3, <1>4

\* All but the pages of the articles is as it was.
AllButPages == UNCHANGED <<service, running, server, sid, auth_lock, call, reload, local, excused, hit>>

LEMMA Steps ==
  ASSUME TypeInv, [ServicesNext]_serviceVars
  PROVE  \/ AllButPages \/ LogOn \/ Pressed \/ LeaveProgram
         \/ BeginReload \/ NextPage \/ RemoveOldDeleted \/ Store \/ Expire
         \/ \E a \in Articles : MarkHere(a) \/ EditFlags(a) \/ OtherDevice(a) \/ Age(a)
         \/ \E t \in Threads : Request(t) \/ CallReturns(t)
<1>1. /\ Touched[service].read \subseteq Articles /\ Touched[service].delete \subseteq Articles
      /\ Touched[service].here \subseteq Articles /\ Touched[service].flags \subseteq Articles
      /\ Touched[service].elsewhere \subseteq Articles /\ Touched[service].older \subseteq Articles
  BY ServicesAssumption DEF TypeInv, TypeOK
<1>2. CASE MarkFeedRead \/ \E a \in Articles : Read(a) \/ Toggle(a) \/ Delete(a)
  BY <1>2, KeysPress DEF TypeInv
<1>3. CASE \E t \in Threads : GetToken(t) \/ Send(t) \/ Answer(t) \/ SessionRefused(t) \/ Lose(t) \/ Login(t)
                        \/ LoggedIn(t) \/ Waited(t)
  BY <1>3 DEF Request
<1>4. UNCHANGED serviceVars \/ (\E a \in Articles : Older(a)) => AllButPages
  BY DEF serviceVars, Older, AllButPages
<1>. QED
  BY <1>1, <1>2, <1>3, <1>4, Zenon DEF ServicesNext

LEMMA TypeNext == TypeInv /\ [ServicesNext]_serviceVars => TypeInv'
<1>. SUFFICES ASSUME TypeInv, [ServicesNext]_serviceVars PROVE TypeInv'
  OBVIOUS
<1>. USE DEF TypeInv, TypeOK
<1>1. CASE AllButPages
  BY <1>1 DEF AllButPages, CallsOK, Busy, LogsInAgain
<1>2. CASE LogOn
  BY <1>2 DEF LogOn, Sids, CallsOK, Busy, LogsInAgain
<1>3. CASE LeaveProgram
  <2>1. /\ UNCHANGED <<service, local>> /\ auth_lock' = {} /\ sid' = "none" /\ hit' = {} /\ reload' = NoReload
        /\ running' = FALSE
        /\ excused' = excused \cup {a \in Articles : InFlight(a)} \X {ReadFlag}
    BY <1>3 DEF LeaveProgram
  <2>2. call' = [t \in Threads |-> NoCall] /\ NoCall.op = "none" /\ NoCall.at = "idle" /\ NoCall.article = {}
    BY <1>3, LeftAs DEF NoCall
  <2>3. call' \in [Threads -> CallStates]
    BY <2>2, NoCallTyped
  <2>4. CallsOK'
    BY <2>2, ThreadsDiffer DEF CallsOK, Busy
  <2>. QED
    BY <1>3, <2>1, <2>3, <2>4, LeftAs, NoReloadTyped DEF Sids
<1>4. ASSUME NEW a \in Articles, MarkHere(a)
      PROVE  TypeInv'
  <2>1. UNCHANGED <<service, running, server, sid, auth_lock, call, reload, hit>>
        /\ excused' \subseteq Articles \X {ReadFlag, Star}
    BY <1>4 DEF MarkHere
  <2>2. CallsOK'
    BY <2>1 DEF CallsOK, Busy, LogsInAgain
  <2>. QED
    BY <1>4, <2>1, <2>2, HereSet
<1>5. ASSUME NEW a \in Articles, EditFlags(a)
      PROVE  TypeInv'
  <2> DEFINE c == Begun("star", {a}, ~local[a].flag)
  <2>1. c \in CallStates /\ c.op = "star" /\ c.at \in {"token", "send"}
    BY DEF Begun, NoCall, CallStates, CallPlaces, Sids
  <2>2. call' = [call EXCEPT ![Main] = c] /\ local' \in [Articles -> Rows]
    BY <1>5, FlagsSet
  <2>3. /\ running' = TRUE /\ hit' \in {hit, hit \cup {Main}}
        /\ UNCHANGED <<service, server, sid, auth_lock, reload, excused>>
    BY <1>5 DEF EditFlags, Free
  <2> HIDE DEF c
  <2>4. CallsOK' /\ call' \in [Threads -> CallStates]
    BY <2>1, <2>2, <2>3, CallSet, ThreadsDiffer
  <2>. QED
    BY <1>5, <2>2, <2>3, <2>4, ThreadsDiffer DEF EditFlags
<1>6. ASSUME NEW t \in Threads, CallReturns(t)
      PROVE  TypeInv'
  <2>1. NoCall.op = "none" /\ NoCall.at = "idle" /\ NoCall.article = {}
    BY DEF NoCall
  <2>2. call' = [call EXCEPT ![t] = NoCall] /\ UNCHANGED <<service, running, server, sid, auth_lock, reload, local>>
        /\ hit' = hit \ {t}
    BY <1>6 DEF CallReturns
  <2>3. CallsOK' /\ call' \in [Threads -> CallStates]
    BY <2>1, <2>2, NoCallTyped, CallSet
  <2>4. excused' \subseteq Articles \X {ReadFlag, Star}
    <3>1. call[t].article \subseteq Articles
      BY DEF CallStates
    <3>2. \/ excused' = excused \cup call[t].article \X {Star}
          \/ excused' = excused \cup call[t].article \X {ReadFlag}
          \/ excused' \subseteq excused
      BY <1>6 DEF CallReturns
    <3>. QED
      BY <3>1, <3>2
  <2>. QED
    BY <2>2, <2>3, <2>4
<1>7. CASE Expire
  <2>1. UNCHANGED <<service, running, server, auth_lock, reload, local, excused>>
        /\ hit' \subseteq Threads /\ sid' \in Sids
    BY <1>7 DEF Expire, Sids
  <2>2. CallsOK'
    <3>1. NoCall.sid # "valid"
      BY DEF NoCall
    <3>2. \A t \in Threads :
            /\ call'[t].at = call[t].at /\ call'[t].op = call[t].op /\ call'[t].article = call[t].article
            /\ call[t].sid # "valid" => call'[t] = call[t]
      BY <1>7, CallExpires
    <3>3. \A t \in Threads : ~Busy(t) => call'[t] = NoCall
      BY <3>1, <3>2 DEF CallsOK
    <3>4. \A t \in Threads : (call'[t].at = "idle" <=> ~Busy(t)') /\ (~Busy(t)' => call'[t] = NoCall)
      BY ZenonT(30), <3>2, <3>3 DEF CallsOK, Busy
    <3>5. /\ call'[Reloader].op \in {"none", "fetch"} /\ call'[Reloader].article = {}
          /\ call'[Main].op \in {"none", "mark", "star"}
          /\ \A m \in Markers : call'[m].op \in {"none", "mark"}
      BY <3>2, ThreadsDiffer DEF CallsOK
    <3>6. /\ \A t \in Threads : call'[t].at \in {"login", "logging in", "waiting"} => LogsInAgain'
          /\ ~running' => \A t \in Threads : ~Busy(t)'
      BY <2>1, <3>2 DEF CallsOK, Busy, LogsInAgain
    <3>. QED
      BY <3>4, <3>5, <3>6 DEF CallsOK
  <2>. QED
    BY <1>7, <2>1, <2>2, CallExpires
<1>8. ASSUME NEW a \in Articles, OtherDevice(a) \/ Age(a)
      PROVE  TypeInv'
  <2>1. server' \in [Articles -> ServerStates]
    <3>1. \E labels \in SUBSET Labels : server' = [server EXCEPT ![a].labels = labels]
      <4>0. server[a].labels \in SUBSET Labels
        BY DEF ServerStates
      <4>1. CASE OtherDevice(a)
        BY <4>0, <4>1, MarkedTyped DEF OtherDevice
      <4>2. CASE Age(a)
        <5>1. server[a].labels \ {"fresh"} \in SUBSET Labels
          BY <4>0
        <5>. QED
          BY <4>2, <5>1 DEF Age
      <4>. QED
        BY <1>8, <4>1, <4>2
    <3>. QED
      BY <3>1 DEF ServerStates
  <2>2. UNCHANGED <<service, running, sid, auth_lock, call, reload, local, hit>>
        /\ excused' \subseteq Articles \X {ReadFlag, Star}
    BY <1>8 DEF OtherDevice, Age
  <2>. QED
    BY <2>1, <2>2 DEF CallsOK, Busy, LogsInAgain
<1>. QED
  BY <1>1, <1>2, <1>3, <1>4, <1>5, <1>6, <1>7, <1>8, Steps, TypePressed, TypeRequest, TypeReload

\* Type correctness of Services, and which thread makes which calls
\* (markreadthread.cpp, ttrss_api.cpp).
THEOREM TypesHold == ServicesSpec => []TypeInv
<1>. QED
  BY TypeInit, TypeNext, PTL DEF ServicesSpec

-----------------------------------------------------------------------------
(* A fetch that was not cut short has brought all articles that are not      *)
(* beyond the last page, where those that are stay.                          *)
PagesOK == onPage \in [Articles -> Nat \ {0}]
FetchInv ==
  /\ PagesOK
  /\ reload.at = "fetching" <=> Busy(Reloader)
  /\ Busy(Reloader) =>
       /\ reload.page \in 1 .. LastPage /\ ~reload.cut
       /\ \A a \in Articles : onPage[a] < reload.page => a \in Fetched
       /\ call[Reloader].at = "done" => \A a \in Articles : onPage[a] <= reload.page => a \in Fetched
       /\ reload.page = 1 /\ call[Reloader].at # "done" => ~reload.brought
  /\ reload.at \in {"fetched", "parsed"} /\ ~reload.cut => \A a \in Articles : onPage[a] <= LastPage => a \in Fetched
  /\ service # "newsblur" /\ reload.cut => ~reload.brought
  /\ reload.at = "idle" => Fetched = {}

LEMMA FetchInit == ServicesInit => FetchInv
<1>. SUFFICES ASSUME ServicesInit PROVE FetchInv
  OBVIOUS
<1>1. ~Busy(Reloader) /\ reload.at = "idle" /\ Fetched = {}
  BY ThreadsDiffer, NoReloadTyped DEF ServicesInit, Busy, NoCall, Fetched
<1>2. PagesOK /\ reload.cut = FALSE
  BY ServicesAssumption, NoReloadTyped DEF PagesOK, ServicesInit
<1>. QED
  BY <1>1, <1>2 DEF FetchInv

LEMMA FetchKept ==
  ASSUME FetchInv, UNCHANGED <<service, reload, onPage>>, call'[Reloader].op = call[Reloader].op,
         call'[Reloader].at = "done" <=> call[Reloader].at = "done"
  PROVE  FetchInv'
<1>1. UNCHANGED <<Fetched, LastPage, PagesOK, Busy(Reloader)>>
  BY DEF Fetched, LastPage, PagesOK, Busy
<1>. QED
  BY <1>1 DEF FetchInv

LEMMA FetchReload ==
  ASSUME TypeInv, FetchInv, BeginReload \/ NextPage \/ RemoveOldDeleted \/ Store
  PROVE  FetchInv'
<1>0. UNCHANGED <<service, onPage, LastPage, PagesOK>> /\ LastPage \in Nat /\ 1 \in 1 .. LastPage
  <2>1. UNCHANGED <<service, onPage>>
    BY DEF BeginReload, NextPage, RemoveOldDeleted, Store
  <2>. QED
    BY <2>1, ServicesAssumption DEF LastPage, PagesOK
<1>0b. onPage \in [Articles -> Nat \ {0}]
  BY DEF FetchInv, PagesOK
<1>1. CASE BeginReload
  <2> DEFINE c == Begun("fetch", {}, FALSE)
  <2>1. c.op = "fetch" /\ c.at = "send"
    BY DEF Begun, NoCall
  <2>2. call'[Reloader] = c
    BY <1>1, ThreadsDiffer DEF BeginReload, TypeInv, TypeOK
  <2> HIDE DEF c
  <2>3. /\ reload'.at = "fetching" /\ reload'.page = 1 /\ reload'.items = NoReload.items
        /\ reload'.brought = FALSE /\ reload'.cut = FALSE
    BY <1>1, NoReloadTyped DEF BeginReload, Reloads
  <2>4. Fetched' = {}
    BY <2>3, NoReloadTyped DEF Fetched
  <2>5. \A a \in Articles : ~(onPage[a] < 1)
    BY <1>0b
  <2>. QED
    BY <1>0, <2>1, <2>2, <2>3, <2>4, <2>5 DEF FetchInv, Busy
<1>2. CASE NextPage /\ call[Reloader].at = "done" /\ reload.page < LastPage
  <2> DEFINE c == Begun("fetch", {}, FALSE)
  <2>1. c.op = "fetch" /\ c.at = "send"
    BY DEF Begun, NoCall
  <2>2. call'[Reloader] = c /\ reload' = [reload EXCEPT !.page = @ + 1] /\ Busy(Reloader)
    BY <1>2, ThreadsDiffer DEF NextPage, TypeInv, TypeOK
  <2> HIDE DEF c
  <2>3. /\ reload'.at = reload.at /\ reload'.page = reload.page + 1 /\ reload'.items = reload.items
        /\ reload'.brought = reload.brought /\ reload'.cut = reload.cut
    BY <2>2 DEF TypeInv, TypeOK, Reloads
  <2>4. Fetched' = Fetched
    BY <2>3 DEF Fetched
  <2>5. reload.page \in 1 .. LastPage
    BY <2>2 DEF FetchInv
  <2>6. \A a \in Articles : onPage[a] < reload.page + 1 => a \in Fetched
    <3>1. \A a \in Articles : onPage[a] <= reload.page => a \in Fetched
      BY <1>2, <2>2 DEF FetchInv
    <3>. QED
      BY <1>0, <1>0b, <2>5, <3>1
  <2>7. reload.page + 1 \in 1 .. LastPage /\ reload.page + 1 # 1
    BY <1>0, <1>2, <2>5
  <2>8. Busy(Reloader)' /\ call'[Reloader].at # "done"
    BY <2>1, <2>2 DEF Busy
  <2>. QED
    BY <1>0, <2>2, <2>3, <2>4, <2>6, <2>7, <2>8 DEF FetchInv
<1>3. CASE NextPage /\ ~(call[Reloader].at = "done" /\ reload.page < LastPage)
  <2>1. /\ Busy(Reloader) /\ call'[Reloader] = NoCall
        /\ reload' = [reload EXCEPT !.at = "fetched", !.cut = call[Reloader].at = "failed"]
        /\ call[Reloader].at \in {"done", "failed"}
    BY <1>3, ThreadsDiffer DEF NextPage, TypeInv, TypeOK
  <2>2. /\ reload'.at = "fetched" /\ reload'.items = reload.items /\ reload'.brought = reload.brought
        /\ reload'.cut <=> call[Reloader].at = "failed"
    BY <2>1 DEF TypeInv, TypeOK, Reloads
  <2>3. ~Busy(Reloader)' /\ Fetched' = Fetched
    BY <2>1, <2>2 DEF Busy, NoCall, Fetched
  <2>3b. reload.page \in 1 .. LastPage
    BY <2>1 DEF FetchInv
  <2>4. call[Reloader].at = "done" => \A a \in Articles : onPage[a] <= LastPage => a \in Fetched
    <3>1. call[Reloader].at = "done" => reload.page = LastPage
      BY <1>0, <1>3, <2>3b
    <3>. QED
      BY <2>1, <3>1 DEF FetchInv
  <2>5. call[Reloader].at = "failed" /\ service # "newsblur" => ~reload.brought
    <3>1. service # "newsblur" => LastPage = 1
      BY DEF LastPage
    <3>. QED
      BY <2>1, <2>3b, <3>1 DEF FetchInv
  <2>. QED
    BY <1>0, <2>1, <2>2, <2>3, <2>4, <2>5 DEF FetchInv
<1>4. CASE RemoveOldDeleted
  <2>1. /\ UNCHANGED <<service, call>> /\ reload.at = "fetched" /\ reload'.at = "parsed" /\ Fetched' = Fetched
        /\ reload'.cut = reload.cut /\ reload'.brought = reload.brought
    BY <1>4, OldRemoved DEF RemoveOldDeleted, TypeInv
  <2>. QED
    BY <1>0, <2>1 DEF FetchInv, Busy
<1>5. CASE Store
  <2>1. UNCHANGED <<service, call>> /\ reload.at = "parsed" /\ reload' = NoReload
    BY <1>5 DEF Store
  <2>2. ~Busy(Reloader)' /\ reload'.at = "idle" /\ ~reload'.cut /\ Fetched' = {}
    BY <2>1, NoReloadTyped DEF FetchInv, Busy, Fetched
  <2>. QED
    BY <1>0, <2>2 DEF FetchInv
<1>. QED
  BY <1>1, <1>2, <1>3, <1>4, <1>5

LEMMA FetchRequest == ASSUME TypeInv, FetchInv, NEW t \in Threads, Request(t) PROVE FetchInv'
<1>1. Moved(t) /\ UNCHANGED <<service, onPage>>
  BY RequestMoves DEF Request, GetToken, Send, Answer, SessionRefused, Lose, Login, LoggedIn, Waited
<1>2. CASE Answer(t) /\ t = Reloader
  <2>1. call[Reloader].op = "fetch" /\ Busy(Reloader) /\ call'[Reloader].op = "fetch"
    BY <1>1, <1>2 DEF Moved, Busy, TypeInv, CallsOK
  <2>2. /\ reload'.at = reload.at /\ reload'.page = reload.page /\ reload'.cut = reload.cut
        /\ Fetched' = Fetched \cup Page(reload.page)
    BY <1>2, <2>1, PageAdded DEF TypeInv
  <2>3. UNCHANGED <<LastPage, PagesOK>> /\ reload.page \in 1 .. LastPage
    BY <1>1, <2>1 DEF LastPage, PagesOK, FetchInv
  <2>4. \A a \in Articles : onPage[a] <= reload.page => a \in Fetched'
    <3>. SUFFICES ASSUME NEW a \in Articles, onPage[a] <= reload.page PROVE a \in Fetched'
      OBVIOUS
    <3>1. CASE onPage[a] = reload.page
      BY <2>2, <3>1 DEF Page
    <3>2. CASE onPage[a] < reload.page
      BY <2>1, <2>2, <3>2 DEF FetchInv
    <3>3. onPage[a] \in Nat /\ reload.page \in Nat
      BY <2>3, ReloadTyped DEF FetchInv, PagesOK, TypeInv
    <3>. QED
      BY <3>1, <3>2, <3>3
  <2>5. Busy(Reloader)' /\ call'[Reloader].at = "done"
    <3>1. Proceeds(Reloader, "done")
      BY <1>2 DEF Answer
    <3>. QED
      BY <2>1, <3>1, ThreadsDiffer DEF Proceeds, Busy, TypeInv, TypeOK, CallStates
  <2>6. \A a \in Articles : onPage[a] < reload.page => a \in Fetched'
    BY <2>1, <2>2 DEF FetchInv
  <2>7. reload.at = "fetching" /\ ~reload.cut
    BY <2>1 DEF FetchInv
  <2>. QED
    BY <1>1, <2>2, <2>3, <2>4, <2>5, <2>6, <2>7 DEF FetchInv
<1>3. CASE ~(Answer(t) /\ t = Reloader)
  <2>1. reload' = reload
    BY <1>3 DEF Request, GetToken, Send, Answer, SessionRefused, Lose, Login, LoggedIn, Waited, TypeInv, CallsOK,
             Threads
  <2>2. call'[Reloader].op = call[Reloader].op
    BY <1>1, ThreadsDiffer DEF Moved
  <2>3. call'[Reloader].at = "done" <=> call[Reloader].at = "done"
    <3>1. CASE t = Reloader
      <4>1. call[t].at # "done"
        BY DEF Request, GetToken, Send, Answer, SessionRefused, Lose, Login, LoggedIn, Waited, At
      <4>. QED
        BY <1>1, <1>3, <3>1, <4>1 DEF Moved
    <3>2. CASE t # Reloader
      BY <1>1, <3>2, ThreadsDiffer DEF Moved
    <3>. QED
      BY <3>1, <3>2
  <2>. QED
    BY <1>1, <2>1, <2>2, <2>3, FetchKept
<1>. QED
  BY <1>2, <1>3

\* An article that newer ones have pushed out, and that no fetch under way has
\* brought before, is not fetched any more.
OutOfReach(a) == onPage[a] > LastPage /\ a \notin Fetched
ReachStays == \A a \in Articles : OutOfReach(a) => OutOfReach(a)'

LEMMA PagesMove ==
  ASSUME FetchInv, TypeInv, [ServicesNext]_serviceVars
  PROVE  /\ PagesOK'
         /\ \A a \in Articles : onPage'[a] >= onPage[a]
         /\ onPage' = onPage \/ AllButPages
<1>1. onPage \in [Articles -> Nat \ {0}]
  BY DEF FetchInv, PagesOK
<1>2. CASE onPage' = onPage
  BY <1>1, <1>2 DEF PagesOK
<1>3. CASE \E b \in Articles : Older(b)
  <2>1. PICK b \in Articles : onPage' = [onPage EXCEPT ![b] = @ + 1]
    BY <1>3 DEF Older
  <2>2. AllButPages
    BY <1>3 DEF Older, AllButPages
  <2>3. onPage' \in [Articles -> Nat \ {0}] /\ \A a \in Articles : onPage'[a] >= onPage[a]
    BY <1>1, <2>1
  <2>. QED
    BY <2>2, <2>3 DEF PagesOK
<1>4. onPage' = onPage \/ \E b \in Articles : Older(b)
  <2>1. Touched[service].older \subseteq Articles
    BY ServicesAssumption DEF TypeInv, TypeOK
  <2>2. ServicesNext => onPage' = onPage \/ \E b \in Touched[service].older : Older(b)
    BY DEF ServicesNext, LogOn, MarkFeedRead, LeaveProgram, BeginReload, NextPage, RemoveOldDeleted, Store, Expire,
           Read, Toggle, Delete, MarkHere, EditFlags, OtherDevice, Age, GetToken, Send, Answer, SessionRefused, Lose,
           Login, LoggedIn, Waited, CallReturns
  <2>. QED
    BY <2>1, <2>2 DEF serviceVars
<1>. QED
  BY <1>2, <1>3, <1>4

LEMMA FetchPages ==
  ASSUME FetchInv, AllButPages, PagesOK', \A a \in Articles : onPage'[a] >= onPage[a]
  PROVE  FetchInv'
<1>1. UNCHANGED <<Fetched, LastPage, Busy(Reloader), reload, call, service>>
  BY DEF Fetched, LastPage, Busy, AllButPages
<1>2. /\ onPage \in [Articles -> Nat] /\ onPage' \in [Articles -> Nat]
      /\ LastPage \in Nat /\ (Busy(Reloader) => reload.page \in Nat)
  BY ServicesAssumption DEF FetchInv, PagesOK, LastPage
<1>3. \A a \in Articles : \A k \in Nat : /\ onPage'[a] < k => onPage[a] < k
                                     /\ onPage'[a] <= k => onPage[a] <= k
  BY <1>2
<1>4. Busy(Reloader) =>
        /\ \A a \in Articles : onPage'[a] < reload.page => a \in Fetched
        /\ call[Reloader].at = "done" => \A a \in Articles : onPage'[a] <= reload.page => a \in Fetched
  BY <1>2, <1>3 DEF FetchInv
<1>5. reload.at \in {"fetched", "parsed"} /\ ~reload.cut => \A a \in Articles : onPage'[a] <= LastPage => a \in Fetched
  BY <1>2, <1>3 DEF FetchInv
<1>. QED
  BY <1>1, <1>4, <1>5 DEF FetchInv

LEMMA FetchNext == TypeInv /\ FetchInv /\ [ServicesNext]_serviceVars => FetchInv'
<1>. SUFFICES ASSUME TypeInv, FetchInv, [ServicesNext]_serviceVars PROVE FetchInv'
  OBVIOUS
<1>0. CASE AllButPages
  BY <1>0, PagesMove, FetchPages
<1>. SUFFICES ASSUME onPage' = onPage PROVE FetchInv'
  BY <1>0, PagesMove
<1>1. CASE LogOn \/ \E a \in Articles : MarkHere(a) \/ OtherDevice(a) \/ Age(a)
  <2>1. UNCHANGED <<service, reload, call>>
    BY <1>1 DEF LogOn, MarkHere, OtherDevice, Age
  <2>. QED
    BY <2>1, FetchKept
<1>2. CASE Pressed \/ (\E a \in Articles : EditFlags(a)) \/ \E t \in Threads : CallReturns(t)
  <2>1. UNCHANGED <<service, reload>> /\ call'[Reloader] = call[Reloader]
    <3>1. \E t \in Threads : \E c : t # Reloader /\ call' = [call EXCEPT ![t] = c]
      BY <1>2, ThreadsDiffer DEF Pressed, Presses, OwnThread, EditFlags, CallReturns
    <3>. QED
      BY <1>2, <3>1, ThreadsDiffer DEF Pressed, Presses, EditFlags, CallReturns, TypeInv, TypeOK
  <2>. QED
    BY <2>1, FetchKept
<1>3. CASE Expire
  <2>1. UNCHANGED <<service, reload>> /\ call'[Reloader].op = call[Reloader].op /\ call'[Reloader].at = call[Reloader].at
    BY <1>3, CallExpires, ThreadsDiffer DEF Expire, TypeInv, TypeOK
  <2>. QED
    BY <2>1, FetchKept
<1>4. CASE LeaveProgram
  <2>1. service' = service /\ reload' = NoReload /\ call'[Reloader] = NoCall
    BY <1>4, LeftAs, ThreadsDiffer DEF LeaveProgram
  <2>2. ~Busy(Reloader)' /\ reload'.at = "idle" /\ ~reload'.cut /\ Fetched' = {}
    BY <2>1, NoReloadTyped DEF NoCall, Busy, Fetched
  <2>. QED
    BY <2>2, PagesMove DEF FetchInv
<1>. QED
  BY <1>0, <1>1, <1>2, <1>3, <1>4, Steps, FetchReload, FetchRequest

\* Nothing that is out of reach comes back.
LEMMA ReachKept ==
  ASSUME TypeInv, FetchInv, [ServicesNext]_serviceVars
  PROVE  ReachStays
<1>. SUFFICES ASSUME NEW a \in Articles, OutOfReach(a) PROVE OutOfReach(a)'
  BY DEF ReachStays
<1>1. LastPage' = LastPage
  <2>1. service' = service
    BY Steps DEF AllButPages, LogOn, Pressed, Presses, LeaveProgram, BeginReload, NextPage, RemoveOldDeleted, Store,
                 Expire, MarkHere, EditFlags, OtherDevice, Age, Request, CallReturns, GetToken, Send, Answer,
                 SessionRefused, Lose, Login, LoggedIn, Waited
  <2>. QED
    BY <2>1 DEF LastPage
<1>2. onPage[a] \in Nat /\ onPage'[a] \in Nat /\ LastPage \in Nat /\ onPage'[a] >= onPage[a]
  BY PagesMove, ServicesAssumption DEF FetchInv, PagesOK, LastPage
<1>3. CASE \E t \in Threads : Answer(t) /\ call[t].op = "fetch"
  <2>1. Answer(Reloader) /\ call[Reloader].op = "fetch"
    BY <1>3 DEF TypeInv, CallsOK, Threads
  <2>2. Fetched' = Fetched \cup Page(reload.page) /\ reload.page \in 1 .. LastPage
    BY <2>1, PageAdded DEF TypeInv, FetchInv, Busy
  <2>. QED
    BY <1>1, <1>2, <2>2 DEF OutOfReach, Page
<1>4. CASE ~\E t \in Threads : Answer(t) /\ call[t].op = "fetch"
  <2>1. reload' = reload \/ reload'.items = reload.items \/ reload'.items = NoReload.items
    <3>1. CASE BeginReload \/ LeaveProgram \/ Store
      BY <3>1 DEF BeginReload, LeaveProgram, Store, NoReload
    <3>2. CASE NextPage \/ RemoveOldDeleted
      BY <3>2 DEF NextPage, RemoveOldDeleted, TypeInv, TypeOK, Reloads
    <3>3. \/ reload' = reload \/ BeginReload \/ LeaveProgram \/ Store \/ NextPage \/ RemoveOldDeleted
      BY <1>4, Steps DEF AllButPages, LogOn, Pressed, Presses, Expire, MarkHere, EditFlags, OtherDevice, Age, Request,
                 CallReturns, GetToken, Send, Answer, SessionRefused, Lose, Login, LoggedIn, Waited
    <3>. QED
      BY <3>1, <3>2, <3>3
  <2>2. Fetched' = Fetched \/ Fetched' = {}
    BY <2>1, NoReloadTyped DEF Fetched
  <2>. QED
    BY <1>1, <1>2, <2>2 DEF OutOfReach
<1>. QED
  BY <1>3, <1>4

\* A row that goes is one of RemoveOldDeleted, after a fetch that has brought
\* something and was cut short, or that newer articles have pushed this one out of.
LEMMA RowsGo ==
  ASSUME TypeInv, FetchInv, [ServicesNext]_serviceVars, NEW a \in Articles, local[a].row, ~local'[a].row
  PROVE  RemoveOldDeleted /\ reload.brought /\ a \notin Fetched /\ (reload.cut \/ onPage[a] > LastPage)
<1>1. CASE RemoveOldDeleted
  <2>1. a \notin Fetched /\ reload.brought
    BY <1>1, OldRemoved DEF TypeInv
  <2>2. reload.at = "fetched"
    BY <1>1 DEF RemoveOldDeleted
  <2>3. reload.cut \/ ~(onPage[a] <= LastPage)
    BY <2>1, <2>2 DEF FetchInv
  <2>4. onPage[a] \in Nat /\ LastPage \in Nat
    BY ServicesAssumption DEF FetchInv, PagesOK, LastPage
  <2>. QED
    BY <1>1, <2>1, <2>3, <2>4
<1>2. CASE Store
  BY <1>2, Stored DEF TypeInv
<1>3. CASE Pressed
  BY <1>3 DEF Pressed, Presses
<1>4. CASE \E b \in Articles : MarkHere(b) \/ EditFlags(b)
  BY <1>4, HereSet, FlagsSet DEF TypeInv
<1>5. CASE local' = local
  BY <1>5
<1>6. \/ RemoveOldDeleted \/ Store \/ Pressed \/ local' = local
      \/ \E b \in Articles : MarkHere(b) \/ EditFlags(b)
  BY Steps DEF AllButPages, LogOn, LeaveProgram, BeginReload, NextPage, Expire, OtherDevice, Age, Request, CallReturns,
               GetToken, Send, Answer, SessionRefused, Lose, Login, LoggedIn, Waited
<1>. QED
  BY <1>1, <1>2, <1>3, <1>4, <1>5, <1>6

\* For every feed, however many pages are fetched and however many articles are
\* beyond them: a deleted article is forgotten only by a fetch that broke off after
\* its first page, or after newer articles have pushed it out of what is fetched;
\* never by one that brought nothing (cache.cpp:797, newsblur_api::fetch_feed).
THEOREM DeletedAreKept == ServicesSpec => FailedFetchKeepsDeleted
<1>1. TypeInv /\ FetchInv /\ [ServicesNext]_serviceVars =>
        [\A a \in Articles : local[a].row /\ ~local'[a].row =>
           reload.brought /\ (reload.cut \/ onPage[a] > LastPage)]_serviceVars
  BY RowsGo
<1>. QED
  BY <1>1, FetchInit, FetchNext, TypeInit, TypeNext, PTL DEF ServicesSpec, FailedFetchKeepsDeleted

-----------------------------------------------------------------------------
(* A call that will fail has been hit.                                       *)
HasNoOtherTry(t) == ~(LogsInAgain /\ call[t].try_login)
HitInv ==
  /\ FailsOnlyWhenHit
  /\ \A t \in Threads : call[t].at = "send" /\ sid # "valid" /\ HasNoOtherTry(t) => t \in hit
  /\ \A t \in Threads : call[t].at = "sent" /\ call[t].sid # "valid" /\ HasNoOtherTry(t) => t \in hit
  /\ \A t \in Threads : call[t].at = "waiting" /\ auth_lock = {} /\ sid # "valid" => t \in hit

\* The threads whose calls are as they were.
HitAsBefore(t) ==
  /\ t \in hit => t \in hit'
  /\ call'[t] = call[t]

LEMMA HitKept == ASSUME HitInv, UNCHANGED <<service, sid, auth_lock, call, hit>> PROVE HitInv'
BY DEF HitInv, FailsOnlyWhenHit, HasNoOtherTry, LogsInAgain

LEMMA HitSet ==
  ASSUME TypeInv, HitInv, NEW t \in Threads, NEW c \in CallStates, call' = [call EXCEPT ![t] = c],
         UNCHANGED <<service, sid, auth_lock>>,
         \A u \in Threads : u # t /\ u \in hit => u \in hit',
         c.at \in {"idle", "token", "send"},
         c.at = "send" => c.try_login = TRUE /\ (LogsInAgain \/ sid = "valid" \/ t \in hit')
  PROVE  HitInv'
<1>1. call'[t] = c /\ \A u \in Threads : u # t => HitAsBefore(u)
  BY DEF TypeInv, TypeOK, HitAsBefore
<1>2. FailsOnlyWhenHit'
  BY <1>1 DEF HitInv, FailsOnlyWhenHit, HitAsBefore
<1>3. \A u \in Threads : HasNoOtherTry(u)' => (u = t /\ ~(LogsInAgain /\ c.try_login)) \/ (u # t /\ HasNoOtherTry(u))
  BY <1>1 DEF HasNoOtherTry, LogsInAgain, HitAsBefore
<1>4. \A u \in Threads : call'[u].at = "send" /\ sid' # "valid" /\ HasNoOtherTry(u)' => u \in hit'
  BY <1>1, <1>3 DEF HitInv, HitAsBefore
<1>5. \A u \in Threads : call'[u].at = "sent" /\ call'[u].sid # "valid" /\ HasNoOtherTry(u)' => u \in hit'
  BY <1>1, <1>3 DEF HitInv, HitAsBefore
<1>6. \A u \in Threads : call'[u].at = "waiting" /\ auth_lock' = {} /\ sid' # "valid" => u \in hit'
  BY <1>1 DEF HitInv, HitAsBefore
<1>. QED
  BY <1>2, <1>4, <1>5, <1>6 DEF HitInv

LEMMA HitInit == ServicesInit => HitInv
BY DEF ServicesInit, HitInv, FailsOnlyWhenHit, NoCall

\* A request of one thread that leaves the session alone.
LEMMA HitMoved ==
  ASSUME TypeInv, HitInv, NEW t \in Threads, Moved(t), UNCHANGED <<service, sid>>, hit \subseteq hit',
         auth_lock' # {} \/ auth_lock' = auth_lock,
         call'[t].at = "failed" => t \in hit',
         call'[t].at = "send" /\ sid # "valid" /\ HasNoOtherTry(t)' => t \in hit',
         call'[t].at = "sent" /\ call'[t].sid # "valid" /\ HasNoOtherTry(t)' => t \in hit',
         call'[t].at = "waiting" /\ auth_lock' = {} /\ sid # "valid" => t \in hit'
  PROVE  HitInv'
<1>1. \A u \in Threads : u # t => HitAsBefore(u)
  BY DEF Moved, HitAsBefore
<1>2. FailsOnlyWhenHit'
  BY <1>1 DEF HitInv, FailsOnlyWhenHit, HitAsBefore
<1>3. \A u \in Threads : u # t /\ HasNoOtherTry(u)' => HasNoOtherTry(u)
  BY <1>1 DEF HasNoOtherTry, LogsInAgain, HitAsBefore
<1>4. \A u \in Threads : call'[u].at = "send" /\ sid' # "valid" /\ HasNoOtherTry(u)' => u \in hit'
  BY <1>1, <1>3 DEF HitInv, HitAsBefore
<1>5. \A u \in Threads : call'[u].at = "sent" /\ call'[u].sid # "valid" /\ HasNoOtherTry(u)' => u \in hit'
  BY <1>1, <1>3 DEF HitInv, HitAsBefore
<1>6. \A u \in Threads : call'[u].at = "waiting" /\ auth_lock' = {} /\ sid' # "valid" => u \in hit'
  BY <1>1 DEF HitInv, HitAsBefore
<1>. QED
  BY <1>2, <1>4, <1>5, <1>6 DEF HitInv

LEMMA HitRequest == ASSUME TypeInv, HitInv, NEW t \in Threads, Request(t) PROVE HitInv'
<1>0. Moved(t) /\ service' = service
  BY RequestMoves DEF Request, GetToken, Send, Answer, SessionRefused, Lose, Login, LoggedIn, Waited
<1>1. CASE GetToken(t)
  <2>1. UNCHANGED <<sid, auth_lock>>
    BY <1>1 DEF GetToken
  <2>2. \/ call'[t].at = "send" /\ sid = "valid" /\ hit' = hit
        \/ call'[t].at = "failed" /\ hit' = hit \cup {t}
    BY <1>1, CallMoves DEF GetToken, TypeInv, TypeOK, CallPlaces
  <2>. QED
    BY <1>0, <2>1, <2>2, HitMoved
<1>2. CASE Send(t)
  <2>1. UNCHANGED <<sid, auth_lock, hit>> /\ call[t].at = "send"
    BY <1>2 DEF Send, At
  <2>2. call'[t].at = "sent" /\ call'[t].sid = sid /\ call'[t].try_login = call[t].try_login
    BY <1>2, CallSent DEF TypeInv, TypeOK
  <2>3. HasNoOtherTry(t)' => HasNoOtherTry(t)
    BY <1>0, <2>2 DEF HasNoOtherTry, LogsInAgain
  <2>4. sid # "valid" /\ HasNoOtherTry(t) => t \in hit
    BY <2>1 DEF HitInv
  <2>. QED
    BY <1>0, <2>1, <2>2, <2>3, <2>4, HitMoved
<1>3. CASE Answer(t)
  <2>1. UNCHANGED <<sid, auth_lock, hit>> /\ call'[t].at = "done"
    BY <1>3, CallMoves DEF Answer, TypeInv, TypeOK, CallPlaces
  <2>. QED
    BY <1>0, <2>1, HitMoved
<1>4. CASE SessionRefused(t)
  <2>1. UNCHANGED <<sid, auth_lock, hit>> /\ call[t].at = "sent" /\ call[t].sid # "valid"
    BY <1>4 DEF SessionRefused, At
  <2>2. CASE HasNoOtherTry(t)
    <3>1. t \in hit
      BY <2>1, <2>2 DEF HitInv
    <3>. QED
      BY <1>0, <2>1, <3>1, HitMoved
  <2>3. CASE ~HasNoOtherTry(t)
    <3>1. Proceeds(t, "login")
      BY <1>4, <2>3 DEF SessionRefused, HasNoOtherTry
    <3>2. call'[t].at = "login"
      BY <3>1, CallMoves DEF TypeInv, TypeOK, CallPlaces
    <3>. QED
      BY <1>0, <2>1, <3>2, HitMoved
  <2>. QED
    BY <2>2, <2>3
<1>5. CASE Lose(t)
  <2>1. UNCHANGED <<sid, auth_lock>> /\ hit' = hit \cup {t}
    BY <1>5 DEF Lose
  <2>. QED
    BY <1>0, <2>1, HitMoved
<1>6. CASE Login(t)
  <2>1. UNCHANGED <<sid, hit>>
    BY <1>6 DEF Login
  <2>2. \/ auth_lock' = {t} /\ call'[t].at = "logging in"
        \/ auth_lock' = auth_lock /\ auth_lock # {} /\ call'[t].at = "waiting"
    BY <1>6, CallMoves DEF Login, TypeInv, TypeOK, CallPlaces
  <2>. QED
    BY <1>0, <2>1, <2>2, HitMoved
<1>7. CASE Waited(t)
  <2>1. UNCHANGED <<sid, auth_lock, hit>> /\ call[t].at = "waiting" /\ auth_lock = {}
    BY <1>7 DEF Waited, At
  <2>2. call'[t].at \in {"send", "failed"} /\ (call'[t].at = "failed" => sid = "none")
    <3>1. CASE sid # "none"
      <4>1. Retries(t, TRUE)
        BY <1>7, <3>1 DEF Waited
      <4>. QED
        BY <4>1, CallRetries DEF TypeInv, TypeOK
    <3>2. CASE sid = "none"
      <4>1. Retries(t, FALSE)
        BY <1>7, <3>2 DEF Waited
      <4>. QED
        BY <3>2, <4>1, CallRetries DEF TypeInv, TypeOK
    <3>. QED
      BY <3>1, <3>2
  <2>3. sid # "valid" => t \in hit
    BY <2>1 DEF HitInv
  <2>. QED
    BY <1>0, <2>1, <2>2, <2>3, HitMoved
<1>8. CASE LoggedIn(t)
  <2>1. PICK ok \in BOOLEAN :
         /\ sid' = IF ok THEN "valid" ELSE "none"
         /\ Retries(t, ok)
         /\ hit' = IF ok THEN hit
                   ELSE hit \cup {t} \cup {u \in Threads : Busy(u) /\ (call[u].at = "waiting" \/ ~call[u].try_login)}
    BY <1>8 DEF LoggedIn
  <2>2. LogsInAgain
    BY <1>8 DEF LoggedIn, At, TypeInv, CallsOK
  <2>3. call'[t].at = IF ok THEN "send" ELSE "failed"
    BY <2>1, CallRetries DEF TypeInv, TypeOK
  <2>4. \A u \in Threads : u # t => call'[u] = call[u]
    BY <1>0 DEF Moved
  <2>5. CASE ok
    <3>1. sid' = "valid" /\ hit' = hit /\ call'[t].at = "send"
      BY <2>1, <2>3, <2>5
    <3>2. \A u \in Threads : u # t /\ HasNoOtherTry(u)' => HasNoOtherTry(u)
      BY <1>0, <2>4 DEF HasNoOtherTry, LogsInAgain
    <3>3. FailsOnlyWhenHit'
      BY <2>4, <3>1 DEF HitInv, FailsOnlyWhenHit
    <3>4. \A u \in Threads : call'[u].at = "sent" /\ call'[u].sid # "valid" /\ HasNoOtherTry(u)' => u \in hit'
      BY <2>4, <3>1, <3>2 DEF HitInv
    <3>. QED
      BY <3>1, <3>3, <3>4 DEF HitInv
  <2>6. CASE ~ok
    <3>1. /\ hit' = hit \cup {t} \cup {u \in Threads : Busy(u) /\ (call[u].at = "waiting" \/ ~call[u].try_login)}
          /\ call'[t].at = "failed"
      BY <2>1, <2>3, <2>6
    <3>2. hit \subseteq hit' /\ t \in hit'
          /\ \A u \in Threads : Busy(u) /\ (call[u].at = "waiting" \/ ~call[u].try_login) => u \in hit'
      BY <3>1
    <3>3. FailsOnlyWhenHit'
      BY <2>4, <3>2 DEF HitInv, FailsOnlyWhenHit
    <3>4. \A u \in Threads : u # t /\ HasNoOtherTry(u)' => ~call[u].try_login
      BY <1>0, <2>2, <2>4 DEF HasNoOtherTry, LogsInAgain
    <3>5. \A u \in Threads : call[u].at # "idle" => Busy(u)
      BY DEF TypeInv, CallsOK
    <3>6. \A u \in Threads : call'[u].at = "send" /\ sid' # "valid" /\ HasNoOtherTry(u)' => u \in hit'
      BY <2>4, <3>2, <3>4, <3>5
    <3>7. \A u \in Threads : call'[u].at = "sent" /\ call'[u].sid # "valid" /\ HasNoOtherTry(u)' => u \in hit'
      BY <2>4, <3>2, <3>4, <3>5
    <3>8. \A u \in Threads : call'[u].at = "waiting" /\ auth_lock' = {} /\ sid' # "valid" => u \in hit'
      BY <2>4, <3>2, <3>5
    <3>. QED
      BY <3>3, <3>6, <3>7, <3>8 DEF HitInv
  <2>. QED
    BY <2>5, <2>6
<1>. QED
  BY <1>1, <1>2, <1>3, <1>4, <1>5, <1>6, <1>7, <1>8 DEF Request

LEMMA HitNext == TypeInv /\ HitInv /\ [ServicesNext]_serviceVars => HitInv'
<1>. SUFFICES ASSUME TypeInv, HitInv, [ServicesNext]_serviceVars PROVE HitInv'
  OBVIOUS
<1>1. CASE \/ AllButPages \/ RemoveOldDeleted \/ Store
           \/ \E a \in Articles : MarkHere(a) \/ OtherDevice(a) \/ Age(a)
  <2>1. UNCHANGED <<service, sid, auth_lock, call, hit>>
    BY <1>1 DEF AllButPages, RemoveOldDeleted, Store, MarkHere, OtherDevice, Age
  <2>. QED
    BY <2>1, HitKept
<1>2. CASE LogOn
  <2>1. UNCHANGED <<service, auth_lock, call, hit>> /\ sid' = "valid"
    BY <1>2 DEF LogOn
  <2>. QED
    BY <2>1 DEF HitInv, FailsOnlyWhenHit, HasNoOtherTry, LogsInAgain
<1>3. CASE Pressed
  <2>1. PICK t \in Threads, as \in SUBSET Articles, read \in BOOLEAN : Presses(t, as, read)
    BY <1>3 DEF Pressed
  <2> DEFINE c == Begun("mark", as, read)
  <2>2. c \in CallStates /\ c.at \in {"token", "send"} /\ c.try_login = TRUE
    BY DEF Begun, NoCall, CallStates, CallPlaces, Sids
  <2>3. /\ call' = [call EXCEPT ![t] = c] /\ UNCHANGED <<service, sid, auth_lock>>
        /\ hit' = IF LogsInAgain \/ sid = "valid" THEN hit ELSE hit \cup {t}
    BY <2>1 DEF Presses
  <2> HIDE DEF c
  <2>. QED
    BY <2>2, <2>3, HitSet
<1>4. CASE \E a \in Articles : EditFlags(a)
  <2>1. PICK a \in Articles : EditFlags(a)
    BY <1>4
  <2> DEFINE c == Begun("star", {a}, ~local[a].flag)
  <2>2. c \in CallStates /\ c.at \in {"token", "send"} /\ c.try_login = TRUE
    BY DEF Begun, NoCall, CallStates, CallPlaces, Sids
  <2>3. /\ call' = [call EXCEPT ![Main] = c] /\ UNCHANGED <<service, sid, auth_lock>>
        /\ hit' = IF LogsInAgain \/ sid = "valid" THEN hit ELSE hit \cup {Main}
    BY <2>1 DEF EditFlags
  <2> HIDE DEF c
  <2>. QED
    BY <2>2, <2>3, HitSet, ThreadsDiffer
<1>5. CASE BeginReload \/ NextPage
  <2> DEFINE c == Begun("fetch", {}, FALSE)
  <2>1. c \in CallStates /\ c.at = "send" /\ c.try_login = TRUE
    BY DEF Begun, NoCall, CallStates, CallPlaces, Sids
  <2>2. UNCHANGED <<service, sid, auth_lock>> /\ hit' \in {hit, hit \cup {Reloader}, hit \ {Reloader}}
    BY <1>5 DEF BeginReload, NextPage
  <2>3. \/ /\ call' = [call EXCEPT ![Reloader] = c]
           /\ LogsInAgain \/ sid = "valid" \/ Reloader \in hit'
        \/ call' = [call EXCEPT ![Reloader] = NoCall]
    BY <1>5 DEF BeginReload, NextPage
  <2> HIDE DEF c
  <2>4. NoCall \in CallStates /\ NoCall.at = "idle"
    BY NoCallTyped DEF NoCall
  <2>. QED
    BY <2>1, <2>2, <2>3, <2>4, HitSet, ThreadsDiffer
<1>6. ASSUME NEW t \in Threads, CallReturns(t)
      PROVE  HitInv'
  <2>1. call' = [call EXCEPT ![t] = NoCall] /\ UNCHANGED <<service, sid, auth_lock>> /\ hit' = hit \ {t}
    BY <1>6 DEF CallReturns
  <2>2. NoCall \in CallStates /\ NoCall.at = "idle"
    BY NoCallTyped DEF NoCall
  <2>. QED
    BY <2>1, <2>2, HitSet
<1>7. CASE LeaveProgram
  <2>1. \A t \in Threads : call'[t].at = "idle"
    BY <1>7, LeftAs DEF NoCall
  <2>. QED
    BY <2>1 DEF HitInv, FailsOnlyWhenHit
<1>8. CASE Expire
  <2>1. UNCHANGED <<service, auth_lock>> /\ hit \subseteq hit'
        /\ \A t \in Threads : Busy(t) /\ (LogsInAgain => ~call[t].try_login \/ call[t].at = "waiting") => t \in hit'
    BY <1>8 DEF Expire
  <2>2. \A t \in Threads : call'[t].at = call[t].at /\ call'[t].try_login = call[t].try_login
    BY <1>8, CallExpires DEF TypeInv, TypeOK
  <2>3. \A t \in Threads : HasNoOtherTry(t)' => (LogsInAgain => ~call[t].try_login)
    BY <2>1, <2>2 DEF HasNoOtherTry, LogsInAgain
  <2>4. \A t \in Threads : call[t].at # "idle" => Busy(t)
    BY DEF TypeInv, CallsOK
  <2>5. \A t \in Threads : call'[t].at # "idle" /\ HasNoOtherTry(t)' => t \in hit'
    BY <2>1, <2>2, <2>3, <2>4
  <2>6. \A t \in Threads : call'[t].at = "waiting" => t \in hit'
    BY <2>1, <2>2, <2>4
  <2>7. FailsOnlyWhenHit'
    BY <2>1, <2>2 DEF HitInv, FailsOnlyWhenHit
  <2>. QED
    BY <2>5, <2>6, <2>7 DEF HitInv
<1>. QED
  BY <1>1, <1>2, <1>3, <1>4, <1>5, <1>6, <1>7, <1>8, Steps, HitRequest

\* However many threads log in, wait for each other's login and try again, a call
\* fails only if something outside of the program failed it
\* (ttrss_api::run_op, authenticate).
THEOREM OnlyTheHitFail == ServicesSpec => []FailsOnlyWhenHit
<1>1. HitInv => FailsOnlyWhenHit
  BY DEF HitInv
<1>. QED
  BY <1>1, HitInit, HitNext, TypeInit, TypeNext, PTL DEF ServicesSpec

-----------------------------------------------------------------------------
(* What holds of an article's read flag unless it is excused: one call at    *)
(* most is about it, and says what is here; without a call it is the same    *)
(* here and there; and what a reload has fetched is still true.              *)
Marking(t, a) == call[t].op = "mark" /\ a \in call[t].article
Excused(a) == <<a, ReadFlag>> \in excused

OneCall(a) == \A s, t \in Threads : Marking(s, a) /\ Marking(t, a) => s = t
AsCalled(a) ==
  \A t \in Threads : Marking(t, a) =>
    /\ local[a].unread <=> ~call[t].value
    /\ call[t].at = "done" => (UnreadThere(a) <=> ~call[t].value)
Agrees(a) == local[a].row /\ ~InFlight(a) => (local[a].unread <=> UnreadThere(a))
FetchedIsTrue(a) ==
  a \in Fetched => ~InFlight(a) /\ (UnreadByLabels(reload.items[a]) <=> UnreadThere(a))
ReadOK(a) == OneCall(a) /\ AsCalled(a) /\ Agrees(a) /\ FetchedIsTrue(a)
ReadInv == \A a \in Articles : ~Excused(a) => ReadOK(a)

LEMMA ReadInit == ServicesInit => ReadInv
BY DEF ServicesInit, ReadInv, Excused

\* Nothing has happened to the read flag of a.
CallsSame(a) ==
  \A t \in Threads :
    /\ Marking(t, a)' <=> Marking(t, a)
    /\ Marking(t, a) => call'[t].value = call[t].value /\ (call'[t].at = "done" => call[t].at = "done")
FlagSame(a) ==
  /\ local'[a].row => local[a].row
  /\ local'[a].unread = local[a].unread
  /\ "read" \in server'[a].labels <=> "read" \in server[a].labels
FetchedSame(a) == a \in Fetched' => a \in Fetched /\ reload'.items[a] = reload.items[a]

LEMMA ReadKept ==
  ASSUME NEW a \in Articles, ReadOK(a), CallsSame(a), FlagSame(a), FetchedSame(a)
  PROVE  ReadOK(a)'
<1>1. InFlight(a)' <=> InFlight(a)
  BY DEF CallsSame, InFlight, Marking
<1>2. UnreadThere(a)' <=> UnreadThere(a)
  BY DEF FlagSame, UnreadThere
<1>3. OneCall(a)'
  BY DEF ReadOK, OneCall, CallsSame
<1>4. AsCalled(a)'
  BY <1>2 DEF ReadOK, AsCalled, CallsSame, FlagSame
<1>5. Agrees(a)'
  BY <1>1, <1>2 DEF ReadOK, Agrees, FlagSame
<1>6. FetchedIsTrue(a)'
  BY <1>1, <1>2 DEF ReadOK, FetchedIsTrue, FetchedSame
<1>. QED
  BY <1>3, <1>4, <1>5, <1>6 DEF ReadOK

LEMMA ReadPressed == ASSUME TypeInv, ReadInv, Pressed PROVE ReadInv'
<1>1. PICK t \in Threads, as \in SUBSET Articles, read \in BOOLEAN : Presses(t, as, read)
  BY DEF Pressed
<1> DEFINE c == Begun("mark", as, read)
<1>2. c.op = "mark" /\ c.article = as /\ (c.value <=> read) /\ c.at \in {"token", "send"}
  BY DEF Begun, NoCall
<1>3. call'[t] = c /\ \A u \in Threads : u # t => call'[u] = call[u]
  BY <1>1 DEF Presses, TypeInv, TypeOK
<1> HIDE DEF c
<1>4. UNCHANGED <<server, reload>> /\ ~Busy(t)
      /\ \A a \in Articles : /\ local'[a].row = local[a].row
                             /\ local'[a].unread = IF a \in as THEN ~read ELSE local[a].unread
  BY <1>1 DEF Presses
<1>5. \A a \in Articles : ~Marking(t, a) /\ \A u \in Threads : u # t => (Marking(u, a)' <=> Marking(u, a))
  BY <1>3, <1>4 DEF Marking, Busy
<1>6. \A a \in Articles : ~Excused(a)' => ~Excused(a) /\ (a \in as => Settled(a))
  BY <1>1 DEF Presses, Excused
<1>. SUFFICES ASSUME NEW a \in Articles, ~Excused(a)' PROVE ReadOK(a)'
  BY DEF ReadInv
<1>7. ReadOK(a)
  BY <1>6 DEF ReadInv
<1>8. CASE a \in as
  <2>1. ~InFlight(a) /\ a \notin Fetched
    BY <1>6, <1>8 DEF Settled
  <2>2. \A u \in Threads : ~Marking(u, a)
    BY <2>1 DEF InFlight, Marking
  <2>3. \A u \in Threads : Marking(u, a)' <=> u = t
    BY <1>2, <1>3, <1>5, <1>8, <2>2 DEF Marking
  <2>4. OneCall(a)' /\ InFlight(a)' /\ a \notin Fetched'
    BY <1>4, <2>1, <2>3 DEF OneCall, InFlight, Marking, Fetched
  <2>5. local'[a].unread <=> ~call'[t].value
    BY <1>2, <1>3, <1>4, <1>8
  <2>6. AsCalled(a)'
    BY <1>2, <1>3, <2>3, <2>5 DEF AsCalled
  <2>. QED
    BY <2>4, <2>6 DEF ReadOK, Agrees, FetchedIsTrue
<1>9. CASE a \notin as
  <2>1. CallsSame(a)
    BY <1>2, <1>3, <1>5, <1>9 DEF CallsSame, Marking
  <2>2. FlagSame(a) /\ FetchedSame(a)
    BY <1>4, <1>9 DEF FlagSame, FetchedSame, Fetched
  <2>. QED
    BY <1>7, <2>1, <2>2, ReadKept
<1>. QED
  BY <1>8, <1>9

\* A request that does not do its work.
LEMMA ReadMoved ==
  ASSUME TypeInv, ReadInv, NEW t \in Threads, Moved(t), ~Answer(t), UNCHANGED <<server, local, reload>>,
         excused \subseteq excused'
  PROVE  ReadInv'
<1>. SUFFICES ASSUME NEW a \in Articles, ~Excused(a)' PROVE ReadOK(a)'
  BY DEF ReadInv
<1>1. ReadOK(a)
  BY DEF ReadInv, Excused
<1>2. CallsSame(a)
  BY DEF Moved, CallsSame, Marking
<1>3. FlagSame(a) /\ FetchedSame(a)
  BY DEF FlagSame, FetchedSame, Fetched
<1>. QED
  BY <1>1, <1>2, <1>3, ReadKept

\* A mark that is served, and whose answer may be lost.
LEMMA ReadServed ==
  ASSUME TypeInv, ReadInv, NEW t \in Threads, Moved(t), Serve(t), UNCHANGED <<local, reload, excused>>
  PROVE  ReadInv'
<1>. SUFFICES ASSUME NEW a \in Articles, ~Excused(a)' PROVE ReadOK(a)'
  BY DEF ReadInv
<1>1. ReadOK(a)
  BY DEF ReadInv, Excused
<1>2. FetchedSame(a)
  BY DEF FetchedSame, Fetched
<1>3. \A u \in Threads : (Marking(u, a)' <=> Marking(u, a)) /\ (u # t => call'[u] = call[u])
  BY DEF Moved, Marking
<1>4. CASE Marking(t, a)
  <2>1. /\ call[t].value \in BOOLEAN /\ server[a].labels \in SUBSET Labels
        /\ server'[a].labels = Marked(server[a].labels, call[t].value)
    BY <1>4, Served DEF TypeInv, TypeOK, CallStates, ServerStates, Marking
  <2>2. "read" \in server'[a].labels <=> call[t].value
    BY <2>1, MarkedTyped
  <2>3. UnreadThere(a)' <=> ~call[t].value
    BY <2>2 DEF UnreadThere
  <2>4. \A u \in Threads : Marking(u, a) => u = t
    BY <1>1, <1>4 DEF ReadOK, OneCall
  <2>5. OneCall(a)'
    BY <1>3, <2>4 DEF OneCall
  <2>6. AsCalled(a)'
    <3>1. call'[t].value = call[t].value /\ (local[a].unread <=> ~call[t].value)
      BY <1>1, <1>4 DEF Moved, ReadOK, AsCalled
    <3>. QED
      BY <1>3, <2>3, <2>4, <3>1 DEF AsCalled
  <2>7. InFlight(a) /\ InFlight(a)'
    BY <1>3, <1>4 DEF InFlight, Marking
  <2>8. a \notin Fetched'
    BY <1>1, <2>7 DEF ReadOK, FetchedIsTrue, Fetched
  <2>. QED
    BY <2>5, <2>6, <2>7, <2>8 DEF ReadOK, Agrees, FetchedIsTrue
<1>5. CASE ~Marking(t, a)
  <2>1. server'[a].labels = server[a].labels
    BY <1>5, Served DEF TypeInv, Marking
  <2>2. FlagSame(a)
    BY <2>1 DEF FlagSame
  <2>3. CallsSame(a)
    BY <1>3, <1>5 DEF CallsSame
  <2>. QED
    BY <1>1, <1>2, <2>2, <2>3, ReadKept
<1>. QED
  BY <1>4, <1>5

LEMMA ReadPage ==
  ASSUME TypeInv, ReadInv, Answer(Reloader), Moved(Reloader)
  PROVE  ReadInv'
<1>1. call[Reloader].op = "fetch"
  BY DEF Moved, Busy, TypeInv, CallsOK
<1>2. /\ UNCHANGED local /\ server' = server
      /\ excused' = excused \cup {a \in Page(reload.page) : InFlight(a)} \X {ReadFlag}
  BY <1>1 DEF Answer, Serve
<1>3. /\ Fetched' = Fetched \cup Page(reload.page)
      /\ \A a \in Fetched' : reload'.items[a] = IF a \in Fetched THEN reload.items[a] ELSE server[a].labels
  BY <1>1, PageAdded DEF TypeInv
<1>4. \A a \in Articles : ~Excused(a)' => ~Excused(a) /\ (a \in Page(reload.page) => ~InFlight(a))
  BY <1>2 DEF Excused
<1>. SUFFICES ASSUME NEW a \in Articles, ~Excused(a)' PROVE ReadOK(a)'
  BY DEF ReadInv
<1>5. ReadOK(a)
  BY <1>4 DEF ReadInv
<1>6. CallsSame(a) /\ FlagSame(a)
  BY <1>1, <1>2 DEF Moved, CallsSame, Marking, FlagSame
<1>7. CASE a \in Page(reload.page) \ Fetched
  <2>1. ~InFlight(a)
    BY <1>4, <1>7
  <2>2. InFlight(a)' <=> InFlight(a)
    BY <1>6 DEF CallsSame, InFlight, Marking
  <2>3. reload'.items[a] = server[a].labels
    BY <1>3, <1>7
  <2>4. FetchedIsTrue(a)'
    BY <1>2, <2>1, <2>2, <2>3 DEF FetchedIsTrue, UnreadByLabels, UnreadThere
  <2>5. OneCall(a)' /\ AsCalled(a)' /\ Agrees(a)'
    <3>1. UnreadThere(a)' <=> UnreadThere(a)
      BY <1>2 DEF UnreadThere
    <3>. QED
      BY <1>2, <1>5, <1>6, <2>2, <3>1 DEF ReadOK, OneCall, AsCalled, Agrees, CallsSame
  <2>. QED
    BY <2>4, <2>5 DEF ReadOK
<1>8. CASE a \notin Page(reload.page) \ Fetched
  <2>1. FetchedSame(a)
    BY <1>3, <1>8 DEF FetchedSame
  <2>. QED
    BY <1>5, <1>6, <2>1, ReadKept
<1>. QED
  BY <1>7, <1>8

LEMMA ReadRequest == ASSUME TypeInv, ReadInv, NEW t \in Threads, Request(t) PROVE ReadInv'
<1>1. Moved(t)
  BY RequestMoves
<1>2. CASE Answer(t)
  <2>1. CASE t = Reloader
    BY <1>1, <1>2, <2>1, ReadPage
  <2>2. CASE t # Reloader
    <3>1. call[t].op # "fetch"
      BY <2>2 DEF TypeInv, CallsOK, Threads
    <3>. QED
      BY <1>1, <1>2, <3>1, ReadServed DEF Answer
  <2>. QED
    BY <2>1, <2>2
<1>3. CASE Lose(t)
  <2>1. UNCHANGED <<local, reload, excused>> /\ (server' = server \/ Serve(t)) /\ ~Answer(t)
    <3>1. call'[t].at = "failed" /\ (Answer(t) => call'[t].at = "done")
      BY <1>3, CallMoves DEF Lose, Answer, TypeInv, TypeOK, CallPlaces
    <3>. QED
      BY <1>3, <3>1 DEF Lose
  <2>. QED
    BY <1>1, <2>1, ReadServed, ReadMoved
<1>4. CASE ~Answer(t) /\ ~Lose(t)
  <2>1. UNCHANGED <<server, local, reload, excused>>
    BY <1>4 DEF Request, GetToken, Send, SessionRefused, Login, LoggedIn, Waited
  <2>. QED
    BY <1>1, <1>4, <2>1, ReadMoved
<1>. QED
  BY <1>2, <1>3, <1>4

\* A mark that has succeeded leaves what it said here and there.
LEMMA ReadReturns == ASSUME TypeInv, ReadInv, NEW t \in Threads, CallReturns(t) PROVE ReadInv'
<1>1. /\ UNCHANGED <<server, reload, local>> /\ call'[t] = NoCall
      /\ \A u \in Threads : u # t => call'[u] = call[u]
      /\ call[t].at \in {"done", "failed"} /\ t # Reloader
  BY DEF CallReturns, TypeInv, TypeOK
<1>2. \A a \in Articles : ~Marking(t, a)'
  BY <1>1 DEF Marking, NoCall
<1>3. \A a \in Articles : ~Excused(a)' => ~Excused(a) /\ (Marking(t, a) => call[t].at = "done")
  <2>1. ReadFlag # Star
    BY DEF ReadFlag, Star
  <2>2. CASE call[t].at = "failed"
    <3>1. excused' = excused \cup call[t].article \X {IF call[t].op = "star" THEN Star ELSE ReadFlag}
      BY <2>2 DEF CallReturns
    <3>. QED
      BY <3>1 DEF Excused, Marking
  <2>3. CASE call[t].at = "done"
    <3>1. excused' = excused \/ excused' = excused \ (call[t].article \X {Star})
      BY <2>3 DEF CallReturns
    <3>. QED
      BY <2>1, <2>3, <3>1 DEF Excused
  <2>. QED
    BY <1>1, <2>2, <2>3
<1>. SUFFICES ASSUME NEW a \in Articles, ~Excused(a)' PROVE ReadOK(a)'
  BY DEF ReadInv
<1>4. ReadOK(a)
  BY <1>3 DEF ReadInv
<1>5. FlagSame(a) /\ FetchedSame(a)
  BY <1>1 DEF FlagSame, FetchedSame, Fetched
<1>6. CASE Marking(t, a)
  <2>1. \A u \in Threads : ~Marking(u, a)'
    BY <1>1, <1>2, <1>4, <1>6 DEF ReadOK, OneCall, Marking
  <2>2. local[a].unread <=> UnreadThere(a)
    BY <1>3, <1>4, <1>6 DEF ReadOK, AsCalled
  <2>3. InFlight(a)
    BY <1>6 DEF InFlight, Marking
  <2>4. a \notin Fetched'
    BY <1>1, <1>4, <2>3 DEF ReadOK, FetchedIsTrue, Fetched
  <2>. QED
    BY <1>1, <2>1, <2>2, <2>4 DEF ReadOK, OneCall, AsCalled, Agrees, FetchedIsTrue, UnreadThere
<1>7. CASE ~Marking(t, a)
  <2>1. CallsSame(a)
    BY <1>1, <1>2, <1>7 DEF CallsSame, Marking
  <2>. QED
    BY <1>4, <1>5, <2>1, ReadKept
<1>. QED
  BY <1>6, <1>7

\* The end of the program: what was under way is excused.
LEMMA ReadLeft == ASSUME TypeInv, ReadInv, LeaveProgram PROVE ReadInv'
<1>1. /\ UNCHANGED local /\ reload' = NoReload
      /\ excused' = excused \cup {a \in Articles : InFlight(a)} \X {ReadFlag}
  BY DEF LeaveProgram
<1>. SUFFICES ASSUME NEW a \in Articles, ~Excused(a)' PROVE ReadOK(a)'
  BY DEF ReadInv
<1>2. ~Excused(a) /\ ~InFlight(a)
  BY <1>1 DEF Excused
<1>3. ReadOK(a) /\ server'[a] = server[a]
  BY <1>2, LeftAs DEF ReadInv
<1>4. \A t \in Threads : ~Marking(t, a)'
  BY LeftAs DEF Marking, NoCall
<1>5. a \notin Fetched'
  BY <1>1, NoReloadTyped DEF Fetched
<1>6. Agrees(a)'
  BY <1>1, <1>2, <1>3 DEF ReadOK, Agrees, UnreadThere
<1>. QED
  BY <1>4, <1>5, <1>6 DEF ReadOK, OneCall, AsCalled, FetchedIsTrue

\* A reload stores the flags that it has fetched: they are true unless excused,
\* and whoever is excused by old ones no longer is when they are those of now.
LEMMA ReadStored == ASSUME TypeInv, ReadInv, Store PROVE ReadInv'
<1>1. /\ UNCHANGED <<server, call>> /\ reload' = NoReload
      /\ excused' = excused \ ({a \in Fetched : /\ reload.items[a] # {} \/ ~local[a].row
                                                /\ ~InFlight(a) /\ reload.items[a] = server[a].labels}
                               \X {ReadFlag})
  BY DEF Store
<1>2. Fetched' = {}
  BY <1>1, NoReloadTyped DEF Fetched
<1>. SUFFICES ASSUME NEW a \in Articles, ~Excused(a)' PROVE ReadOK(a)'
  BY DEF ReadInv
<1>3. /\ a \notin Fetched => local'[a] = local[a]
      /\ a \in Fetched =>
           local'[a].unread = IF reload.items[a] # {} THEN UnreadByLabels(reload.items[a])
                              ELSE ~local[a].row \/ local[a].unread
  BY Stored DEF TypeInv
<1>4. UnreadThere(a)' <=> UnreadThere(a)
  BY <1>1 DEF UnreadThere
<1>5. InFlight(a)' <=> InFlight(a)
  BY <1>1 DEF InFlight
<1>6. CASE a \notin Fetched
  <2>1. ReadOK(a)
    BY <1>1, <1>6 DEF ReadInv, Excused
  <2>2. CallsSame(a) /\ FlagSame(a) /\ FetchedSame(a)
    BY <1>1, <1>2, <1>3, <1>6 DEF CallsSame, FlagSame, FetchedSame, Marking
  <2>. QED
    BY <2>1, <2>2, ReadKept
<1>7. CASE a \in Fetched
  <2>1. ~InFlight(a) /\ (UnreadByLabels(reload.items[a]) <=> UnreadThere(a))
        /\ (reload.items[a] = {} /\ local[a].row => (local[a].unread <=> UnreadThere(a)))
    <3>1. CASE ~Excused(a)
      BY <1>7, <3>1 DEF ReadInv, ReadOK, FetchedIsTrue, Agrees
    <3>2. CASE Excused(a)
      <4>1. /\ reload.items[a] # {} \/ ~local[a].row
            /\ ~InFlight(a) /\ reload.items[a] = server[a].labels
        BY <1>1, <3>2 DEF Excused
      <4>. QED
        BY <4>1 DEF UnreadByLabels, UnreadThere
    <3>. QED
      BY <3>1, <3>2
  <2>2. local'[a].unread <=> UnreadThere(a)
    <3>1. CASE reload.items[a] # {}
      BY <1>3, <1>7, <2>1, <3>1
    <3>2. CASE reload.items[a] = {}
      <4>1. UnreadThere(a)
        BY <2>1, <3>2 DEF UnreadByLabels
      <4>. QED
        BY <1>3, <1>7, <2>1, <3>2, <4>1
    <3>. QED
      BY <3>1, <3>2
  <2>3. \A t \in Threads : ~Marking(t, a)'
    BY <1>1, <2>1 DEF Marking, InFlight
  <2>. QED
    BY <1>2, <1>4, <2>2, <2>3 DEF ReadOK, OneCall, AsCalled, Agrees, FetchedIsTrue
<1>. QED
  BY <1>6, <1>7

LEMMA ReadNext == TypeInv /\ FetchInv /\ ReadInv /\ [ServicesNext]_serviceVars => ReadInv'
<1>. SUFFICES ASSUME TypeInv, FetchInv, ReadInv, [ServicesNext]_serviceVars PROVE ReadInv'
  OBVIOUS
<1>0. ASSUME \A a \in Articles : ~Excused(a)' => ~Excused(a) /\ CallsSame(a) /\ FlagSame(a) /\ FetchedSame(a)
      PROVE  ReadInv'
  BY <1>0, ReadKept DEF ReadInv
<1>1. CASE AllButPages \/ LogOn
  <2>1. UNCHANGED <<server, call, reload, local, excused>>
    BY <1>1 DEF AllButPages, LogOn
  <2>. QED
    BY <1>0, <2>1 DEF CallsSame, FlagSame, FetchedSame, Marking, Fetched, Excused
<1>2. CASE \E b \in Articles : MarkHere(b)
  <2>1. PICK b \in Articles : MarkHere(b)
    BY <1>2
  <2>2. /\ UNCHANGED <<server, call, reload>> /\ excused' = excused \cup {<<b, ReadFlag>>}
        /\ \A a \in Articles \ {b} : local'[a] = local[a]
    BY <2>1, HereSet DEF MarkHere, TypeInv
  <2>. QED
    BY <1>0, <2>2 DEF CallsSame, FlagSame, FetchedSame, Marking, Fetched, Excused
<1>3. CASE \E b \in Articles : EditFlags(b)
  <2>1. PICK b \in Articles : EditFlags(b)
    BY <1>3
  <2> DEFINE c == Begun("star", {b}, ~local[b].flag)
  <2>2. c.op = "star"
    BY DEF Begun, NoCall
  <2>3. /\ call' = [call EXCEPT ![Main] = c] /\ ~Busy(Main) /\ UNCHANGED <<server, reload, excused>>
        /\ \A a \in Articles : local'[a].row = local[a].row /\ local'[a].unread = local[a].unread
    BY <2>1, FlagsSet DEF EditFlags, Free, TypeInv
  <2> HIDE DEF c
  <2>4. \A a \in Articles : CallsSame(a)
    BY <2>2, <2>3, ThreadsDiffer DEF CallsSame, Marking, Busy, TypeInv, TypeOK
  <2>. QED
    BY <1>0, <2>3, <2>4 DEF FlagSame, FetchedSame, Fetched, Excused
<1>4. CASE \E b \in Articles : OtherDevice(b)
  <2>1. PICK b \in Articles : OtherDevice(b)
    BY <1>4
  <2>2. PICK labels : server' = [server EXCEPT ![b].labels = labels]
    BY <2>1 DEF OtherDevice
  <2>3. /\ UNCHANGED <<local, call, reload>> /\ excused' = excused \cup {<<b, ReadFlag>>}
        /\ \A a \in Articles \ {b} : server'[a] = server[a]
    BY <2>1, <2>2 DEF OtherDevice, TypeInv, TypeOK
  <2>. QED
    BY <1>0, <2>3 DEF CallsSame, FlagSame, FetchedSame, Marking, Fetched, Excused
<1>5. CASE \E b \in Articles : Age(b)
  <2>1. PICK b \in Articles : Age(b)
    BY <1>5
  <2>2. UNCHANGED <<local, call, reload, excused>>
        /\ \A a \in Articles : "read" \in server'[a].labels <=> "read" \in server[a].labels
    BY <2>1 DEF Age, TypeInv, TypeOK, ServerStates
  <2>. QED
    BY <1>0, <2>2 DEF CallsSame, FlagSame, FetchedSame, Marking, Fetched, Excused
<1>6. CASE BeginReload
  <2> DEFINE c == Begun("fetch", {}, FALSE)
  <2>1. c.op = "fetch"
    BY DEF Begun, NoCall
  <2>2. call' = [call EXCEPT ![Reloader] = c] /\ UNCHANGED <<server, local, excused>>
    BY <1>6 DEF BeginReload
  <2> HIDE DEF c
  <2>3. reload' = [NoReload EXCEPT !.at = "fetching", !.page = 1]
    BY <1>6 DEF BeginReload
  <2>4. Fetched' = {}
    BY <2>3, NoReloadTyped DEF Fetched, Reloads
  <2>5. \A a \in Articles : CallsSame(a)
    BY <2>1, <2>2, ThreadsDiffer DEF CallsSame, Marking, TypeInv, TypeOK, CallsOK
  <2>. QED
    BY <1>0, <2>2, <2>4, <2>5 DEF FlagSame, FetchedSame, Excused
<1>7. CASE NextPage
  <2> DEFINE c == Begun("fetch", {}, FALSE)
  <2>1. c.op = "fetch" /\ NoCall.op = "none"
    BY DEF Begun, NoCall
  <2>2. /\ call' = [call EXCEPT ![Reloader] = c] \/ call' = [call EXCEPT ![Reloader] = NoCall]
        /\ UNCHANGED <<server, local, excused>>
    BY <1>7 DEF NextPage
  <2> HIDE DEF c
  <2>3. reload'.items = reload.items
    BY <1>7 DEF NextPage, TypeInv, TypeOK, Reloads
  <2>4. \A a \in Articles : CallsSame(a)
    BY <2>1, <2>2, ThreadsDiffer DEF CallsSame, Marking, TypeInv, TypeOK, CallsOK
  <2>. QED
    BY <1>0, <2>2, <2>3, <2>4 DEF FlagSame, FetchedSame, Fetched, Excused
<1>8. CASE RemoveOldDeleted
  <2>1. UNCHANGED <<server, call, excused>> /\ Fetched' = Fetched /\ reload'.items = reload.items
        /\ \A a \in Articles : (local'[a].row => local[a].row) /\ local'[a].unread = local[a].unread
    BY <1>8, OldRemoved DEF RemoveOldDeleted, TypeInv
  <2>. QED
    BY <1>0, <2>1 DEF CallsSame, FlagSame, FetchedSame, Marking, Excused
<1>9. CASE Expire
  <2>1. /\ UNCHANGED <<server, local, reload, excused>>
        /\ \A t \in Threads : /\ call'[t].at = call[t].at /\ call'[t].op = call[t].op
                              /\ call'[t].article = call[t].article /\ call'[t].value = call[t].value
    BY <1>9, CallExpires DEF Expire, TypeInv, TypeOK
  <2>. QED
    BY <1>0, <2>1 DEF CallsSame, FlagSame, FetchedSame, Marking, Fetched, Excused
<1>. QED
  BY <1>1, <1>2, <1>3, <1>4, <1>5, <1>6, <1>7, <1>8, <1>9, Steps, ReadPressed, ReadRequest, ReadReturns,
     ReadLeft, ReadStored

-----------------------------------------------------------------------------
(* The star, which only the main thread sets: it is called for what is here, *)
(* is the same here and there when no call is about it, and an article that  *)
(* is not here has one at the service only if it will not be fetched again.  *)
(* NewsBlur has no stars.                                                    *)
Starring(a) == call[Main].op = "star" /\ a \in call[Main].article
StarArrives(a) ==
  Starring(a) => /\ local[a].row => (local[a].flag <=> call[Main].value)
                 /\ call[Main].at = "done" => (server[a].star <=> call[Main].value)
StarAgrees(a) ==
  local[a].row /\ ~Starring(a) /\ <<a, Star>> \notin excused => (local[a].flag <=> server[a].star)
StarHere(a) == ~local[a].row => OutOfReach(a) \/ (~server[a].star /\ ~Starring(a))
StarOK(a) == StarArrives(a) /\ StarAgrees(a) /\ StarHere(a)
NoStars == call[Main].op # "star" /\ \A a \in Articles : ~local[a].flag /\ ~server[a].star
StarInv == (service = "newsblur" => NoStars) /\ \A a \in Articles : StarOK(a)

LEMMA StarInit == ServicesInit => StarInv
<1>. SUFFICES ASSUME ServicesInit PROVE StarInv
  OBVIOUS
<1>1. call[Main].op # "star" /\ \A a \in Articles : ~local[a].row /\ ~local[a].flag /\ ~server[a].star
  BY ThreadsDiffer DEF ServicesInit, NoCall
<1>. QED
  BY <1>1 DEF StarInv, StarOK, StarHere, StarArrives, StarAgrees, NoStars, Starring

\* Nothing has happened to the stars.
StarCallSame ==
  /\ call'[Main].op = "star" <=> call[Main].op = "star"
  /\ call[Main].op = "star" => /\ call'[Main].article = call[Main].article /\ call'[Main].value = call[Main].value
                               /\ call'[Main].at = "done" => call[Main].at = "done"
StarsSame ==
  \A a \in Articles :
    /\ local'[a].flag = local[a].flag /\ server'[a].star = server[a].star
    /\ \/ service = "newsblur" \/ (local'[a].row <=> local[a].row)
       \/ local[a].row /\ ~local'[a].row /\ OutOfReach(a)'
    /\ <<a, Star>> \in excused => <<a, Star>> \in excused'

LEMMA StarKept ==
  ASSUME StarInv, service' = service, StarCallSame, StarsSame, ReachStays
  PROVE  StarInv'
<1>1. CASE service = "newsblur"
  <2>1. NoStars'
    BY <1>1 DEF StarInv, NoStars, StarCallSame, StarsSame
  <2>. QED
    BY <2>1 DEF StarInv, NoStars, StarOK, StarHere, StarArrives, StarAgrees, Starring
<1>2. CASE service # "newsblur"
  <2>. SUFFICES ASSUME NEW a \in Articles PROVE StarOK(a)'
    BY <1>2 DEF StarInv
  <2>1. StarOK(a)
    BY DEF StarInv
  <2>2. Starring(a)' <=> Starring(a)
    BY DEF Starring, StarCallSame
  <2>3. StarArrives(a)'
    BY <1>2, <2>1, <2>2 DEF StarOK, StarArrives, Starring, StarCallSame, StarsSame
  <2>4. StarAgrees(a)'
    BY <1>2, <2>1, <2>2 DEF StarOK, StarAgrees, StarsSame
  <2>5. StarHere(a)'
    BY <1>2, <2>1, <2>2 DEF StarOK, StarHere, StarsSame, ReachStays
  <2>. QED
    BY <2>3, <2>4, <2>5 DEF StarOK
<1>. QED
  BY <1>1, <1>2

LEMMA StarEdited == ASSUME TypeInv, StarInv, ReachStays, NEW b \in Articles, EditFlags(b) PROVE StarInv'
<1> DEFINE c == Begun("star", {b}, ~local[b].flag)
<1>1. /\ c.op = "star" /\ c.article = {b} /\ (c.value <=> ~local[b].flag) /\ c.at \in {"token", "send"}
  BY DEF Begun, NoCall
<1>2. /\ call' = [call EXCEPT ![Main] = c] /\ (local'[b].flag <=> ~local[b].flag) /\ local'[b].row = local[b].row
      /\ \A a \in Articles : a # b => local'[a] = local[a]
  BY FlagsSet DEF TypeInv
<1> HIDE DEF c
<1>3. UNCHANGED <<service, server, excused>> /\ service # "newsblur" /\ local[b].row /\ ~Busy(Main)
  BY DEF EditFlags, Free
<1>4. call'[Main] = c
  BY <1>2, ThreadsDiffer DEF TypeInv, TypeOK
<1>5. \A a \in Articles : ~Starring(a) /\ (Starring(a)' <=> a = b)
  BY <1>1, <1>3, <1>4 DEF Starring, Busy
<1>. SUFFICES ASSUME NEW a \in Articles PROVE StarOK(a)'
  BY <1>3 DEF StarInv
<1>6. StarOK(a)
  BY DEF StarInv
<1>7. CASE a = b
  BY <1>1, <1>2, <1>3, <1>4, <1>5, <1>7 DEF StarOK, StarHere, StarArrives, StarAgrees, ReachStays
<1>8. CASE a # b
  BY <1>2, <1>3, <1>5, <1>6, <1>8 DEF StarOK, StarHere, StarArrives, StarAgrees, ReachStays
<1>. QED
  BY <1>7, <1>8

LEMMA StarRequest == ASSUME TypeInv, StarInv, ReachStays, NEW t \in Threads, Request(t) PROVE StarInv'
<1>1. Moved(t)
  BY RequestMoves
<1>2. UNCHANGED <<service, local>>
  BY DEF Request, GetToken, Send, Answer, SessionRefused, Lose, Login, LoggedIn, Waited
<1>3. excused \subseteq excused'
  BY DEF Request, GetToken, Send, Answer, SessionRefused, Lose, Login, LoggedIn, Waited
<1>4. Serve(t) \/ (server' = server /\ ~Answer(t))
  BY DEF Request, GetToken, Send, Answer, SessionRefused, Lose, Login, LoggedIn, Waited
<1>5. CASE t = Main /\ call[Main].op = "star" /\ Serve(t)
  <2>1. service # "newsblur"
    BY <1>5 DEF StarInv, NoStars
  <2>2. \A a \in Articles : server'[a].star = IF Starring(a) THEN call[Main].value ELSE server[a].star
    BY <1>5, Served DEF TypeInv, Starring
  <2>3. call'[Main].value = call[Main].value /\ \A a \in Articles : Starring(a)' <=> Starring(a)
    BY <1>1, <1>5 DEF Moved, Starring
  <2>. SUFFICES ASSUME NEW a \in Articles PROVE StarOK(a)'
    BY <1>2, <2>1 DEF StarInv
  <2>4. StarOK(a)
    BY DEF StarInv
  <2>5. CASE Starring(a)
    BY <1>2, <2>2, <2>3, <2>4, <2>5 DEF StarOK, StarHere, StarArrives, StarAgrees, ReachStays
  <2>6. CASE ~Starring(a)
    BY <1>2, <1>3, <2>2, <2>3, <2>4, <2>6 DEF StarOK, StarHere, StarArrives, StarAgrees, ReachStays
  <2>. QED
    BY <2>5, <2>6
<1>6. CASE ~(t = Main /\ call[Main].op = "star" /\ Serve(t))
  <2>1. \A a \in Articles : server'[a].star = server[a].star
    <3>1. CASE Serve(t)
      <4>1. call[t].op # "star"
        BY <1>6, <3>1 DEF TypeInv, CallsOK, Threads
      <4>. QED
        BY <3>1, <4>1, Served DEF TypeInv
    <3>. QED
      BY <1>4, <3>1
  <2>2. StarCallSame
    BY <1>1, <1>4, <1>6, ThreadsDiffer DEF Moved, StarCallSame
  <2>. QED
    BY <1>2, <1>3, <2>1, <2>2, StarKept DEF StarsSame
<1>. QED
  BY <1>5, <1>6

\* The star that has been called for is there, or what has become of it is excused.
LEMMA StarReturns == ASSUME TypeInv, StarInv, ReachStays, NEW t \in Threads, CallReturns(t) PROVE StarInv'
<1>1. /\ UNCHANGED <<service, server, local>> /\ call'[t] = NoCall
      /\ \A u \in Threads : u # t => call'[u] = call[u]
      /\ call[t].at \in {"done", "failed"} /\ t # Reloader
  BY DEF CallReturns, TypeInv, TypeOK
<1>2. NoCall.op = "none"
  BY DEF NoCall
<1>3. CASE t = Main /\ call[Main].op = "star"
  <2>1. \A a \in Articles : ~Starring(a)'
    BY <1>1, <1>2, <1>3 DEF Starring
  <2>2. service # "newsblur"
    BY <1>3 DEF StarInv, NoStars
  <2>3. excused' = IF call[Main].at = "failed" THEN excused \cup (call[Main].article \X {Star})
                                               ELSE excused \ (call[Main].article \X {Star})
    BY <1>3 DEF CallReturns
  <2>. SUFFICES ASSUME NEW a \in Articles PROVE StarOK(a)'
    BY <1>1, <2>2 DEF StarInv
  <2>4. StarOK(a)
    BY DEF StarInv
  <2>5. CASE Starring(a)
    <3>1. CASE call[Main].at = "failed"
      <4>1. <<a, Star>> \in excused'
        BY <2>3, <2>5, <3>1 DEF Starring
      <4>. QED
        BY <1>1, <2>1, <2>4, <4>1 DEF StarOK, StarHere, StarArrives, StarAgrees, ReachStays
    <3>2. CASE call[Main].at = "done"
      BY <1>1, <2>1, <2>4, <2>5, <3>2 DEF StarOK, StarHere, StarArrives, StarAgrees, ReachStays
    <3>. QED
      BY <1>1, <1>3, <3>1, <3>2
  <2>6. CASE ~Starring(a)
    <3>1. <<a, Star>> \in excused => <<a, Star>> \in excused'
      BY <1>3, <2>3, <2>6 DEF Starring
    <3>. QED
      BY <1>1, <2>1, <2>4, <2>6, <3>1 DEF StarOK, StarHere, StarArrives, StarAgrees, ReachStays
  <2>. QED
    BY <2>5, <2>6
<1>4. CASE ~(t = Main /\ call[Main].op = "star")
  <2>1. call[t].op # "star"
    BY <1>1, <1>4 DEF TypeInv, CallsOK, Threads
  <2>2. excused \subseteq excused'
    BY <2>1 DEF CallReturns
  <2>3. StarCallSame
    BY <1>1, <1>2, <1>4, ThreadsDiffer DEF StarCallSame
  <2>. QED
    BY <1>1, <2>2, <2>3, StarKept DEF StarsSame
<1>. QED
  BY <1>3, <1>4

LEMMA StarStored == ASSUME TypeInv, StarInv, ReachStays, Store PROVE StarInv'
<1>1. UNCHANGED <<service, server, call>> /\ \A a \in Articles : <<a, Star>> \in excused => <<a, Star>> \in excused'
  BY DEF Store, Star, ReadFlag
<1>2. \A a \in Articles : /\ local[a].row => local'[a].row
                          /\ local[a].row => (local'[a].flag <=> local[a].flag)
                          /\ ~local[a].row /\ local'[a].row => ~local'[a].flag
                          /\ ~local'[a].row => local'[a] = local[a]
                          /\ OutOfReach(a) /\ local'[a].row => local[a].row
  BY Stored DEF TypeInv, OutOfReach
<1>3. service = "newsblur" => NoStars'
  BY <1>1, Stored DEF StarInv, NoStars, TypeInv
<1>. SUFFICES ASSUME NEW a \in Articles PROVE StarOK(a)'
  BY <1>1, <1>3 DEF StarInv
<1>4. StarOK(a) /\ (Starring(a)' <=> Starring(a))
  BY <1>1 DEF StarInv, Starring
<1>5. StarArrives(a)'
  BY <1>1, <1>2, <1>4 DEF StarOK, StarHere, StarArrives
<1>6. StarAgrees(a)'
  BY <1>1, <1>2, <1>4 DEF StarOK, StarHere, StarAgrees
<1>7. StarHere(a)'
  BY <1>1, <1>2, <1>4 DEF StarOK, StarHere, ReachStays
<1>. QED
  BY <1>5, <1>6, <1>7 DEF StarOK

LEMMA StarNext == TypeInv /\ FetchInv /\ StarInv /\ [ServicesNext]_serviceVars => StarInv'
<1>. SUFFICES ASSUME TypeInv, FetchInv, StarInv, [ServicesNext]_serviceVars PROVE StarInv'
  OBVIOUS
<1>0. ReachStays
  BY ReachKept
<1>1. CASE AllButPages \/ LogOn
  <2>1. UNCHANGED <<service, server, call, local, excused>>
    BY <1>1 DEF AllButPages, LogOn
  <2>. QED
    BY <2>1, <1>0, StarKept DEF StarCallSame, StarsSame
<1>2. CASE Pressed
  <2>1. PICK t \in Threads, as \in SUBSET Articles, read \in BOOLEAN : Presses(t, as, read)
    BY <1>2 DEF Pressed
  <2>2. /\ UNCHANGED <<service, server>> /\ excused \subseteq excused' /\ ~Busy(t)
        /\ \A a \in Articles : local'[a].row = local[a].row /\ local'[a].flag = local[a].flag
        /\ call' = [call EXCEPT ![t] = Begun("mark", as, read)]
    BY <2>1 DEF Presses
  <2>3. Begun("mark", as, read).op = "mark"
    BY DEF Begun, NoCall
  <2>4. StarCallSame
    BY <2>2, <2>3, ThreadsDiffer DEF StarCallSame, Busy, TypeInv, TypeOK
  <2>. QED
    BY <2>2, <2>4, <1>0, StarKept DEF StarsSame
<1>3. CASE \E b \in Articles : MarkHere(b)
  <2>1. UNCHANGED <<service, server, call>> /\ excused \subseteq excused'
        /\ \A a \in Articles : local'[a].row = local[a].row /\ local'[a].flag = local[a].flag
    BY <1>3, HereSet DEF MarkHere, TypeInv
  <2>. QED
    BY <2>1, <1>0, StarKept DEF StarCallSame, StarsSame
<1>4. CASE \E b \in Articles : OtherDevice(b) \/ Age(b)
  <2>1. UNCHANGED <<service, call, local>> /\ excused \subseteq excused'
    BY <1>4 DEF OtherDevice, Age
  <2>2. PICK b \in Articles : \E labels : server' = [server EXCEPT ![b].labels = labels]
    BY <1>4 DEF OtherDevice, Age
  <2>3. \A a \in Articles : server'[a].star = server[a].star
    BY <2>2 DEF TypeInv, TypeOK, ServerStates
  <2>. QED
    BY <2>1, <2>3, <1>0, StarKept DEF StarCallSame, StarsSame
<1>5. CASE BeginReload \/ NextPage
  <2>1. UNCHANGED <<service, server, local, excused>> /\ \E c : call' = [call EXCEPT ![Reloader] = c]
    BY <1>5 DEF BeginReload, NextPage
  <2>2. StarCallSame
    BY <2>1, ThreadsDiffer DEF StarCallSame, TypeInv, TypeOK
  <2>. QED
    BY <2>1, <2>2, <1>0, StarKept DEF StarsSame
<1>6. CASE RemoveOldDeleted
  <2>1. UNCHANGED <<service, server, call, excused>>
    BY <1>6 DEF RemoveOldDeleted
  <2>2. \A a \in Articles : local'[a].flag = local[a].flag /\ (a \in Fetched \/ ~reload.brought => local'[a] = local[a])
    BY <1>6, OldRemoved DEF TypeInv
  <2>3. \A a \in Articles : \/ service = "newsblur" \/ (local'[a].row <=> local[a].row)
                            \/ local[a].row /\ ~local'[a].row /\ OutOfReach(a)'
    <3>1. ASSUME NEW a \in Articles, service # "newsblur", local[a].row, ~local'[a].row
          PROVE  OutOfReach(a)'
      <4>1. reload.brought /\ a \notin Fetched /\ (reload.cut \/ onPage[a] > LastPage)
        BY <3>1, RowsGo
      <4>2. OutOfReach(a)
        BY <3>1, <4>1 DEF FetchInv, OutOfReach
      <4>. QED
        BY <1>0, <4>2 DEF ReachStays
    <3>2. \A a \in Articles : local'[a].row => local[a].row
      BY <1>6, OldRemoved DEF TypeInv
    <3>. QED
      BY <3>1, <3>2
  <2>. QED
    BY <2>1, <2>2, <2>3, <1>0, StarKept DEF StarCallSame, StarsSame
<1>7. CASE Expire
  <2>1. UNCHANGED <<service, server, local, excused>>
    BY <1>7 DEF Expire
  <2>2. StarCallSame
    BY <1>7, CallExpires, ThreadsDiffer DEF StarCallSame, TypeInv, TypeOK
  <2>. QED
    BY <2>1, <2>2, <1>0, StarKept DEF StarsSame
<1>8. CASE LeaveProgram
  <2>1. UNCHANGED <<service, local>> /\ excused \subseteq excused' /\ ~Busy(Main)
    BY <1>8 DEF LeaveProgram, Free
  <2>2. call'[Main].op = "none" /\ \A a \in Articles : server'[a].star = server[a].star
    BY <1>8, LeftAs, ThreadsDiffer DEF NoCall
  <2>. QED
    BY <2>1, <2>2, <1>0, StarKept DEF StarCallSame, StarsSame, Busy
<1>. QED
  BY <1>0, <1>1, <1>2, <1>3, <1>4, <1>5, <1>6, <1>7, <1>8, Steps, StarEdited, StarRequest, StarReturns, StarStored

\* With any number of marks under way in threads of their own, sessions that
\* expire, and a reload that copies the service's labels: once nothing is under
\* way for an article it is unread here exactly if it is there, and flagged exactly
\* if it has the star, unless one of the listed excuses stands for it.
THEOREM FlagsAgree == ServicesSpec => []AgreesWhenQuiet
<1>1. ReadInv /\ StarInv => AgreesWhenQuiet
  <2>. SUFFICES ASSUME ReadInv, StarInv, NEW a \in Articles, local[a].row, Settled(a)
                PROVE  /\ <<a, ReadFlag>> \in excused \/ (local[a].unread <=> UnreadThere(a))
                       /\ Busy(Main) \/ <<a, Star>> \in excused \/ (local[a].flag <=> server[a].star)
    BY DEF AgreesWhenQuiet
  <2>1. <<a, ReadFlag>> \in excused \/ (local[a].unread <=> UnreadThere(a))
    BY DEF ReadInv, Excused, ReadOK, Agrees, Settled
  <2>2. Busy(Main) \/ <<a, Star>> \in excused \/ (local[a].flag <=> server[a].star)
    BY DEF StarInv, StarOK, StarAgrees, Starring, Busy
  <2>. QED
    BY <2>1, <2>2
<1>. QED
  BY <1>1, ReadInit, ReadNext, StarInit, StarNext, FetchInit, FetchNext, TypeInit, TypeNext, PTL DEF ServicesSpec

-----------------------------------------------------------------------------
(* UrlSources. With ownCloud News the reader has the query feeds of the urls *)
(* file first, then one url for each name that known_feeds has been given.   *)
(* The inductive invariant is UrlsInv: the files can be read line by line,   *)
(* and the names that are remembered are finitely many, so that a new one is *)
(* found for every title.                                                    *)
Anything(v) == TRUE
IsSeq(s) == \E S : s \in Seq(S)
HasPlaces(s) == \E n \in Nat : DOMAIN s = 1 .. n
IsReader(r) == r = [urls |-> r.urls, tags |-> r.tags, alltags |-> r.alltags] /\ IsSeq(r.urls)
UrlsInv ==
  source = "ocnews" =>
    /\ HasPlaces(file) /\ HasPlaces(opml) /\ answer \in Answers
    /\ IsFiniteSet(DOMAIN known)
    /\ NameLeadsToFeed

\* Only the queries of the urls file are kept.
QueriesOnly(r) == IsReader(r) /\ \A i \in 1 .. Len(r.urls) : IsQuery(r.urls[i])

\* The folds: the lines of a urls file, the outlines of an OPML file, the
\* subscriptions, and the query feeds and entries that are added.
LineIn(r, tokenline, c, d) == AddLine(r, tokenline)
UrlLines == INSTANCE Folding WITH Op <- LineIn, Is <- IsReader
OutlineIn(r, o, tags, d) == IF IsFeed(o) THEN ImportUrl(r, ImportedUrl(o), tags[o.parent]) ELSE r
Outlines == INSTANCE Folding WITH Op <- OutlineIn, Is <- IsReader
FolderTags(outlines) == TagsBelow(outlines, [i \in DOMAIN outlines |-> FolderText(outlines[i])])
NameIn(acc, sub, c, d) == NameGiven(acc, sub)
Names == INSTANCE Folding WITH Op <- NameIn, Is <- Anything
QueryIn(r, url, src, fromFile) == QueryAdded(src, r, fromFile, url)
Queries == INSTANCE Folding WITH Op <- QueryIn, Is <- QueriesOnly
EntryIn(r, entry, c, d) == EntryAdded(r, entry)
Entries == INSTANCE Folding WITH Op <- EntryIn, Is <- Anything

\* Every set of natural numbers that is not empty has a least element.
LEMMA Least ==
  ASSUME NEW T \in SUBSET Nat, T # {}
  PROVE  Min(T) \in T /\ \A x \in T : Min(T) <= x
BY UrlLines!LeastExists DEF Min

\* What is reached step by step.
LEMMA StepByStep ==
  ASSUME NEW n \in Nat, NEW P, 0 \in P, \A k \in 1 .. n : k - 1 \in P => k \in P
  PROVE  \A k \in 0 .. n : k \in P
<1> DEFINE T == {k \in Nat : k <= n => k \in P}
<1>1. 0 \in T
  OBVIOUS
<1>2. ASSUME NEW k \in Nat, k \in T PROVE k + 1 \in T
  <2> SUFFICES ASSUME k + 1 <= n PROVE k + 1 \in P
    OBVIOUS
  <2>1. k + 1 \in 1 .. n /\ (k + 1) - 1 = k /\ k <= n
    OBVIOUS
  <2>. QED
    BY <1>2, <2>1
<1> HIDE DEF T
<1>3. Nat \subseteq T
  BY <1>1, <1>2, UrlLines!Induction
<1>4. \A k \in 0 .. n : k \in Nat /\ k <= n
  OBVIOUS
<1>. QED
  BY <1>3, <1>4 DEF T

LEMMA ListHasPlaces ==
  ASSUME NEW s, IsList(s)
  PROVE  HasPlaces(s)
BY DEF IsList, HasPlaces

LEMMA Appended ==
  ASSUME NEW s, IsSeq(s), NEW e
  PROVE  /\ IsSeq(Append(s, e)) /\ DOMAIN s = 1 .. Len(s) /\ Len(s) \in Nat
         /\ Len(Append(s, e)) = Len(s) + 1 /\ Append(s, e)[Len(s) + 1] = e
         /\ \A i \in 1 .. Len(s) : Append(s, e)[i] = s[i]
<1>1. PICK S : s \in Seq(S)
  BY DEF IsSeq
<1> DEFINE T == S \cup {e}
<1>2. S \subseteq T /\ e \in T
  OBVIOUS
<1> HIDE DEF T
<1>3. s \in Seq(T)
  BY <1>1, <1>2
<1>4. Append(s, e) \in Seq(T)
  BY <1>2, <1>3, AppendProperties
<1>5. DOMAIN s = 1 .. Len(s) /\ Len(s) \in Nat
  BY <1>3, LenProperties
<1>6. /\ Len(Append(s, e)) = Len(s) + 1 /\ Append(s, e)[Len(s) + 1] = e
      /\ \A i \in 1 .. Len(s) : Append(s, e)[i] = s[i]
  BY <1>2, <1>3, AppendProperties
<1>. QED
  BY <1>4, <1>5, <1>6 DEF IsSeq

\* The fields of an urlreader after a url has been added.
LEMMA UrlPushed ==
  ASSUME NEW r, IsReader(r), NEW url
  PROVE  /\ IsReader(Untagged(r, url)) /\ Untagged(r, url).urls = Append(r.urls, url)
         /\ \A t : IsReader([Untagged(r, url) EXCEPT !.tags = t])
         /\ \A ts : IsReader(Tagged(r, url, ts)) /\ Tagged(r, url, ts).urls = Append(r.urls, url)
<1> DEFINE u == r.urls
           g == r.tags
           a == r.alltags
           v == Append(u, url)
<1>1. IsSeq(v)
  BY Appended DEF IsReader
<1>2. r = [urls |-> u, tags |-> g, alltags |-> a]
  BY DEF IsReader
<1> HIDE DEF u, g, a, v
<1>3. Untagged(r, url) = [urls |-> v, tags |-> g, alltags |-> a]
  BY <1>2 DEF Untagged, v, u
<1>4. \A ts : Tagged(r, url, ts) = [urls |-> v, tags |-> Put(g, url, ts), alltags |-> a \cup Range(ts)]
  <2> TAKE ts
  <2> DEFINE p == Put(g, url, ts)
             w == a \cup Range(ts)
  <2>1. Tagged(r, url, ts) = [r EXCEPT !.urls = v, !.tags = p, !.alltags = w]
    BY DEF Tagged, v, u, g, a
  <2> HIDE DEF p, w
  <2>2. Tagged(r, url, ts) = [urls |-> v, tags |-> p, alltags |-> w]
    BY <1>2, <2>1
  <2>. QED
    BY <2>2 DEF p, w
<1>5. \A t : [Untagged(r, url) EXCEPT !.tags = t] = [urls |-> v, tags |-> t, alltags |-> a]
  BY <1>3
<1>6. \A x, y : IsReader([urls |-> v, tags |-> x, alltags |-> y])
  BY <1>1 DEF IsReader
<1>7. v = Append(r.urls, url)
  BY DEF v, u
<1>8. \A x, y : [urls |-> v, tags |-> x, alltags |-> y].urls = v
  OBVIOUS
<1>9. IsReader(Untagged(r, url)) /\ Untagged(r, url).urls = v
  BY <1>3, <1>6, <1>8
<1>10. \A t : IsReader([Untagged(r, url) EXCEPT !.tags = t])
  <2> TAKE t
  <2>1. [Untagged(r, url) EXCEPT !.tags = t] = [urls |-> v, tags |-> t, alltags |-> a]
    BY <1>5
  <2> DEFINE R == [urls |-> v, tags |-> t, alltags |-> a]
  <2>2. IsReader(R) /\ [Untagged(r, url) EXCEPT !.tags = t] = R
    BY <2>1, <1>6
  <2> HIDE DEF R
  <2>. QED
    BY <2>2
<1>11. \A ts : IsReader(Tagged(r, url, ts)) /\ Tagged(r, url, ts).urls = v
  <2> TAKE ts
  <2>1. Tagged(r, url, ts) = [urls |-> v, tags |-> Put(g, url, ts), alltags |-> a \cup Range(ts)]
    BY <1>4
  <2> DEFINE R == [urls |-> v, tags |-> Put(g, url, ts), alltags |-> a \cup Range(ts)]
  <2>2. IsReader(R) /\ R.urls = v /\ Tagged(r, url, ts) = R
    BY <2>1, <1>6, <1>8
  <2> HIDE DEF R
  <2>. QED
    BY <2>2
<1>. QED
  BY <1>7, <1>9, <1>10, <1>11, Zenon

LEMMA EmptyIsReader == IsReader(Empty) /\ Empty.urls = <<>>
<1>1. <<>> \in Seq({})
  BY EmptySeq
<1>. QED
  BY <1>1 DEF Empty, IsReader, IsSeq

\* Whatever its lines are, the file that is read gives an urlreader.
LEMMA LineKeepsReader ==
  ASSUME NEW r, IsReader(r), NEW tokenline
  PROVE  IsReader(AddLine(r, tokenline))
<1> DEFINE tokens == Tokenized(tokenline)
<1>1. AddLine(r, tokenline) = IF tokens = <<>> THEN r
                              ELSE IF Len(tokens) = 1 THEN Untagged(r, tokens[1]) ELSE Tagged(r, tokens[1], Tail(tokens))
  BY DEF AddLine
<1> HIDE DEF tokens
<1>2. IsReader(Untagged(r, tokens[1])) /\ IsReader(Tagged(r, tokens[1], Tail(tokens)))
  BY UrlPushed
<1>. QED
  BY <1>1, <1>2

LEMMA LoadedUrlsIsReader ==
  ASSUME NEW lines, HasPlaces(lines)
  PROVE  IsReader(LoadedUrls(lines))
<1>1. PICK n \in Nat : DOMAIN lines = 1 .. n
  BY DEF HasPlaces
<1> DEFINE result == UrlLines!Folded(Empty, lines, n, 0, 0)
<1>2. LoadedUrls(lines) = result
  BY <1>1 DEF LoadedUrls, FoldLeft, MapThenFoldSet, UrlLines!Folded, UrlLines!IsFold, UrlLines!Value, UrlLines!Highest, LineIn, Max
<1>3. IsReader(Empty)
  BY EmptyIsReader
<1>4. \A r : IsReader(r) => \A k \in 1 .. n : IsReader(LineIn(r, lines[k], 0, 0))
  BY LineKeepsReader DEF LineIn
<1>5. IsReader(result)
  BY <1>3, <1>4, UrlLines!FoldKeeps
<1>. QED
  BY <1>2, <1>5

\* So does an import into it, and what is written can be read again.
LEMMA OutlineKeepsReader ==
  ASSUME NEW r, IsReader(r), NEW o, NEW tags
  PROVE  IsReader(OutlineIn(r, o, tags, 0))
<1> DEFINE url == ImportedUrl(o)
           tag == tags[o.parent]
<1>1. IsReader(ImportUrl(r, url, tag))
  <2> HIDE DEF url, tag
  <2>. QED
    BY UrlPushed DEF ImportUrl
<1>. QED
  BY <1>1 DEF OutlineIn

LEMMA ImportedIsReader ==
  ASSUME NEW r, IsReader(r), NEW outlines, HasPlaces(outlines)
  PROVE  IsReader(ImportOutlines(r, outlines))
<1>1. PICK n \in Nat : DOMAIN outlines = 1 .. n
  BY DEF HasPlaces
<1> DEFINE tags == FolderTags(outlines)
           result == Outlines!Folded(r, outlines, n, tags, 0)
<1>2. ImportOutlines(r, outlines) = result
  BY <1>1 DEF ImportOutlines, FoldLeft, MapThenFoldSet, Outlines!Folded, Outlines!IsFold, Outlines!Value, Outlines!Highest, OutlineIn, FolderTags, Max
<1> HIDE DEF tags
<1>3. \A u : IsReader(u) => \A k \in 1 .. n : IsReader(OutlineIn(u, outlines[k], tags, 0))
  BY OutlineKeepsReader
<1>4. IsReader(result)
  BY <1>3, Outlines!FoldKeeps
<1>. QED
  BY <1>2, <1>4

LEMMA WrittenHasPlaces ==
  ASSUME NEW r, IsReader(r)
  PROVE  HasPlaces(Written(r))
<1>1. DOMAIN Written(r) = DOMAIN r.urls
  BY DEF Written
<1>2. DOMAIN r.urls = 1 .. Len(r.urls) /\ Len(r.urls) \in Nat
  BY Appended DEF IsReader
<1>. QED
  BY <1>1, <1>2 DEF HasPlaces

-----------------------------------------------------------------------------
(* The names of ownCloud News.                                               *)
LEMMA WithStarsIs ==
  ASSUME NEW title, NEW n \in Nat
  PROVE  /\ Len(WithStars(title, n)) = n + 1 /\ WithStars(title, n)[1] = title
         /\ IsSeq(WithStars(title, n))
<1> DEFINE star == "*"
           first == <<title>>
           stars == [i \in 1 .. n |-> star]
           S == {title, star}
<1>1. title \in S /\ star \in S
  OBVIOUS
<1>2. WithStars(title, n) = first \o stars
  BY DEF WithStars
<1> HIDE DEF S, star
<1>3. first \in Seq(S) /\ Len(first) = 1 /\ first[1] = title
  BY <1>1
<1>4. stars \in Seq(S) /\ Len(stars) = n
  BY <1>1
<1> HIDE DEF first, stars
<1>5. /\ first \o stars \in Seq(S) /\ Len(first \o stars) = Len(first) + Len(stars)
      /\ \A i \in 1 .. Len(first) + Len(stars) :
           (first \o stars)[i] = IF i <= Len(first) THEN first[i] ELSE stars[i - Len(first)]
  BY <1>3, <1>4, ConcatProperties
<1>6. 1 \in 1 .. 1 + n /\ 1 <= 1 /\ 1 + n = n + 1
  OBVIOUS
<1>. QED
  BY <1>2, <1>3, <1>4, <1>5, <1>6 DEF IsSeq

\* There are not as many names as tries.
LEMMA FreeNameIsFree ==
  ASSUME NEW names, IsFiniteSet(names), NEW title
  PROVE  \E n \in Nat : FreeName(names, title) = WithStars(title, n) /\ WithStars(title, n) \notin names
<1> DEFINE c == Cardinality(names)
           T == {n \in 0 .. c : WithStars(title, n) \notin names}
           f == [n \in 0 .. c |-> WithStars(title, n)]
<1>1. c \in Nat
  BY FS_CardinalityType
<1>2. T # {}
  <2> SUFFICES ASSUME T = {} PROVE FALSE
    OBVIOUS
  <2>1. \A n \in 0 .. c : WithStars(title, n) \in names
    OBVIOUS
  <2> HIDE DEF c, T
  <2>2. \A m, n \in 0 .. c : f[m] = f[n] => m = n
    <3> SUFFICES ASSUME NEW m \in 0 .. c, NEW n \in 0 .. c, f[m] = f[n] PROVE m = n
      OBVIOUS
    <3>1. WithStars(title, m) = WithStars(title, n) /\ m \in Nat /\ n \in Nat
      OBVIOUS
    <3>2. Len(WithStars(title, m)) = m + 1 /\ Len(WithStars(title, n)) = n + 1
      BY <3>1, WithStarsIs
    <3>3. m + 1 = n + 1
      BY <3>1, <3>2
    <3>. QED
      BY <3>1, <3>3
  <2>3. f \in [0 .. c -> names]
    BY <2>1
  <2>4. f \in Injection(0 .. c, names)
    <3> HIDE DEF f
    <3>. QED
      BY <2>2, <2>3 DEF Injection, IsInjective
  <2>5. Cardinality(0 .. c) <= c
    BY <2>4, FS_Injection DEF c
  <2>6. Cardinality(0 .. c) = c + 1
    <3>1. 0 \in Int /\ c \in Int /\ ~(0 > c) /\ c - 0 + 1 = c + 1
      BY <1>1
    <3>. QED
      BY <3>1, FS_Interval
  <2>. QED
    BY <1>1, <2>5, <2>6
<1>3. T \in SUBSET Nat
  BY <1>1
<1>4. FreeName(names, title) = WithStars(title, Min(T))
  BY DEF FreeName
<1>5. Min(T) \in T
  <2> HIDE DEF T
  <2>. QED
    BY <1>2, <1>3, Least
<1>6. Min(T) \in Nat /\ WithStars(title, Min(T)) \notin names
  BY <1>3, <1>5
<1>. QED
  BY <1>4, <1>6

LEMMA PutDomain == ASSUME NEW f, NEW k, NEW v PROVE DOMAIN Put(f, k, v) = DOMAIN f \cup {k}
BY DEF Put
LEMMA PutValue == ASSUME NEW f, NEW k, NEW v PROVE Put(f, k, v)[k] = v
BY DEF Put
LEMMA PutOthers == ASSUME NEW f, NEW k, NEW v, NEW x \in DOMAIN f, x # k PROVE Put(f, k, v)[x] = f[x]
BY DEF Put

\* What has been done when the first k subscriptions have their names.
StarredId == "0"
StarredName == <<"Starred">>
Leads(acc, s, i) ==
  LET w == acc.list[i].url.words
  IN  w \in DOMAIN acc.known /\ acc.known[w] = s[i].id /\ w[1] = s[i].title /\ Len(w) \in Nat
      /\ acc.list[i].url = Str(w)
Naming(acc, s, k) ==
  /\ acc = [known |-> acc.known, list |-> acc.list]
  /\ IsFiniteSet(DOMAIN acc.known)
  /\ IsSeq(acc.list) /\ Len(acc.list) = k
  /\ StarredName \in DOMAIN acc.known /\ acc.known[StarredName] = StarredId
  /\ \A i \in 1 .. k : Leads(acc, s, i)

LEMMA NameGivenLeads ==
  ASSUME NEW s, NEW k \in Nat, k # 0, NEW acc, Naming(acc, s, k - 1)
  PROVE  Naming(NameGiven(acc, s[k]), s, k)
<1> DEFINE sub == s[k]
           name == FreeName(DOMAIN acc.known, sub.title)
           entry == Entry(name, SubSeq(sub.folders, 1, 1))
           nk == Put(acc.known, name, sub.id)
           nl == Append(acc.list, entry)
           new == [known |-> nk, list |-> nl]
<1>1. NameGiven(acc, s[k]) = new
  BY DEF NameGiven
<1>2. IsFiniteSet(DOMAIN acc.known) /\ IsSeq(acc.list) /\ Len(acc.list) = k - 1
  BY DEF Naming
<1>3. PICK n \in Nat : name = WithStars(sub.title, n) /\ WithStars(sub.title, n) \notin DOMAIN acc.known
  BY <1>2, FreeNameIsFree
<1>4. name \notin DOMAIN acc.known /\ name[1] = sub.title /\ Len(name) \in Nat
  <2>1. Len(WithStars(sub.title, n)) = n + 1 /\ WithStars(sub.title, n)[1] = sub.title
    BY WithStarsIs
  <2>2. n + 1 \in Nat
    OBVIOUS
  <2>. QED
    BY <1>3, <2>1, <2>2
<1>5. entry.url = Str(name) /\ entry.url.words = name
  BY DEF Entry, Str
<1> HIDE DEF name, entry
<1>6. /\ DOMAIN nk = DOMAIN acc.known \cup {name} /\ nk[name] = sub.id
      /\ \A x \in DOMAIN acc.known : nk[x] = acc.known[x]
  <2>1. DOMAIN nk = DOMAIN acc.known \cup {name}
    BY PutDomain
  <2>2. nk[name] = sub.id
    BY PutValue
  <2>3. \A x \in DOMAIN acc.known : nk[x] = acc.known[x]
    BY <1>4, PutOthers
  <2>. QED
    BY <2>1, <2>2, <2>3
<1>7. /\ IsSeq(nl) /\ Len(nl) = (k - 1) + 1 /\ nl[(k - 1) + 1] = entry
      /\ \A i \in 1 .. (k - 1) : nl[i] = acc.list[i]
  BY <1>2, Appended
<1>8. (k - 1) + 1 = k /\ \A i \in 1 .. k : i = k \/ i \in 1 .. (k - 1)
  OBVIOUS
<1>9. new.known = nk /\ new.list = nl
  OBVIOUS
<1> HIDE DEF nk, nl, new
<1>10. IsFiniteSet(DOMAIN nk)
  BY <1>2, <1>6, FS_AddElement
<1>11. \A i \in 1 .. (k - 1) : Leads(new, s, i)
  <2> TAKE i \in 1 .. (k - 1)
  <2>1. Leads(acc, s, i)
    BY DEF Naming
  <2>. QED
    BY <2>1, <1>6, <1>7, <1>9 DEF Leads
<1>12. Leads(new, s, k)
  BY <1>4, <1>5, <1>6, <1>7, <1>8, <1>9 DEF Leads
<1>13. StarredName \in DOMAIN nk /\ nk[StarredName] = StarredId
  BY <1>6 DEF Naming
<1>14. Len(nl) = k /\ IsSeq(nl)
  BY <1>7, <1>8
<1>15. new = [known |-> nk, list |-> nl]
  BY DEF new
<1>. QED
  BY <1>1, <1>8, <1>9, <1>10, <1>11, <1>12, <1>13, <1>14, <1>15 DEF Naming

LEMMA NamedLeads ==
  ASSUME NEW kn, IsFiniteSet(DOMAIN kn), NEW s, NEW n \in Nat, DOMAIN s = 1 .. n
  PROVE  Naming(Named(kn, s), s, n)
<1> DEFINE base == [known |-> Put(kn, <<"Starred">>, "0"), list |-> <<>>]
           result == Names!Folded(base, s, n, 0, 0)
<1>1. Named(kn, s) = result
  BY DEF Named, FoldLeft, MapThenFoldSet, Names!Folded, Names!IsFold, Names!Value, Names!Highest, NameIn, Max
<1>2. Naming(base, s, 0)
  <2> DEFINE nk == Put(kn, StarredName, StarredId)
  <2>0. base = [known |-> nk, list |-> <<>>]
    BY DEF StarredName, StarredId
  <2>1. DOMAIN nk = DOMAIN kn \cup {StarredName} /\ nk[StarredName] = StarredId
    <3>1. DOMAIN nk = DOMAIN kn \cup {StarredName}
      BY PutDomain
    <3>2. nk[StarredName] = StarredId
      BY PutValue
    <3>. QED
      BY <3>1, <3>2
  <2>2. IsFiniteSet(DOMAIN nk)
    BY <2>1, FS_AddElement
  <2>3. <<>> \in Seq({}) /\ Len(<<>>) = 0
    BY EmptySeq
  <2> HIDE DEF nk, base
  <2>4. base.known = nk /\ base.list = <<>>
    BY <2>0
  <2>5. \A i \in 1 .. 0 : FALSE
    OBVIOUS
  <2>. QED
    BY <2>0, <2>1, <2>2, <2>3, <2>4, <2>5 DEF Naming, IsSeq
<1> HIDE DEF base
<1>3. \E h : /\ h[0] = base
             /\ \A k \in 1 .. n : h[k] = NameIn(h[k - 1], s[k], 0, 0)
             /\ result = h[n]
  BY SMTT(20), Names!FoldSteps
<1> HIDE DEF result
<1>4. PICK h : /\ h[0] = base
               /\ \A k \in 1 .. n : h[k] = NameIn(h[k - 1], s[k], 0, 0)
               /\ result = h[n]
  BY <1>3
<1> DEFINE P == {k \in 0 .. n : Naming(h[k], s, k)}
<1>5. 0 \in P
  BY <1>2, <1>4
<1>6. ASSUME NEW k \in 1 .. n, k - 1 \in P PROVE k \in P
  <2>1. k \in Nat /\ k # 0 /\ k \in 0 .. n
    OBVIOUS
  <2>2. Naming(NameGiven(h[k - 1], s[k]), s, k)
    BY <1>6, <2>1, NameGivenLeads
  <2>3. h[k] = NameGiven(h[k - 1], s[k])
    BY <1>4 DEF NameIn
  <2>. QED
    BY <2>1, <2>2, <2>3
<1> HIDE DEF P
<1>7. \A k \in 0 .. n : k \in P
  BY <1>5, <1>6, StepByStep
<1>8. n \in 0 .. n
  OBVIOUS
<1>. QED
  BY <1>1, <1>4, <1>7, <1>8 DEF P

\* In the order of the names: by title, then by the number of stars, then as
\* they were.
Goes(pos, stars, j, i) ==
  pos[j] < pos[i] \/ (pos[j] = pos[i] /\ (stars[j] < stars[i] \/ (stars[j] = stars[i] /\ j < i)))
HasTitles(list, n) ==
  /\ DOMAIN list = 1 .. n
  /\ \A i \in 1 .. n : list[i].url.words[1] \in Range(TitleOrder) /\ Len(list[i].url.words) \in Nat
SortKeys(list, n, pos, stars) ==
  /\ pos \in [1 .. n -> Nat] /\ stars \in [1 .. n -> Nat]
  /\ \A i \in 1 .. n : Ahead(list, i) = {j \in 1 .. n : Goes(pos, stars, j, i)}

LEMMA PositionIs ==
  ASSUME NEW title \in Range(TitleOrder)
  PROVE  Position(title) \in Nat /\ TitleOrder[Position(title)] = title
<1>1. \E i \in DOMAIN TitleOrder : TitleOrder[i] = title
  BY DEF Range
<1>2. Position(title) \in DOMAIN TitleOrder /\ TitleOrder[Position(title)] = title
  BY <1>1 DEF Position
<1>3. \A i \in DOMAIN TitleOrder : i \in Nat
  BY UrlsAssumption
<1>. QED
  BY <1>2, <1>3

LEMMA AheadIs ==
  ASSUME NEW n \in Nat, NEW list, HasTitles(list, n)
  PROVE  \E pos, stars : SortKeys(list, n, pos, stars)
<1> DEFINE Words0(i) == list[i].url.words
           pos == [i \in 1 .. n |-> Position(Words0(i)[1])]
           stars == [i \in 1 .. n |-> Len(Words0(i))]
<1>1. DOMAIN list = 1 .. n /\ \A i \in 1 .. n : Words0(i)[1] \in Range(TitleOrder) /\ Len(Words0(i)) \in Nat
  BY DEF HasTitles
<1>2. \A i, j : Before(list[j], list[i]) <=>
         Position(Words0(j)[1]) < Position(Words0(i)[1]) \/ (Words0(j)[1] = Words0(i)[1] /\ Len(Words0(j)) < Len(Words0(i)))
  BY DEF Before
<1> HIDE DEF Words0
<1>3. \A i \in 1 .. n : Position(Words0(i)[1]) \in Nat /\ TitleOrder[Position(Words0(i)[1])] = Words0(i)[1]
  BY <1>1, PositionIs
<1>4. pos \in [1 .. n -> Nat] /\ stars \in [1 .. n -> Nat]
  BY <1>1, <1>3
<1>5. \A i \in 1 .. n : pos[i] = Position(Words0(i)[1]) /\ stars[i] = Len(Words0(i))
  OBVIOUS
<1> HIDE DEF pos, stars
<1>6. ASSUME NEW i \in 1 .. n, NEW j \in 1 .. n
      PROVE  Before(list[j], list[i]) <=> pos[j] < pos[i] \/ (pos[j] = pos[i] /\ stars[j] < stars[i])
  <2>1. Words0(j)[1] = Words0(i)[1] <=> pos[j] = pos[i]
    BY <1>3, <1>5
  <2>. QED
    BY <1>2, <1>5, <2>1
<1>7. ASSUME NEW i \in 1 .. n
      PROVE  Ahead(list, i) = {j \in 1 .. n : Goes(pos, stars, j, i)}
  <2>1. Ahead(list, i) = {j \in 1 .. n : Before(list[j], list[i]) \/ (j < i /\ ~Before(list[i], list[j]))}
    BY <1>1 DEF Ahead
  <2>2. ASSUME NEW j \in 1 .. n
        PROVE  Before(list[j], list[i]) \/ (j < i /\ ~Before(list[i], list[j])) <=> Goes(pos, stars, j, i)
    <3> DEFINE a == pos[j]
               b == pos[i]
               c == stars[j]
               d == stars[i]
    <3>1. (Before(list[j], list[i]) <=> a < b \/ (a = b /\ c < d)) /\ (Before(list[i], list[j]) <=> b < a \/ (b = a /\ d < c))
      BY <1>6
    <3>2. a \in Nat /\ b \in Nat /\ c \in Nat /\ d \in Nat
      BY <1>4
    <3>3. Goes(pos, stars, j, i) <=> a < b \/ (a = b /\ (c < d \/ (c = d /\ j < i)))
      BY DEF Goes
    <3> HIDE DEF a, b, c, d
    <3>4. a < b \/ (a = b /\ c < d) \/ (j < i /\ ~(b < a \/ (b = a /\ d < c))) <=> a < b \/ (a = b /\ (c < d \/ (c = d /\ j < i)))
      BY <3>2
    <3>. QED
      BY <3>1, <3>3, <3>4
  <2>. QED
    BY <2>1, <2>2
<1>8. SortKeys(list, n, pos, stars)
  BY <1>4, <1>7 DEF SortKeys
<1>. QED
  BY <1>8

\* Sorting takes each name once.
TakesEach(p, n, sorted, list) ==
  /\ p \in [1 .. n -> 1 .. n] /\ \A i, j \in 1 .. n : p[i] = p[j] => i = j
  /\ sorted = [r \in 1 .. n |-> list[p[r]]]
LEMMA SortedIsRearranged ==
  ASSUME NEW n \in Nat, NEW list, HasTitles(list, n)
  PROVE  \E p : TakesEach(p, n, SortedByName(list), list)
<1>0. PICK pos, stars : SortKeys(list, n, pos, stars)
  BY AheadIs
<1>1. /\ pos \in [1 .. n -> Nat] /\ stars \in [1 .. n -> Nat]
      /\ \A i \in 1 .. n : Ahead(list, i) = {j \in 1 .. n : Goes(pos, stars, j, i)}
  BY <1>0 DEF SortKeys
<1>2. IsFiniteSet(1 .. n) /\ Cardinality(1 .. n) = n
  BY FS_Interval
<1>3. ASSUME NEW i \in 1 .. n
      PROVE  IsFiniteSet(Ahead(list, i)) /\ Cardinality(Ahead(list, i)) \in 0 .. (n - 1)
  <2>1. Ahead(list, i) \subseteq (1 .. n) \ {i}
    BY <1>1 DEF Goes
  <2>2. IsFiniteSet((1 .. n) \ {i}) /\ Cardinality((1 .. n) \ {i}) = n - 1
    BY <1>2, FS_RemoveElement
  <2>3. IsFiniteSet(Ahead(list, i)) /\ Cardinality(Ahead(list, i)) <= n - 1
    BY <2>1, <2>2, FS_Subset
  <2>4. Cardinality(Ahead(list, i)) \in Nat
    BY <2>3, FS_CardinalityType
  <2>. QED
    BY <2>3, <2>4
<1>4. ASSUME NEW i \in 1 .. n, NEW j \in 1 .. n, Goes(pos, stars, j, i)
      PROVE  Cardinality(Ahead(list, j)) # Cardinality(Ahead(list, i))
  <2>1. j \in Ahead(list, i) /\ j \notin Ahead(list, j)
    <3>1. pos[j] \in Nat /\ stars[j] \in Nat
      BY <1>1
    <3>2. ~Goes(pos, stars, j, j)
      BY <3>1 DEF Goes
    <3>. QED
      BY <1>1, <1>4, <3>2
  <2>2. Ahead(list, j) \subseteq Ahead(list, i)
    <3> SUFFICES ASSUME NEW x \in 1 .. n, Goes(pos, stars, x, j) PROVE Goes(pos, stars, x, i)
      BY <1>1
    <3>1. pos[x] \in Nat /\ pos[j] \in Nat /\ pos[i] \in Nat /\ stars[x] \in Nat /\ stars[j] \in Nat /\ stars[i] \in Nat
      BY <1>1
    <3>. QED
      BY <1>4, <3>1 DEF Goes
  <2>. QED
    BY <1>3, <2>1, <2>2, FS_Subset
<1> DEFINE rank == [i \in 1 .. n |-> Cardinality(Ahead(list, i)) + 1]
<1>5. \A i \in 1 .. n : Cardinality(Ahead(list, i)) + 1 \in 1 .. n /\ Cardinality(Ahead(list, i)) \in Nat
  BY <1>3
<1>6. rank \in [1 .. n -> 1 .. n]
  BY <1>5
<1>7. \A i, j \in 1 .. n : rank[i] = rank[j] => i = j
  <2> SUFFICES ASSUME NEW i \in 1 .. n, NEW j \in 1 .. n, i # j PROVE rank[i] # rank[j]
    OBVIOUS
  <2>1. Goes(pos, stars, i, j) \/ Goes(pos, stars, j, i)
    <3>1. pos[j] \in Nat /\ pos[i] \in Nat /\ stars[j] \in Nat /\ stars[i] \in Nat
      BY <1>1
    <3>. QED
      BY <3>1 DEF Goes
  <2>2. Cardinality(Ahead(list, i)) # Cardinality(Ahead(list, j))
    BY <1>4, <2>1
  <2>3. Cardinality(Ahead(list, i)) \in Nat /\ Cardinality(Ahead(list, j)) \in Nat
    BY <1>5
  <2>. QED
    BY <2>2, <2>3
<1>8. rank \in Injection(1 .. n, 1 .. n)
  <2> HIDE DEF rank
  <2>. QED
    BY <1>6, <1>7 DEF Injection, IsInjective
<1>9. rank \in Surjection(1 .. n, 1 .. n)
  BY <1>2, <1>8, FS_Injection
<1> DEFINE IsAt(r) == CHOOSE i \in DOMAIN list : Cardinality(Ahead(list, i)) = r - 1
           p == [r \in 1 .. n |-> IsAt(r)]
<1>10. DOMAIN list = 1 .. n
  BY DEF HasTitles
<1>11. ASSUME NEW r \in 1 .. n PROVE IsAt(r) \in 1 .. n /\ Cardinality(Ahead(list, IsAt(r))) = r - 1
  <2>1. \E i \in 1 .. n : rank[i] = r
    <3> HIDE DEF rank
    <3>. QED
      BY <1>9 DEF Surjection
  <2>2. PICK i \in 1 .. n : rank[i] = r
    BY <2>1
  <2>3. Cardinality(Ahead(list, i)) = r - 1
    <3>1. rank[i] = Cardinality(Ahead(list, i)) + 1 /\ Cardinality(Ahead(list, i)) \in Nat
      BY <1>5
    <3> HIDE DEF rank
    <3>. QED
      BY <2>2, <3>1
  <2>. QED
    BY <1>10, <2>3
<1>12. SortedByName(list) = [r \in 1 .. n |-> list[p[r]]]
  BY <1>10 DEF SortedByName
<1> HIDE DEF IsAt, rank
<1>13. p \in [1 .. n -> 1 .. n]
  BY <1>11
<1>14. ASSUME NEW i \in 1 .. n, NEW j \in 1 .. n, p[i] = p[j] PROVE i = j
  <2>1. i - 1 = j - 1
    BY <1>11, <1>14
  <2>. QED
    BY <2>1
<1> HIDE DEF p
<1>15. TakesEach(p, n, SortedByName(list), list)
  BY <1>12, <1>13, <1>14 DEF TakesEach
<1>. QED
  BY <1>15

\* The subscriptions of ownCloud News: a name each, and a feed each.
OneEach(list, m, kn) ==
  /\ DOMAIN list = 1 .. m
  /\ \A i \in 1 .. m : list[i].url.words \in DOMAIN kn
  /\ \A i, j \in 1 .. m : i # j => kn[list[i].url.words] # kn[list[j].url.words]

LEMMA OcnewsOneEach ==
  ASSUME NEW s \in Answers, NEW kn, IsFiniteSet(DOMAIN kn)
  PROVE  IsFiniteSet(DOMAIN Named(kn, s).known) /\ \E m \in Nat : OneEach(OfOcnews(kn, s), m, Named(kn, s).known)
<1> DEFINE acc == Named(kn, s)
           n == Len(s)
           list == acc.list
           sorted == SortedByName(list)
           starred == Entry(<<"Starred">>, <<>>)
           all == OfOcnews(kn, s)
<1>1. /\ n \in Nat /\ DOMAIN s = 1 .. n
      /\ (\A i \in 1 .. n : s[i].id # StarredId /\ s[i].title \in Range(TitleOrder))
      /\ \A i, j \in 1 .. n : s[i].id = s[j].id => i = j
  BY UrlsAssumption DEF StarredId
<1>2. Naming(acc, s, n)
  <2> HIDE DEF n
  <2>. QED
    BY <1>1, NamedLeads
<1>3. starred.url.words = StarredName
  BY DEF starred, Entry, Str, StarredName
<1>4. all = <<starred>> \o sorted
  BY DEF OfOcnews
<1> HIDE DEF acc, n, starred, all, sorted
<1>5. IsFiniteSet(DOMAIN acc.known) /\ IsSeq(list) /\ Len(list) = n
      /\ StarredName \in DOMAIN acc.known /\ acc.known[StarredName] = StarredId
  BY <1>2 DEF Naming
<1>6. \A i \in 1 .. n : /\ list[i].url.words \in DOMAIN acc.known /\ acc.known[list[i].url.words] = s[i].id
                        /\ list[i].url.words[1] = s[i].title /\ Len(list[i].url.words) \in Nat
  <2> TAKE i \in 1 .. n
  <2>1. Leads(acc, s, i)
    BY <1>2 DEF Naming
  <2>. QED
    BY <2>1 DEF Leads
<1>7. DOMAIN list = 1 .. n
  BY <1>5, Appended
<1> HIDE DEF list
<1>8. HasTitles(list, n)
  BY <1>1, <1>6, <1>7 DEF HasTitles
<1>9. \E p : TakesEach(p, n, SortedByName(list), list)
  BY <1>1, <1>8, SortedIsRearranged
<1>10. PICK p : TakesEach(p, n, SortedByName(list), list)
  BY <1>9
<1>25. /\ p \in [1 .. n -> 1 .. n] /\ \A i, j \in 1 .. n : p[i] = p[j] => i = j
       /\ sorted = [r \in 1 .. n |-> list[p[r]]]
  BY <1>10 DEF TakesEach, sorted
<1> DEFINE S == {starred} \cup {list[i] : i \in 1 .. n}
<1>11. starred \in S /\ \A i \in 1 .. n : list[i] \in S
  OBVIOUS
<1> HIDE DEF S
<1>12. \A r \in 1 .. n : sorted[r] = list[p[r]] /\ p[r] \in 1 .. n
  BY <1>25
<1>13. sorted \in Seq(S) /\ Len(sorted) = n
  <2>1. sorted \in [1 .. n -> S]
    BY <1>25, <1>11
  <2>. QED
    BY <1>1, <2>1
<1>14. <<starred>> \in Seq(S) /\ Len(<<starred>>) = 1 /\ <<starred>>[1] = starred
  BY <1>11
<1> DEFINE head == <<starred>>
<1> HIDE DEF head
<1>15. /\ head \o sorted \in Seq(S) /\ Len(head \o sorted) = Len(head) + Len(sorted)
       /\ \A i \in 1 .. Len(head) + Len(sorted) :
            (head \o sorted)[i] = IF i <= Len(head) THEN head[i] ELSE sorted[i - Len(head)]
  BY <1>13, <1>14, ConcatProperties DEF head
<1>16. Len(head) = 1 /\ Len(sorted) = n /\ head[1] = starred /\ all = head \o sorted
  BY <1>4, <1>13, <1>14 DEF head
<1>17. DOMAIN all = 1 .. (1 + n) /\ \A i \in 1 .. (1 + n) : all[i] = IF i <= 1 THEN head[i] ELSE sorted[i - 1]
  <2>1. all \in Seq(S) /\ Len(all) = 1 + n
    BY <1>15, <1>16
  <2>2. DOMAIN all = 1 .. Len(all)
    BY <2>1, LenProperties
  <2>. QED
    BY <1>15, <1>16, <2>1, <2>2
<1>18. all[1] = starred /\ \A i \in 1 .. (1 + n) : i # 1 => i - 1 \in 1 .. n /\ all[i] = list[p[i - 1]] /\ p[i - 1] \in 1 .. n
  <2>1. 1 \in 1 .. (1 + n) /\ 1 <= 1 /\ \A i \in 1 .. (1 + n) : i # 1 => i - 1 \in 1 .. n /\ ~(i <= 1)
    BY <1>1
  <2>. QED
    BY <1>12, <1>16, <1>17, <2>1
<1> DEFINE W(i) == all[i].url.words
<1>19. W(1) = StarredName
  BY <1>3, <1>18
<1>20. \A i \in 1 .. (1 + n) : i # 1 => W(i) \in DOMAIN acc.known /\ acc.known[W(i)] = s[p[i - 1]].id
  BY <1>6, <1>18
<1> HIDE DEF W
<1>21. \A i \in 1 .. (1 + n) : W(i) \in DOMAIN acc.known
  BY <1>5, <1>19, <1>20
<1>22. ASSUME NEW i \in 1 .. (1 + n), NEW j \in 1 .. (1 + n), i # j
       PROVE  acc.known[W(i)] # acc.known[W(j)]
  <2>1. CASE i = 1
    <3>1. acc.known[W(j)] = s[p[j - 1]].id /\ p[j - 1] \in 1 .. n
      BY <1>18, <1>20, <1>22, <2>1
    <3>. QED
      BY <1>1, <1>5, <1>19, <2>1, <3>1
  <2>2. CASE j = 1
    <3>1. acc.known[W(i)] = s[p[i - 1]].id /\ p[i - 1] \in 1 .. n
      BY <1>18, <1>20, <1>22, <2>2
    <3>. QED
      BY <1>1, <1>5, <1>19, <2>2, <3>1
  <2>3. CASE i # 1 /\ j # 1
    <3>1. /\ acc.known[W(i)] = s[p[i - 1]].id /\ p[i - 1] \in 1 .. n /\ i - 1 \in 1 .. n
          /\ acc.known[W(j)] = s[p[j - 1]].id /\ p[j - 1] \in 1 .. n /\ j - 1 \in 1 .. n
      BY <1>18, <1>20, <2>3
    <3>2. i - 1 # j - 1
      BY <1>22
    <3>3. p[i - 1] # p[j - 1]
      BY <1>25, <3>1, <3>2
    <3>. QED
      BY <1>1, <3>1, <3>3
  <2>. QED
    BY <2>1, <2>2, <2>3
<1>23. OneEach(all, 1 + n, acc.known)
  BY <1>17, <1>21, <1>22 DEF OneEach, W
<1>24. 1 + n \in Nat
  BY <1>1
<1>. QED
  BY <1>5, <1>23, <1>24 DEF acc, all

-----------------------------------------------------------------------------
LEMMA QueryAddedKeeps ==
  ASSUME NEW src, NEW r, QueriesOnly(r), NEW fromFile, NEW url
  PROVE  QueriesOnly(QueryAdded(src, r, fromFile, url))
<1> DEFINE next == QueryAdded(src, r, fromFile, url)
<1>1. next = r \/ (IsQuery(url) /\ IsReader(next) /\ next.urls = Append(r.urls, url))
  BY UrlPushed DEF QueryAdded, QueriesOnly
<1>2. CASE next = r
  BY <1>2
<1>3. CASE IsQuery(url) /\ IsReader(next) /\ next.urls = Append(r.urls, url)
  <2> DEFINE m == Len(r.urls)
             longer == Append(r.urls, url)
  <2>1. m \in Nat /\ Len(longer) = m + 1 /\ longer[m + 1] = url /\ \A i \in 1 .. m : longer[i] = r.urls[i]
    BY Appended DEF QueriesOnly, IsReader
  <2>2. \A i \in 1 .. m : IsQuery(r.urls[i])
    BY DEF QueriesOnly
  <2> HIDE DEF m, longer, next
  <2>3. \A i \in 1 .. (m + 1) : i = m + 1 \/ i \in 1 .. m
    BY <2>1
  <2>4. \A i \in 1 .. (m + 1) : IsQuery(longer[i])
    BY <1>3, <2>1, <2>2, <2>3
  <2>. QED
    BY <1>3, <2>1, <2>4 DEF QueriesOnly, next, longer
<1>. QED
  BY <1>1, <1>2, <1>3

LEMMA QueriesAddedAre ==
  ASSUME NEW src, NEW fromFile, IsReader(fromFile)
  PROVE  QueriesOnly(QueriesAdded(src, Empty, fromFile))
<1> DEFINE n == Len(fromFile.urls)
           all == fromFile.urls
<1>1. n \in Nat /\ DOMAIN all = 1 .. n
  BY Appended DEF IsReader
<1> HIDE DEF n
<1> DEFINE result == Queries!Folded(Empty, all, n, src, fromFile)
<1>2. QueriesAdded(src, Empty, fromFile) = result
  BY <1>1 DEF QueriesAdded, FoldLeft, MapThenFoldSet, Queries!Folded, Queries!IsFold, Queries!Value, Queries!Highest, QueryIn, Max
<1>3. QueriesOnly(Empty)
  <2>1. Len(<<>>) = 0 /\ \A i \in 1 .. 0 : FALSE
    OBVIOUS
  <2>. QED
    BY <2>1, EmptyIsReader DEF QueriesOnly
<1>4. \A r : QueriesOnly(r) => \A k \in 1 .. n : QueriesOnly(QueryIn(r, all[k], src, fromFile))
  BY QueryAddedKeeps DEF QueryIn
<1>5. QueriesOnly(result)
  BY <1>1, <1>3, <1>4, Queries!FoldKeeps
<1>. QED
  BY <1>2, <1>5

\* The urls after the first k entries: the queries, then theirs.
Queued(r, q, entries, k) ==
  /\ IsReader(r) /\ Len(r.urls) = Len(q.urls) + k
  /\ \A i \in 1 .. Len(q.urls) : IsQuery(r.urls[i])
  /\ \A i \in 1 .. k : r.urls[Len(q.urls) + i] = entries[i].url

LEMMA EntryAddedQueues ==
  ASSUME NEW q, QueriesOnly(q), NEW entries, NEW k \in Nat, k # 0, NEW r, Queued(r, q, entries, k - 1)
  PROVE  Queued(EntryAdded(r, entries[k]), q, entries, k)
<1> DEFINE m == Len(q.urls)
           old == r.urls
           url == entries[k].url
           new == EntryAdded(r, entries[k])
           longer == Append(old, url)
<1>1. IsReader(new) /\ new.urls = longer
  BY UrlPushed DEF EntryAdded, Queued
<1>2. m \in Nat
  BY Appended DEF QueriesOnly, IsReader
<1>3. Len(old) = m + (k - 1) /\ (\A i \in 1 .. m : IsQuery(old[i])) /\ \A i \in 1 .. (k - 1) : old[m + i] = entries[i].url
  BY DEF Queued
<1>4. Len(longer) = Len(old) + 1 /\ longer[Len(old) + 1] = url /\ \A i \in 1 .. Len(old) : longer[i] = old[i]
  BY Appended DEF Queued, IsReader
<1> HIDE DEF m, old, url, new, longer
<1>5. /\ Len(old) + 1 = m + k /\ \A i \in 1 .. m : i \in 1 .. Len(old)
      /\ \A i \in 1 .. k : i = k \/ (i \in 1 .. (k - 1) /\ m + i \in 1 .. Len(old))
  BY <1>2, <1>3
<1>6. \A i \in 1 .. m : IsQuery(longer[i])
  BY <1>3, <1>4, <1>5
<1>7. \A i \in 1 .. k : longer[m + i] = entries[i].url
  BY <1>3, <1>4, <1>5 DEF url
<1>. QED
  BY <1>1, <1>4, <1>5, <1>6, <1>7 DEF Queued, m, new

LEMMA EntriesQueued ==
  ASSUME NEW q, QueriesOnly(q), NEW entries, NEW n \in Nat, DOMAIN entries = 1 .. n
  PROVE  Queued(FoldLeft(EntryAdded, q, entries), q, entries, n)
<1> DEFINE result == Entries!Folded(q, entries, n, 0, 0)
<1>2. FoldLeft(EntryAdded, q, entries) = result
  BY DEF FoldLeft, MapThenFoldSet, Entries!Folded, Entries!IsFold, Entries!Value, Entries!Highest, EntryIn, Max
<1>3. \E h : /\ h[0] = q
             /\ \A k \in 1 .. n : h[k] = EntryIn(h[k - 1], entries[k], 0, 0)
             /\ result = h[n]
  BY Entries!FoldSteps
<1> HIDE DEF result
<1>4. PICK h : /\ h[0] = q
               /\ \A k \in 1 .. n : h[k] = EntryIn(h[k - 1], entries[k], 0, 0)
               /\ result = h[n]
  BY <1>3
<1> DEFINE P == {k \in 0 .. n : Queued(h[k], q, entries, k)}
<1>5. 0 \in P
  <2> DEFINE m == Len(q.urls)
  <2>1. m \in Nat
    BY Appended DEF QueriesOnly, IsReader
  <2>2. IsReader(q) /\ \A i \in 1 .. m : IsQuery(q.urls[i])
    BY DEF QueriesOnly
  <2>3. m = m + 0 /\ \A i \in 1 .. 0 : FALSE
    BY <2>1
  <2> HIDE DEF m
  <2>4. Queued(q, q, entries, 0)
    BY <2>2, <2>3 DEF Queued, m
  <2>. QED
    BY <1>4, <2>4
<1>6. ASSUME NEW k \in 1 .. n, k - 1 \in P PROVE k \in P
  <2>1. k \in Nat /\ k # 0 /\ k \in 0 .. n
    OBVIOUS
  <2>2. Queued(EntryAdded(h[k - 1], entries[k]), q, entries, k)
    BY <1>6, <2>1, EntryAddedQueues
  <2>3. h[k] = EntryAdded(h[k - 1], entries[k])
    BY <1>4 DEF EntryIn
  <2>. QED
    BY <2>1, <2>2, <2>3
<1> HIDE DEF P
<1>7. \A k \in 0 .. n : k \in P
  BY <1>5, <1>6, StepByStep
<1>8. n \in 0 .. n
  OBVIOUS
<1>. QED
  BY <1>2, <1>4, <1>7, <1>8 DEF P

\* After a reload of ownCloud News each name on the list leads to one feed.
LEMMA ReloadLeads ==
  ASSUME UrlsInv, Reload, source = "ocnews"
  PROVE  IsFiniteSet(DOMAIN known') /\ NameLeadsToFeed'
<1> DEFINE q == QueriesAdded("ocnews", Empty, LoadedUrls(file))
           entries == OfOcnews(known, answer)
           kn == Named(known, answer).known
           r == FoldLeft(EntryAdded, q, entries)
<1>1. HasPlaces(file) /\ answer \in Answers /\ IsFiniteSet(DOMAIN known)
  BY DEF UrlsInv
<1>2. known' = kn /\ source' = "ocnews"
  BY DEF Reload
<1>3. reader' = r
  <2>1. reader' = Reread("ocnews", file, opml, known, answer)
    BY DEF Reload
  <2>2. Reread("ocnews", file, opml, known, answer) = FoldLeft(EntryAdded, q, Subscribed("ocnews", known, answer))
    BY DEF Reread, HasSpecialFeeds
  <2>3. Subscribed("ocnews", known, answer) = entries
    BY DEF Subscribed
  <2>. QED
    BY <2>1, <2>2, <2>3
<1>4. QueriesOnly(q)
  BY <1>1, LoadedUrlsIsReader, QueriesAddedAre
<1>5. IsFiniteSet(DOMAIN kn) /\ \E n \in Nat : OneEach(entries, n, kn)
  BY <1>1, OcnewsOneEach
<1>6. PICK n \in Nat : OneEach(entries, n, kn)
  BY <1>5
<1>7. /\ DOMAIN entries = 1 .. n
      /\ \A i \in 1 .. n : entries[i].url.words \in DOMAIN kn
      /\ \A i, j \in 1 .. n : i # j => kn[entries[i].url.words] # kn[entries[j].url.words]
  BY <1>6 DEF OneEach
<1> HIDE DEF q, entries, kn
<1>8. Queued(r, q, entries, n)
  BY <1>4, <1>7, EntriesQueued
<1> HIDE DEF r
<1> DEFINE m == Len(q.urls)
           urls == r.urls
<1>9. m \in Nat /\ DOMAIN urls = 1 .. Len(urls)
  BY <1>4, <1>8, Appended DEF QueriesOnly, Queued, IsReader
<1>10. Len(urls) = m + n /\ (\A i \in 1 .. m : IsQuery(urls[i])) /\ \A i \in 1 .. n : urls[m + i] = entries[i].url
  BY <1>8 DEF Queued
<1> HIDE DEF m, urls
<1>11. ASSUME NEW i \in DOMAIN urls, ~IsQuery(urls[i]) PROVE i - m \in 1 .. n /\ urls[i] = entries[i - m].url /\ i \in Int
  <2>1. i \in 1 .. (m + n) /\ i \notin 1 .. m
    BY <1>9, <1>10, <1>11
  <2>2. i - m \in 1 .. n /\ m + (i - m) = i
    BY <1>9, <2>1
  <2>. QED
    BY <1>10, <2>1, <2>2
<1>12. ASSUME NEW i \in DOMAIN urls, NEW j \in DOMAIN urls, ~IsQuery(urls[i]), ~IsQuery(urls[j]), i # j
       PROVE  urls[i].words \in DOMAIN kn /\ urls[j].words \in DOMAIN kn /\ kn[urls[i].words] # kn[urls[j].words]
  <2>1. i - m \in 1 .. n /\ urls[i] = entries[i - m].url /\ j - m \in 1 .. n /\ urls[j] = entries[j - m].url /\ i \in Int /\ j \in Int
    BY <1>11, <1>12
  <2>2. i - m # j - m
    BY <1>9, <1>12, <2>1
  <2>. QED
    BY <1>7, <2>1, <2>2
<1>13. NameLeadsToFeed'
  <2>1. NameLeadsToFeed' <=> (source' = "ocnews" =>
          \A i, j \in DOMAIN reader'.urls :
            ~IsQuery(reader'.urls[i]) /\ ~IsQuery(reader'.urls[j]) /\ i # j =>
              /\ reader'.urls[i].words \in DOMAIN known' /\ reader'.urls[j].words \in DOMAIN known'
              /\ known'[reader'.urls[i].words] # known'[reader'.urls[j].words])
    BY DEF NameLeadsToFeed
  <2>2. reader'.urls = urls /\ known' = kn
    BY <1>2, <1>3 DEF urls
  <2>. QED
    BY <1>12, <2>1, <2>2
<1>. QED
  BY <1>2, <1>5, <1>13

\* Whatever the service and the user change, a name leads to one feed.
THEOREM UrlsInvariant == UrlsSpec => []UrlsInv
<1>1. UrlsInit => UrlsInv
  <2> SUFFICES ASSUME UrlsInit, source = "ocnews"
               PROVE  /\ HasPlaces(file) /\ HasPlaces(opml) /\ answer \in Answers
                      /\ IsFiniteSet(DOMAIN known) /\ NameLeadsToFeed
    BY DEF UrlsInv
  <2>1. file \in UrlsFiles /\ opml \in Opmls /\ answer \in Answers
    BY DEF UrlsInit
  <2>2. HasPlaces(file) /\ HasPlaces(opml)
    BY <2>1, UrlsAssumption, ListHasPlaces DEF IsFile, IsDocument
  <2>3. DOMAIN known = {}
    BY DEF UrlsInit
  <2>4. IsFiniteSet(DOMAIN known)
    BY <2>3, FS_EmptySet
  <2>5. DOMAIN reader.urls = {}
    BY DEF UrlsInit, Empty
  <2>. QED
    BY <2>1, <2>2, <2>4, <2>5 DEF NameLeadsToFeed
<1>2. UrlsInv /\ [UrlsNext]_urlVars => UrlsInv'
  <2> SUFFICES ASSUME UrlsInv, [UrlsNext]_urlVars, source' = "ocnews"
               PROVE  /\ HasPlaces(file') /\ HasPlaces(opml') /\ answer' \in Answers
                      /\ IsFiniteSet(DOMAIN known') /\ NameLeadsToFeed'
    BY DEF UrlsInv, HasPlaces
  <2> DEFINE Goal == /\ HasPlaces(file') /\ HasPlaces(opml') /\ answer' \in Answers
                     /\ IsFiniteSet(DOMAIN known') /\ NameLeadsToFeed'
  <2>1. source = "ocnews"
    BY DEF UrlsNext, Reload, Restart, EditUrls, ServiceChanges, Import, ImportOwnExport, Change, urlVars
  <2>2. HasPlaces(file) /\ HasPlaces(opml) /\ answer \in Answers /\ IsFiniteSet(DOMAIN known) /\ NameLeadsToFeed
    BY <2>1 DEF UrlsInv
  <2>3. UNCHANGED <<source, known, reader>> => NameLeadsToFeed'
    BY <2>2 DEF NameLeadsToFeed
  <2>4. ASSUME Reload PROVE Goal
    BY <2>1, <2>2, <2>4, ReloadLeads DEF Reload
  <2>5. ASSUME Restart PROVE Goal
    <3>1. DOMAIN known' = {} /\ DOMAIN reader'.urls = {} /\ UNCHANGED <<file, opml, answer>>
      BY <2>5 DEF Restart, Empty
    <3>2. IsFiniteSet(DOMAIN known')
      BY <3>1, FS_EmptySet
    <3>3. NameLeadsToFeed'
      BY <3>1 DEF NameLeadsToFeed
    <3>. QED
      BY <2>2, <3>1, <3>2, <3>3
  <2>6. ASSUME EditUrls PROVE Goal
    <3>1. file' \in UrlsFiles /\ UNCHANGED <<source, known, reader, opml, answer>>
      BY <2>6 DEF EditUrls, Change
    <3>2. IsFile(file')
      BY <3>1, UrlsAssumption
    <3>3. HasPlaces(file')
      BY <3>2, ListHasPlaces DEF IsFile
    <3>. QED
      BY <2>2, <2>3, <3>1, <3>3
  <2>7. ASSUME ServiceChanges PROVE Goal
    <3>1. answer' \in Answers /\ UNCHANGED <<source, known, reader, opml, file>>
      BY <2>7 DEF ServiceChanges, Change
    <3>. QED
      BY <2>2, <2>3, <3>1
  <2>8. ASSUME Import(opml) PROVE Goal
    <3>1. file' = Written(ImportOutlines(LoadedUrls(file), opml)) /\ UNCHANGED <<source, known, reader, opml, answer>>
      BY <2>8 DEF Import, Change
    <3>2. HasPlaces(file')
      BY <2>2, <3>1, LoadedUrlsIsReader, ImportedIsReader, WrittenHasPlaces
    <3>. QED
      BY <2>2, <2>3, <3>1, <3>2
  <2>9. ASSUME ImportOwnExport PROVE Goal
    BY <2>1, <2>9 DEF ImportOwnExport
  <2>10. ASSUME UNCHANGED urlVars PROVE Goal
    BY <2>2, <2>3, <2>10 DEF urlVars
  <2> HIDE DEF Goal
  <2>11. Goal
    BY <2>4, <2>5, <2>6, <2>7, <2>8, <2>9, <2>10 DEF UrlsNext
  <2>. QED
    BY <2>11 DEF Goal
<1>. QED
  BY <1>1, <1>2, PTL DEF UrlsSpec

\* With ownCloud News each name on the list leads to one feed, and two names to
\* two feeds.
THEOREM NamesLeadToFeeds == UrlsSpec => []NameLeadsToFeed
<1>1. UrlsInv => NameLeadsToFeed
  BY DEF UrlsInv, NameLeadsToFeed
<1>. QED
  BY <1>1, UrlsInvariant, PTL

-----------------------------------------------------------------------------
(* UrlSources, imports. An import keeps what the urls file has: what is      *)
(* written of a reader can be read again, string by string and line by line, *)
(* as long as the urls are plain. For that everything in the files, the      *)
(* documents and the reader is a list.                                       *)
AreTexts(s) == IsSeq(s) /\ \A i \in 1 .. Len(s) : IsText(s[i])
PieceIn(acc, str, c, d) == acc \o Pieces(str)
LinePieces == INSTANCE Folding WITH Op <- PieceIn, Is <- AreTexts
Split(tokenline) == FoldLeft(LAMBDA acc, str : acc \o Pieces(str), <<>>, tokenline)

LEMMA ListIsSeq ==
  ASSUME NEW s, IsList(s)
  PROVE  IsSeq(s)
<1> DEFINE S == {s[k] : k \in 1 .. Len(s)}
<1>1. Len(s) \in Nat /\ s = [k \in 1 .. Len(s) |-> s[k]]
  BY DEF IsList
<1>2. s \in [1 .. Len(s) -> S]
  BY <1>1
<1> HIDE DEF S
<1>3. s \in Seq(S)
  BY <1>1, <1>2, SeqDef
<1>. QED
  BY <1>3 DEF IsSeq

LEMMA SeqIsList ==
  ASSUME NEW s, IsSeq(s)
  PROVE  IsList(s) /\ DOMAIN s = 1 .. Len(s) /\ Len(s) \in Nat
<1>1. PICK S : s \in Seq(S)
  BY DEF IsSeq
<1>2. Len(s) \in Nat /\ s \in [1 .. Len(s) -> S] /\ DOMAIN s = 1 .. Len(s)
  BY <1>1, LenProperties
<1>3. s = [k \in 1 .. Len(s) |-> s[k]]
  BY <1>2
<1>. QED
  BY <1>2, <1>3 DEF IsList

\* A function on the first n positions.
LEMMA Listed0 ==
  ASSUME NEW n \in Nat, NEW s, s = [k \in 1 .. n |-> s[k]]
  PROVE  IsSeq(s) /\ Len(s) = n
<1> DEFINE S == {s[k] : k \in 1 .. n}
<1>2. s \in [1 .. n -> S]
  OBVIOUS
<1> HIDE DEF S
<1>3. s \in Seq(S)
  BY <1>2, SeqDef
<1>4. Len(s) = n
  <2>1. DOMAIN s = 1 .. Len(s) /\ Len(s) \in Nat
    BY <1>3, LenProperties
  <2>2. DOMAIN s = 1 .. n
    BY <1>2
  <2>. QED
    BY <2>1, <2>2
<1>. QED
  BY <1>3, <1>4 DEF IsSeq

LEMMA SeqsAreEqual ==
  ASSUME NEW s, IsSeq(s), NEW t, IsSeq(t), Len(s) = Len(t), \A i \in 1 .. Len(s) : s[i] = t[i]
  PROVE  s = t
<1>1. s = [k \in 1 .. Len(s) |-> s[k]] /\ t = [k \in 1 .. Len(t) |-> t[k]]
  BY SeqIsList DEF IsList
<1>2. [k \in 1 .. Len(s) |-> s[k]] = [k \in 1 .. Len(t) |-> t[k]]
  OBVIOUS
<1>. QED
  BY <1>1, <1>2

Follows(s, a, b) ==
  /\ IsSeq(s) /\ Len(s) = Len(a) + Len(b)
  /\ \A i \in 1 .. Len(a) : s[i] = a[i]
  /\ \A i \in 1 .. Len(b) : s[Len(a) + i] = b[i]
LEMMA Joined ==
  ASSUME NEW a, IsSeq(a), NEW b, IsSeq(b)
  PROVE  Follows(a \o b, a, b)
<1>1. PICK A : a \in Seq(A)
  BY DEF IsSeq
<1>2. PICK B : b \in Seq(B)
  BY DEF IsSeq
<1> DEFINE S == A \cup B
<1>3. A \subseteq S /\ B \subseteq S
  OBVIOUS
<1> HIDE DEF S
<1>4. a \in Seq(S) /\ b \in Seq(S)
  BY <1>1, <1>2, <1>3, SeqMonotonic
<1>5. /\ a \o b \in Seq(S) /\ Len(a \o b) = Len(a) + Len(b)
      /\ \A i \in 1 .. Len(a) + Len(b) : (a \o b)[i] = IF i <= Len(a) THEN a[i] ELSE b[i - Len(a)]
  BY <1>4, ConcatProperties
<1>6. Len(a) \in Nat /\ Len(b) \in Nat
  BY <1>4, LenProperties
<1> DEFINE s == a \o b
           m == Len(a)
           n == Len(b)
<1>7. m \in Nat /\ n \in Nat /\ Len(s) = m + n /\ \A i \in 1 .. m + n : s[i] = IF i <= m THEN a[i] ELSE b[i - m]
  BY <1>5, <1>6
<1>8. IsSeq(s)
  BY <1>5 DEF IsSeq
<1> HIDE DEF s, m, n
<1>9. \A i \in 1 .. m : i \in 1 .. m + n /\ i <= m
  BY <1>7
<1>10. \A i \in 1 .. n : m + i \in 1 .. m + n /\ ~(m + i <= m) /\ (m + i) - m = i
  BY <1>7
<1>11. (\A i \in 1 .. m : s[i] = a[i]) /\ \A i \in 1 .. n : s[m + i] = b[i]
  BY <1>7, <1>9, <1>10
<1>. QED
  BY <1>7, <1>8, <1>11 DEF Follows, s, m, n

LEMMA One ==
  ASSUME NEW e
  PROVE  IsSeq(<<e>>) /\ Len(<<e>>) = 1 /\ <<e>>[1] = e
<1>1. <<e>> \in Seq({e})
  OBVIOUS
<1>. QED
  BY <1>1 DEF IsSeq

LEMMA None0 == IsSeq(<<>>) /\ Len(<<>>) = 0
<1>1. <<>> \in Seq({})
  BY EmptySeq
<1>. QED
  BY <1>1 DEF IsSeq

-----------------------------------------------------------------------------
(* Tokens.                                                                   *)
LEMMA WordIsText ==
  ASSUME NEW words, IsList(words)
  PROVE  IsText(Str(words))
<1>1. Str(words).quoted = FALSE /\ Str(words).words = words
  BY DEF Str
<1>. QED
  BY <1>1 DEF IsText

LEMMA PiecesAreTexts ==
  ASSUME NEW str, IsText(str)
  PROVE  AreTexts(Pieces(str))
<1>1. CASE str.quoted
  <2>1. Pieces(str) = <<str>>
    BY <1>1 DEF Pieces
  <2>2. \A i \in 1 .. 1 : <<str>>[i] = str
    OBVIOUS
  <2>. QED
    BY <2>1, <2>2, One DEF AreTexts
<1>2. CASE ~str.quoted
  <2> DEFINE w == str.words
             p == Pieces(str)
  <2>1. Len(w) \in Nat /\ DOMAIN w = 1 .. Len(w)
    BY DEF IsText, IsList
  <2>2. p = [k \in DOMAIN w |-> Str(<<w[k]>>)]
    BY <1>2 DEF Pieces
  <2> HIDE DEF w, p
  <2>3. p = [k \in 1 .. Len(w) |-> p[k]] /\ \A k \in 1 .. Len(w) : p[k] = Str(<<w[k]>>)
    BY <2>1, <2>2
  <2>4. IsSeq(p) /\ Len(p) = Len(w)
    BY <2>1, <2>3, Listed0
  <2>5. ASSUME NEW k \in 1 .. Len(w) PROVE IsText(p[k])
    <3>1. IsList(<<w[k]>>)
      BY One, SeqIsList
    <3>2. IsText(Str(<<w[k]>>))
      BY <3>1, WordIsText
    <3>. QED
      BY <2>3, <3>2
  <2>6. AreTexts(p)
    BY <2>4, <2>5 DEF AreTexts
  <2>. QED
    BY <2>6 DEF p
<1>. QED
  BY <1>1, <1>2 DEF IsText

LEMMA PieceKeepsTexts ==
  ASSUME NEW acc, AreTexts(acc), NEW str, IsText(str)
  PROVE  AreTexts(PieceIn(acc, str, 0, 0))
<1> DEFINE p == Pieces(str)
           s == acc \o p
<1>1. AreTexts(p)
  BY PiecesAreTexts
<1> HIDE DEF p
<1>2. Follows(s, acc, p)
  BY <1>1, Joined DEF AreTexts
<1> HIDE DEF s
<1> DEFINE m == Len(acc)
           n == Len(p)
<1>3. m \in Nat /\ n \in Nat
  BY <1>1, SeqIsList DEF AreTexts
<1>4. /\ IsSeq(s) /\ Len(s) = m + n
      /\ \A i \in 1 .. m : s[i] = acc[i]
      /\ \A i \in 1 .. n : s[m + i] = p[i]
  BY <1>2 DEF Follows
<1>5. (\A i \in 1 .. m : IsText(acc[i])) /\ \A i \in 1 .. n : IsText(p[i])
  BY <1>1 DEF AreTexts
<1> HIDE DEF m, n
<1>6. ASSUME NEW i \in 1 .. m + n PROVE IsText(s[i])
  <2>1. CASE i \in 1 .. m
    BY <1>4, <1>5, <2>1
  <2>2. CASE i \notin 1 .. m
    <3>1. i - m \in 1 .. n /\ m + (i - m) = i
      BY <1>3, <2>2
    <3>. QED
      BY <1>4, <1>5, <3>1
  <2>. QED
    BY <2>1, <2>2
<1>7. AreTexts(s)
  BY <1>4, <1>6 DEF AreTexts
<1>. QED
  BY <1>7 DEF PieceIn, s, p

LEMMA SplitFolds ==
  ASSUME NEW n \in Nat, NEW tokenline, DOMAIN tokenline = 1 .. n
  PROVE  Split(tokenline) = LinePieces!Folded(<<>>, tokenline, n, 0, 0)
BY DEF Split, FoldLeft, MapThenFoldSet, LinePieces!Folded, LinePieces!IsFold, LinePieces!Value, LinePieces!Highest, PieceIn, Max

LEMMA SplitAreTexts ==
  ASSUME NEW tokenline, IsLine(tokenline)
  PROVE  AreTexts(Split(tokenline))
<1> DEFINE n == Len(tokenline)
           result == LinePieces!Folded(<<>>, tokenline, n, 0, 0)
<1>1. n \in Nat /\ DOMAIN tokenline = 1 .. n /\ \A k \in 1 .. n : IsText(tokenline[k])
  BY DEF IsLine, IsList
<1>2. Split(tokenline) = result
  BY <1>1, SplitFolds
<1> HIDE DEF n
<1>3. AreTexts(<<>>)
  BY None0 DEF AreTexts
<1>4. \A acc : AreTexts(acc) => \A k \in 1 .. n : AreTexts(PieceIn(acc, tokenline[k], 0, 0))
  BY <1>1, PieceKeepsTexts
<1>5. AreTexts(result)
  BY <1>1, <1>3, <1>4, LinePieces!FoldKeeps
<1>. QED
  BY <1>2, <1>5

\* The tokens are the pieces up to a comment, without their quotes.
Hash == Str(<<"#">>)
TokensOf(tokens, pieces, end) ==
  /\ end \in 0 .. Len(pieces) /\ IsSeq(tokens) /\ Len(tokens) = end
  /\ \A i \in 1 .. end : tokens[i] = Str(pieces[i].words)
  /\ (\A i \in 1 .. Len(pieces) : pieces[i] # Hash) => end = Len(pieces)
LEMMA TokenizedIs ==
  ASSUME NEW tokenline, IsSeq(Split(tokenline))
  PROVE  \E end : TokensOf(Tokenized(tokenline), Split(tokenline), end)
<1> DEFINE pieces == Split(tokenline)
           comments == {i \in DOMAIN pieces : pieces[i] = Hash}
           end == IF comments = {} THEN Len(pieces) ELSE Min(comments) - 1
           tokens == Tokenized(tokenline)
<1>1. tokens = [i \in 1 .. end |-> Str(pieces[i].words)]
  BY DEF Tokenized, Split, Hash
<1>2. Len(pieces) \in Nat /\ DOMAIN pieces = 1 .. Len(pieces)
  BY SeqIsList
<1> HIDE DEF pieces, tokens
<1>3. (\A i \in 1 .. Len(pieces) : pieces[i] # Hash) => comments = {}
  BY <1>2
<1>4. comments # {} => Min(comments) \in 1 .. Len(pieces)
  <2> SUFFICES ASSUME comments # {} PROVE Min(comments) \in 1 .. Len(pieces)
    OBVIOUS
  <2>1. comments \in SUBSET Nat /\ comments \subseteq 1 .. Len(pieces)
    BY <1>2
  <2> HIDE DEF comments
  <2>2. Min(comments) \in comments
    BY <2>1, Least
  <2>. QED
    BY <2>1, <2>2
<1> HIDE DEF comments
<1>5. end \in 0 .. Len(pieces) /\ (comments = {} => end = Len(pieces)) /\ end \in Nat
  BY <1>2, <1>4
<1> HIDE DEF end
<1>6. tokens = [i \in 1 .. end |-> tokens[i]] /\ \A i \in 1 .. end : tokens[i] = Str(pieces[i].words)
  BY <1>1
<1>7. IsSeq(tokens) /\ Len(tokens) = end
  BY <1>5, <1>6, Listed0
<1>8. TokensOf(tokens, pieces, end)
  BY <1>3, <1>5, <1>6, <1>7 DEF TokensOf
<1>. QED
  BY <1>8 DEF tokens, pieces

IsTag(t) == t = Str(t.words) /\ IsList(t.words)
AreTags(ts) == IsSeq(ts) /\ \A i \in 1 .. Len(ts) : IsTag(ts[i])
LEMMA TokensAreTags ==
  ASSUME NEW tokenline, IsLine(tokenline)
  PROVE  AreTags(Tokenized(tokenline))
<1> DEFINE pieces == Split(tokenline)
           tokens == Tokenized(tokenline)
<1>1. AreTexts(pieces)
  BY SplitAreTexts
<1>2. \E end : TokensOf(tokens, pieces, end)
  BY <1>1, TokenizedIs DEF AreTexts
<1> HIDE DEF pieces, tokens
<1>3. PICK end : TokensOf(tokens, pieces, end)
  BY <1>2
<1>4. Len(pieces) \in Nat
  BY <1>1, SeqIsList DEF AreTexts
<1>5. ASSUME NEW i \in 1 .. Len(tokens) PROVE IsTag(tokens[i])
  <2>1. i \in 1 .. end /\ i \in 1 .. Len(pieces)
    BY <1>3, <1>4 DEF TokensOf
  <2>2. IsList(pieces[i].words) /\ tokens[i] = Str(pieces[i].words)
    BY <1>1, <1>3, <2>1 DEF AreTexts, IsText, TokensOf
  <2> DEFINE w == pieces[i].words
  <2> HIDE DEF w
  <2>3. tokens[i] = Str(w) /\ IsList(w)
    BY <2>2 DEF w
  <2>4. Str(w).words = w
    BY DEF Str
  <2>. QED
    BY <2>3, <2>4 DEF IsTag
<1>6. AreTags(tokens)
  BY <1>3, <1>5 DEF AreTags, TokensOf
<1>. QED
  BY <1>6 DEF tokens

-----------------------------------------------------------------------------
(* What adding a url does to a reader.                                       *)
AddsUrl(r, v, url) == IsReader(v) /\ v.urls = Append(r.urls, url)
SameTags(r, v) == \A u : TagsOf(v, u) = TagsOf(r, u)
TagsPut(r, v, url, ts) == TagsOf(v, url) = ts /\ \A u : u # url => TagsOf(v, u) = TagsOf(r, u)
WithTags(r, url, ts) == [Untagged(r, url) EXCEPT !.tags = Put(@, url, ts)]

LEMMA FieldsAfter ==
  ASSUME NEW r, IsReader(r), NEW url
  PROVE  /\ Untagged(r, url).tags = r.tags
         /\ \A ts : Tagged(r, url, ts).tags = Put(r.tags, url, ts)
         /\ \A ts : WithTags(r, url, ts).tags = Put(r.tags, url, ts)
         /\ \A ts : WithTags(r, url, ts).urls = Append(r.urls, url)
<1> DEFINE u == r.urls
           g == r.tags
           a == r.alltags
           v == Append(u, url)
<1>1. r = [urls |-> u, tags |-> g, alltags |-> a]
  BY DEF IsReader
<1> HIDE DEF u, g, a, v
<1>2. Untagged(r, url) = [urls |-> v, tags |-> g, alltags |-> a]
  BY <1>1 DEF Untagged, v, u
<1>3. ASSUME NEW ts PROVE Tagged(r, url, ts).tags = Put(g, url, ts)
  <2> DEFINE p == Put(g, url, ts)
             w == a \cup Range(ts)
  <2>1. Tagged(r, url, ts) = [r EXCEPT !.urls = v, !.tags = p, !.alltags = w]
    BY DEF Tagged, v, u, g, a
  <2> HIDE DEF p, w
  <2>2. Tagged(r, url, ts).tags = p
    BY <1>1, <2>1
  <2>. QED
    BY <2>2 DEF p
<1>4. ASSUME NEW ts PROVE WithTags(r, url, ts).tags = Put(g, url, ts) /\ WithTags(r, url, ts).urls = v
  <2> DEFINE p == Put(g, url, ts)
  <2>1. WithTags(r, url, ts) = [Untagged(r, url) EXCEPT !.tags = p]
    BY <1>2 DEF WithTags
  <2> HIDE DEF p
  <2>2. WithTags(r, url, ts) = [urls |-> v, tags |-> p, alltags |-> a]
    BY <1>2, <2>1
  <2>. QED
    BY <2>2 DEF p
<1>5. Untagged(r, url).tags = g
  BY <1>2
<1>. QED
  BY <1>3, <1>4, <1>5 DEF g, v, u

LEMMA TagsAfter ==
  ASSUME NEW r, NEW v, NEW url, NEW ts, v.tags = Put(r.tags, url, ts)
  PROVE  TagsPut(r, v, url, ts)
<1> DEFINE g == r.tags
           p == Put(g, url, ts)
<1>1. v.tags = p
  OBVIOUS
<1> HIDE DEF g
<1>0. DOMAIN p = DOMAIN g \cup {url}
  BY PutDomain
<1>2. DOMAIN p = DOMAIN g \cup {url} /\ p[url] = ts
  BY <1>0, PutValue
<1>3. \A x \in DOMAIN g : x # url => p[x] = g[x]
  BY PutOthers
<1> HIDE DEF p
<1>4. TagsOf(v, url) = ts
  BY <1>1, <1>2 DEF TagsOf
<1>5. \A u : u # url => TagsOf(v, u) = TagsOf(r, u)
  BY <1>1, <1>2, <1>3 DEF TagsOf, g
<1>. QED
  BY <1>4, <1>5 DEF TagsPut

LEMMA UntaggedIs ==
  ASSUME NEW r, IsReader(r), NEW url
  PROVE  AddsUrl(r, Untagged(r, url), url) /\ SameTags(r, Untagged(r, url))
<1> DEFINE v == Untagged(r, url)
<1>1. IsReader(v) /\ v.urls = Append(r.urls, url) /\ v.tags = r.tags
  BY UrlPushed, FieldsAfter
<1> HIDE DEF v
<1>2. AddsUrl(r, v, url) /\ SameTags(r, v)
  BY <1>1 DEF AddsUrl, SameTags, TagsOf
<1>. QED
  BY <1>2 DEF v

LEMMA TaggedIs ==
  ASSUME NEW r, IsReader(r), NEW url, NEW ts
  PROVE  AddsUrl(r, Tagged(r, url, ts), url) /\ TagsPut(r, Tagged(r, url, ts), url, ts)
<1> DEFINE v == Tagged(r, url, ts)
<1>1. IsReader(v) /\ v.urls = Append(r.urls, url) /\ v.tags = Put(r.tags, url, ts)
  BY UrlPushed, FieldsAfter
<1> HIDE DEF v
<1>2. AddsUrl(r, v, url) /\ TagsPut(r, v, url, ts)
  BY <1>1, TagsAfter DEF AddsUrl
<1>. QED
  BY <1>2 DEF v

LEMMA WithTagsIs ==
  ASSUME NEW r, IsReader(r), NEW url, NEW ts
  PROVE  AddsUrl(r, WithTags(r, url, ts), url) /\ TagsPut(r, WithTags(r, url, ts), url, ts)
<1> DEFINE v == WithTags(r, url, ts)
           t == Put(Untagged(r, url).tags, url, ts)
<1>1. IsReader([Untagged(r, url) EXCEPT !.tags = t])
  BY UrlPushed
<1>2. IsReader(v)
  BY <1>1 DEF WithTags
<1>3. v.urls = Append(r.urls, url) /\ v.tags = Put(r.tags, url, ts)
  <2>1. \A x : WithTags(r, url, x).urls = Append(r.urls, url)
    BY FieldsAfter
  <2>2. \A x : WithTags(r, url, x).tags = Put(r.tags, url, x)
    BY FieldsAfter
  <2>. QED
    BY <2>1, <2>2
<1> HIDE DEF v
<1>4. AddsUrl(r, v, url) /\ TagsPut(r, v, url, ts)
  BY <1>2, <1>3, TagsAfter DEF AddsUrl
<1>. QED
  BY <1>4 DEF v

\* Its urls are strings and its tags words.
Readable(r) ==
  /\ IsReader(r) /\ \A i \in 1 .. Len(r.urls) : IsText(r.urls[i])
  /\ \A u : AreTags(TagsOf(r, u))

LEMMA EmptyIsReadable == Readable(Empty)
<1>1. IsReader(Empty) /\ Empty.urls = <<>>
  BY EmptyIsReader
<1>2. Empty.tags = <<>>
  BY DEF Empty
<1>3. \A u : TagsOf(Empty, u) = <<>>
  BY <1>2 DEF TagsOf
<1>4. AreTags(<<>>)
  BY None0 DEF AreTags
<1>. QED
  BY <1>1, <1>3, <1>4, None0 DEF Readable

LEMMA UrlsAfter ==
  ASSUME NEW r, NEW v, NEW url, AddsUrl(r, v, url), IsReader(r)
  PROVE  /\ Len(v.urls) = Len(r.urls) + 1 /\ Len(r.urls) \in Nat /\ v.urls[Len(r.urls) + 1] = url
         /\ \A i \in 1 .. Len(r.urls) : v.urls[i] = r.urls[i]
BY Appended DEF AddsUrl, IsReader

LEMMA AddedIsReadable ==
  ASSUME NEW r, Readable(r), NEW v, NEW url, IsText(url), AddsUrl(r, v, url),
         SameTags(r, v) \/ \E ts : AreTags(ts) /\ TagsPut(r, v, url, ts)
  PROVE  Readable(v)
<1> DEFINE m == Len(r.urls)
<1>1. /\ Len(v.urls) = m + 1 /\ m \in Nat /\ v.urls[m + 1] = url
      /\ \A i \in 1 .. m : v.urls[i] = r.urls[i]
  BY UrlsAfter DEF Readable
<1>2. \A i \in 1 .. m : IsText(r.urls[i])
  BY DEF Readable
<1> HIDE DEF m
<1>3. ASSUME NEW i \in 1 .. m + 1 PROVE IsText(v.urls[i])
  <2>1. i \in 1 .. m \/ i = m + 1
    BY <1>1
  <2>. QED
    BY <1>1, <1>2, <2>1
<1>4. ASSUME NEW u PROVE AreTags(TagsOf(v, u))
  <2>1. AreTags(TagsOf(r, u))
    BY DEF Readable
  <2>. QED
    BY <2>1 DEF SameTags, TagsPut
<1>5. IsReader(v)
  BY DEF AddsUrl
<1>. QED
  BY <1>1, <1>3, <1>4, <1>5 DEF Readable

-----------------------------------------------------------------------------
(* A urls file that is read.                                                 *)
LEMMA TagIsText ==
  ASSUME NEW t, IsTag(t)
  PROVE  IsText(t)
<1> DEFINE w == t.words
<1>1. t = Str(w) /\ IsList(w)
  BY DEF IsTag
<1> HIDE DEF w
<1>. QED
  BY <1>1, WordIsText

LEMMA TailOfTags ==
  ASSUME NEW ts, AreTags(ts), ts # <<>>
  PROVE  /\ AreTags(Tail(ts)) /\ IsTag(ts[1]) /\ Len(Tail(ts)) = Len(ts) - 1 /\ Len(ts) \in Nat \ {0}
         /\ \A i \in 1 .. Len(ts) - 1 : Tail(ts)[i] = ts[i + 1]
<1>1. IsSeq(ts) /\ \A i \in 1 .. Len(ts) : IsTag(ts[i])
  BY DEF AreTags
<1>2. PICK S : ts \in Seq(S)
  BY <1>1 DEF IsSeq
<1>3. Len(ts) \in Nat \ {0}
  BY <1>2, EmptySeq
<1>4. /\ Tail(ts) \in Seq(S) /\ Len(Tail(ts)) = Len(ts) - 1
      /\ \A i \in 1 .. Len(Tail(ts)) : Tail(ts)[i] = ts[i + 1]
  BY <1>2, HeadTailProperties
<1>5. \A i \in 1 .. Len(ts) - 1 : i + 1 \in 1 .. Len(ts)
  BY <1>3
<1>6. IsSeq(Tail(ts))
  BY <1>4 DEF IsSeq
<1>7. 1 \in 1 .. Len(ts)
  BY <1>3
<1>8. \A i \in 1 .. Len(ts) - 1 : Tail(ts)[i] = ts[i + 1]
  BY <1>4
<1>9. AreTags(Tail(ts))
  BY <1>1, <1>4, <1>5, <1>6, <1>8 DEF AreTags
<1>. QED
  BY <1>1, <1>3, <1>4, <1>7, <1>8, <1>9

LEMMA LineKeepsReadable ==
  ASSUME NEW r, Readable(r), NEW tokenline, IsLine(tokenline)
  PROVE  Readable(LineIn(r, tokenline, 0, 0))
<1> DEFINE tokens == Tokenized(tokenline)
<1>1. AreTags(tokens)
  BY TokensAreTags
<1>2. LineIn(r, tokenline, 0, 0) =
        IF tokens = <<>> THEN r ELSE IF Len(tokens) = 1 THEN Untagged(r, tokens[1]) ELSE Tagged(r, tokens[1], Tail(tokens))
  BY DEF LineIn, AddLine
<1> HIDE DEF tokens
<1>3. IsReader(r)
  BY DEF Readable
<1>4. ASSUME tokens # <<>>
      PROVE  Readable(Untagged(r, tokens[1])) /\ Readable(Tagged(r, tokens[1], Tail(tokens)))
  <2> DEFINE url == tokens[1]
             ts == Tail(tokens)
  <2>1. AreTags(ts) /\ IsTag(url)
    BY <1>1, <1>4, TailOfTags
  <2> HIDE DEF url, ts
  <2>2. IsText(url)
    BY <2>1, TagIsText
  <2>3. AddsUrl(r, Untagged(r, url), url) /\ SameTags(r, Untagged(r, url))
    BY <1>3, UntaggedIs
  <2>4. AddsUrl(r, Tagged(r, url, ts), url) /\ TagsPut(r, Tagged(r, url, ts), url, ts)
    BY <1>3, TaggedIs
  <2>5. Readable(Untagged(r, url))
    BY <2>2, <2>3, AddedIsReadable
  <2>6. Readable(Tagged(r, url, ts))
    BY <2>1, <2>2, <2>4, AddedIsReadable
  <2>. QED
    BY <2>5, <2>6 DEF url, ts
<1>. QED
  BY <1>2, <1>4

LEMMA LoadedFolds ==
  ASSUME NEW n \in Nat, NEW lines, DOMAIN lines = 1 .. n
  PROVE  LoadedUrls(lines) = UrlLines!Folded(Empty, lines, n, 0, 0)
BY DEF LoadedUrls, FoldLeft, MapThenFoldSet, UrlLines!Folded, UrlLines!IsFold, UrlLines!Value, UrlLines!Highest, LineIn, Max

LEMMA LoadedIsReadable ==
  ASSUME NEW lines, IsFile(lines)
  PROVE  Readable(LoadedUrls(lines))
<1> DEFINE n == Len(lines)
           result == UrlLines!Folded(Empty, lines, n, 0, 0)
<1>1. n \in Nat /\ DOMAIN lines = 1 .. n /\ \A k \in 1 .. n : IsLine(lines[k])
  BY DEF IsFile, IsList
<1>2. LoadedUrls(lines) = result
  BY <1>1, LoadedFolds
<1> HIDE DEF n
<1>3. \E h : /\ h[0] = Empty
             /\ \A k \in 1 .. n : h[k] = LineIn(h[k - 1], lines[k], 0, 0)
             /\ result = h[n]
  BY <1>1, UrlLines!FoldSteps
<1> HIDE DEF result
<1>4. PICK h : /\ h[0] = Empty
               /\ \A k \in 1 .. n : h[k] = LineIn(h[k - 1], lines[k], 0, 0)
               /\ result = h[n]
  BY <1>3
<1> DEFINE P == {k \in 0 .. n : Readable(h[k])}
<1>5. 0 \in P
  BY <1>1, <1>4, EmptyIsReadable
<1>6. ASSUME NEW k \in 1 .. n, k - 1 \in P PROVE k \in P
  <2>1. Readable(h[k - 1]) /\ k \in 0 .. n
    BY <1>1, <1>6
  <2>2. Readable(LineIn(h[k - 1], lines[k], 0, 0))
    BY <1>1, <2>1, LineKeepsReadable
  <2>. QED
    BY <1>4, <2>1, <2>2
<1> HIDE DEF P
<1>7. n \in P
  BY <1>1, <1>5, <1>6, StepByStep
<1>. QED
  BY <1>2, <1>4, <1>7 DEF P

-----------------------------------------------------------------------------
(* A urls file that is written and read again.                               *)
QuotedTag(t) == [t EXCEPT !.quoted = TRUE]
WrittenLine(url, ts) == <<url>> \o [k \in DOMAIN ts |-> [ts[k] EXCEPT !.quoted = TRUE]]
LineHas(w, url, ts) ==
  /\ IsSeq(w) /\ Len(w) = Len(ts) + 1 /\ Len(ts) \in Nat /\ w[1] = url
  /\ \A k \in 1 .. Len(ts) : w[k + 1].quoted = TRUE /\ w[k + 1].words = ts[k].words
  /\ \A k \in 1 .. Len(w) : k = 1 \/ (k - 1 \in 1 .. Len(ts) /\ (k - 1) + 1 = k)

LEMMA MarkedIs ==
  ASSUME NEW t, IsTag(t)
  PROVE  QuotedTag(t).quoted = TRUE /\ QuotedTag(t).words = t.words
<1> DEFINE w == t.words
<1>1. t = Str(w)
  BY DEF IsTag
<1> HIDE DEF w
<1>2. \A x, y : LET v == [[quoted |-> x, words |-> w] EXCEPT !.quoted = y]
               IN  v.quoted = y /\ v.words = w
  OBVIOUS
<1>3. QuotedTag(t).quoted = TRUE /\ QuotedTag(t).words = w
  BY <1>1, <1>2 DEF QuotedTag, Str
<1>4. t.words = w
  BY DEF w
<1>. QED
  BY <1>3, <1>4

LEMMA WrittenLineIs ==
  ASSUME NEW url, NEW ts, AreTags(ts)
  PROVE  LineHas(WrittenLine(url, ts), url, ts)
<1> DEFINE marks == [k \in DOMAIN ts |-> QuotedTag(ts[k])]
           first == <<url>>
           w == first \o marks
           n == Len(ts)
<1>1. IsSeq(ts) /\ (\A k \in 1 .. n : IsTag(ts[k])) /\ n \in Nat /\ DOMAIN ts = 1 .. n
  BY SeqIsList DEF AreTags
<1>2. WrittenLine(url, ts) = w
  BY DEF WrittenLine, QuotedTag
<1>3. marks = [k \in 1 .. n |-> marks[k]] /\ \A k \in 1 .. n : marks[k] = QuotedTag(ts[k])
  BY <1>1
<1> HIDE DEF n
<1>4. IsSeq(marks) /\ Len(marks) = n
  <2> HIDE DEF marks
  <2>. QED
    BY <1>1, <1>3, Listed0
<1>5. ASSUME NEW k \in 1 .. n PROVE marks[k].quoted = TRUE /\ marks[k].words = ts[k].words
  <2>1. IsTag(ts[k]) /\ marks[k] = QuotedTag(ts[k])
    BY <1>1, <1>3
  <2>. QED
    BY <2>1, MarkedIs
<1>6. IsSeq(first) /\ Len(first) = 1 /\ first[1] = url
  BY One
<1> HIDE DEF marks, first
<1>7. Follows(w, first, marks)
  BY <1>4, <1>6, Joined
<1> HIDE DEF w
<1>8. /\ IsSeq(w) /\ Len(w) = 1 + n /\ (\A i \in 1 .. 1 : w[i] = first[i])
      /\ \A i \in 1 .. n : w[1 + i] = marks[i]
  BY <1>4, <1>6, <1>7 DEF Follows
<1>9. 1 \in 1 .. 1 /\ 1 + n = n + 1 /\ \A i \in 1 .. n : 1 + i = i + 1
  BY <1>1
<1>10. w[1] = url
  BY <1>6, <1>8, <1>9
<1>11. \A i \in 1 .. n : w[i + 1] = marks[i]
  BY <1>8, <1>9
<1>12. \A k \in 1 .. n + 1 : k = 1 \/ (k - 1 \in 1 .. n /\ (k - 1) + 1 = k)
  BY <1>1
<1>13. Len(w) = n + 1
  BY <1>8, <1>9
<1>14. \A k \in 1 .. n : w[k + 1].quoted = TRUE /\ w[k + 1].words = ts[k].words
  BY <1>5, <1>11
<1>15. \A k \in 1 .. Len(w) : k = 1 \/ (k - 1 \in 1 .. n /\ (k - 1) + 1 = k)
  BY <1>12, <1>13
<1>. QED
  BY <1>1, <1>2, <1>8, <1>10, <1>13, <1>14, <1>15 DEF LineHas, n

LEMMA WrittenLineIsLine ==
  ASSUME NEW url, IsText(url), NEW ts, AreTags(ts)
  PROVE  IsLine(WrittenLine(url, ts))
<1> DEFINE w == WrittenLine(url, ts)
<1>1. LineHas(w, url, ts)
  BY WrittenLineIs
<1> HIDE DEF w
<1>2. IsSeq(w)
  BY <1>1 DEF LineHas
<1>3. IsList(w) /\ DOMAIN w = 1 .. Len(w)
  BY <1>2, SeqIsList
<1>4. ASSUME NEW k \in 1 .. Len(w) PROVE IsText(w[k])
  <2>1. CASE k = 1
    BY <1>1, <2>1 DEF LineHas
  <2>2. CASE k # 1
    <3>1. k - 1 \in 1 .. Len(ts) /\ (k - 1) + 1 = k
      BY <1>1, <2>2 DEF LineHas
    <3>2. w[k].quoted = TRUE /\ w[k].words = ts[k - 1].words
      BY <1>1, <3>1 DEF LineHas
    <3>3. IsList(ts[k - 1].words)
      BY <3>1 DEF AreTags, IsTag
    <3>. QED
      BY <3>2, <3>3 DEF IsText
  <2>. QED
    BY <2>1, <2>2
<1>5. IsLine(w)
  BY <1>3, <1>4 DEF IsLine
<1>. QED
  BY <1>5 DEF w

LEMMA WrittenIs ==
  ASSUME NEW r, IsReader(r)
  PROVE  /\ IsSeq(Written(r)) /\ Len(Written(r)) = Len(r.urls) /\ DOMAIN Written(r) = 1 .. Len(r.urls)
         /\ Len(r.urls) \in Nat
         /\ \A i \in 1 .. Len(r.urls) : Written(r)[i] = WrittenLine(r.urls[i], TagsOf(r, r.urls[i]))
<1> DEFINE w == Written(r)
           n == Len(r.urls)
<1>1. n \in Nat /\ DOMAIN r.urls = 1 .. n
  BY SeqIsList DEF IsReader
<1>2. w = [i \in 1 .. n |-> WrittenLine(r.urls[i], TagsOf(r, r.urls[i]))]
  BY <1>1 DEF Written, WrittenLine
<1> HIDE DEF w, n
<1>3. DOMAIN w = 1 .. n /\ w = [i \in 1 .. n |-> w[i]] /\ \A i \in 1 .. n : w[i] = WrittenLine(r.urls[i], TagsOf(r, r.urls[i]))
  BY <1>2
<1>4. IsSeq(w) /\ Len(w) = n
  BY <1>1, <1>3, Listed0
<1>. QED
  BY <1>1, <1>3, <1>4 DEF w, n

LEMMA WrittenIsFile ==
  ASSUME NEW r, Readable(r)
  PROVE  IsFile(Written(r))
<1> DEFINE w == Written(r)
<1>1. /\ IsSeq(w) /\ DOMAIN w = 1 .. Len(r.urls)
      /\ \A i \in 1 .. Len(r.urls) : w[i] = WrittenLine(r.urls[i], TagsOf(r, r.urls[i]))
  BY WrittenIs DEF Readable
<1> HIDE DEF w
<1>2. IsList(w)
  BY <1>1, SeqIsList
<1>3. ASSUME NEW i \in 1 .. Len(r.urls) PROVE IsLine(w[i])
  <2>1. IsText(r.urls[i]) /\ AreTags(TagsOf(r, r.urls[i]))
    BY DEF Readable
  <2>2. IsLine(WrittenLine(r.urls[i], TagsOf(r, r.urls[i])))
    BY <2>1, WrittenLineIsLine
  <2>. QED
    BY <1>1, <2>2
<1>4. IsFile(w)
  BY <1>1, <1>2, <1>3 DEF IsFile
<1>. QED
  BY <1>4 DEF w

\* A url of one word that begins no comment.
PlainUrl(url) == IsTag(url) /\ Len(url.words) = 1 /\ url = Str(<<url.words[1]>>) /\ url # Hash

LEMMA PlainPieces ==
  ASSUME NEW url, PlainUrl(url)
  PROVE  Pieces(url) = <<url>>
<1> DEFINE w == url.words
           p == [k \in DOMAIN w |-> Str(<<w[k]>>)]
           q == <<url>>
<1>1. url.quoted = FALSE
  <2>1. url = Str(w)
    BY DEF PlainUrl, IsTag
  <2> HIDE DEF w
  <2>. QED
    BY <2>1 DEF Str
<1>2. Pieces(url) = p
  BY <1>1 DEF Pieces
<1>3. Len(w) = 1 /\ url = Str(<<w[1]>>) /\ DOMAIN w = 1 .. 1
  BY DEF PlainUrl, IsTag, IsList
<1> HIDE DEF w
<1>4. p = [k \in 1 .. 1 |-> p[k]] /\ p[1] = url
  BY <1>3
<1>5. IsSeq(q) /\ Len(q) = 1 /\ q[1] = url
  BY One
<1> HIDE DEF p, q
<1>6. IsSeq(p) /\ Len(p) = 1
  BY <1>4, Listed0
<1>7. \A i \in 1 .. Len(p) : p[i] = q[i]
  <2>1. \A i \in 1 .. Len(p) : i = 1
    BY <1>6
  <2>. QED
    BY <1>4, <1>5, <2>1
<1>8. p = q
  BY <1>5, <1>6, <1>7, SeqsAreEqual
<1>. QED
  BY <1>2, <1>8 DEF q

LEMMA PlainLineSplits ==
  ASSUME NEW url, PlainUrl(url), NEW ts, NEW w, LineHas(w, url, ts)
  PROVE  Split(w) = w
<1> DEFINE n == Len(w)
           result == LinePieces!Folded(<<>>, w, n, 0, 0)
<1>1. n \in Nat /\ DOMAIN w = 1 .. n /\ IsSeq(w)
  BY SeqIsList DEF LineHas
<1>2. Split(w) = result
  BY <1>1, SplitFolds
<1>3. ASSUME NEW k \in 1 .. n PROVE Pieces(w[k]) = <<w[k]>>
  <2>1. CASE k = 1
    BY <2>1, PlainPieces DEF LineHas
  <2>2. CASE k # 1
    <3>1. k - 1 \in 1 .. Len(ts) /\ (k - 1) + 1 = k
      BY <2>2 DEF LineHas
    <3>2. w[k].quoted = TRUE
      BY <3>1 DEF LineHas
    <3>. QED
      BY <3>2 DEF Pieces
  <2>. QED
    BY <2>1, <2>2
<1> HIDE DEF n
<1>4. \E h : /\ h[0] = <<>>
             /\ \A k \in 1 .. n : h[k] = PieceIn(h[k - 1], w[k], 0, 0)
             /\ result = h[n]
  BY SMTT(20), <1>1, LinePieces!FoldSteps
<1> HIDE DEF result
<1>5. PICK h : /\ h[0] = <<>>
               /\ \A k \in 1 .. n : h[k] = PieceIn(h[k - 1], w[k], 0, 0)
               /\ result = h[n]
  BY <1>4
<1> DEFINE P == {k \in 0 .. n : IsSeq(h[k]) /\ Len(h[k]) = k /\ \A i \in 1 .. k : h[k][i] = w[i]}
<1>6. 0 \in P
  <2>1. \A i \in 1 .. 0 : FALSE
    OBVIOUS
  <2>. QED
    BY <1>1, <1>5, <2>1, None0
<1>7. ASSUME NEW k \in 1 .. n, k - 1 \in P PROVE k \in P
  <2> DEFINE a == h[k - 1]
             b == <<w[k]>>
             s == a \o b
             m == k - 1
  <2>1. IsSeq(a) /\ Len(a) = m /\ \A i \in 1 .. m : a[i] = w[i]
    BY <1>7
  <2>2. IsSeq(b) /\ Len(b) = 1 /\ b[1] = w[k]
    BY One
  <2>3. h[k] = s
    BY <1>3, <1>5 DEF PieceIn
  <2> HIDE DEF a, b, P
  <2>4. Follows(s, a, b)
    BY <2>1, <2>2, Joined
  <2> HIDE DEF s
  <2>5. IsSeq(s) /\ Len(s) = m + 1 /\ (\A i \in 1 .. m : s[i] = a[i]) /\ \A i \in 1 .. 1 : s[m + i] = b[i]
    BY <2>1, <2>2, <2>4 DEF Follows
  <2>6. m + 1 = k /\ k \in 0 .. n /\ 1 \in 1 .. 1 /\ \A i \in 1 .. k : i \in 1 .. m \/ i = k
    BY <1>1
  <2>7. s[k] = w[k]
    BY <2>2, <2>5, <2>6
  <2> HIDE DEF m
  <2>8. \A i \in 1 .. k : s[i] = w[i]
    BY <2>1, <2>5, <2>6, <2>7
  <2>9. IsSeq(s) /\ Len(s) = k
    BY <2>5, <2>6
  <2>. QED
    BY <2>3, <2>6, <2>8, <2>9 DEF P
<1> HIDE DEF P
<1>8. n \in P
  BY <1>1, <1>6, <1>7, StepByStep
<1>9. IsSeq(result) /\ Len(result) = n /\ \A i \in 1 .. n : result[i] = w[i]
  BY <1>5, <1>8 DEF P
<1>10. result = w
  BY <1>1, <1>9, SeqsAreEqual DEF n
<1>. QED
  BY <1>2, <1>10

\* The tokens of a line that was written are the url and its tags.
LEMMA PlainTokens ==
  ASSUME NEW url, PlainUrl(url), NEW ts, AreTags(ts)
  PROVE  LET tokens == Tokenized(WrittenLine(url, ts))
         IN  /\ AreTags(tokens) /\ Len(tokens) = Len(ts) + 1 /\ Len(ts) \in Nat /\ tokens[1] = url
             /\ \A k \in 1 .. Len(ts) : tokens[k + 1] = ts[k]
<1> DEFINE w == WrittenLine(url, ts)
           tokens == Tokenized(w)
           n == Len(ts)
<1>0. IsText(url)
  BY TagIsText DEF PlainUrl
<1>1. LineHas(w, url, ts) /\ IsLine(w)
  BY <1>0, WrittenLineIs, WrittenLineIsLine
<1>2. AreTags(tokens)
  BY <1>1, TokensAreTags
<1> HIDE DEF w
<1>3. Split(w) = w
  BY <1>1, PlainLineSplits
<1>4. IsSeq(w) /\ Len(w) = n + 1 /\ n \in Nat /\ w[1] = url
  BY <1>1 DEF LineHas
<1>5. \E end : TokensOf(tokens, w, end)
  <2>1. IsSeq(Split(w))
    BY <1>3, <1>4
  <2>2. \E end : TokensOf(tokens, Split(w), end)
    BY <2>1, TokenizedIs
  <2>. QED
    BY <1>3, <2>2
<1> HIDE DEF tokens
<1>6. PICK end : TokensOf(tokens, w, end)
  BY <1>5
<1>7. ASSUME NEW i \in 1 .. Len(w) PROVE w[i] # Hash
  <2>1. CASE i = 1
    BY <1>4, <2>1 DEF PlainUrl
  <2>2. CASE i # 1
    <3>1. i - 1 \in 1 .. Len(ts) /\ (i - 1) + 1 = i
      BY <1>1, <2>2 DEF LineHas
    <3>2. w[i].quoted = TRUE
      BY <1>1, <3>1 DEF LineHas
    <3> DEFINE c == <<"#">>
    <3>3. Hash = Str(c)
      BY DEF Hash
    <3> HIDE DEF c
    <3>4. Hash.quoted = FALSE
      BY <3>3 DEF Str
    <3>. QED
      BY <3>2, <3>4
  <2>. QED
    BY <2>1, <2>2
<1>8. end = n + 1
  BY <1>4, <1>6, <1>7 DEF TokensOf
<1>9. Len(tokens) = n + 1 /\ \A i \in 1 .. n + 1 : tokens[i] = Str(w[i].words)
  BY <1>6, <1>8 DEF TokensOf
<1> HIDE DEF n
<1>10. 1 \in 1 .. n + 1 /\ \A k \in 1 .. n : k + 1 \in 1 .. n + 1
  BY <1>4
<1>11. tokens[1] = url
  <2>1. url = Str(url.words)
    BY DEF PlainUrl, IsTag
  <2>. QED
    BY <1>4, <1>9, <1>10, <2>1
<1>12. ASSUME NEW k \in 1 .. n PROVE tokens[k + 1] = ts[k]
  <2>1. tokens[k + 1] = Str(w[k + 1].words)
    BY <1>9, <1>10
  <2>2. w[k + 1].words = ts[k].words
    BY <1>1 DEF LineHas, n
  <2>3. ts[k] = Str(ts[k].words)
    BY DEF AreTags, IsTag, n
  <2>. QED
    BY <2>1, <2>2, <2>3
<1>. QED
  BY <1>2, <1>4, <1>9, <1>11, <1>12 DEF tokens, w, n

\* What a line of a written file adds.
GivesBack(a, v, url, ts) ==
  AddsUrl(a, v, url) /\ (ts = <<>> => SameTags(a, v)) /\ (ts # <<>> => TagsPut(a, v, url, ts))
LEMMA LineGivesBack ==
  ASSUME NEW a, IsReader(a), NEW url, PlainUrl(url), NEW ts, AreTags(ts)
  PROVE  GivesBack(a, LineIn(a, WrittenLine(url, ts), 0, 0), url, ts)
<1> DEFINE w == WrittenLine(url, ts)
           tokens == Tokenized(w)
           n == Len(ts)
           rest == Tail(tokens)
<1>1. /\ AreTags(tokens) /\ Len(tokens) = n + 1 /\ n \in Nat /\ tokens[1] = url
      /\ \A k \in 1 .. n : tokens[k + 1] = ts[k]
  BY PlainTokens
<1>2. LineIn(a, w, 0, 0) = IF tokens = <<>> THEN a ELSE IF Len(tokens) = 1 THEN Untagged(a, tokens[1]) ELSE Tagged(a, tokens[1], rest)
  BY DEF LineIn, AddLine
<1> HIDE DEF tokens, w
<1>3. tokens # <<>>
  BY <1>1, None0
<1>4. /\ AreTags(rest) /\ Len(rest) = Len(tokens) - 1
      /\ \A i \in 1 .. Len(tokens) - 1 : rest[i] = tokens[i + 1]
  BY <1>1, <1>3, TailOfTags
<1> HIDE DEF rest
<1>5. IsSeq(ts) /\ (ts = <<>> => n = 0) /\ (n = 0 => ts = <<>>)
  <2>1. IsSeq(ts)
    BY DEF AreTags
  <2>2. n = 0 => ts = <<>>
    <3>1. IsSeq(<<>>) /\ Len(<<>>) = 0
      BY None0
    <3>2. ASSUME n = 0 PROVE ts = <<>>
      <4>1. \A i \in 1 .. Len(ts) : FALSE
        BY <3>2
      <4>2. Len(ts) = Len(<<>>)
        BY <3>1, <3>2
      <4> DEFINE e == <<>>
      <4> HIDE DEF e
      <4>3. IsSeq(e) /\ Len(ts) = Len(e) /\ \A i \in 1 .. Len(ts) : ts[i] = e[i]
        BY <3>1, <4>1, <4>2 DEF e
      <4>4. ts = e
        BY <2>1, <4>3, SeqsAreEqual
      <4>. QED
        BY <4>4 DEF e
    <3>. QED
      BY <3>2
  <2>. QED
    BY <2>1, <2>2, None0
<1> HIDE DEF n
<1>6. (n + 1) - 1 = n
  BY <1>1
<1>7. rest = ts
  <2>1. IsSeq(rest) /\ Len(rest) = n /\ \A i \in 1 .. n : rest[i] = ts[i]
    BY <1>1, <1>4, <1>6 DEF AreTags
  <2>. QED
    BY <1>5, <2>1, SeqsAreEqual DEF n
<1>8. CASE ts = <<>>
  <2>1. Len(tokens) = 1
    BY <1>1, <1>5, <1>8
  <2>2. LineIn(a, w, 0, 0) = Untagged(a, url)
    BY <1>1, <1>2, <1>3, <2>1
  <2>3. AddsUrl(a, Untagged(a, url), url) /\ SameTags(a, Untagged(a, url))
    BY UntaggedIs
  <2>. QED
    BY <1>8, <2>2, <2>3 DEF GivesBack, w
<1>9. CASE ts # <<>>
  <2>1. Len(tokens) # 1
    BY <1>1, <1>5, <1>9
  <2>2. LineIn(a, w, 0, 0) = Tagged(a, url, ts)
    BY <1>1, <1>2, <1>3, <1>7, <2>1
  <2>3. AddsUrl(a, Tagged(a, url, ts), url) /\ TagsPut(a, Tagged(a, url, ts), url, ts)
    BY TaggedIs
  <2>. QED
    BY <1>9, <2>2, <2>3 DEF GivesBack, w
<1>. QED
  BY <1>8, <1>9

\* The first k urls of r are back, with their tags.
Loading(a, r, k) ==
  /\ IsReader(a) /\ Len(a.urls) = k
  /\ \A j \in 1 .. k : a.urls[j] = r.urls[j] /\ TagsOf(a, r.urls[j]) = TagsOf(r, r.urls[j])
  /\ \A u : TagsOf(a, u) = <<>> \/ TagsOf(a, u) = TagsOf(r, u)
LEMMA LoadingGoesOn ==
  ASSUME NEW r, NEW k \in Nat \ {0}, NEW a, Loading(a, r, k - 1), NEW url, url = r.urls[k],
         NEW v, GivesBack(a, v, url, TagsOf(r, url))
  PROVE  Loading(v, r, k)
<1> DEFINE m == k - 1
           ts == TagsOf(r, url)
<1>1. m \in Nat /\ m + 1 = k /\ \A j \in 1 .. k : j \in 1 .. m \/ j = k
  OBVIOUS
<1>2. IsReader(a) /\ Len(a.urls) = m
  BY DEF Loading
<1>3. AddsUrl(a, v, url)
  BY DEF GivesBack
<1> HIDE DEF m
<1>4. IsReader(v) /\ Len(v.urls) = m + 1 /\ v.urls[m + 1] = url /\ \A i \in 1 .. m : v.urls[i] = a.urls[i]
  <2>1. /\ Len(v.urls) = Len(a.urls) + 1 /\ v.urls[Len(a.urls) + 1] = url
        /\ \A i \in 1 .. Len(a.urls) : v.urls[i] = a.urls[i]
    BY <1>2, <1>3, UrlsAfter
  <2>. QED
    BY <1>2, <1>3, <2>1 DEF AddsUrl
<1>5. \A j \in 1 .. m : a.urls[j] = r.urls[j] /\ TagsOf(a, r.urls[j]) = TagsOf(r, r.urls[j])
  BY DEF Loading, m
<1>6. \A u : TagsOf(a, u) = <<>> \/ TagsOf(a, u) = TagsOf(r, u)
  BY DEF Loading
<1>7. \A u : IF u = url THEN TagsOf(v, u) = ts ELSE TagsOf(v, u) = TagsOf(a, u)
  <2>1. CASE ts = <<>>
    BY <1>6, <2>1 DEF GivesBack, SameTags
  <2>2. CASE ts # <<>>
    BY <2>2 DEF GivesBack, TagsPut
  <2>. QED
    BY <2>1, <2>2
<1> HIDE DEF ts
<1>8. \A u : TagsOf(v, u) = <<>> \/ TagsOf(v, u) = TagsOf(r, u)
  BY <1>6, <1>7 DEF ts
<1>9. ASSUME NEW j \in 1 .. k PROVE v.urls[j] = r.urls[j] /\ TagsOf(v, r.urls[j]) = TagsOf(r, r.urls[j])
  <2>1. CASE j \in 1 .. m
    <3>1. v.urls[j] = r.urls[j] /\ TagsOf(a, r.urls[j]) = TagsOf(r, r.urls[j])
      BY <1>4, <1>5, <2>1
    <3>. QED
      BY <1>7, <3>1 DEF ts
  <2>2. CASE j = k
    BY <1>1, <1>4, <1>7, <2>2 DEF ts
  <2>. QED
    BY <1>1, <2>1, <2>2
<1>10. Len(v.urls) = k
  BY <1>1, <1>4
<1>. QED
  BY <1>4, <1>8, <1>9, <1>10 DEF Loading

\* The same urls with the same tags.
Same(r, v) == v.urls = r.urls /\ \A i \in 1 .. Len(r.urls) : TagsOf(v, r.urls[i]) = TagsOf(r, r.urls[i])
Plain(r) == \A i \in 1 .. Len(r.urls) : PlainUrl(r.urls[i])
LEMMA RoundTrip ==
  ASSUME NEW r, Readable(r), Plain(r)
  PROVE  Same(r, LoadedUrls(Written(r))) /\ IsReader(LoadedUrls(Written(r)))
<1> DEFINE n == Len(r.urls)
           lines == Written(r)
           result == UrlLines!Folded(Empty, lines, n, 0, 0)
<1>1. /\ DOMAIN lines = 1 .. n /\ n \in Nat
      /\ \A i \in 1 .. n : lines[i] = WrittenLine(r.urls[i], TagsOf(r, r.urls[i]))
  BY WrittenIs DEF Readable
<1>2. LoadedUrls(lines) = result
  BY <1>1, LoadedFolds
<1>0. n \in Nat
  BY <1>1
<1> HIDE DEF n, lines
<1>3. \E h : /\ h[0] = Empty
             /\ \A k \in 1 .. n : h[k] = LineIn(h[k - 1], lines[k], 0, 0)
             /\ result = h[n]
  BY <1>0, UrlLines!FoldSteps
<1> HIDE DEF result
<1>4. PICK h : /\ h[0] = Empty
               /\ \A k \in 1 .. n : h[k] = LineIn(h[k - 1], lines[k], 0, 0)
               /\ result = h[n]
  BY <1>3
<1> DEFINE P == {k \in 0 .. n : Loading(h[k], r, k)}
<1>5. 0 \in P
  <2>1. IsReader(Empty) /\ Empty.urls = <<>> /\ Len(<<>>) = 0
    BY EmptyIsReader, None0
  <2>2. Empty.tags = <<>>
    BY DEF Empty
  <2>3. \A u : TagsOf(Empty, u) = <<>>
    BY <2>2 DEF TagsOf
  <2>4. \A j \in 1 .. 0 : FALSE
    OBVIOUS
  <2>5. Loading(Empty, r, 0)
    BY <2>1, <2>3, <2>4 DEF Loading
  <2>. QED
    BY <1>1, <1>4, <2>5
<1>6. ASSUME NEW k \in 1 .. n, k - 1 \in P PROVE k \in P
  <2> DEFINE url == r.urls[k]
             ts == TagsOf(r, url)
             a == h[k - 1]
             v == LineIn(a, lines[k], 0, 0)
  <2>1. k \in Nat \ {0} /\ k \in 0 .. n
    BY <1>1
  <2>2. Loading(a, r, k - 1)
    BY <1>6
  <2>3. PlainUrl(url) /\ AreTags(ts)
    BY DEF Plain, Readable, n
  <2>4. lines[k] = WrittenLine(url, ts)
    BY <1>1
  <2>5. h[k] = v
    BY <1>4
  <2> HIDE DEF a, P
  <2>6. IsReader(a)
    BY <2>2 DEF Loading
  <2>7. GivesBack(a, v, url, TagsOf(r, url))
    <3> HIDE DEF url
    <3>1. GivesBack(a, LineIn(a, WrittenLine(url, ts), 0, 0), url, ts)
      BY <2>3, <2>6, LineGivesBack
    <3>. QED
      BY <2>4, <3>1
  <2> HIDE DEF v
  <2>8. Loading(v, r, k)
    <3>1. url = r.urls[k]
      OBVIOUS
    <3> HIDE DEF url
    <3>. QED
      BY <2>1, <2>2, <2>7, <3>1, LoadingGoesOn
  <2>. QED
    BY <2>1, <2>5, <2>8 DEF P
<1> HIDE DEF P
<1>7. n \in P
  BY <1>0, <1>5, <1>6, StepByStep
<1>8. Loading(result, r, n)
  BY <1>4, <1>7 DEF P
<1>9. result.urls = r.urls
  <2>1. IsSeq(result.urls) /\ IsSeq(r.urls)
    BY <1>8 DEF Loading, Readable, IsReader
  <2>2. Len(result.urls) = Len(r.urls) /\ \A i \in 1 .. Len(result.urls) : result.urls[i] = r.urls[i]
    BY <1>8 DEF Loading, n
  <2>. QED
    BY <2>1, <2>2, SeqsAreEqual
<1>10. Same(r, result) /\ IsReader(result)
  BY <1>8, <1>9 DEF Same, Loading, n
<1>. QED
  BY <1>2, <1>10 DEF lines

LEMMA SameIsWritten ==
  ASSUME NEW r, IsReader(r), NEW v, IsReader(v), Same(r, v)
  PROVE  Written(v) = Written(r)
<1> DEFINE a == Written(r)
           b == Written(v)
           n == Len(r.urls)
<1>1. IsSeq(a) /\ Len(a) = n /\ \A i \in 1 .. n : a[i] = WrittenLine(r.urls[i], TagsOf(r, r.urls[i]))
  BY WrittenIs
<1>2. IsSeq(b) /\ Len(b) = Len(v.urls) /\ \A i \in 1 .. Len(v.urls) : b[i] = WrittenLine(v.urls[i], TagsOf(v, v.urls[i]))
  BY WrittenIs
<1> HIDE DEF a, b
<1>3. v.urls = r.urls /\ \A i \in 1 .. n : TagsOf(v, r.urls[i]) = TagsOf(r, r.urls[i])
  BY DEF Same
<1>4. \A i \in 1 .. n : a[i] = b[i]
  BY <1>1, <1>2, <1>3
<1>5. a = b
  BY <1>1, <1>2, <1>3, <1>4, SeqsAreEqual
<1>. QED
  BY <1>5 DEF a, b

-----------------------------------------------------------------------------
(* An import.                                                                *)
NonEmpty(s) == IsSeq(s) /\ Len(s) \in Nat \ {0}
LEMMA NonEmptyIs ==
  ASSUME NEW s, IsSeq(s), s # <<>>
  PROVE  NonEmpty(s)
<1>1. Len(s) \in Nat
  BY SeqIsList
<1> DEFINE e == <<>>
<1>2. IsSeq(e) /\ Len(e) = 0
  BY None0
<1> HIDE DEF e
<1>3. Len(s) # 0
  <2> SUFFICES ASSUME Len(s) = 0 PROVE FALSE
    OBVIOUS
  <2>1. Len(s) = Len(e) /\ \A i \in 1 .. Len(s) : s[i] = e[i]
    BY <1>2
  <2>2. s = e
    BY <1>2, <2>1, SeqsAreEqual
  <2>. QED
    BY <2>2 DEF e
<1>. QED
  BY <1>1, <1>3 DEF NonEmpty

LEMMA GluedIsSeq ==
  ASSUME NEW a, NonEmpty(a), NEW b, NonEmpty(b)
  PROVE  NonEmpty(Glued(a, b))
<1> DEFINE front == Front(a)
           middle == <<Last(a) \o b[1]>>
           rest == Tail(b)
           s == front \o middle
           t == s \o rest
<1>1. PICK A : a \in Seq(A)
  BY DEF NonEmpty, IsSeq
<1>2. PICK B : b \in Seq(B)
  BY DEF NonEmpty, IsSeq
<1>3. IsSeq(front)
  <2> DEFINE m == Len(a) - 1
  <2>1. m \in Int /\ 1 \in Int /\ \A i \in 1 .. m : i \in 1 .. Len(a)
    BY DEF NonEmpty
  <2>2. \A i \in 1 .. Len(a) : a[i] \in A
    BY <1>1
  <2>3. \A i \in 1 .. m : a[i] \in A
    BY <2>1, <2>2
  <2> HIDE DEF m
  <2>4. SubSeq(a, 1, m) \in Seq(A)
    BY <2>1, <2>3, SubSeqProperties
  <2>5. front = SubSeq(a, 1, m)
    BY DEF Front, m
  <2>. QED
    BY <2>4, <2>5 DEF IsSeq
<1>4. IsSeq(rest)
  <2>1. b # <<>>
    BY None0 DEF NonEmpty
  <2>2. rest \in Seq(B)
    BY <1>2, <2>1, HeadTailProperties
  <2>. QED
    BY <2>2 DEF IsSeq
<1>5. IsSeq(middle) /\ Len(middle) = 1
  BY One
<1>6. t = Glued(a, b)
  BY DEF Glued
<1> HIDE DEF front, middle, rest
<1>7. Follows(s, front, middle)
  BY <1>3, <1>5, Joined
<1> HIDE DEF s
<1>8. IsSeq(s) /\ Len(s) = Len(front) + 1
  BY <1>5, <1>7 DEF Follows
<1>9. Follows(t, s, rest)
  BY <1>4, <1>8, Joined
<1> HIDE DEF t
<1>10. IsSeq(t) /\ Len(t) = Len(front) + 1 + Len(rest)
  BY <1>8, <1>9 DEF Follows
<1>11. Len(front) \in Nat /\ Len(rest) \in Nat
  BY <1>3, <1>4, SeqIsList
<1>12. Len(front) + 1 + Len(rest) \in Nat \ {0}
  BY <1>11
<1>13. NonEmpty(t)
  BY <1>10, <1>12 DEF NonEmpty
<1>. QED
  BY <1>6, <1>13

LEMMA NonEmptyOne == ASSUME NEW e PROVE NonEmpty(<<e>>)
BY One DEF NonEmpty

LEMMA ImportedUrlIsText ==
  ASSUME NEW i, NEW o, IsOutline(o, i), IsFeed(o)
  PROVE  IsText(ImportedUrl(o))
<1> DEFINE from == IF o.xmlUrl # <<>> THEN o.xmlUrl ELSE o.url
           exec == <<"exec:">>
           filter == <<"filter:">>
           colon == <<":">>
           program == IF o.pipe THEN Glued(exec, from) ELSE from
           words == IF o.filtercmd = <<>> THEN program ELSE Glued(Glued(filter, Glued(o.filtercmd, colon)), program)
<1>1. IsSeq(o.xmlUrl) /\ IsSeq(o.url) /\ IsSeq(o.filtercmd)
  <2>1. IsList(o.xmlUrl) /\ IsList(o.url) /\ IsList(o.filtercmd)
    BY DEF IsOutline
  <2>. QED
    BY <2>1, ListIsSeq
<1>2. NonEmpty(from)
  BY <1>1, NonEmptyIs DEF IsFeed
<1>3. NonEmpty(exec) /\ NonEmpty(filter) /\ NonEmpty(colon)
  BY NonEmptyOne
<1>4. ImportedUrl(o) = QuoteIfNecessary(words)
  BY DEF ImportedUrl
<1> HIDE DEF from, exec, filter, colon
<1>5. NonEmpty(program)
  BY <1>2, <1>3, GluedIsSeq
<1> HIDE DEF program
<1>6. o.filtercmd # <<>> => NonEmpty(Glued(Glued(filter, Glued(o.filtercmd, colon)), program))
  <2> SUFFICES ASSUME o.filtercmd # <<>> PROVE NonEmpty(Glued(Glued(filter, Glued(o.filtercmd, colon)), program))
    OBVIOUS
  <2>1. NonEmpty(o.filtercmd)
    BY <1>1, NonEmptyIs
  <2>2. NonEmpty(Glued(o.filtercmd, colon))
    BY <1>3, <2>1, GluedIsSeq
  <2>3. NonEmpty(Glued(filter, Glued(o.filtercmd, colon)))
    BY <1>3, <2>2, GluedIsSeq
  <2>. QED
    BY <1>5, <2>3, GluedIsSeq
<1>7. NonEmpty(words)
  BY <1>5, <1>6
<1> HIDE DEF words
<1>8. IsList(words)
  BY <1>7, SeqIsList DEF NonEmpty
<1>9. QuoteIfNecessary(words).quoted = (Len(words) > 1) /\ QuoteIfNecessary(words).words = words
  BY DEF QuoteIfNecessary
<1>10. (Len(words) > 1) \in BOOLEAN
  OBVIOUS
<1>11. IsText(QuoteIfNecessary(words))
  BY <1>8, <1>9, <1>10 DEF IsText
<1>. QED
  BY <1>4, <1>11

\* The tags of the folders are lists.
LEMMA UnderIsSeq ==
  ASSUME NEW tag, IsSeq(tag), NEW text, IsSeq(text)
  PROVE  IsSeq(Under(tag, text))
<1> DEFINE slash == <<"/">>
           s == tag \o slash
<1>1. IsSeq(slash)
  BY One
<1>2. Under(tag, text) = IF text = <<>> THEN tag ELSE IF tag = <<>> THEN text ELSE s \o text
  BY DEF Under
<1> HIDE DEF slash
<1>3. IsSeq(s)
  BY <1>1, Joined DEF Follows
<1> HIDE DEF s
<1>4. IsSeq(s \o text)
  BY <1>3, Joined DEF Follows
<1>. QED
  BY <1>2, <1>4

BelowOf(g, outlines, names, i) == IF i = 0 THEN <<>> ELSE Under(g[outlines[i].parent], names[i])
IsBelow(g, outlines, names, n) == g = [i \in 0 .. n |-> BelowOf(g, outlines, names, i)]
LEMMA BelowExists ==
  ASSUME NEW outlines, NEW names, NEW n \in Nat, \A i \in 1 .. n : outlines[i].parent \in 0 .. i - 1
  PROVE  \E g : IsBelow(g, outlines, names, n)
<1> DEFINE B(g, i) == BelowOf(g, outlines, names, i)
           P == {k \in 0 .. n : \E g : IsBelow(g, outlines, names, k)}
<1>1. 0 \in P
  <2> DEFINE g == [i \in 0 .. 0 |-> <<>>]
  <2>1. \A i \in 0 .. 0 : B(g, i) = <<>>
    BY DEF BelowOf
  <2> HIDE DEF B
  <2>2. g = [i \in 0 .. 0 |-> B(g, i)]
    BY <2>1
  <2> HIDE DEF g
  <2>3. IsBelow(g, outlines, names, 0)
    BY <2>2 DEF B, IsBelow
  <2>. QED
    BY <2>3
<1>2. ASSUME NEW k \in 1 .. n, k - 1 \in P PROVE k \in P
  <2> DEFINE m == k - 1
  <2>0. PICK g : IsBelow(g, outlines, names, m)
    BY <1>2
  <2>1. g = [i \in 0 .. m |-> B(g, i)]
    BY <2>0 DEF IsBelow
  <2> DEFINE h == [i \in 0 .. k |-> B(g, i)]
  <2>2. m \in Nat /\ \A i \in 0 .. k : i # 0 => (i \in 1 .. n /\ \A p \in 0 .. i - 1 : p \in 0 .. m /\ p \in 0 .. k)
    BY <1>2
  <2>3. \A p \in 0 .. m : g[p] = B(g, p)
    <3> HIDE DEF B, m
    <3>. QED
      BY <2>1
  <2>4. \A p \in 0 .. m : p \in 0 .. k
    BY <2>2
  <2>5. \A p \in 0 .. m : h[p] = g[p]
    <3> HIDE DEF B
    <3>. QED
      BY <2>3, <2>4
  <2>6. ASSUME NEW i \in 0 .. k PROVE B(h, i) = B(g, i)
    <3>1. CASE i = 0
      BY <3>1 DEF BelowOf
    <3>2. CASE i # 0
      <4>1. outlines[i].parent \in 0 .. m
        BY <2>2, <3>2
      <4> HIDE DEF h, m
      <4>2. h[outlines[i].parent] = g[outlines[i].parent]
        BY <2>5, <4>1
      <4>. QED
        BY <4>2 DEF BelowOf
    <3>. QED
      BY <3>1, <3>2
  <2> HIDE DEF B
  <2>7. h = [i \in 0 .. k |-> B(h, i)]
    BY <2>6
  <2>8. k \in 0 .. n
    OBVIOUS
  <2> HIDE DEF h
  <2>9. IsBelow(h, outlines, names, k)
    BY <2>7 DEF B, IsBelow
  <2>. QED
    BY <2>8, <2>9
<1> HIDE DEF P
<1> HIDE DEF B
<1>3. n \in P
  <2>1. \A k \in 1 .. n : k - 1 \in P => k \in P
    BY <1>2
  <2>2. \A k \in 0 .. n : k \in P
    BY <1>1, <2>1, StepByStep
  <2>. QED
    BY <2>2
<1>. QED
  BY <1>3 DEF P

LEMMA FolderTagsAreSeqs ==
  ASSUME NEW outlines, IsDocument(outlines)
  PROVE  \A i \in 0 .. Len(outlines) : IsSeq(FolderTags(outlines)[i])
<1> DEFINE n == Len(outlines)
           names == [i \in DOMAIN outlines |-> FolderText(outlines[i])]
           B(g, i) == BelowOf(g, outlines, names, i)
           tags == FolderTags(outlines)
<1>1. n \in Nat /\ DOMAIN outlines = 1 .. n /\ \A i \in 1 .. n : IsOutline(outlines[i], i)
  BY DEF IsDocument, IsList
<1>2. \A i \in 1 .. n : outlines[i].parent \in 0 .. i - 1
  BY <1>1 DEF IsOutline
<1>3. tags = CHOOSE g : g = [i \in 0 .. n |-> B(g, i)]
  BY DEF FolderTags, TagsBelow, BelowOf
<1>4. \A i \in 1 .. n : IsSeq(names[i])
  <2> TAKE i \in 1 .. n
  <2> DEFINE o == outlines[i]
  <2>1. IsList(o.text) /\ IsList(o.title)
    BY <1>1 DEF IsOutline
  <2>2. IsSeq(o.text) /\ IsSeq(o.title) /\ IsSeq(<<>>)
    BY <2>1, ListIsSeq, None0
  <2>3. names[i] = FolderText(o)
    BY <1>1
  <2> HIDE DEF o, names
  <2>. QED
    BY <2>2, <2>3 DEF FolderText
<1> HIDE DEF n, names
<1>5. \E g : IsBelow(g, outlines, names, n)
  BY <1>1, <1>2, BelowExists
<1>5a. tags = CHOOSE g : IsBelow(g, outlines, names, n)
  BY <1>3 DEF IsBelow
<1> HIDE DEF tags
<1>5b. IsBelow(tags, outlines, names, n)
  BY <1>5, <1>5a
<1>6. tags = [i \in 0 .. n |-> B(tags, i)]
  BY <1>5b DEF IsBelow
<1>7. \A i \in 0 .. n : tags[i] = B(tags, i)
  <2> HIDE DEF B
  <2>. QED
    BY <1>6
<1> DEFINE P == {k \in 0 .. n : \A i \in 0 .. k : IsSeq(tags[i])}
<1>8. 0 \in P
  <2>1. 0 \in 0 .. n /\ \A i \in 0 .. 0 : i = 0
    BY <1>1
  <2>2. tags[0] = <<>>
    BY <1>7, <2>1 DEF BelowOf
  <2>. QED
    BY <2>1, <2>2, None0
<1>9. ASSUME NEW k \in 1 .. n, k - 1 \in P PROVE k \in P
  <2>1. k \in 0 .. n /\ k # 0 /\ \A i \in 0 .. k : i \in 0 .. k - 1 \/ i = k
    BY <1>1
  <2>2. \A i \in 0 .. k - 1 : IsSeq(tags[i])
    BY <1>9
  <2>3. tags[k] = Under(tags[outlines[k].parent], names[k])
    BY <1>7, <2>1 DEF BelowOf
  <2>4. IsSeq(tags[k])
    BY <1>2, <1>4, <2>2, <2>3, UnderIsSeq
  <2>. QED
    BY <2>1, <2>2, <2>4
<1> HIDE DEF P
<1>10. n \in P
  BY SMTT(20), <1>1, <1>8, <1>9, StepByStep
<1>. QED
  BY <1>10 DEF P, n, tags

\* One url: what was there stays, with its tags.
Keeps(r, v) ==
  /\ IsReader(v) /\ Len(r.urls) \in Nat /\ Len(v.urls) \in Nat /\ Len(r.urls) <= Len(v.urls)
  /\ \A i \in 1 .. Len(r.urls) : v.urls[i] = r.urls[i] /\ TagsOf(v, r.urls[i]) = TagsOf(r, r.urls[i])

LEMMA KeepsItself ==
  ASSUME NEW r, IsReader(r)
  PROVE  Keeps(r, r)
<1>1. Len(r.urls) \in Nat
  BY SeqIsList DEF IsReader
<1>. QED
  BY <1>1 DEF Keeps

LEMMA KeepsOn ==
  ASSUME NEW r, NEW v, NEW w, Keeps(r, v), Keeps(v, w)
  PROVE  Keeps(r, w)
<1>1. \A i \in 1 .. Len(r.urls) : i \in 1 .. Len(v.urls)
  BY DEF Keeps
<1>2. \A i \in 1 .. Len(r.urls) : v.urls[i] = r.urls[i] /\ TagsOf(v, r.urls[i]) = TagsOf(r, r.urls[i])
  BY DEF Keeps
<1>3. \A i \in 1 .. Len(v.urls) : w.urls[i] = v.urls[i] /\ TagsOf(w, v.urls[i]) = TagsOf(v, v.urls[i])
  BY DEF Keeps
<1>4. \A i \in 1 .. Len(r.urls) : w.urls[i] = r.urls[i] /\ TagsOf(w, r.urls[i]) = TagsOf(r, r.urls[i])
  BY <1>1, <1>2, <1>3
<1>5. Len(r.urls) \in Nat /\ Len(w.urls) \in Nat /\ Len(r.urls) <= Len(w.urls)
  BY DEF Keeps
<1>. QED
  BY <1>4, <1>5 DEF Keeps

LEMMA KeptAreThere ==
  ASSUME NEW r, NEW v, Keeps(r, v), NEW url, Contains(r.urls, url)
  PROVE  Contains(v.urls, url)
<1>1. PICK i \in 1 .. Len(r.urls) : r.urls[i] = url
  BY DEF Contains
<1>2. i \in 1 .. Len(v.urls) /\ v.urls[i] = url
  BY <1>1 DEF Keeps
<1>. QED
  BY <1>2 DEF Contains

LEMMA AddedIsKept ==
  ASSUME NEW r, IsReader(r), NEW v, NEW url, ~Contains(r.urls, url), AddsUrl(r, v, url),
         \A u : u # url => TagsOf(v, u) = TagsOf(r, u)
  PROVE  Keeps(r, v) /\ Contains(v.urls, url)
<1> DEFINE m == Len(r.urls)
<1>1. Len(v.urls) = m + 1 /\ m \in Nat /\ v.urls[m + 1] = url /\ \A i \in 1 .. m : v.urls[i] = r.urls[i]
  BY UrlsAfter
<1>2. \A i \in 1 .. m : r.urls[i] # url
  BY DEF Contains
<1> HIDE DEF m
<1>3. m + 1 \in 1 .. m + 1 /\ m <= m + 1 /\ m + 1 \in Nat
  BY <1>1
<1>4. IsReader(v)
  BY DEF AddsUrl
<1>5. \A i \in 1 .. m : TagsOf(v, r.urls[i]) = TagsOf(r, r.urls[i])
  BY <1>2
<1>6. Contains(v.urls, url)
  BY <1>1, <1>3 DEF Contains
<1>7. Keeps(r, v)
  BY <1>1, <1>3, <1>4, <1>5 DEF Keeps, m
<1>. QED
  BY <1>6, <1>7

LEMMA TagAppended ==
  ASSUME NEW ts, AreTags(ts), NEW tag, IsSeq(tag)
  PROVE  AreTags(Append(ts, Str(tag)))
<1> DEFINE t == Str(tag)
           s == Append(ts, t)
           m == Len(ts)
<1>1. IsTag(t)
  <2>1. Str(tag).words = tag
    BY DEF Str
  <2>. QED
    BY <2>1, SeqIsList DEF IsTag
<1> HIDE DEF t
<1>2. IsSeq(ts) /\ \A i \in 1 .. m : IsTag(ts[i])
  BY DEF AreTags
<1>3. IsSeq(s) /\ m \in Nat /\ Len(s) = m + 1 /\ s[m + 1] = t /\ \A i \in 1 .. m : s[i] = ts[i]
  BY <1>2, Appended
<1> HIDE DEF s, m
<1>4. ASSUME NEW i \in 1 .. m + 1 PROVE IsTag(s[i])
  <2>1. i \in 1 .. m \/ i = m + 1
    BY <1>3
  <2>. QED
    BY <1>1, <1>2, <1>3, <2>1
<1>5. AreTags(s)
  BY <1>3, <1>4 DEF AreTags
<1>. QED
  BY <1>5 DEF s, t

Arrives(r, v, url) == Readable(v) /\ Keeps(r, v) /\ Contains(v.urls, url)
LEMMA ImportKeeps ==
  ASSUME NEW r, Readable(r), NEW url, IsText(url), NEW tag, IsSeq(tag)
  PROVE  Arrives(r, ImportUrl(r, url, tag), url)
<1> DEFINE ts == Append(TagsOf(r, url), Str(tag))
           a == Untagged(r, url)
           b == WithTags(r, url, ts)
<1>0. IsReader(r)
  BY DEF Readable
<1>1. ImportUrl(r, url, tag) = IF Contains(r.urls, url) THEN r ELSE IF tag = <<>> THEN a ELSE b
  BY DEF ImportUrl, WithTags
<1>2. AreTags(ts)
  BY TagAppended DEF Readable
<1>3. AddsUrl(r, a, url) /\ SameTags(r, a)
  BY <1>0, UntaggedIs
<1> HIDE DEF ts
<1>4. AddsUrl(r, b, url) /\ TagsPut(r, b, url, ts)
  BY <1>0, WithTagsIs
<1> HIDE DEF a, b
<1>5. Readable(a)
  BY <1>3, AddedIsReadable
<1>6. Readable(b)
  BY <1>2, <1>4, AddedIsReadable
<1>7. (\A u : u # url => TagsOf(a, u) = TagsOf(r, u)) /\ \A u : u # url => TagsOf(b, u) = TagsOf(r, u)
  BY <1>3, <1>4 DEF SameTags, TagsPut
<1>8. ASSUME ~Contains(r.urls, url) PROVE Arrives(r, a, url) /\ Arrives(r, b, url)
  <2>1. Keeps(r, a) /\ Contains(a.urls, url)
    BY <1>0, <1>3, <1>7, <1>8, AddedIsKept
  <2>2. Keeps(r, b) /\ Contains(b.urls, url)
    BY <1>0, <1>4, <1>7, <1>8, AddedIsKept
  <2>. QED
    BY <1>5, <1>6, <2>1, <2>2 DEF Arrives
<1>9. Contains(r.urls, url) => Arrives(r, r, url)
  BY <1>0, KeepsItself DEF Arrives
<1>. QED
  BY <1>1, <1>8, <1>9

\* A document is imported: all its feeds are there.
HasFeeds(v, outlines, k) == \A j \in 1 .. k : IsFeed(outlines[j]) => Contains(v.urls, ImportedUrl(outlines[j]))
LEMMA OutlineArrives ==
  ASSUME NEW v, Readable(v), NEW outlines, NEW tags, NEW k, IsOutline(outlines[k], k), IsSeq(tags[outlines[k].parent])
  PROVE  LET w == OutlineIn(v, outlines[k], tags, 0)
         IN  Readable(w) /\ Keeps(v, w) /\ (IsFeed(outlines[k]) => Contains(w.urls, ImportedUrl(outlines[k])))
<1> DEFINE o == outlines[k]
           url == ImportedUrl(o)
           tag == tags[o.parent]
           w == OutlineIn(v, o, tags, 0)
<1>1. w = IF IsFeed(o) THEN ImportUrl(v, url, tag) ELSE v
  BY DEF OutlineIn
<1>2. IsFeed(o) => IsText(url)
  BY ImportedUrlIsText
<1>3. IsSeq(tag)
  OBVIOUS
<1> HIDE DEF url, tag, w
<1>4. IsFeed(o) => Arrives(v, w, url)
  BY <1>1, <1>2, <1>3, ImportKeeps
<1>5. ~IsFeed(o) => Readable(w) /\ Keeps(v, w)
  BY <1>1, KeepsItself DEF Readable
<1>6. Readable(w) /\ Keeps(v, w) /\ (IsFeed(o) => Contains(w.urls, url))
  BY <1>4, <1>5 DEF Arrives
<1>. QED
  BY <1>6 DEF w, url

LEMMA ImportFolds ==
  ASSUME NEW n \in Nat, NEW outlines, DOMAIN outlines = 1 .. n, NEW r
  PROVE  ImportOutlines(r, outlines) = Outlines!Folded(r, outlines, n, FolderTags(outlines), 0)
BY DEF ImportOutlines, FoldLeft, MapThenFoldSet, Outlines!Folded, Outlines!IsFold, Outlines!Value, Outlines!Highest, OutlineIn, FolderTags, Max

Imported(r, v, outlines) == Readable(v) /\ Keeps(r, v) /\ HasFeeds(v, outlines, Len(outlines))
LEMMA DocumentArrives ==
  ASSUME NEW r, Readable(r), NEW outlines, IsDocument(outlines)
  PROVE  Imported(r, ImportOutlines(r, outlines), outlines)
<1> DEFINE n == Len(outlines)
           tags == FolderTags(outlines)
           result == Outlines!Folded(r, outlines, n, tags, 0)
<1>0. n \in Nat
  BY DEF IsDocument, IsList
<1>1. DOMAIN outlines = 1 .. n /\ \A k \in 1 .. n : IsOutline(outlines[k], k)
  BY DEF IsDocument, IsList
<1>2. ImportOutlines(r, outlines) = result
  BY <1>0, <1>1, ImportFolds
<1>3. ASSUME NEW k \in 1 .. n PROVE IsSeq(tags[outlines[k].parent])
  <2>1. outlines[k].parent \in 0 .. k - 1
    BY <1>1 DEF IsOutline
  <2>2. outlines[k].parent \in 0 .. n
    BY <1>0, <2>1
  <2>. QED
    BY <2>2, FolderTagsAreSeqs
<1> HIDE DEF n, tags
<1>4. \E h : /\ h[0] = r
             /\ \A k \in 1 .. n : h[k] = OutlineIn(h[k - 1], outlines[k], tags, 0)
             /\ result = h[n]
  BY <1>0, Outlines!FoldSteps
<1> HIDE DEF result
<1>5. PICK h : /\ h[0] = r
               /\ \A k \in 1 .. n : h[k] = OutlineIn(h[k - 1], outlines[k], tags, 0)
               /\ result = h[n]
  BY <1>4
<1> DEFINE P == {k \in 0 .. n : Readable(h[k]) /\ Keeps(r, h[k]) /\ HasFeeds(h[k], outlines, k)}
<1>6. 0 \in P
  <2>1. Keeps(r, r)
    BY KeepsItself DEF Readable
  <2>2. \A j \in 1 .. 0 : FALSE
    OBVIOUS
  <2>3. HasFeeds(r, outlines, 0)
    BY <2>2 DEF HasFeeds
  <2>. QED
    BY <1>0, <1>5, <2>1, <2>3
<1>7. ASSUME NEW k \in 1 .. n, k - 1 \in P PROVE k \in P
  <2> DEFINE v == h[k - 1]
             w == h[k]
             m == k - 1
  <2>1. k \in 0 .. n /\ \A j \in 1 .. k : j \in 1 .. m \/ j = k
    BY <1>0
  <2>2. Readable(v) /\ Keeps(r, v) /\ HasFeeds(v, outlines, m)
    BY <1>7
  <2>3. w = OutlineIn(v, outlines[k], tags, 0)
    BY <1>5
  <2> HIDE DEF v, w, P
  <2>4. IsOutline(outlines[k], k) /\ IsSeq(tags[outlines[k].parent])
    BY <1>1, <1>3
  <2>5. Readable(w) /\ Keeps(v, w) /\ (IsFeed(outlines[k]) => Contains(w.urls, ImportedUrl(outlines[k])))
    BY <2>2, <2>3, <2>4, OutlineArrives
  <2>6. Keeps(r, w)
    BY <2>2, <2>5, KeepsOn
  <2> HIDE DEF m
  <2>7. HasFeeds(w, outlines, k)
    <3> SUFFICES ASSUME NEW j \in 1 .. k, IsFeed(outlines[j]) PROVE Contains(w.urls, ImportedUrl(outlines[j]))
      BY DEF HasFeeds
    <3>1. CASE j \in 1 .. m
      <4>1. Contains(v.urls, ImportedUrl(outlines[j]))
        BY <2>2, <3>1 DEF HasFeeds
      <4>. QED
        BY <2>5, <4>1, KeptAreThere
    <3>2. CASE j = k
      BY <2>5, <3>2
    <3>. QED
      BY <2>1, <3>1, <3>2
  <2>. QED
    BY <2>1, <2>5, <2>6, <2>7 DEF P, w
<1> HIDE DEF P
<1>8. n \in P
  <2>1. \A k \in 1 .. n : k - 1 \in P => k \in P
    BY <1>7
  <2>2. \A k \in 0 .. n : k \in P
    BY <1>0, <1>6, <2>1, StepByStep
  <2>. QED
    BY <1>0, <2>2
<1>9. Imported(r, result, outlines)
  BY <1>5, <1>8 DEF P, Imported, n
<1>. QED
  BY <1>2, <1>9

\* What is there already is not added.
LEMMA NothingArrives ==
  ASSUME NEW r, NEW outlines, IsDocument(outlines), HasFeeds(r, outlines, Len(outlines))
  PROVE  ImportOutlines(r, outlines) = r
<1> DEFINE n == Len(outlines)
           tags == FolderTags(outlines)
           result == Outlines!Folded(r, outlines, n, tags, 0)
<1>0. n \in Nat
  BY DEF IsDocument, IsList
<1>1. DOMAIN outlines = 1 .. n
  BY DEF IsDocument, IsList
<1>2. ImportOutlines(r, outlines) = result
  BY <1>0, <1>1, ImportFolds
<1>3. \A k \in 1 .. n : OutlineIn(r, outlines[k], tags, 0) = r
  BY DEF HasFeeds, OutlineIn, ImportUrl
<1> HIDE DEF n, tags
<1>4. \E h : /\ h[0] = r
             /\ \A k \in 1 .. n : h[k] = OutlineIn(h[k - 1], outlines[k], tags, 0)
             /\ result = h[n]
  BY <1>0, Outlines!FoldSteps
<1> HIDE DEF result
<1>5. PICK h : /\ h[0] = r
               /\ \A k \in 1 .. n : h[k] = OutlineIn(h[k - 1], outlines[k], tags, 0)
               /\ result = h[n]
  BY <1>4
<1> DEFINE P == {k \in 0 .. n : h[k] = r}
<1>6. 0 \in P
  BY <1>0, <1>5
<1>7. ASSUME NEW k \in 1 .. n, k - 1 \in P PROVE k \in P
  <2>1. h[k - 1] = r /\ k \in 0 .. n
    BY <1>0, <1>7
  <2>. QED
    BY <1>3, <1>5, <2>1
<1> HIDE DEF P
<1>8. n \in P
  <2>1. \A k \in 1 .. n : k - 1 \in P => k \in P
    BY <1>7
  <2>2. \A k \in 0 .. n : k \in P
    BY <1>0, <1>6, <2>1, StepByStep
  <2>. QED
    BY <1>0, <2>2
<1>. QED
  BY <1>2, <1>5, <1>8 DEF P

-----------------------------------------------------------------------------
(* An export is a document.                                                  *)
ExportIn(outlines, url, c, d) == IF IsSpecial(url) THEN outlines ELSE Append(outlines, ExportedUrl(url))
ExportedFeeds == INSTANCE Folding WITH Op <- ExportIn, Is <- IsDocument

LEMMA ExportFolds ==
  ASSUME NEW r, NEW n \in Nat, DOMAIN r.urls = 1 .. n
  PROVE  Exported(r) = ExportedFeeds!Folded(<<>>, r.urls, n, 0, 0)
BY DEF Exported, FoldLeft, MapThenFoldSet, ExportedFeeds!Folded, ExportedFeeds!IsFold, ExportedFeeds!Value, ExportedFeeds!Highest, ExportIn, Max

LEMMA ExportedIsOutline ==
  ASSUME NEW url, IsText(url), NEW i \in Nat \ {0}
  PROVE  IsOutline(ExportedUrl(url), i)
<1> DEFINE o == ExportedUrl(url)
           t == <<"t">>
<1>1. IsList(<<>>) /\ IsList(t)
  BY None0, One, SeqIsList
<1> HIDE DEF t
<1>2. /\ o.parent = 0 /\ o.xmlUrl = url.words /\ o.url = <<>> /\ o.filtercmd = <<>>
      /\ o.text = <<>> /\ o.title = t
  BY DEF ExportedUrl, t
<1> HIDE DEF o
<1>3. 0 \in 0 .. i - 1
  OBVIOUS
<1>4. IsList(url.words)
  BY DEF IsText
<1>5. IsList(o.xmlUrl) /\ IsList(o.url) /\ IsList(o.filtercmd) /\ IsList(o.text) /\ IsList(o.title)
  BY <1>1, <1>2, <1>4
<1>6. IsOutline(o, i)
  BY <1>2, <1>3, <1>5 DEF IsOutline
<1>. QED
  BY <1>6 DEF o

LEMMA ExportKeepsDocument ==
  ASSUME NEW outlines, IsDocument(outlines), NEW url, IsText(url)
  PROVE  IsDocument(ExportIn(outlines, url, 0, 0))
<1> DEFINE o == ExportedUrl(url)
           s == Append(outlines, o)
           m == Len(outlines)
<1>1. IsSeq(outlines)
  BY ListIsSeq DEF IsDocument
<1>2. /\ IsSeq(s) /\ DOMAIN outlines = 1 .. m /\ m \in Nat /\ Len(s) = m + 1 /\ s[m + 1] = o
      /\ \A i \in 1 .. m : s[i] = outlines[i]
  BY <1>1, Appended
<1>3. \A i \in 1 .. m : IsOutline(outlines[i], i)
  BY <1>2 DEF IsDocument
<1>4. m + 1 \in Nat \ {0}
  BY <1>2
<1>5. IsOutline(o, m + 1)
  BY <1>4, ExportedIsOutline
<1> HIDE DEF o, s, m
<1>6. ASSUME NEW i \in 1 .. m + 1 PROVE IsOutline(s[i], i)
  <2>1. i \in 1 .. m \/ i = m + 1
    BY <1>2
  <2>. QED
    BY <1>2, <1>3, <1>5, <2>1
<1>7. IsList(s) /\ DOMAIN s = 1 .. Len(s)
  BY <1>2, SeqIsList
<1>8. IsDocument(s)
  BY <1>2, <1>6, <1>7 DEF IsDocument
<1>. QED
  BY <1>8 DEF ExportIn, s, o

LEMMA ExportedIsDocument ==
  ASSUME NEW r, Readable(r)
  PROVE  IsDocument(Exported(r))
<1> DEFINE feeds == r.urls
           n == Len(feeds)
           result == ExportedFeeds!Folded(<<>>, feeds, n, 0, 0)
<1>1. n \in Nat /\ DOMAIN feeds = 1 .. n /\ \A k \in 1 .. n : IsText(feeds[k])
  BY SeqIsList DEF Readable, IsReader
<1>2. Exported(r) = result
  BY <1>1, ExportFolds
<1> HIDE DEF n, feeds
<1>3. IsDocument(<<>>)
  BY None0, SeqIsList DEF IsDocument
<1>4. \A doc0 : IsDocument(doc0) => \A k \in 1 .. n : IsDocument(ExportIn(doc0, feeds[k], 0, 0))
  BY <1>1, ExportKeepsDocument
<1>5. IsDocument(result)
  BY <1>1, <1>3, <1>4, ExportedFeeds!FoldKeeps
<1>. QED
  BY <1>2, <1>5

-----------------------------------------------------------------------------
(* What the files and the local reader are in every state.                   *)
ImportInv == IsFile(file) /\ opml \in Opmls /\ (source = "local" => Readable(reader))

LEMMA ImportIsFile ==
  ASSUME ImportInv, NEW outlines, IsDocument(outlines)
  PROVE  IsFile(Written(ImportOutlines(LoadedUrls(file), outlines)))
<1>1. Readable(LoadedUrls(file))
  BY LoadedIsReadable DEF ImportInv
<1>2. Readable(ImportOutlines(LoadedUrls(file), outlines))
  BY <1>1, DocumentArrives DEF Imported
<1>. QED
  BY <1>2, WrittenIsFile

LEMMA ImportKeepsInv ==
  ASSUME ImportInv, NEW outlines, IsDocument(outlines), Import(outlines)
  PROVE  ImportInv'
<1>1. IsFile(Written(ImportOutlines(LoadedUrls(file), outlines)))
  BY ImportIsFile
<1>2. file' = Written(ImportOutlines(LoadedUrls(file), outlines)) /\ UNCHANGED <<source, reader, opml>>
  BY DEF Import, Change
<1>3. IsFile(file')
  BY <1>1, <1>2
<1>. QED
  BY <1>2, <1>3 DEF ImportInv

\* The urls file, the document and the urls of the local reader are sequences
\* all through, whatever was edited, imported or exported.
THEOREM ImportInvariant == UrlsSpec => []ImportInv
<1>1. UrlsInit => ImportInv
  <2> SUFFICES ASSUME UrlsInit PROVE ImportInv
    OBVIOUS
  <2>1. IsFile(file) /\ opml \in Opmls /\ reader = Empty
    BY UrlsAssumption DEF UrlsInit
  <2>. QED
    BY <2>1, EmptyIsReadable DEF ImportInv
<1>2. ImportInv /\ [UrlsNext]_urlVars => ImportInv'
  <2> SUFFICES ASSUME ImportInv, [UrlsNext]_urlVars PROVE ImportInv'
    OBVIOUS
  <2>1. ASSUME Reload PROVE ImportInv'
    <3>1. UNCHANGED <<source, file, opml>> /\ reader' = Reread(source, file, opml, known, answer)
      BY <2>1 DEF Reload
    <3>2. source = "local" => reader' = LoadedUrls(file)
      BY <3>1 DEF Reread
    <3>3. Readable(LoadedUrls(file))
      BY LoadedIsReadable DEF ImportInv
    <3>4. source = "local" => Readable(reader')
      BY <3>2, <3>3
    <3>. QED
      BY <3>1, <3>4 DEF ImportInv
  <2>2. ASSUME Restart PROVE ImportInv'
    <3>1. Readable(reader')
      BY <2>2, EmptyIsReadable DEF Restart
    <3>. QED
      BY <2>2, <3>1 DEF ImportInv, Restart
  <2>3. ASSUME EditUrls PROVE ImportInv'
    <3>1. IsFile(file')
      BY <2>3, UrlsAssumption DEF EditUrls
    <3>. QED
      BY <2>3, <3>1 DEF ImportInv, EditUrls, Change
  <2>4. ASSUME ServiceChanges PROVE ImportInv'
    BY <2>4 DEF ImportInv, ServiceChanges, Change
  <2>5. ASSUME Import(opml) PROVE ImportInv'
    <3>1. IsDocument(opml)
      BY UrlsAssumption DEF ImportInv
    <3>. QED
      BY <2>5, <3>1, ImportKeepsInv
  <2>6. ASSUME ImportOwnExport PROVE ImportInv'
    <3>1. IsDocument(Exported(reader))
      BY <2>6, ExportedIsDocument DEF ImportInv, ImportOwnExport
    <3>. QED
      BY <2>6, <3>1, ImportKeepsInv DEF ImportOwnExport
  <2>7. ASSUME UNCHANGED urlVars PROVE ImportInv'
    BY <2>7 DEF ImportInv, urlVars
  <2>. QED
    BY <2>1, <2>2, <2>3, <2>4, <2>5, <2>6, <2>7 DEF UrlsNext
<1>. QED
  BY <1>1, <1>2, PTL DEF UrlsSpec

-----------------------------------------------------------------------------
(* What is plain comes back.                                                 *)
LEMMA OneWordIsPlain ==
  ASSUME NEW r, Readable(r), OneWord(r)
  PROVE  Plain(r)
<1> DEFINE n == Len(r.urls)
           hash == "#"
<1>1. DOMAIN r.urls = 1 .. n
  BY SeqIsList DEF Readable, IsReader
<1> SUFFICES ASSUME NEW i \in 1 .. n PROVE PlainUrl(r.urls[i])
  BY DEF Plain
<1> DEFINE url == r.urls[i]
           word == url.words[1]
<1>2. url \in Range(r.urls)
  BY <1>1 DEF Range
<1>3. Len(url.words) = 1 /\ url = Str(<<word>>) /\ word # hash
  BY <1>2 DEF OneWord
<1>4. IsList(url.words)
  BY DEF Readable, IsText
<1> HIDE DEF url
<1> DEFINE ww == <<word>>
           hh == <<hash>>
<1>5. ww[1] = word /\ hh[1] = hash
  OBVIOUS
<1>6. ww # hh
  BY <1>3, <1>5
<1>7. url = Str(ww) /\ Hash = Str(hh)
  BY <1>3 DEF Hash
<1> HIDE DEF ww, hh, word, hash
<1>8. Str(ww).words = ww /\ Str(hh).words = hh
  BY DEF Str
<1>9. url # Hash
  BY <1>6, <1>7, <1>8
<1>10. IsTag(url)
  BY <1>4, <1>7, <1>8 DEF IsTag
<1>11. PlainUrl(url)
  BY <1>3, <1>7, <1>9, <1>10 DEF PlainUrl, ww, word
<1>. QED
  BY <1>11 DEF url

LEMMA KeepsIsKept ==
  ASSUME NEW r, IsReader(r), NEW v, Keeps(r, v)
  PROVE  Kept(r, v)
<1> DEFINE a == r.urls
           b == v.urls
           m == Len(a)
           n == Len(b)
<1>1. IsSeq(a) /\ IsSeq(b) /\ m \in Nat /\ n \in Nat /\ m <= n /\ DOMAIN a = 1 .. m
  BY SeqIsList DEF Keeps, IsReader
<1>2. \A i \in 1 .. m : b[i] = a[i]
  BY DEF Keeps
<1>3. \A i \in 1 .. m : TagsOf(v, a[i]) = TagsOf(r, a[i])
  BY DEF Keeps
<1> DEFINE s == SubSeq(a, 1, m)
           t == SubSeq(b, 1, m)
<1>4. IsPrefix(a, b) <=> m <= n /\ s = t
  BY DEF IsPrefix
<1> HIDE DEF a, b
<1>5. s = t
  <2>1. s = [i \in 1 .. m |-> a[i]]
    <3>1. PICK S : a \in Seq(S)
      BY <1>1 DEF IsSeq
    <3>. QED
      BY <1>1, <3>1, SubSeqProperties
  <2>2. t = [i \in 1 .. m |-> b[i]]
    <3>1. PICK S : b \in Seq(S)
      BY <1>1 DEF IsSeq
    <3>. QED
      BY <1>1, <3>1, SubSeqProperties
  <2> HIDE DEF m, s, t
  <2>3. [i \in 1 .. m |-> b[i]] = [i \in 1 .. m |-> a[i]]
    BY <1>2
  <2>. QED
    BY <2>1, <2>2, <2>3
<1>6. IsPrefix(a, b)
  BY <1>1, <1>4, <1>5
<1>7. \A u \in Range(a) : TagsOf(v, u) = TagsOf(r, u)
  <2> TAKE u \in Range(a)
  <2>1. PICK i \in 1 .. m : u = a[i]
    BY <1>1 DEF Range
  <2>. QED
    BY <1>3, <2>1
<1>. QED
  BY <1>6, <1>7 DEF Kept, a, b

\* An import of a document into the subscriptions of a urls file.
LEMMA ImportedComesBack ==
  ASSUME NEW r, Readable(r), NEW outlines, IsDocument(outlines), OneWord(ImportOutlines(r, outlines))
  PROVE  LET new == LoadedUrls(Written(ImportOutlines(r, outlines)))
         IN  Kept(r, new) /\ LoadedUrls(Written(ImportOutlines(new, outlines))) = new
<1> DEFINE v == ImportOutlines(r, outlines)
           new == LoadedUrls(Written(v))
           n == Len(outlines)
<1>1. Readable(v) /\ Keeps(r, v) /\ HasFeeds(v, outlines, n)
  BY DocumentArrives DEF Imported
<1> HIDE DEF n
<1>2. OneWord(v)
  OBVIOUS
<1> HIDE DEF v
<1>3. Plain(v)
  BY <1>1, <1>2, OneWordIsPlain
<1>4. Same(v, new) /\ IsReader(new)
  BY <1>1, <1>3, RoundTrip
<1>5. IsReader(v) /\ IsReader(r)
  BY <1>1 DEF Readable
<1>6. Written(new) = Written(v)
  BY <1>4, <1>5, SameIsWritten
<1>7. LoadedUrls(Written(new)) = new
  BY <1>6
<1> HIDE DEF new
<1>8. new.urls = v.urls /\ \A i \in 1 .. Len(v.urls) : TagsOf(new, v.urls[i]) = TagsOf(v, v.urls[i])
  BY <1>4 DEF Same
<1>9. HasFeeds(new, outlines, n)
  BY <1>1, <1>8 DEF HasFeeds
<1>10. ImportOutlines(new, outlines) = new
  BY <1>9, NothingArrives DEF n
<1>11. Keeps(v, new)
  <2>1. Len(v.urls) \in Nat
    BY <1>1 DEF Keeps
  <2>. QED
    BY <1>4, <1>8, <2>1 DEF Keeps
<1>12. Kept(r, new)
  BY <1>1, <1>5, <1>11, KeepsOn, KeepsIsKept
<1>. QED
  BY <1>7, <1>10, <1>12 DEF new, v

\* An import keeps every subscription with its tags in its place, and the same
\* import again adds nothing, as long as no url has a blank in it or is a "#".
THEOREM ImportsKeepSubscriptions == UrlsSpec => ImportKeepsPlainSubscriptions
<1> DEFINE Step == file' # file /\ Import(opml) /\ OneWord(LoadedUrls(file)) /\ OneWord(ImportOutlines(LoadedUrls(file), opml)) =>
                     LET new == LoadedUrls(file')
                     IN  /\ Kept(LoadedUrls(file), new)
                         /\ LoadedUrls(Written(ImportOutlines(new, opml))) = new
<1>1. ImportInv /\ [UrlsNext]_urlVars => [Step]_urlVars
  <2> SUFFICES ASSUME ImportInv, Import(opml), OneWord(ImportOutlines(LoadedUrls(file), opml))
               PROVE  LET new == LoadedUrls(file')
                      IN  /\ Kept(LoadedUrls(file), new)
                          /\ LoadedUrls(Written(ImportOutlines(new, opml))) = new
    OBVIOUS
  <2>1. IsDocument(opml) /\ Readable(LoadedUrls(file))
    BY LoadedIsReadable, UrlsAssumption DEF ImportInv
  <2>2. file' = Written(ImportOutlines(LoadedUrls(file), opml))
    BY DEF Import
  <2>. QED
    BY <2>1, <2>2, ImportedComesBack
<1> HIDE DEF Step
<1>2. UrlsSpec => [][Step]_urlVars
  BY <1>1, ImportInvariant, PTL DEF UrlsSpec
<1>. QED
  BY <1>2 DEF ImportKeepsPlainSubscriptions, Step
=============================================================================
