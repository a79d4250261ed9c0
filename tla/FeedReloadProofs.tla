-------------------------- MODULE FeedReloadProofs --------------------------
(***************************************************************************)
(* Proofs about FeedReload. The first half is about the default            *)
(* configuration: "feed-sort-order none", "reload-only-visible-feeds no",  *)
(* and an urls file nobody edits while the program runs. The number of     *)
(* feeds, of downloadthreads and of range threads, and what the user does  *)
(* otherwise, are arbitrary. The second half is about every configuration. *)
(***************************************************************************)
EXTENDS FeedReload, FiniteSetTheorems, TLAPS

DefaultConfiguration == ~SortByKey /\ ~OnlyVisible /\ "urls" \notin UiOps

N == Len(InitialUrls)

(***************************************************************************)
(* The inductive invariant. Position p of the vector always belongs to the *)
(* p-th feed of the urls file, whichever object is there, and whatever     *)
(* holds a position across a download (a call of reload(), a list of       *)
(* positions to do, an open article list) goes with the same feed.         *)
(***************************************************************************)
TypeInv ==
  /\ feeds \in Seq(Nat) /\ Len(feeds) = N
  /\ obj \in Seq(Feed)
  /\ reload_mutex \in Downloaders \cup {Nobody}
  /\ dl \in [Downloaders -> [pc : Phases, want : SUBSET Urls, indexes : SUBSET Nat]]
  /\ todo \in [Threads -> SUBSET (1 .. N)]
  /\ call \in [Threads -> Call]
  /\ ui \in [pc : {"idle", "update"}, new : Seq(Nat)]
  /\ itemlist \in [url : Urls \cup {"none"}, pos : Nat]
  /\ crashed = FALSE

VectorInv ==
  \A p \in 1 .. N :
    /\ feeds[p] \in 1 .. Len(obj)
    /\ obj[feeds[p]].url = InitialUrls[p]
    /\ obj[feeds[p]].order = p
    /\ ~obj[feeds[p]].cleared

CallInv ==
  \A t \in Threads : Busy(t) =>
    /\ call[t].pos \in 1 .. N
    /\ call[t].old \in 1 .. Len(obj)
    /\ obj[call[t].old].url = InitialUrls[call[t].pos]
    /\ obj[call[t].old].order = call[t].pos
    /\ InitialUrls[call[t].pos] \in call[t].want

ScreenInv ==
  /\ shown \in Seq(Nat) /\ Len(shown) = N
  /\ \A p \in 1 .. N : shown[p] \in 1 .. Len(obj) /\ obj[shown[p]].url = InitialUrls[p]
  /\ itemlist # Closed =>
       itemlist.pos \in 1 .. N /\ itemlist.url = InitialUrls[itemlist.pos]

ThreadInv ==
  /\ \A d \in Downloaders : /\ dl[d].indexes = {}
                            /\ dl[d].pc # "idle" => dl[d].want = Urls
                            /\ dl[d].pc \notin {"idle", "try"} => reload_mutex = d
                            /\ dl[d].pc # "indexes" /\ dl[d].pc # "endless"
  /\ reload_mutex # Nobody => dl[reload_mutex].pc \notin {"idle", "try"}
  /\ \A t \in Threads : todo[t] # {} =>
       reload_mutex # Nobody /\ dl[reload_mutex].pc = "ranges"
  /\ todo[UI] = {}

\* While the ranges are reloaded, each feed without a turn is in one of them.
CoverInv ==
  \A d \in Downloaders : \A p \in 1 .. N :
    obj[feeds[p]].status = "TO_BE_DOWNLOADED" =>
      /\ At(d, "ranges") => \E t \in Threads : p \in todo[t]
      /\ ~At(d, "sort")

IInv == TypeInv /\ VectorInv /\ CallInv /\ ScreenInv /\ ThreadInv /\ CoverInv

-----------------------------------------------------------------------------
(* Lemmas about the operators *)

\* sort_feeds() leaves a vector alone that is in the order of its keys.
LEMMA SortKeepsSorted ==
  ASSUME NEW n \in Nat, NEW s \in [1 .. n -> Nat],
         NEW key, \A i \in 1 .. n : key[i] = i
  PROVE  StableSort(s, key) = s
<1>1. ASSUME NEW i \in 1 .. n PROVE Rank(s, key, i) = i
  <2>1. {j \in DOMAIN s : key[j] < key[i] \/ (key[j] = key[i] /\ j <= i)} = 1 .. i
    OBVIOUS
  <2>2. Cardinality(1 .. i) = i
    BY FS_Interval
  <2>. QED
    BY <2>1, <2>2 DEF Rank
<1>2. ASSUME NEW r \in 1 .. n
      PROVE  (CHOOSE i \in DOMAIN s : Rank(s, key, i) = r) = r
  BY <1>1
<1>. QED
  BY <1>2 DEF StableSort

\* Division: the part a position falls into.
LEMMA DivisionFacts ==
  ASSUME NEW a \in Nat, NEW q \in Nat \ {0}
  PROVE  /\ a \div q \in Nat
         /\ (a \div q) * q <= a
         /\ a < (a \div q) * q + q
  OBVIOUS

\* The ranges of reload_all()'s threads leave out no position.
LEMMA PartitionCovers ==
  ASSUME NEW n \in Nat \ {0}, NEW k \in 1 .. n, NEW p \in 1 .. n
  PROVE  \E i \in 1 .. k : p \in Partition(n, k, i)
<1> DEFINE q == n \div k
<1>1. q \in Nat /\ q * k <= n /\ n < q * k + k
  BY DivisionFacts
<1>2. q # 0
  BY <1>1
<1>3. CASE (k - 1) * q < p
  BY <1>3 DEF Partition, PartSize
<1>4. CASE ~((k - 1) * q < p)
  <2>1. PICK j \in Nat : j * q <= p - 1 /\ p - 1 < j * q + q
    <3>1. p - 1 \in Nat /\ q \in Nat \ {0}
      BY <1>1, <1>2
    <3> HIDE DEF q
    <3>. QED
      BY <3>1, DivisionFacts
  <2>2. j + 1 < k
    <3>1. j * q < (k - 1) * q
      BY <1>1, <1>4, <2>1
    <3>. QED
      BY <1>1, <1>2, <2>1, <3>1
  <2>3. j * q + q = (j + 1) * q
    BY <1>1, <2>1
  <2>. QED
    BY <1>1, <2>1, <2>2, <2>3, j + 1 \in 1 .. k DEF Partition, PartSize
<1>. QED
  BY <1>3, <1>4

-----------------------------------------------------------------------------
(* The initial states *)

LEMMA UrlsFacts ==
  /\ N \in Nat \ {0}
  /\ InitialUrls \in Seq(Urls) /\ DOMAIN InitialUrls = 1 .. N
  /\ \A p \in 1 .. N : InitialUrls[p] \in Urls
  /\ \A p, q \in 1 .. N : InitialUrls[p] = InitialUrls[q] => p = q
BY FeedReloadAssumption DEF IsUrlFile, N

LEMMA InitInv ==
  ASSUME DefaultConfiguration, Init
  PROVE  IInv
<1> USE UrlsFacts DEF Init
<1>1. /\ obj \in [1 .. N -> Feed] /\ Len(obj) = N
      /\ \A p \in 1 .. N : obj[p] = NewFeed(InitialUrls[p], p)
  BY DEF NewFeed, Feed, Statuses, N
<1>2. feeds = [i \in 1 .. N |-> i]
  <2> DEFINE ids == [i \in 1 .. N |-> i]
             key == [i \in 1 .. N |-> obj[ids[i]].order]
  <2>1. feeds = StableSort(ids, key)
    BY DEF SortResults, DefaultConfiguration
  <2>2. ids \in [1 .. N -> Nat] /\ \A i \in 1 .. N : key[i] = i
    BY <1>1 DEF NewFeed
  <2> HIDE DEF ids, key
  <2>3. StableSort(ids, key) = ids
    BY <2>2, SortKeepsSorted
  <2>. QED
    BY <2>1, <2>3 DEF ids
<1>3. TypeInv
  <2>1. feeds \in Seq(Nat) /\ Len(feeds) = N /\ obj \in Seq(Feed)
    BY <1>1, <1>2
  <2>. QED
    BY <2>1 DEF TypeInv, Idle, Phases, NoCall, Call, UiIdle, Closed
<1>4. VectorInv
  BY <1>1, <1>2 DEF VectorInv, NewFeed
<1>5. CallInv /\ ThreadInv
  BY FeedReloadAssumption DEF CallInv, ThreadInv, Busy, Idle, Threads
<1>6. ScreenInv
  BY <1>1, <1>2, <1>3 DEF ScreenInv, TypeInv, NewFeed
<1>7. CoverInv
  BY <1>1, <1>2 DEF CoverInv, NewFeed
<1>. QED
  BY <1>3, <1>4, <1>5, <1>6, <1>7 DEF IInv

-----------------------------------------------------------------------------
(* The steps of reload(), for any thread *)

\* A status changes one object in nothing but its status.
LEMMA SetStatusFacts ==
  ASSUME obj \in Seq(Feed), NEW o \in 1 .. Len(obj), NEW st \in Statuses
  PROVE  /\ SetStatus(o, st) \in Seq(Feed)
         /\ Len(SetStatus(o, st)) = Len(obj)
         /\ \A i \in 1 .. Len(obj) :
              /\ SetStatus(o, st)[i].url = obj[i].url
              /\ SetStatus(o, st)[i].order = obj[i].order
              /\ SetStatus(o, st)[i].cleared = obj[i].cleared
              /\ i # o => SetStatus(o, st)[i] = obj[i]
         /\ SetStatus(o, st)[o].status = st
<1> DEFINE r == [obj[o] EXCEPT !.status = st]
           new == [i \in 1 .. Len(obj) |-> IF i = o THEN r ELSE obj[i]]
<1>1. obj \in [1 .. Len(obj) -> Feed]
  OBVIOUS
<1>2. obj[o] \in Feed
  BY <1>1
<1>3. /\ r \in Feed /\ r.url = obj[o].url /\ r.order = obj[o].order
      /\ r.cleared = obj[o].cleared /\ r.status = st
  BY <1>2 DEF Feed
<1>4. SetStatus(o, st) = new
  BY <1>1 DEF SetStatus
<1> HIDE DEF r
<1>5. new \in Seq(Feed) /\ Len(new) = Len(obj)
  BY <1>1, <1>3
<1>. QED
  BY <1>3, <1>4, <1>5

\* Whatever happens to the objects, the lines keep their URLs; so does a list
\* that is drawn again.
LEMMA ScreenStays ==
  ASSUME IInv, itemlist' = itemlist, Len(obj') \in Nat, Len(obj) <= Len(obj'),
         \A i \in 1 .. Len(obj) : obj'[i].url = obj[i].url,
         \/ shown' = shown
         \/ shown' = feeds' /\ feeds' \in Seq(Nat) /\ Len(feeds') = N /\ VectorInv'
  PROVE  ScreenInv'
<1>1. CASE shown' = shown
  <2>1. \A p \in 1 .. N : shown[p] \in 1 .. Len(obj) /\ obj[shown[p]].url = InitialUrls[p]
    BY DEF IInv, ScreenInv
  <2>2. Len(obj) \in Nat
    BY DEF IInv, TypeInv
  <2>. QED
    BY <1>1, <2>1, <2>2 DEF IInv, ScreenInv
<1>2. CASE shown' = feeds' /\ feeds' \in Seq(Nat) /\ Len(feeds') = N /\ VectorInv'
  BY <1>2 DEF IInv, ScreenInv, VectorInv
<1>. QED
  BY <1>1, <1>2

LEMMA BeginReloadInv ==
  ASSUME IInv, NEW t \in Threads, ~Busy(t), NEW pos \in 1 .. N,
         NEW want \in SUBSET Urls, InitialUrls[pos] \in want,
         BeginReload(t, pos, want), feeds' = feeds
  PROVE  /\ obj' \in Seq(Feed) /\ call' \in [Threads -> Call]
         /\ Len(obj') = Len(obj) /\ \A i \in 1 .. Len(obj) : obj'[i].url = obj[i].url
         /\ VectorInv' /\ CallInv'
         /\ \A p \in 1 .. N : obj'[feeds[p]].status = "TO_BE_DOWNLOADED" =>
              p # pos /\ obj[feeds[p]].status = "TO_BE_DOWNLOADED"
<1> USE UrlsFacts DEF IInv
<1> DEFINE o == feeds[pos]
<1>1. o \in 1 .. Len(obj) /\ obj[o].url = InitialUrls[pos] /\ obj[o].order = pos
  BY DEF VectorInv
<1>2. /\ call' = [call EXCEPT ![t] = [pos |-> pos, old |-> o, want |-> want]]
      /\ obj' = SetStatus(o, "DURING_DOWNLOAD")
  BY DEF BeginReload, TypeInv
<1>3. /\ obj' \in Seq(Feed) /\ Len(obj') = Len(obj)
      /\ \A i \in 1 .. Len(obj) : /\ obj'[i].url = obj[i].url
                                  /\ obj'[i].order = obj[i].order
                                  /\ obj'[i].cleared = obj[i].cleared
                                  /\ i # o => obj'[i] = obj[i]
      /\ obj'[o].status = "DURING_DOWNLOAD"
  <2>1. obj \in Seq(Feed) /\ "DURING_DOWNLOAD" \in Statuses
    BY DEF TypeInv, Statuses
  <2>. QED
    BY <1>1, <1>2, <2>1, SetStatusFacts
<1>4. call' \in [Threads -> Call]
  BY <1>1, <1>2 DEF TypeInv, Call
<1>5. VectorInv'
  BY SMTT(30), <1>3 DEF VectorInv
<1>6. CallInv'
  <2> SUFFICES ASSUME NEW x \in Threads, Busy(x)'
               PROVE  /\ call'[x].pos \in 1 .. N
                      /\ call'[x].old \in 1 .. Len(obj')
                      /\ obj'[call'[x].old].url = InitialUrls[call'[x].pos]
                      /\ obj'[call'[x].old].order = call'[x].pos
                      /\ InitialUrls[call'[x].pos] \in call'[x].want
    BY DEF CallInv
  <2>1. CASE x = t
    BY <2>1, <1>1, <1>2, <1>3 DEF TypeInv
  <2>2. CASE x # t
    <3>1. call'[x] = call[x] /\ Busy(x)
      BY <2>2, <1>2 DEF TypeInv, Busy
    <3>. QED
      BY <3>1, <1>3 DEF CallInv
  <2>. QED
    BY <2>1, <2>2
<1>7. \A p \in 1 .. N : obj'[feeds[p]].status = "TO_BE_DOWNLOADED" =>
        p # pos /\ obj[feeds[p]].status = "TO_BE_DOWNLOADED"
  BY <1>3 DEF VectorInv
<1>. QED
  BY <1>3, <1>4, <1>5, <1>6, <1>7

\* The object a call began with is where the call will store, or nowhere.
LEMMA OldObjectPosition ==
  ASSUME IInv, NEW t \in Threads, Busy(t), NEW p \in 1 .. N,
         feeds[p] = call[t].old
  PROVE  p = call[t].pos
BY UrlsFacts DEF IInv, VectorInv, CallInv

LEMMA StoredInv ==
  ASSUME IInv, NEW t \in Threads,
         NEW emptied \in SUBSET {feeds[call[t].pos], call[t].old},
         NEW st \in Statuses \ {"TO_BE_DOWNLOADED"},
         Stored(t, call[t].pos, emptied, st), shown' \in {shown, feeds'}
  PROVE  IInv'
<1> USE UrlsFacts DEF IInv
<1> DEFINE c == call[t]
           new == Len(obj) + 1
<1>1. /\ c.pos \in 1 .. N /\ c.old \in 1 .. Len(obj)
      /\ obj[c.old].url = InitialUrls[c.pos] /\ obj[c.old].order = c.pos
      /\ feeds[c.pos] \in 1 .. Len(obj)
  BY DEF Stored, CallInv, VectorInv
<1>2. /\ feeds' = [p \in 1 .. N |-> IF p = c.pos THEN new ELSE feeds[p]]
      /\ feeds' \in Seq(Nat) /\ Len(feeds') = N
  <2>0. feeds \in Seq(Nat) /\ Len(feeds) = N /\ Len(obj) \in Nat
    BY DEF TypeInv
  <2>1. feeds \in [1 .. N -> Nat] /\ new \in Nat
    BY <2>0 DEF new
  <2>2. feeds' = [p \in 1 .. N |-> IF p = c.pos THEN new ELSE feeds[p]]
    BY <2>1 DEF Stored
  <2> HIDE DEF new
  <2>3. feeds' \in [1 .. N -> Nat]
    BY <2>1, <2>2
  <2>. QED
    BY <2>2, <2>3
<1>3. /\ obj' \in Seq(Feed) /\ Len(obj') = new
      /\ obj'[new] = NewFeed(InitialUrls[c.pos], c.pos)
      /\ \A i \in 1 .. Len(obj) : /\ obj'[i].url = obj[i].url
                                  /\ obj'[i].order = obj[i].order
                                  /\ i # c.old /\ i # feeds[c.pos] => obj'[i] = obj[i]
  <2> DEFINE made == NewFeed(InitialUrls[c.pos], c.pos)
             old(i) == [obj[i] EXCEPT
                          !.cleared = @ \/ i \in emptied,
                          !.status = IF i = c.old THEN st ELSE @]
  <2>1. made \in Feed
    BY <1>1 DEF NewFeed, Feed, Statuses
  <2>2. obj \in [1 .. Len(obj) -> Feed] /\ new \in Nat /\ new \notin 1 .. Len(obj)
        /\ 1 .. new = (1 .. Len(obj)) \cup {new}
    BY DEF TypeInv
  <2>3. obj' = [i \in 1 .. new |-> IF i = new THEN made ELSE old(i)]
    BY <1>1 DEF Stored, Url
  <2>4. ASSUME NEW i \in 1 .. Len(obj)
        PROVE  /\ old(i) \in Feed /\ old(i).url = obj[i].url
               /\ old(i).order = obj[i].order
               /\ i # feeds[c.pos] /\ i # c.old => old(i) = obj[i]
    <3>1. obj[i] \in Feed
      BY <2>2
    <3>. QED
      BY <3>1 DEF Feed, Statuses
  <2> HIDE DEF made, old
  <2>5. obj' \in [1 .. new -> Feed] /\ Len(obj') = new
    BY <2>1, <2>2, <2>3, <2>4
  <2>6. obj'[new] = made /\ \A i \in 1 .. Len(obj) : obj'[i] = old(i)
    BY <2>2, <2>3
  <2>7. obj' \in Seq(Feed)
    BY <2>2, <2>5
  <2>8. \A i \in 1 .. Len(obj) : /\ obj'[i].url = obj[i].url
                                 /\ obj'[i].order = obj[i].order
                                 /\ i # c.old /\ i # feeds[c.pos] => obj'[i] = obj[i]
    BY <2>4, <2>6
  <2>. QED
    BY <2>5, <2>6, <2>7, <2>8 DEF made
<1>4. VectorInv'
  <2> SUFFICES ASSUME NEW p \in 1 .. N
               PROVE  /\ feeds'[p] \in 1 .. Len(obj')
                      /\ obj'[feeds'[p]].url = InitialUrls[p]
                      /\ obj'[feeds'[p]].order = p
                      /\ ~obj'[feeds'[p]].cleared
    BY DEF VectorInv
  <2>0. new \in 1 .. new /\ 1 .. Len(obj) \subseteq 1 .. new
    BY DEF TypeInv
  <2>1. CASE p = c.pos
    BY <2>0, <2>1, <1>2, <1>3 DEF NewFeed
  <2>2. CASE p # c.pos
    <3>1. feeds'[p] = feeds[p]
      BY <2>2, <1>2
    <3>2. feeds[p] # feeds[c.pos]
      BY <2>2, <1>1 DEF VectorInv
    <3>3. feeds[p] # c.old
      BY <2>2, OldObjectPosition DEF Stored
    <3>. QED
      BY <2>0, <3>1, <3>2, <3>3, <1>3 DEF VectorInv
  <2>. QED
    BY <2>1, <2>2
<1>5. call' = [call EXCEPT ![t] = NoCall] /\ call' \in [Threads -> Call]
  BY DEF Stored, TypeInv, NoCall, Call
<1>6. CallInv'
  <2> SUFFICES ASSUME NEW x \in Threads, Busy(x)'
               PROVE  /\ call'[x].pos \in 1 .. N
                      /\ call'[x].old \in 1 .. Len(obj')
                      /\ obj'[call'[x].old].url = InitialUrls[call'[x].pos]
                      /\ obj'[call'[x].old].order = call'[x].pos
                      /\ InitialUrls[call'[x].pos] \in call'[x].want
    BY DEF CallInv
  <2>1. call'[x] = call[x] /\ Busy(x)
    BY <1>5 DEF Busy, TypeInv
  <2>2. 1 .. Len(obj) \subseteq 1 .. new
    BY DEF TypeInv
  <2>. QED
    BY <2>1, <2>2, <1>3 DEF CallInv
<1>7. ScreenInv'
  <2>1. itemlist' = itemlist
    BY DEF Stored
  <2>2. Len(obj) \in Nat
    BY DEF TypeInv
  <2>3. Len(obj') \in Nat /\ Len(obj) <= Len(obj')
    BY <1>3, <2>2 DEF new
  <2>. QED
    BY <1>2, <1>3, <1>4, <2>1, <2>3, ScreenStays
<1>8. TypeInv'
  BY <1>2, <1>3, <1>5 DEF TypeInv, Stored
<1>9. ThreadInv'
  BY DEF ThreadInv, Stored
<1>10. CoverInv'
  <2> SUFFICES ASSUME NEW p \in 1 .. N,
                      obj'[feeds'[p]].status = "TO_BE_DOWNLOADED"
               PROVE  obj[feeds[p]].status = "TO_BE_DOWNLOADED"
    BY DEF CoverInv, Stored, At
  <2>1. p # c.pos
    BY <1>2, <1>3 DEF NewFeed, TypeInv
  <2>2. feeds'[p] = feeds[p]
    BY <2>1, <1>2
  <2>3. feeds[p] # feeds[c.pos]
    BY <2>1, <1>1 DEF VectorInv
  <2>4. feeds[p] # c.old
    BY <2>1, OldObjectPosition DEF Stored
  <2>. QED
    BY <2>2, <2>3, <2>4, <1>3 DEF VectorInv
<1>. QED
  BY <1>4, <1>6, <1>7, <1>8, <1>9, <1>10

\* Where a call of reload() stores is where its object was, in the same order.
LEMMA StoreFeedInv ==
  ASSUME IInv, NEW t \in Threads, StoreFeed(t) \/ StoreThenFail(t)
  PROVE  IInv'
<1> DEFINE here == feeds[call[t].pos]
           old == call[t].old
<1>1. Busy(t)
  BY DEF StoreFeed, StoreThenFail, Stored
<1>2. obj[here].order = call[t].pos /\ obj[old].order = call[t].pos
  BY <1>1 DEF IInv, CallInv, VectorInv
<1>3. CASE StoreFeed(t)
  <2>1. Stored(t, call[t].pos, {here, old}, "SUCCESS") /\ shown' = feeds'
    BY <1>2, <1>3 DEF StoreFeed
  <2>2. "SUCCESS" \in Statuses \ {"TO_BE_DOWNLOADED"}
    BY DEF Statuses
  <2> HIDE DEF here, old
  <2>3. {here, old} \in SUBSET {here, old}
    OBVIOUS
  <2>. QED
    BY <2>1, <2>2, <2>3, StoredInv DEF here, old
<1>4. CASE StoreThenFail(t)
  <2>1. Stored(t, call[t].pos, {here}, "DL_ERROR") /\ shown' = shown
    BY <1>2, <1>4 DEF StoreThenFail
  <2>2. "DL_ERROR" \in Statuses \ {"TO_BE_DOWNLOADED"}
    BY DEF Statuses
  <2> HIDE DEF here, old
  <2>3. {here} \in SUBSET {here, old}
    OBVIOUS
  <2>. QED
    BY <2>1, <2>2, <2>3, StoredInv DEF here, old
<1>. QED
  BY <1>3, <1>4

LEMMA NothingStoredInv ==
  ASSUME IInv, NEW t \in Threads,
         NEW st \in Statuses \ {"TO_BE_DOWNLOADED"}, NothingStored(t, st)
  PROVE  IInv'
<1> USE UrlsFacts DEF IInv
<1> DEFINE o == call[t].old
<1>1. o \in 1 .. Len(obj) /\ obj' = SetStatus(o, st)
  BY DEF NothingStored, CallInv
<1>2. /\ obj' \in Seq(Feed) /\ Len(obj') = Len(obj)
      /\ \A i \in 1 .. Len(obj) : /\ obj'[i].url = obj[i].url
                                  /\ obj'[i].order = obj[i].order
                                  /\ obj'[i].cleared = obj[i].cleared
                                  /\ i # o => obj'[i] = obj[i]
      /\ obj'[o].status = st
  <2>1. obj \in Seq(Feed) /\ st \in Statuses
    BY DEF TypeInv
  <2> HIDE DEF o
  <2>2. /\ SetStatus(o, st) \in Seq(Feed) /\ Len(SetStatus(o, st)) = Len(obj)
        /\ \A i \in 1 .. Len(obj) :
             /\ SetStatus(o, st)[i].url = obj[i].url
             /\ SetStatus(o, st)[i].order = obj[i].order
             /\ SetStatus(o, st)[i].cleared = obj[i].cleared
             /\ i # o => SetStatus(o, st)[i] = obj[i]
        /\ SetStatus(o, st)[o].status = st
    BY <1>1, <2>1, SetStatusFacts
  <2>. QED
    BY <1>1, <2>2
<1>3. /\ call' = [call EXCEPT ![t] = NoCall] /\ call' \in [Threads -> Call]
      /\ UNCHANGED <<feeds, reload_mutex, dl, todo, ui, shown, itemlist, crashed>>
  BY DEF NothingStored, TypeInv, NoCall, Call
<1>4. TypeInv'
  BY <1>2, <1>3 DEF TypeInv
<1>5. VectorInv'
  BY <1>2, <1>3 DEF VectorInv
<1>6. CallInv'
  <2> SUFFICES ASSUME NEW x \in Threads, Busy(x)'
               PROVE  /\ call'[x].pos \in 1 .. N
                      /\ call'[x].old \in 1 .. Len(obj')
                      /\ obj'[call'[x].old].url = InitialUrls[call'[x].pos]
                      /\ obj'[call'[x].old].order = call'[x].pos
                      /\ InitialUrls[call'[x].pos] \in call'[x].want
    BY DEF CallInv
  <2>1. call'[x] = call[x] /\ Busy(x)
    BY <1>3 DEF Busy, TypeInv
  <2>. QED
    BY <2>1, <1>2 DEF CallInv
<1>7. ScreenInv' /\ ThreadInv'
  <2>1. Len(obj') \in Nat /\ Len(obj) <= Len(obj')
    BY <1>2 DEF TypeInv
  <2>2. ScreenInv'
    BY <1>2, <1>3, <2>1, ScreenStays
  <2>. QED
    BY <1>3, <2>2 DEF ThreadInv
<1>8. CoverInv'
  <2>1. ASSUME NEW p \in 1 .. N, obj'[feeds[p]].status = "TO_BE_DOWNLOADED"
        PROVE  obj[feeds[p]].status = "TO_BE_DOWNLOADED"
    BY <2>1, <1>2 DEF VectorInv
  <2>. QED
    BY <2>1, <1>3 DEF CoverInv, At
<1>. QED
  BY <1>4, <1>5, <1>6, <1>7, <1>8

\* No call holds a position beyond the end of the vector.
LEMMA EndReloadInv ==
  ASSUME IInv, NEW t \in Threads, EndReload(t)
  PROVE  IInv'
<1>1. CASE StoreFeed(t) \/ StoreThenFail(t)
  BY <1>1, StoreFeedInv
<1>2. CASE StoreBeyondEnd(t)
  BY <1>2, UrlsFacts DEF StoreBeyondEnd, IInv, TypeInv, CallInv
<1>3. CASE EmptyFeed(t)
  BY <1>3, NothingStoredInv DEF EmptyFeed, Statuses
<1>4. CASE FailedFeed(t)
  BY <1>4, NothingStoredInv DEF FailedFeed, Statuses
<1>. QED
  BY <1>1, <1>2, <1>3, <1>4 DEF EndReload

-----------------------------------------------------------------------------
(* The steps of the background threads *)

LEMMA NextFeedInv ==
  ASSUME IInv, NEW t \in Threads, NextFeed(t)
  PROVE  IInv'
<1> USE UrlsFacts DEF IInv
<1>1. PICK pos \in todo[t] : /\ todo' = [todo EXCEPT ![t] = @ \ {pos}]
                             /\ BeginReload(t, pos, dl[reload_mutex].want)
  BY DEF NextFeed
<1>2. /\ t # UI /\ ~Busy(t)
      /\ UNCHANGED <<feeds, reload_mutex, dl, ui, shown, itemlist, crashed>>
  BY DEF NextFeed
<1>3. pos \in 1 .. N
  BY <1>1 DEF TypeInv
<1>4. dl[reload_mutex].want = Urls
  BY <1>1 DEF ThreadInv, TypeInv
<1>5. InitialUrls[pos] \in Urls
  BY <1>3
<1>6. /\ obj' \in Seq(Feed) /\ call' \in [Threads -> Call]
      /\ Len(obj') = Len(obj) /\ \A i \in 1 .. Len(obj) : obj'[i].url = obj[i].url
      /\ VectorInv' /\ CallInv'
      /\ \A p \in 1 .. N : obj'[feeds[p]].status = "TO_BE_DOWNLOADED" =>
           p # pos /\ obj[feeds[p]].status = "TO_BE_DOWNLOADED"
  <2>1. BeginReload(t, pos, Urls) /\ feeds' = feeds
    BY <1>1, <1>2, <1>4
  <2>. QED
    BY <1>2, <1>3, <1>5, <2>1, BeginReloadInv
<1>7. /\ todo' \in [Threads -> SUBSET (1 .. N)]
      /\ \A x \in Threads : todo'[x] \subseteq todo[x]
      /\ \A x \in Threads, p \in 1 .. N : p # pos /\ p \in todo[x] => p \in todo'[x]
  BY <1>1 DEF TypeInv
<1>8. TypeInv' /\ ScreenInv'
  <2>1. TypeInv'
    BY <1>2, <1>6, <1>7 DEF TypeInv
  <2>2. Len(obj') \in Nat /\ Len(obj) <= Len(obj')
    BY <1>6 DEF TypeInv
  <2>. QED
    BY <1>2, <1>6, <2>1, <2>2, ScreenStays
<1>9. ThreadInv'
  BY <1>2, <1>7 DEF ThreadInv, Threads
<1>10. CoverInv'
  BY <1>2, <1>6, <1>7 DEF CoverInv, At
<1>. QED
  BY <1>6, <1>8, <1>9, <1>10

\* A thread that goes on keeps what it was asked for.
LEMMA GotoFacts ==
  ASSUME TypeInv, NEW d \in Downloaders, NEW pc \in Phases, Goto(d, pc)
  PROVE  /\ dl' \in [Downloaders -> [pc : Phases, want : SUBSET Urls,
                                     indexes : SUBSET Nat]]
         /\ dl'[d].pc = pc
         /\ dl'[d].want = dl[d].want /\ dl'[d].indexes = dl[d].indexes
         /\ \A e \in Downloaders \ {d} : dl'[e] = dl[e]
<1> DEFINE r == [dl[d] EXCEPT !.pc = pc]
<1>1. dl[d] \in [pc : Phases, want : SUBSET Urls, indexes : SUBSET Nat]
  BY DEF TypeInv
<1>2. /\ r \in [pc : Phases, want : SUBSET Urls, indexes : SUBSET Nat]
      /\ r.pc = pc /\ r.want = dl[d].want /\ r.indexes = dl[d].indexes
  BY <1>1
<1>3. dl' = [e \in Downloaders |-> IF e = d THEN r ELSE dl[e]]
  BY DEF Goto, TypeInv
<1> HIDE DEF r
<1>. QED
  BY <1>2, <1>3 DEF TypeInv

LEMMA TryLockInv ==
  ASSUME IInv, NEW d \in Downloaders, TryLock(d)
  PROVE  IInv'
<1> USE UrlsFacts DEF IInv
<1>1. UNCHANGED <<feeds, obj, call, ui, shown, itemlist, crashed>> /\ At(d, "try")
  BY DEF TryLock
<1>2. VectorInv' /\ CallInv' /\ ScreenInv'
  BY <1>1 DEF VectorInv, CallInv, ScreenInv, Busy
<1>3. CASE reload_mutex = Nobody
  <2>1. /\ reload_mutex' = d /\ Goto(d, "reset")
        /\ todo' = [todo EXCEPT ![d] = {}]
    BY <1>3 DEF TryLock, ThreadInv
  <2>2. /\ dl' \in [Downloaders -> [pc : Phases, want : SUBSET Urls,
                                    indexes : SUBSET Nat]]
        /\ dl'[d].pc = "reset"
        /\ dl'[d].want = dl[d].want /\ dl'[d].indexes = dl[d].indexes
        /\ \A e \in Downloaders \ {d} : dl'[e] = dl[e]
    BY <2>1, GotoFacts DEF Phases
  <2>3. todo' \in [Threads -> SUBSET (1 .. N)] /\ \A x \in Threads : todo'[x] \subseteq todo[x]
    <3>1. todo \in [Threads -> SUBSET (1 .. N)]
      BY DEF TypeInv
    <3>. QED
      BY <2>1, <3>1
  <2>4. TypeInv'
    BY <1>1, <2>1, <2>2, <2>3 DEF TypeInv
  <2>5. \A e \in Downloaders \ {d} : dl[e].pc \in {"idle", "try"}
    BY <1>3, FeedReloadAssumption DEF ThreadInv
  <2>8. \A t \in Threads : todo'[t] = {}
    BY <1>3, <2>3 DEF ThreadInv
  <2>6. ThreadInv'
    <3>1. UI \in Threads
      BY DEF Threads
    <3>. QED
      BY <1>1, <2>1, <2>2, <2>8, <3>1, <2>5, FeedReloadAssumption DEF ThreadInv, At
  <2>7. CoverInv'
    BY <1>1, <2>2, <2>5 DEF CoverInv, At
  <2>. QED
    BY <1>2, <2>4, <2>6, <2>7
<1>4. CASE reload_mutex # Nobody
  <2>1. dl' = [dl EXCEPT ![d] = Idle] /\ UNCHANGED <<reload_mutex, todo>>
    BY <1>4 DEF TryLock
  <2>2. TypeInv'
    BY <1>1, <2>1 DEF TypeInv, Idle, Phases
  <2>3. ThreadInv'
    BY <1>1, <1>4, <2>1 DEF ThreadInv, TypeInv, Idle, At
  <2>4. CoverInv'
    BY <1>1, <2>1 DEF CoverInv, TypeInv, Idle, At
  <2>. QED
    BY <1>2, <2>2, <2>3, <2>4
<1>. QED
  BY <1>3, <1>4

\* The ranges reload_all() hands out cover the vector.
LEMMA ResetStatusInv ==
  ASSUME IInv, NEW d \in Downloaders, ResetStatus(d)
  PROVE  IInv'
<1> USE UrlsFacts DEF IInv
<1>0. NumThreads \in 1 .. N /\ Len(feeds) = N /\ DOMAIN feeds = 1 .. N
      /\ NumThreads <= ReloadThreads
  BY FeedReloadAssumption DEF NumThreads, TypeInv
<1>1. /\ UNCHANGED <<feeds, reload_mutex, call, ui, shown, itemlist, crashed>>
      /\ At(d, "reset") /\ reload_mutex = d
  BY DEF ResetStatus, ThreadInv, At
<1>2. /\ obj' \in Seq(Feed) /\ Len(obj') = Len(obj)
      /\ \A i \in 1 .. Len(obj) : /\ obj'[i].url = obj[i].url
                                  /\ obj'[i].order = obj[i].order
                                  /\ obj'[i].cleared = obj[i].cleared
  <2> DEFINE waiting(i) == [obj[i] EXCEPT !.status = "TO_BE_DOWNLOADED"]
             listed(i) == \E j \in DOMAIN feeds : feeds[j] = i
  <2>1. obj \in [1 .. Len(obj) -> Feed]
    BY DEF TypeInv
  <2>2. ASSUME NEW i \in 1 .. Len(obj)
        PROVE  /\ waiting(i) \in Feed /\ waiting(i).url = obj[i].url
               /\ waiting(i).order = obj[i].order
               /\ waiting(i).cleared = obj[i].cleared
    <3>1. obj[i] \in Feed
      BY <2>1
    <3>. QED
      BY <3>1 DEF Feed, Statuses
  <2>3. obj' = [i \in 1 .. Len(obj) |-> IF listed(i) THEN waiting(i) ELSE obj[i]]
    BY <2>1 DEF ResetStatus
  <2>4. Len(obj) \in Nat
    BY DEF TypeInv
  <2> HIDE DEF waiting, listed
  <2>. QED
    BY <2>1, <2>2, <2>3, <2>4
<1>3. VectorInv'
  BY <1>1, <1>2 DEF VectorInv
<1>4. CallInv'
  BY <1>1, <1>2 DEF CallInv, Busy
<1>5. ScreenInv'
  <2>1. Len(obj') \in Nat /\ Len(obj) <= Len(obj')
    BY <1>2 DEF TypeInv
  <2>. QED
    BY <1>1, <1>2, <2>1, ScreenStays
<1>6. /\ dl' \in [Downloaders -> [pc : Phases, want : SUBSET Urls,
                                  indexes : SUBSET Nat]]
      /\ dl'[d].pc = "ranges"
      /\ dl'[d].want = dl[d].want /\ dl'[d].indexes = dl[d].indexes
      /\ \A e \in Downloaders \ {d} : dl'[e] = dl[e]
      /\ todo' = [t \in Threads |->
           IF t = d THEN Partition(N, NumThreads, NumThreads)
           ELSE IF t \in 1 .. (NumThreads - 1)
                THEN Partition(N, NumThreads, t) ELSE todo[t]]
  <2>1. feeds # <<>>
    BY <1>0
  <2>2. Goto(d, "ranges") /\ "ranges" \in Phases /\ TypeInv
    BY <2>1 DEF ResetStatus, Phases
  <2>3. todo' = [t \in Threads |->
           IF t = d THEN Partition(N, NumThreads, NumThreads)
           ELSE IF t \in 1 .. (NumThreads - 1)
                THEN Partition(N, NumThreads, t) ELSE todo[t]]
    BY <1>0, <2>1 DEF ResetStatus
  <2>. QED
    BY <2>2, <2>3, GotoFacts
<1>7. TypeInv'
  <2>1. \A i : Partition(N, NumThreads, i) \subseteq 1 .. N
    BY DEF Partition
  <2>2. todo' \in [Threads -> SUBSET (1 .. N)]
    BY <1>6, <2>1 DEF TypeInv
  <2>. QED
    BY <1>1, <1>2, <1>6, <2>2 DEF TypeInv
<1>8. ThreadInv'
  <2>1. todo'[UI] = {}
    BY <1>0, <1>6, FeedReloadAssumption DEF ThreadInv, Threads
  <2>2. reload_mutex' # Nobody
    BY <1>1, FeedReloadAssumption
  <2>. QED
    BY <1>1, <1>6, <2>1, <2>2 DEF ThreadInv, At
<1>9. CoverInv'
  <2> SUFFICES ASSUME NEW e \in Downloaders, NEW p \in 1 .. N
               PROVE  /\ At(e, "ranges")' => \E t \in Threads : p \in todo'[t]
                      /\ ~At(e, "sort")'
    BY DEF CoverInv
  <2>1. e # d => dl'[e].pc \in {"idle", "try"}
    BY <1>1, <1>6 DEF ThreadInv
  <2>2. ~At(e, "sort")'
    BY <1>6, <2>1 DEF At
  <2>3. PICK i \in 1 .. NumThreads : p \in Partition(N, NumThreads, i)
    BY <1>0, PartitionCovers
  <2>4. CASE i = NumThreads
    BY <1>6, <2>2, <2>3, <2>4 DEF Threads
  <2>5. CASE i # NumThreads
    <3>1. i \in 1 .. (NumThreads - 1) /\ i \in Workers /\ i # d
      BY <1>0, <2>5, FeedReloadAssumption DEF Workers
    <3>. QED
      BY <1>6, <2>2, <2>3, <3>1 DEF Threads
  <2>. QED
    BY <2>4, <2>5
<1>. QED
  BY <1>3, <1>4, <1>5, <1>7, <1>8, <1>9

\* Once every range is through, no feed has been left out.
LEMMA JoinInv ==
  ASSUME IInv, NEW d \in Downloaders, Join(d)
  PROVE  IInv'
<1> USE DEF IInv
<1>1. /\ UNCHANGED <<feeds, obj, reload_mutex, todo, call, ui, shown, itemlist, crashed>>
      /\ At(d, "ranges") /\ RangesDone /\ Goto(d, "sort") /\ "sort" \in Phases
  BY DEF Join, Phases
<1>2. /\ dl' \in [Downloaders -> [pc : Phases, want : SUBSET Urls, indexes : SUBSET Nat]]
      /\ dl'[d].pc = "sort"
      /\ dl'[d].want = dl[d].want /\ dl'[d].indexes = dl[d].indexes
      /\ \A e \in Downloaders \ {d} : dl'[e] = dl[e]
  BY <1>1, GotoFacts
<1>3. TypeInv'
  BY <1>1, <1>2 DEF TypeInv
<1>4. VectorInv' /\ CallInv' /\ ScreenInv'
  BY <1>1 DEF VectorInv, CallInv, ScreenInv, Busy
<1>5. \A t \in Threads : todo[t] = {}
  BY <1>1 DEF RangesDone, ThreadInv
<1>7. ThreadInv'
  <2>1. UI \in Threads
    BY DEF Threads
  <2>. QED
    BY <1>1, <1>2, <1>5, <2>1 DEF ThreadInv, At
<1>6. CoverInv'
  <2>2. \A p \in 1 .. N : obj[feeds[p]].status # "TO_BE_DOWNLOADED"
    BY <1>1, <1>5 DEF CoverInv
  <2>. QED
    BY <1>1, <2>2 DEF CoverInv
<1>. QED
  BY <1>3, <1>4, <1>6, <1>7

\* With the default order, sort_feeds() never moves a feed.
LEMMA SortResultsFact ==
  ASSUME DefaultConfiguration, IInv
  PROVE  SortResults(feeds) = {feeds}
<1> DEFINE key == [i \in 1 .. N |-> obj[feeds[i]].order]
<1>1. feeds \in [1 .. N -> Nat] /\ DOMAIN feeds = 1 .. N /\ N \in Nat
  BY UrlsFacts DEF IInv, TypeInv
<1>2. \A i \in 1 .. N : key[i] = i
  BY DEF IInv, VectorInv
<1>3. SortResults(feeds) = {StableSort(feeds, key)}
  BY <1>1 DEF SortResults, DefaultConfiguration
<1> HIDE DEF key
<1>. QED
  BY <1>1, <1>2, <1>3, SortKeepsSorted

\* The steps that only move a downloadthread on, once its ranges are done.
LEMMA FinishInv ==
  ASSUME DefaultConfiguration, IInv, NEW d \in Downloaders,
         SortAfter(d) \/ UpdateAfter(d) \/ Unlock(d)
  PROVE  IInv'
<1> USE DEF IInv
<1>1. UNCHANGED <<feeds, obj, todo, call, ui, itemlist, crashed>>
  BY SortResultsFact DEF SortAfter, UpdateAfter, Unlock
<1>2. VectorInv' /\ CallInv'
  BY <1>1 DEF VectorInv, CallInv, Busy
<1>3. VectorInv' /\ CallInv' /\ ScreenInv'
  <2>1. shown' \in {shown, feeds'}
    BY <1>1 DEF SortAfter, UpdateAfter, Unlock
  <2>2. /\ Len(obj') \in Nat /\ Len(obj) <= Len(obj')
        /\ feeds' \in Seq(Nat) /\ Len(feeds') = N
    BY <1>1 DEF TypeInv
  <2>3. ScreenInv'
    BY <1>1, <1>2, <2>1, <2>2, ScreenStays
  <2>. QED
    BY <1>2, <2>3
<1>4. CASE SortAfter(d) \/ UpdateAfter(d)
  <2>1. PICK pc \in {"update", "unlock"} : Goto(d, pc)
    BY <1>4 DEF SortAfter, UpdateAfter
  <2>2. reload_mutex' = reload_mutex /\ dl[d].pc \notin {"idle", "try"}
    BY <1>4 DEF SortAfter, UpdateAfter, At
  <2>3. /\ dl' \in [Downloaders -> [pc : Phases, want : SUBSET Urls, indexes : SUBSET Nat]]
        /\ dl'[d].pc = pc
        /\ dl'[d].want = dl[d].want /\ dl'[d].indexes = dl[d].indexes
        /\ \A e \in Downloaders \ {d} : dl'[e] = dl[e]
    <3>1. pc \in Phases
      BY DEF Phases
    <3>. QED
      BY <2>1, <3>1, GotoFacts
  <2>4. TypeInv'
    BY <1>1, <2>2, <2>3 DEF TypeInv
  <2>7. \A t \in Threads : todo[t] = {}
    BY <1>4 DEF ThreadInv, At, SortAfter, UpdateAfter
  <2>5. ThreadInv'
    <3>1. UI \in Threads
      BY DEF Threads
    <3>. QED
      BY <1>1, <2>1, <2>2, <2>3, <2>7, <3>1 DEF ThreadInv
  <2>6. CoverInv'
    BY <1>1, <2>1, <2>3 DEF CoverInv, At
  <2>. QED
    BY <1>3, <2>4, <2>5, <2>6
<1>5. CASE Unlock(d)
  <2>1. reload_mutex' = Nobody /\ dl' = [dl EXCEPT ![d] = Idle] /\ At(d, "unlock")
    BY <1>5 DEF Unlock
  <2>2. reload_mutex = d
    BY <2>1 DEF ThreadInv, At
  <2>3. TypeInv'
    BY <1>1, <2>1 DEF TypeInv, Idle, Phases
  <2>4. \A t \in Threads : todo[t] = {}
    BY <2>1, <2>2 DEF ThreadInv, At
  <2>5. ThreadInv'
    BY <1>1, <2>1, <2>2, <2>4 DEF ThreadInv, TypeInv, Idle
  <2>6. CoverInv'
    BY <1>1, <2>1 DEF CoverInv, TypeInv, At, Idle
  <2>. QED
    BY <1>3, <2>3, <2>5, <2>6
<1>. QED
  BY <1>4, <1>5

-----------------------------------------------------------------------------
(* The steps of the main thread *)

LEMMA UiReloadInv ==
  ASSUME IInv, (\E i \in DOMAIN shown : ReloadSelected(i)) \/ ReloadOpen
  PROVE  IInv'
<1> USE UrlsFacts DEF IInv
<1>1. /\ UNCHANGED <<feeds, reload_mutex, dl, todo, ui, shown, itemlist, crashed>>
      /\ UI \in Threads /\ ~Busy(UI)
  BY DEF ReloadSelected, ReloadOpen, UiFree, Threads
<1>2. PICK pos \in 1 .. N, want \in SUBSET Urls :
        InitialUrls[pos] \in want /\ BeginReload(UI, pos, want)
  <2>1. CASE \E i \in DOMAIN shown : ReloadSelected(i)
    <3>1. PICK i \in DOMAIN shown : BeginReload(UI, i, {Url(shown[i])})
      BY <2>1 DEF ReloadSelected
    <3>2. i \in 1 .. N /\ Url(shown[i]) = InitialUrls[i]
      BY DEF ScreenInv, Url
    <3>. QED
      BY <3>1, <3>2
  <2>2. CASE ReloadOpen
    BY <2>2 DEF ReloadOpen, ScreenInv
  <2>. QED
    BY <2>1, <2>2
<1>3. /\ obj' \in Seq(Feed) /\ call' \in [Threads -> Call]
      /\ Len(obj') = Len(obj) /\ \A i \in 1 .. Len(obj) : obj'[i].url = obj[i].url
      /\ VectorInv' /\ CallInv'
      /\ \A p \in 1 .. N : obj'[feeds[p]].status = "TO_BE_DOWNLOADED" =>
           obj[feeds[p]].status = "TO_BE_DOWNLOADED"
  <2>1. InitialUrls[pos] \in want /\ BeginReload(UI, pos, want) /\ feeds' = feeds
    BY <1>1, <1>2
  <2>. QED
    BY <1>1, <2>1, BeginReloadInv
<1>4. TypeInv' /\ ScreenInv' /\ ThreadInv'
  <2>1. TypeInv' /\ ThreadInv'
    BY <1>1, <1>3 DEF TypeInv, ThreadInv
  <2>2. Len(obj') \in Nat /\ Len(obj) <= Len(obj')
    BY <1>3 DEF TypeInv
  <2>. QED
    BY <1>1, <1>3, <2>1, <2>2, ScreenStays
<1>5. CoverInv'
  BY <1>1, <1>3 DEF CoverInv, At
<1>. QED
  BY <1>3, <1>4, <1>5

\* A new downloadthread is asked for every feed.
LEMMA StartInv ==
  ASSUME DefaultConfiguration, IInv, NEW d \in Downloaders,
         AutoReload(d) \/ (\E V \in SUBSET DOMAIN shown : StartReloadAll(d, V))
  PROVE  IInv'
<1> USE DEF IInv
<1>1. /\ UNCHANGED <<feeds, obj, reload_mutex, todo, call, ui, shown, itemlist, crashed>>
      /\ At(d, "idle")
      /\ dl' = [dl EXCEPT ![d] = [pc |-> "try", want |-> Urls, indexes |-> {}]]
  BY DEF AutoReload, StartReloadAll, DefaultConfiguration
<1>2. VectorInv' /\ CallInv' /\ ScreenInv'
  BY <1>1 DEF VectorInv, CallInv, ScreenInv, Busy
<1>3. TypeInv'
  BY <1>1 DEF TypeInv, Phases
<1>4. ThreadInv'
  BY <1>1 DEF ThreadInv, TypeInv, At
<1>5. CoverInv'
  BY <1>1 DEF CoverInv, TypeInv, At
<1>. QED
  BY <1>2, <1>3, <1>4, <1>5

LEMMA ListInv ==
  ASSUME DefaultConfiguration, IInv,
         \/ \E i \in DOMAIN shown : OpenFeed(i)
         \/ CloseFeed \/ SortList \/ UpdateList
  PROVE  IInv'
<1> USE UrlsFacts DEF IInv
<1>1. UNCHANGED <<feeds, obj, reload_mutex, dl, todo, call>>
  BY SortResultsFact DEF OpenFeed, CloseFeed, SortList, UpdateList
<1>2. VectorInv' /\ CallInv' /\ ThreadInv' /\ CoverInv'
  BY <1>1 DEF VectorInv, CallInv, ThreadInv, CoverInv, Busy, At
<1>3. CASE \E i \in DOMAIN shown : OpenFeed(i)
  <2>1. PICK i \in 1 .. N : OpenFeed(i)
    BY <1>3 DEF ScreenInv
  <2>2. /\ itemlist' = [url |-> InitialUrls[i], pos |-> i]
        /\ UNCHANGED <<crashed, ui, shown>>
    BY <2>1 DEF OpenFeed, TypeInv, VectorInv, Url
  <2>3. TypeInv' /\ ScreenInv'
    BY <1>1, <2>2 DEF TypeInv, ScreenInv
  <2>. QED
    BY <1>2, <2>3
<1>4. CASE CloseFeed
  BY <1>1, <1>2, <1>4 DEF CloseFeed, Closed, TypeInv, ScreenInv
<1>5. CASE SortList
  <2>1. /\ ui' \in [pc : {"idle", "update"}, new : Seq(Nat)]
        /\ UNCHANGED <<shown, itemlist, crashed>>
    BY <1>5 DEF SortList, TypeInv
  <2>. QED
    BY <1>1, <1>2, <2>1 DEF TypeInv, ScreenInv
<1>6. CASE UpdateList
  <2>1. shown' = feeds' /\ ui' = UiIdle /\ UNCHANGED <<itemlist, crashed>>
    BY <1>1, <1>6 DEF UpdateList
  <2>2. TypeInv'
    BY <1>1, <2>1 DEF TypeInv, UiIdle
  <2>. QED
    BY <1>1, <1>2, <2>1, <2>2 DEF TypeInv, ScreenInv, VectorInv
<1>. QED
  BY <1>3, <1>4, <1>5, <1>6

-----------------------------------------------------------------------------
(* The invariant, and what follows from it *)

LEMMA NextInv ==
  ASSUME DefaultConfiguration, IInv, [Next]_vars
  PROVE  IInv'
<1>1. CASE UNCHANGED vars
  BY <1>1 DEF vars, IInv, TypeInv, VectorInv, CallInv, ScreenInv, ThreadInv,
              CoverInv, Busy, At
<1>2. CASE UiStep
  <2>1. CASE \E d \in Downloaders, V \in SUBSET DOMAIN shown : StartReloadAll(d, V)
    BY <2>1, StartInv
  <2>2. CASE (\E i \in DOMAIN shown : ReloadSelected(i)) \/ ReloadOpen
    BY <2>2, UiReloadInv
  <2>3. CASE (\E i \in DOMAIN shown : OpenFeed(i)) \/ CloseFeed \/ SortList \/ UpdateList
    BY <2>3, ListInv
  <2>4. CASE EndReload(UI)
    BY <2>4, EndReloadInv DEF Threads
  <2>5. CASE (\E file \in UrlFiles : BuildFeeds(file)) \/ SwapFeeds \/ SortNewFeeds
    BY <2>5 DEF BuildFeeds, SwapFeeds, SortNewFeeds, DefaultConfiguration, IInv, TypeInv
  <2>. QED
    BY <1>2, <2>1, <2>2, <2>3, <2>4, <2>5 DEF UiStep
<1>3. ASSUME NEW d \in Downloaders, Downloader(d)
      PROVE  IInv'
  <2>1. CASE IndexesDone(d)
    BY <2>1 DEF IndexesDone, IInv, ThreadInv, At
  <2>2. d \in Threads
    BY DEF Threads
  <2>. QED
    BY <1>3, <2>1, <2>2, TryLockInv, ResetStatusInv, JoinInv, FinishInv,
       NextFeedInv, EndReloadInv DEF Downloader
<1>4. ASSUME NEW w \in Workers, Worker(w)
      PROVE  IInv'
  BY <1>4, NextFeedInv, EndReloadInv DEF Worker, Threads
<1>5. CASE \E d \in Downloaders : AutoReload(d)
  BY <1>5, StartInv
<1>. QED
  BY <1>1, <1>2, <1>3, <1>4, <1>5 DEF Next

\* In the default configuration every reachable state satisfies IInv.
THEOREM Invariance ==
  ASSUME DefaultConfiguration
  PROVE  Spec => []IInv
<1>1. Init => IInv
  BY InitInv
<1>2. IInv /\ [Next]_vars => IInv'
  BY NextInv
<1>. QED
  BY <1>1, <1>2, PTL DEF Spec

\* The state is well typed in the default configuration, for every number of
\* feeds and threads: in particular no index leaves the vector.
THEOREM TypeCorrect ==
  ASSUME DefaultConfiguration
  PROVE  Spec => [](TypeOK /\ NoIndexBeyondEnd)
<1>1. IInv => TypeOK /\ NoIndexBeyondEnd
  <2> SUFFICES ASSUME IInv PROVE TypeOK /\ NoIndexBeyondEnd
    OBVIOUS
  <2>1. todo \in [Threads -> SUBSET Nat]
    BY UrlsFacts DEF IInv, TypeInv
  <2>2. shown \in Seq(Nat)
    BY DEF IInv, ScreenInv
  <2>3. ui \in [pc : {"idle", "update", "swap", "sort"}, new : Seq(Nat)]
    BY DEF IInv, TypeInv
  <2>4. /\ feeds \in Seq(Nat) /\ obj \in Seq(Feed) /\ call \in [Threads -> Call]
        /\ reload_mutex \in Downloaders \cup {Nobody} /\ crashed = FALSE
        /\ dl \in [Downloaders -> [pc : Phases, want : SUBSET Urls,
                                   indexes : SUBSET Nat]]
        /\ itemlist \in [url : Urls \cup {"none"}, pos : Nat]
    BY DEF IInv, TypeInv
  <2>. QED
    BY <2>1, <2>2, <2>3, <2>4 DEF TypeOK, NoIndexBeyondEnd
<1>. QED
  BY <1>1, Invariance, PTL

\* In the default configuration reload() never puts a feed where another one
\* is: controller::feeds names no feed twice, and drops none of the urls file.
THEOREM VectorKept ==
  ASSUME DefaultConfiguration
  PROVE  Spec => [](OneFeedPerUrl /\ NoFeedLost)
<1>1. IInv => OneFeedPerUrl /\ NoFeedLost
  <2> SUFFICES ASSUME IInv PROVE OneFeedPerUrl /\ NoFeedLost
    OBVIOUS
  <2>1. DOMAIN feeds = 1 .. N /\ \A p \in 1 .. N : Url(feeds[p]) = InitialUrls[p]
    BY DEF IInv, TypeInv, VectorInv, Url
  <2>2. OneFeedPerUrl
    BY <2>1, UrlsFacts DEF OneFeedPerUrl
  <2>3. NoFeedLost
    BY <2>1, UrlsFacts DEF NoFeedLost
  <2>. QED
    BY <2>2, <2>3
<1>. QED
  BY <1>1, Invariance, PTL

\* clear_items() in reload() only hits objects that have left the vector.
THEOREM ArticlesKept ==
  ASSUME DefaultConfiguration
  PROVE  Spec => []ListedFeedsHaveArticles
<1>1. IInv => ListedFeedsHaveArticles
  BY UrlsFacts DEF IInv, TypeInv, VectorInv, ListedFeedsHaveArticles
<1>. QED
  BY <1>1, Invariance, PTL

\* Every reload() downloads the feed its caller asked for, however long the
\* position waited in a list, in an open article list or on the screen.
THEOREM ReloadsRightFeed ==
  ASSUME DefaultConfiguration
  PROVE  Spec => []ReloadsWhatWasAsked
<1>1. IInv => ReloadsWhatWasAsked
  BY DEF IInv, CallInv, ReloadsWhatWasAsked, Url
<1>. QED
  BY <1>1, Invariance, PTL

\* "Reload all" leaves no feed out, for any number of feeds and of threads.
THEOREM ReachesAll ==
  ASSUME DefaultConfiguration
  PROVE  Spec => []ReloadAllReachesAll
<1>1. IInv => ReloadAllReachesAll
  <2> SUFFICES ASSUME IInv PROVE ReloadAllReachesAll
    OBVIOUS
  <2>1. DOMAIN feeds = 1 .. N
    BY DEF IInv, TypeInv
  <2>. QED
    BY <2>1 DEF IInv, CoverInv, ReloadAllReachesAll
<1>. QED
  BY <1>1, Invariance, PTL

\* reload_mutex keeps the background reloads apart.
THEOREM MutualExclusion ==
  ASSUME DefaultConfiguration
  PROVE  Spec => []OneBackgroundReload
<1>1. IInv => OneBackgroundReload
  BY DEF IInv, ThreadInv, OneBackgroundReload
<1>. QED
  BY <1>1, Invariance, PTL

-----------------------------------------------------------------------------
(* The feed list implements Subscriptions *)

\* Only a store changes the vector, one that fails afterwards or not.
LEMMA OnlyStoreFeedMoves ==
  ASSUME DefaultConfiguration, IInv, [Next]_vars, feeds' # feeds
  PROVE  \E t \in Threads : StoreFeed(t) \/ StoreThenFail(t)
<1> SUFFICES ASSUME \A t \in Threads : ~StoreFeed(t) /\ ~StoreThenFail(t)
             PROVE  feeds' = feeds
  OBVIOUS
<1>1. ASSUME NEW t \in Threads, EndReload(t) \/ NextFeed(t)
      PROVE  feeds' = feeds
  BY <1>1 DEF EndReload, StoreBeyondEnd, EmptyFeed, FailedFeed, NothingStored,
              NextFeed
<1>2. CASE UiStep
  <2>1. CASE \E file \in UrlFiles : BuildFeeds(file)
    BY <2>1 DEF BuildFeeds
  <2>2. CASE SwapFeeds \/ SortNewFeeds
    BY <2>2 DEF SwapFeeds, SortNewFeeds, IInv, TypeInv
  <2>3. CASE SortList
    BY <2>3, SortResultsFact DEF SortList
  <2>4. CASE EndReload(UI)
    BY <1>1, <2>4 DEF Threads
  <2>. QED
    BY <1>2, <2>1, <2>2, <2>3, <2>4 DEF UiStep, StartReloadAll, OpenFeed,
       ReloadSelected, CloseFeed, ReloadOpen, UpdateList
<1>3. ASSUME NEW d \in Downloaders, AutoReload(d) \/ Downloader(d)
      PROVE  feeds' = feeds
  <2>1. CASE SortAfter(d)
    BY <2>1, SortResultsFact DEF SortAfter
  <2>2. CASE EndReload(d) \/ NextFeed(d)
    BY <1>1, <2>2 DEF Threads
  <2>. QED
    BY <1>3, <2>1, <2>2 DEF AutoReload, Downloader, TryLock, ResetStatus, Join,
       IndexesDone, UpdateAfter, Unlock
<1>4. ASSUME NEW w \in Workers, Worker(w)
      PROVE  feeds' = feeds
  BY <1>1, <1>4 DEF Worker, Threads
<1>. QED
  BY <1>2, <1>3, <1>4 DEF Next, vars

\* A stored feed is a newer version of the one line it is shown in.
LEMMA StoreRefreshes ==
  ASSUME IInv, NEW t \in Threads, StoreFeed(t) \/ StoreThenFail(t)
  PROVE  Abstract!Refresh
<1> DEFINE pos == call[t].pos
           new == Len(obj) + 1
<1>1. IInv'
  BY StoreFeedInv
<1>2. pos \in 1 .. N
  BY DEF IInv, CallInv, StoreFeed, StoreThenFail, Stored
<1>3. \A p \in 1 .. N : feeds'[p] = IF p = pos THEN new ELSE feeds[p]
  <2>1. DOMAIN feeds = 1 .. N
    BY DEF IInv, TypeInv
  <2>2. feeds' = [feeds EXCEPT ![pos] = new]
    BY DEF StoreFeed, StoreThenFail, Stored
  <2> HIDE DEF pos, new
  <2>. QED
    BY <2>1, <2>2
<1>4. /\ DOMAIN Listed = 1 .. N
      /\ \A p \in 1 .. N : Listed[p] = [url |-> InitialUrls[p], version |-> feeds[p]]
  <2>1. DOMAIN feeds = 1 .. N
    BY DEF IInv, TypeInv
  <2>2. \A p \in 1 .. N : Url(feeds[p]) = InitialUrls[p]
    BY DEF IInv, VectorInv, Url
  <2>. QED
    BY <2>1, <2>2 DEF Listed
<1>5. /\ DOMAIN Listed' = 1 .. N
      /\ \A p \in 1 .. N : Listed'[p] = [url |-> InitialUrls[p], version |-> feeds'[p]]
  <2>1. DOMAIN feeds' = 1 .. N
    BY <1>1 DEF IInv, TypeInv
  <2>2. \A p \in 1 .. N : obj'[feeds'[p]].url = InitialUrls[p]
    BY <1>1 DEF IInv, VectorInv
  <2>. QED
    BY <2>1, <2>2 DEF Listed, Url
<1>6. Listed' = [p \in 1 .. N |-> Listed'[p]] /\ Listed = [p \in 1 .. N |-> Listed[p]]
  BY <1>4, <1>5 DEF Listed
<1>7. Listed'[pos].version = new /\ \A p \in 1 .. N : Listed[p].version < new
  <2>1. \A p \in 1 .. N : feeds[p] < new
    BY DEF IInv, TypeInv, VectorInv
  <2> HIDE DEF new
  <2>. QED
    BY <2>1, <1>2, <1>3, <1>4, <1>5
<1>8. Listed' = [Listed EXCEPT ![pos].version = Listed'[pos].version]
  <2> DEFINE r == [Listed[pos] EXCEPT !.version = Listed'[pos].version]
  <2>1. r = Listed'[pos]
    BY <1>2, <1>4, <1>5
  <2>2. \A p \in 1 .. N : p # pos => Listed'[p] = Listed[p]
    BY <1>3, <1>4, <1>5
  <2> HIDE DEF r
  <2>3. [Listed EXCEPT ![pos] = r] = [p \in 1 .. N |-> IF p = pos THEN r ELSE Listed[p]]
    BY <1>4, <1>6
  <2>4. Listed' = [Listed EXCEPT ![pos] = r]
    BY <1>6, <2>1, <2>2, <2>3
  <2>. QED
    BY <2>4 DEF r
<1>. QED
  BY <1>2, <1>4, <1>5, <1>7, <1>8 DEF Abstract!Refresh, Abstract!Newer

\* In the default configuration the vector of feeds is a list of subscriptions:
\* reloads only ever give one line a newer version, and nothing else changes it.
THEOREM ImplementsSubscriptions ==
  ASSUME DefaultConfiguration
  PROVE  Spec => IsSubscriptions
<1>1. Init => Abstract!Init
  <2> SUFFICES ASSUME Init PROVE Abstract!Init
    OBVIOUS
  <2>1. IInv
    BY InitInv
  <2>2. DOMAIN feeds = 1 .. N
    BY <2>1 DEF IInv, TypeInv
  <2>3. \A p \in 1 .. N : obj[feeds[p]].url = InitialUrls[p]
    BY <2>1 DEF IInv, VectorInv
  <2>4. DOMAIN Listed = 1 .. N /\ \A p \in 1 .. N : Listed[p].url = InitialUrls[p]
    BY <2>2, <2>3 DEF Listed, Url
  <2>. QED
    BY <2>4, UrlsFacts DEF Abstract!Init, Abstract!EachFeedOnce
<1>2. IInv /\ IInv' /\ [Next]_vars => [Abstract!Next]_Listed
  <2> SUFFICES ASSUME IInv, IInv', [Next]_vars PROVE [Abstract!Next]_Listed
    OBVIOUS
  <2>1. CASE feeds' = feeds
    <3>1. DOMAIN feeds = 1 .. N
      BY DEF IInv, TypeInv
    <3>2. \A p \in 1 .. N : Url(feeds[p]) = InitialUrls[p]
      BY DEF IInv, VectorInv, Url
    <3>3. \A p \in 1 .. N : obj'[feeds'[p]].url = InitialUrls[p]
      BY DEF IInv, VectorInv
    <3>. QED
      BY <2>1, <3>1, <3>2, <3>3 DEF Listed, Url
  <2>2. CASE feeds' # feeds
    BY <2>2, OnlyStoreFeedMoves, StoreRefreshes DEF Abstract!Next
  <2>. QED
    BY <2>1, <2>2
<1>. QED
  BY <1>1, <1>2, Invariance, PTL DEF Spec, IsSubscriptions, Abstract!Spec

-----------------------------------------------------------------------------
(***************************************************************************)
(* Every configuration: any sort order, reloads of the visible feeds only, *)
(* an urls file that is edited and reread while threads reload. Feeds may  *)
(* then be stored over one another, and indexes may leave the vector, so   *)
(* little of the invariant above is left; General is what remains: objects *)
(* keep their URLs and what holds one holds one that exists, only the      *)
(* holder of reload_mutex has positions to do, a mark "being downloaded"   *)
(* has its thread, and the screen is current.                              *)
(*                                                                         *)
(* The last part shows what goes wrong no earlier than a background reload *)
(* and the main thread's own work on the vector come together: without one *)
(* of the two, the vector is a list of Subscriptions in any sort order.    *)
(***************************************************************************)

-----------------------------------------------------------------------------
(* Sorting *)

\* The ranks of the elements of s are all there are: sorting loses no element
\* and takes none twice, whatever the keys.
LEMMA RankFacts ==
  ASSUME NEW n \in Nat, NEW s, DOMAIN s = 1 .. n, NEW key \in [1 .. n -> Int]
  PROVE  /\ \A i \in 1 .. n : Rank(s, key, i) \in 1 .. n
         /\ \A i, j \in 1 .. n : Rank(s, key, i) = Rank(s, key, j) => i = j
         /\ \A r \in 1 .. n : \E i \in 1 .. n : Rank(s, key, i) = r
<1> DEFINE Before(i) == {j \in 1 .. n : key[j] < key[i] \/ (key[j] = key[i] /\ j <= i)}
<1>1. \A i \in 1 .. n : Rank(s, key, i) = Cardinality(Before(i))
  BY DEF Rank
<1>2. IsFiniteSet(1 .. n) /\ Cardinality(1 .. n) = n
  BY FS_Interval
<1>3. ASSUME NEW i \in 1 .. n
      PROVE  /\ IsFiniteSet(Before(i)) /\ Cardinality(Before(i)) \in 1 .. n
  <2>1. Before(i) \subseteq 1 .. n /\ i \in Before(i)
    OBVIOUS
  <2> HIDE DEF Before
  <2>2. IsFiniteSet(Before(i)) /\ Cardinality(Before(i)) <= n
    BY <1>2, <2>1, FS_Subset
  <2>3. Cardinality(Before(i)) \in Nat /\ Cardinality(Before(i)) # 0
    BY <2>1, <2>2, FS_CardinalityType, FS_EmptySet
  <2>. QED
    BY <2>2, <2>3
<1>4. ASSUME NEW i \in 1 .. n, NEW j \in 1 .. n, key[i] < key[j] \/ (key[i] = key[j] /\ i < j)
      PROVE  Cardinality(Before(i)) # Cardinality(Before(j))
  <2>1. Before(i) \subseteq Before(j) /\ j \in Before(j) /\ j \notin Before(i)
    BY <1>4
  <2> HIDE DEF Before
  <2>2. Before(i) # Before(j)
    BY <2>1
  <2>. QED
    BY <1>3, <2>1, <2>2, FS_Subset
<1> HIDE DEF Before
<1>5. \A i, j \in 1 .. n : Rank(s, key, i) = Rank(s, key, j) => i = j
  <2> SUFFICES ASSUME NEW i \in 1 .. n, NEW j \in 1 .. n, i # j
               PROVE  Cardinality(Before(i)) # Cardinality(Before(j))
    BY <1>1
  <2>1. \/ key[i] < key[j] \/ (key[i] = key[j] /\ i < j)
        \/ key[j] < key[i] \/ (key[j] = key[i] /\ j < i)
    OBVIOUS
  <2>. QED
    BY <1>4, <2>1
<1> DEFINE rank == [i \in 1 .. n |-> Rank(s, key, i)]
<1>6. rank \in Injection(1 .. n, 1 .. n)
  <2>1. \A i \in 1 .. n : Rank(s, key, i) \in 1 .. n
    BY <1>1, <1>3
  <2>. QED
    BY <1>5, <2>1 DEF Injection, IsInjective
<1> HIDE DEF rank
<1>7. rank \in Surjection(1 .. n, 1 .. n)
  BY <1>2, <1>6, FS_Injection
<1>. QED
  BY <1>1, <1>3, <1>5, <1>7 DEF rank, Surjection

\* p is a permutation of 1 .. n, and t is s, its n elements in another order.
Permutes(p, n) ==
  /\ p \in [1 .. n -> 1 .. n]
  /\ \A i, j \in 1 .. n : p[i] = p[j] => i = j
  /\ \A i \in 1 .. n : \E r \in 1 .. n : p[r] = i
Rearranged(t, s, n) == \E p : Permutes(p, n) /\ t = [r \in 1 .. n |-> s[p[r]]]

\* std::stable_sort rearranges its argument.
LEMMA StableSortPermutes ==
  ASSUME NEW n \in Nat, NEW s, DOMAIN s = 1 .. n, NEW key \in [1 .. n -> Int]
  PROVE  Rearranged(StableSort(s, key), s, n)
<1> DEFINE p == [r \in 1 .. n |-> CHOOSE i \in 1 .. n : Rank(s, key, i) = r]
<1>1. \A r \in 1 .. n : p[r] \in 1 .. n /\ Rank(s, key, p[r]) = r
  BY RankFacts
<1>2. StableSort(s, key) = [r \in 1 .. n |-> s[p[r]]]
  BY DEF StableSort
<1>3. p \in [1 .. n -> 1 .. n]
  BY <1>1
<1> HIDE DEF p
<1>4. \A i, j \in 1 .. n : p[i] = p[j] => i = j
  BY <1>1
<1>5. ASSUME NEW i \in 1 .. n
      PROVE  \E r \in 1 .. n : p[r] = i
  <2> DEFINE r == Rank(s, key, i)
  <2>1. r \in 1 .. n
    BY RankFacts
  <2>2. Rank(s, key, p[r]) = r /\ p[r] \in 1 .. n
    BY <1>1, <2>1
  <2>3. p[r] = i
    <3>1. \A j, k \in 1 .. n : Rank(s, key, j) = Rank(s, key, k) => j = k
      BY RankFacts
    <3>2. Rank(s, key, p[r]) = Rank(s, key, i)
      BY <2>2
    <3>3. p[r] \in 1 .. n
      BY <2>2
    <3> HIDE DEF r
    <3>. QED
      BY <3>1, <3>2, <3>3
  <2>. QED
    BY <2>1, <2>3
<1>6. Permutes(p, n)
  BY <1>3, <1>4, <1>5 DEF Permutes
<1>. QED
  BY <1>2, <1>6 DEF Rearranged

-----------------------------------------------------------------------------
(* The objects, and what the steps do to them *)

Objects == 1 .. Len(obj)

\* The state is well typed, and a position or an object that is held is one.
WellFormed ==
  /\ TypeOK
  /\ \A i \in DOMAIN feeds : feeds[i] \in Objects
  /\ \A i \in DOMAIN shown : shown[i] \in Objects
  /\ \A i \in DOMAIN ui.new : ui.new[i] \in Objects
  /\ \A t \in Threads : Busy(t) => call[t].pos # 0 /\ call[t].old \in Objects
  /\ \A t \in Threads : 0 \notin todo[t]
  /\ \A d \in Downloaders : 0 \notin dl[d].indexes
  /\ itemlist # Closed => itemlist.url \in Urls /\ itemlist.pos # 0

LEMMA ObjectsTyped ==
  ASSUME WellFormed
  PROVE  /\ Len(obj) \in Nat /\ \A o \in Objects : obj[o] \in Feed
         /\ Len(feeds) \in Nat /\ DOMAIN feeds = 1 .. Len(feeds) /\ feeds \in [1 .. Len(feeds) -> Nat]
         /\ \A i \in 1 .. Len(feeds) : feeds[i] \in Objects /\ feeds[i] \in Nat
<1>1. obj \in Seq(Feed) /\ feeds \in Seq(Nat) /\ \A i \in DOMAIN feeds : feeds[i] \in Objects
  BY DEF WellFormed, TypeOK
<1>2. Len(obj) \in Nat /\ \A o \in 1 .. Len(obj) : obj[o] \in Feed
  BY <1>1
<1>. QED
  BY <1>1, <1>2 DEF Objects

\* So does sort_feeds(), by whatever it sorts.
LEMMA SortPermutes ==
  ASSUME NEW n \in Nat, NEW s \in [1 .. n -> Nat],
         \A i \in 1 .. n : obj[s[i]].order \in Int, NEW sorted \in SortResults(s)
  PROVE  Rearranged(sorted, s, n)
<1>1. \E key \in [1 .. n -> Int] : sorted = StableSort(s, key)
  <2>1. CASE SortByKey
    <3>0. Len(s) = n
      OBVIOUS
    <3>1. PICK key \in [1 .. n -> 1 .. n] : sorted = StableSort(s, key)
      BY <2>1, <3>0 DEF SortResults
    <3>2. key \in [1 .. n -> Int]
      BY <3>1
    <3>. QED
      BY <3>1, <3>2
  <2>2. CASE ~SortByKey
    <3> DEFINE key == [i \in 1 .. n |-> obj[s[i]].order]
    <3>1. sorted = StableSort(s, key)
      BY <2>2 DEF SortResults
    <3>2. key \in [1 .. n -> Int]
      OBVIOUS
    <3>. QED
      BY <3>1, <3>2
  <2>. QED
    BY <2>1, <2>2
<1>2. DOMAIN s = 1 .. n
  OBVIOUS
<1>3. PICK key \in [1 .. n -> Int] : sorted = StableSort(s, key)
  BY <1>1
<1>4. Rearranged(StableSort(s, key), s, n)
  BY <1>2, StableSortPermutes
<1>. QED
  BY <1>3, <1>4

\* A sorted vector holds the feeds it held, each of them once.
LEMMA SortTyped ==
  ASSUME WellFormed, NEW sorted \in SortResults(feeds)
  PROVE  /\ Rearranged(sorted, feeds, Len(feeds))
         /\ sorted \in Seq(Nat) /\ Len(sorted) = Len(feeds)
         /\ \A i \in DOMAIN sorted : sorted[i] \in Objects
<1>1. PICK p : Permutes(p, Len(feeds)) /\ sorted = [r \in 1 .. Len(feeds) |-> feeds[p[r]]]
  <2>1. \A i \in 1 .. Len(feeds) : obj[feeds[i]].order \in Int
    BY ObjectsTyped DEF Feed
  <2>2. Len(feeds) \in Nat /\ feeds \in [1 .. Len(feeds) -> Nat]
    BY ObjectsTyped
  <2>. QED
    BY <2>1, <2>2, SortPermutes DEF Rearranged
<1>2. Len(feeds) \in Nat /\ \A i \in 1 .. Len(feeds) : p[i] \in 1 .. Len(feeds) /\ feeds[i] \in Objects /\ feeds[i] \in Nat
  BY <1>1, ObjectsTyped DEF Permutes
<1>3. sorted \in [1 .. Len(feeds) -> Nat] /\ \A i \in 1 .. Len(feeds) : sorted[i] \in Objects
  BY <1>1, <1>2
<1>. QED
  BY <1>1, <1>2, <1>3 DEF Rearranged

\* The objects there are keep their URLs, and those that are new have theirs.
\* None that has been emptied gets articles again.
Grows ==
  /\ obj' \in Seq(Feed) /\ Len(obj) <= Len(obj')
  /\ \A o \in Objects : obj'[o].url = obj[o].url
  /\ \A o \in Objects : obj[o].cleared => obj'[o].cleared
\* No object is newly marked as being downloaded.
NoNewMark == \A o \in Objects' : obj'[o].status = "DURING_DOWNLOAD" =>
               o \in Objects /\ obj[o].status = "DURING_DOWNLOAD"

\* No object newly loses its articles.
NoNewClear == \A o \in Objects' : obj'[o].cleared => o \in Objects /\ obj[o].cleared

LEMMA GrowsFacts ==
  ASSUME WellFormed, Grows
  PROVE  /\ Objects \subseteq Objects' /\ Len(obj') \in Nat
         /\ \A o \in Objects : Url(o)' = Url(o)
<1>1. Len(obj) \in Nat /\ Len(obj') \in Nat
  BY ObjectsTyped DEF Grows
<1>. QED
  BY <1>1 DEF Grows, Objects, Url

LEMMA MarkedAs ==
  ASSUME WellFormed, NEW o \in Objects, NEW st \in Statuses, obj' = SetStatus(o, st)
  PROVE  /\ Grows /\ Len(obj') = Len(obj) /\ NoNewClear
         /\ obj'[o].status = st /\ \A i \in Objects : i # o => obj'[i] = obj[i]
<1>1. obj \in Seq(Feed)
  BY DEF WellFormed, TypeOK
<1>2. /\ obj' \in Seq(Feed) /\ Len(obj') = Len(obj)
      /\ \A i \in 1 .. Len(obj) : obj'[i].url = obj[i].url /\ (i # o => obj'[i] = obj[i])
      /\ \A i \in 1 .. Len(obj) : obj'[i].cleared = obj[i].cleared
      /\ obj'[o].status = st
  BY <1>1, SetStatusFacts DEF Objects
<1>3. NoNewClear
  BY <1>2 DEF NoNewClear, Objects
<1>. QED
  BY <1>2, <1>3, ObjectsTyped DEF Grows, Objects

\* What a stored feed does to vector and objects.
LEMMA StoredAs ==
  ASSUME WellFormed, NEW t \in Threads, NEW order \in Nat, NEW emptied,
         NEW st \in Statuses, Stored(t, order, emptied, st)
  PROVE  /\ Grows /\ Len(obj') = Len(obj) + 1
         /\ call[t].pos \in 1 .. Len(feeds) /\ call[t].old \in Objects
         /\ feeds' \in Seq(Nat) /\ Len(feeds') = Len(feeds)
         /\ \A i \in 1 .. Len(feeds) : feeds'[i] = IF i = call[t].pos THEN Len(obj) + 1 ELSE feeds[i]
         /\ obj'[Len(obj) + 1] = NewFeed(obj[call[t].old].url, order)
         /\ obj'[call[t].old].status = st
         /\ \A o \in Objects : o # call[t].old => obj'[o].status = obj[o].status
         /\ \A o \in Objects : obj'[o].cleared => obj[o].cleared \/ o \in emptied
         /\ \A o \in Objects : o \in emptied => obj'[o].cleared
<1> DEFINE c == call[t]
           new == Len(obj) + 1
<1>0. Len(obj) \in Nat /\ Len(feeds) \in Nat /\ feeds \in [1 .. Len(feeds) -> Nat]
  BY ObjectsTyped
<1>1. c.pos \in 1 .. Len(feeds) /\ c.old \in Objects
  <2>1. c.pos \in Nat /\ c.pos # 0 /\ c.old \in Objects /\ c.pos <= Len(feeds)
    BY DEF Stored, WellFormed, TypeOK, Call
  <2>. QED
    BY <1>0, <2>1
<1>2. /\ feeds' \in Seq(Nat) /\ Len(feeds') = Len(feeds)
      /\ \A i \in 1 .. Len(feeds) : feeds'[i] = IF i = c.pos THEN new ELSE feeds[i]
  <2>0. new \in Nat
    BY <1>0
  <2>1. feeds' = [feeds EXCEPT ![c.pos] = new]
    BY DEF Stored
  <2> HIDE DEF new, c
  <2>2. feeds' = [i \in 1 .. Len(feeds) |-> IF i = c.pos THEN new ELSE feeds[i]]
    BY <1>0, <2>1
  <2>3. feeds' \in [1 .. Len(feeds) -> Nat]
    BY <1>0, <2>0, <2>2
  <2>. QED
    BY <1>0, <2>2, <2>3
<1> DEFINE made == NewFeed(obj[c.old].url, order)
           old(i) == [obj[i] EXCEPT
                        !.cleared = @ \/ i \in emptied,
                        !.status = IF i = c.old THEN st ELSE @]
<1>3. obj' = [i \in 1 .. new |-> IF i = new THEN made ELSE old(i)]
  BY DEF Stored, Url
<1>4. made \in Feed
  BY <1>1, ObjectsTyped DEF NewFeed, Feed, Statuses
<1>5. ASSUME NEW i \in Objects
      PROVE  /\ old(i) \in Feed /\ old(i).url = obj[i].url
             /\ old(i).status = IF i = c.old THEN st ELSE obj[i].status
             /\ old(i).cleared <=> obj[i].cleared \/ i \in emptied
  <2>1. obj[i] \in Feed
    BY ObjectsTyped
  <2>. QED
    BY <2>1 DEF Feed, Statuses
<1> HIDE DEF made, old
<1>6. new \in Nat /\ new \notin Objects /\ 1 .. new = Objects \cup {new}
  BY <1>0 DEF Objects
<1>7. obj' \in [1 .. new -> Feed] /\ obj'[new] = made /\ \A i \in Objects : obj'[i] = old(i)
  BY <1>3, <1>4, <1>5, <1>6
<1>8. obj' \in Seq(Feed) /\ Len(obj') = new
  BY <1>6, <1>7
<1>9. Grows
  BY <1>0, <1>5, <1>7, <1>8 DEF Grows
<1>. QED
  BY <1>1, <1>2, <1>5, <1>7, <1>8, <1>9 DEF made

\* Both ways a store can go: it empties what it replaces, and at most the object
\* the call began with besides, which stays marked neither way.
LEMMA StoresAs ==
  ASSUME WellFormed, NEW t \in Threads, StoreFeed(t) \/ StoreThenFail(t)
  PROVE  \E order \in Nat, st \in Statuses \ {"DURING_DOWNLOAD", "TO_BE_DOWNLOADED"},
            emptied \in SUBSET {feeds[call[t].pos], call[t].old} :
           /\ Stored(t, order, emptied, st) /\ feeds[call[t].pos] \in emptied
           /\ shown' \in {shown, feeds'}
<1> DEFINE here == feeds[call[t].pos]
           old == call[t].old
<1>1. Busy(t) /\ call[t].pos <= Len(feeds)
  BY DEF StoreFeed, StoreThenFail, Stored
<1>2. call[t].pos \in 1 .. Len(feeds)
  <2>1. call[t].pos \in Nat /\ call[t].pos # 0
    BY <1>1 DEF WellFormed, TypeOK, Call
  <2>. QED
    BY <1>1, <2>1, ObjectsTyped
<1>3. here \in Objects /\ old \in Objects
  BY <1>1, <1>2, ObjectsTyped DEF WellFormed
<1>4. obj[here].order \in Nat /\ obj[old].order \in Nat
  <2>1. obj[here] \in Feed /\ obj[old] \in Feed
    BY <1>3, ObjectsTyped
  <2>. QED
    BY <2>1 DEF Feed
<1>5. {"SUCCESS", "DL_ERROR"} \subseteq Statuses \ {"DURING_DOWNLOAD", "TO_BE_DOWNLOADED"}
  BY DEF Statuses
<1>6. CASE StoreFeed(t)
  <2>1. Stored(t, obj[old].order, {here, old}, "SUCCESS") /\ shown' = feeds'
    BY <1>6 DEF StoreFeed
  <2> HIDE DEF here, old
  <2>. QED
    BY <1>4, <1>5, <2>1 DEF here, old
<1>7. CASE StoreThenFail(t)
  <2>1. PICK o \in {here, old} : Stored(t, obj[o].order, {here}, "DL_ERROR")
    BY <1>7 DEF StoreThenFail
  <2>2. shown' = shown /\ obj[o].order \in Nat
    BY <1>4, <1>7 DEF StoreThenFail
  <2> HIDE DEF here, old
  <2>. QED
    BY <1>5, <2>1, <2>2 DEF here, old
<1>. QED
  BY <1>6, <1>7

LEMMA ResetAs ==
  ASSUME WellFormed, NEW d \in Downloaders, ResetStatus(d)
  PROVE  Grows /\ Len(obj') = Len(obj) /\ NoNewMark /\ NoNewClear
<1>1. obj' = [o \in 1 .. Len(obj) |-> IF \E i \in DOMAIN feeds : feeds[i] = o
               THEN [obj[o] EXCEPT !.status = "TO_BE_DOWNLOADED"] ELSE obj[o]]
  <2>1. DOMAIN obj = 1 .. Len(obj)
    BY DEF WellFormed, TypeOK
  <2>. QED
    BY <2>1 DEF ResetStatus
<1> DEFINE r(o) == [obj[o] EXCEPT !.status = "TO_BE_DOWNLOADED"]
<1>2. \A o \in Objects : r(o) \in Feed /\ r(o).url = obj[o].url /\ r(o).status = "TO_BE_DOWNLOADED" /\ r(o).cleared = obj[o].cleared
  BY ObjectsTyped DEF Feed, Statuses
<1>3. obj' = [o \in 1 .. Len(obj) |-> IF \E i \in DOMAIN feeds : feeds[i] = o THEN r(o) ELSE obj[o]]
  BY <1>1
<1> HIDE DEF r
<1>4. obj' \in [1 .. Len(obj) -> Feed]
  BY <1>2, <1>3, ObjectsTyped DEF Objects
<1>5. obj' \in Seq(Feed) /\ Len(obj') = Len(obj)
  BY <1>4, ObjectsTyped
<1>6. \A o \in Objects : obj'[o] = r(o) \/ obj'[o] = obj[o]
  BY <1>3 DEF Objects
<1>7. Grows
  BY <1>2, <1>5, <1>6, ObjectsTyped DEF Grows
<1>8. Objects' = Objects
  BY <1>5 DEF Objects
<1>9. NoNewMark
  BY <1>2, <1>6, <1>8 DEF NoNewMark
<1>10. NoNewClear
  BY <1>2, <1>6, <1>8 DEF NoNewClear
<1>. QED
  BY <1>5, <1>7, <1>9, <1>10

-----------------------------------------------------------------------------
(* The steps of reload_urls_file() *)

\* A set of positions has a first one.
LEMMA FirstPosition ==
  ASSUME NEW n \in Nat, NEW S \in SUBSET (1 .. n), S # {}
  PROVE  \E i \in S : \A j \in S : i <= j
<1> DEFINE s == [i \in 1 .. n |-> 0]
           key == [i \in 1 .. n |-> IF i \in S THEN 0 ELSE 1]
           Before(i) == {j \in 1 .. n : key[j] < key[i] \/ (key[j] = key[i] /\ j <= i)}
<1>1. key \in [1 .. n -> Int] /\ DOMAIN s = 1 .. n
  OBVIOUS
<1>2. PICK e \in S : TRUE
  OBVIOUS
<1>3. n \in Nat \ {0}
  BY <1>2
<1>4. PICK i \in 1 .. n : Rank(s, key, i) = 1
  <2> HIDE DEF s, key
  <2>. QED
    BY <1>1, <1>3, RankFacts
<1>5. Cardinality(Before(i)) = 1
  BY <1>4 DEF Rank
<1>6. \A j \in Before(i) : j = i
  <2>1. i \in Before(i) /\ Before(i) \subseteq 1 .. n
    OBVIOUS
  <2> HIDE DEF Before
  <2>2. IsFiniteSet(1 .. n)
    BY FS_Interval
  <2>3. IsFiniteSet(Before(i))
    BY <2>1, <2>2, FS_Subset
  <2>. QED
    BY <1>5, <2>1, <2>3, FS_Singleton
<1>7. i \in S
  <2>1. CASE i \notin S
    <3>1. e \in Before(i)
      BY <1>2, <2>1
    <3>. QED
      BY <1>2, <1>6, <2>1, <3>1
  <2>. QED
    BY <2>1
<1>8. \A j \in S : i <= j
  <2> SUFFICES ASSUME NEW j \in S, j < i PROVE FALSE
    BY <1>7
  <2>1. j \in Before(i)
    BY <1>7
  <2>. QED
    BY <1>6, <2>1
<1>. QED
  BY <1>7, <1>8

\* Objects that are allocated one after the other are numbered without a gap.
LEMMA NumberedInOrder ==
  ASSUME NEW m \in Nat, NEW S \in SUBSET (1 .. m)
  PROVE  /\ IsFiniteSet(S) /\ Cardinality(S) \in Nat
         /\ \A k \in S : Cardinality({i \in S : i <= k}) \in 1 .. Cardinality(S)
         /\ \A k, l \in S : Cardinality({i \in S : i <= k}) = Cardinality({i \in S : i <= l}) => k = l
         /\ \A c \in 1 .. Cardinality(S) : \E k \in S : Cardinality({i \in S : i <= k}) = c
<1> DEFINE Upto(k) == {i \in S : i <= k}
           c == Cardinality(S)
<1>1. IsFiniteSet(S) /\ c \in Nat
  <2>1. IsFiniteSet(1 .. m)
    BY FS_Interval
  <2>2. IsFiniteSet(S)
    BY <2>1, FS_Subset
  <2>. QED
    BY <2>2, FS_CardinalityType
<1>2. ASSUME NEW k \in S
      PROVE  IsFiniteSet(Upto(k)) /\ Cardinality(Upto(k)) \in 1 .. c
  <2>1. Upto(k) \subseteq S /\ k \in Upto(k)
    OBVIOUS
  <2> HIDE DEF Upto
  <2>2. IsFiniteSet(Upto(k)) /\ Cardinality(Upto(k)) <= c
    BY <1>1, <2>1, FS_Subset
  <2>3. Cardinality(Upto(k)) \in Nat /\ Cardinality(Upto(k)) # 0
    BY <2>1, <2>2, FS_CardinalityType, FS_EmptySet
  <2>. QED
    BY <1>1, <2>2, <2>3
<1>3. ASSUME NEW k \in S, NEW l \in S, k < l
      PROVE  Cardinality(Upto(k)) # Cardinality(Upto(l))
  <2>0. S \subseteq Int
    OBVIOUS
  <2>1. Upto(k) \subseteq Upto(l) /\ l \in Upto(l) /\ l \notin Upto(k)
    <3>1. \A i \in S : i \in Int
      BY <2>0
    <3>2. \A i \in S : i <= k => i <= l
      BY <1>3, <3>1
    <3>3. l <= l /\ ~(l <= k)
      BY <1>3, <3>1
    <3>. QED
      BY <3>2, <3>3
  <2> HIDE DEF Upto
  <2>2. Upto(k) # Upto(l)
    BY <2>1
  <2>. QED
    BY <1>2, <2>1, <2>2, FS_Subset
<1> HIDE DEF Upto, c
<1>4. \A k, l \in S : Cardinality(Upto(k)) = Cardinality(Upto(l)) => k = l
  <2> SUFFICES ASSUME NEW k \in S, NEW l \in S, k # l
               PROVE  Cardinality(Upto(k)) # Cardinality(Upto(l))
    OBVIOUS
  <2>1. k < l \/ l < k
    OBVIOUS
  <2>. QED
    BY <1>3, <2>1
<1> DEFINE f == [k \in S |-> Cardinality(Upto(k))]
<1>5. f \in Injection(S, 1 .. c)
  BY <1>2, <1>4 DEF Injection, IsInjective
<1> HIDE DEF f
<1>6. IsFiniteSet(1 .. c) /\ Cardinality(1 .. c) = c
  BY <1>1, FS_Interval
<1>7. f \in Surjection(S, 1 .. c)
  BY <1>5, <1>6, FS_Injection DEF c
<1>8. \A x \in 1 .. c : \E k \in S : Cardinality(Upto(k)) = x
  BY <1>7 DEF f, Surjection
<1>. QED
  BY <1>1, <1>2, <1>4, <1>8 DEF Upto, c

\* What a reread of the urls file builds: the feeds of the file, in objects of
\* the vector or in new ones.
LEMMA BuiltAs ==
  ASSUME WellFormed, NEW file \in UrlFiles, BuildFeeds(file)
  PROVE  /\ Grows /\ NoNewMark
         /\ \A o \in Objects : obj'[o].cleared = obj[o].cleared
         /\ \A o \in Objects' : o \notin Objects => ~obj'[o].cleared
         /\ ui'.pc = "swap" /\ ui'.new \in Seq(Nat) /\ DOMAIN ui'.new = DOMAIN file
         /\ ui' \in [pc : {"swap"}, new : Seq(Nat)]
         /\ \A k \in DOMAIN file :
              /\ ui'.new[k] \in Objects' /\ obj'[ui'.new[k]].url = file[k]
              /\ ui'.new[k] \in Objects => \E i \in DOMAIN feeds : feeds[i] = ui'.new[k]
              /\ ui'.new[k] \notin Objects => \A i \in DOMAIN feeds : Url(feeds[i]) # file[k]
<1> DEFINE Known(u) == {i \in DOMAIN feeds : Url(feeds[i]) = u}
           First(u) == CHOOSE i \in Known(u) : \A j \in Known(u) : i <= j
           New == {k \in DOMAIN file : Known(file[k]) = {}}
           Place(k) == Cardinality({n \in New : n <= k})
           Id(k) == Len(obj) + Cardinality({n \in New : n <= k})
           kept == {feeds[First(file[k])] : k \in DOMAIN file \ New}
           total == Len(obj) + Cardinality(New)
           made(o) == LET k == CHOOSE n \in New : Id(n) = o IN NewFeed(file[k], k)
           old(o) == IF o \in kept
                     THEN LET k == CHOOSE n \in DOMAIN file : file[n] = Url(o)
                          IN [obj[o] EXCEPT !.order = k]
                     ELSE obj[o]
           new == [k \in DOMAIN file |-> IF k \in New THEN Id(k) ELSE feeds[First(file[k])]]
<1>1. ui' = [pc |-> "swap", new |-> new]
  BY DEF BuildFeeds
<1>2. obj' = [o \in 1 .. total |-> IF o > Len(obj) THEN made(o) ELSE old(o)]
  BY DEF BuildFeeds
<1>3. /\ Len(file) \in Nat /\ DOMAIN file = 1 .. Len(file)
      /\ \A k \in DOMAIN file : file[k] \in Urls /\ k \in Nat
      /\ \A k, l \in DOMAIN file : file[k] = file[l] => k = l
  BY FeedReloadAssumption DEF IsUrlFile
<1>4. /\ Len(obj) \in Nat /\ Len(feeds) \in Nat /\ DOMAIN feeds = 1 .. Len(feeds)
      /\ \A i \in DOMAIN feeds : feeds[i] \in Objects /\ feeds[i] \in Nat
  BY ObjectsTyped
<1>5. ASSUME NEW u, Known(u) # {}
      PROVE  First(u) \in DOMAIN feeds /\ Url(feeds[First(u)]) = u
  <2>1. Known(u) \subseteq 1 .. Len(feeds)
    BY <1>4
  <2>2. First(u) \in Known(u)
    <3> HIDE DEF Known
    <3>1. \E i \in Known(u) : \A j \in Known(u) : i <= j
      BY <1>4, <1>5, <2>1, FirstPosition
    <3>. QED
      BY <3>1
  <2> HIDE DEF First
  <2>. QED
    BY <2>2
<1>6. \A k \in DOMAIN file : k \notin New =>
        First(file[k]) \in DOMAIN feeds /\ Url(feeds[First(file[k])]) = file[k]
  <2> HIDE DEF Known, First
  <2>. QED
    BY <1>5
<1>29. \A k \in New : \A i \in DOMAIN feeds : Url(feeds[i]) # file[k]
  OBVIOUS
<1> HIDE DEF Known, First
<1>7. /\ Cardinality(New) \in Nat
      /\ \A k \in New : Place(k) \in 1 .. Cardinality(New)
      /\ \A k, l \in New : Place(k) = Place(l) => k = l
      /\ \A c \in 1 .. Cardinality(New) : \E k \in New : Place(k) = c
  <2>1. New \subseteq 1 .. Len(file)
    BY <1>3
  <2> HIDE DEF New
  <2>. QED
    BY <1>3, <2>1, NumberedInOrder
<1>8. \A k \in New : Id(k) = Len(obj) + Place(k)
  OBVIOUS
<1> HIDE DEF Place, Id
<1>9. total \in Nat /\ Len(obj) <= total
  BY <1>4, <1>7
<1>10. \A k \in New : k \in DOMAIN file /\ Id(k) \in Nat /\ Id(k) > Len(obj) /\ Id(k) <= total
  <2> SUFFICES ASSUME NEW k \in New
               PROVE  Id(k) \in Nat /\ Id(k) > Len(obj) /\ Id(k) <= total
    OBVIOUS
  <2>1. Id(k) = Len(obj) + Place(k) /\ Place(k) \in 1 .. Cardinality(New)
    BY <1>7, <1>8
  <2> HIDE DEF New
  <2>. QED
    BY <1>4, <1>7, <2>1
<1>11. \A k, l \in New : Id(k) = Id(l) => k = l
  <2> SUFFICES ASSUME NEW k \in New, NEW l \in New, Id(k) = Id(l)
               PROVE  k = l
    OBVIOUS
  <2>1. Place(k) \in Int /\ Place(l) \in Int
    BY <1>7
  <2>2. Len(obj) + Place(k) = Len(obj) + Place(l)
    BY <1>8
  <2> HIDE DEF New
  <2>3. Place(k) = Place(l)
    BY <1>4, <2>1, <2>2
  <2>. QED
    BY <1>7, <2>3
<1>12. ASSUME NEW o \in 1 .. total, o > Len(obj)
       PROVE  \E k \in New : Id(k) = o
  <2>1. o - Len(obj) \in 1 .. Cardinality(New)
    BY <1>4, <1>7, <1>12
  <2>2. PICK k \in New : Place(k) = o - Len(obj)
    BY <1>7, <2>1
  <2>. QED
    BY <1>4, <1>8, <2>2
<1>13. \A k \in New : made(Id(k)) = NewFeed(file[k], k)
  BY <1>11
<1>14. ASSUME NEW o \in 1 .. total, o > Len(obj)
       PROVE  made(o) \in Feed /\ made(o).status = "SUCCESS" /\ made(o).cleared = FALSE
  <2>1. PICK k \in New : Id(k) = o
    BY <1>12, <1>14
  <2>2. made(o) = NewFeed(file[k], k)
    BY <1>13, <2>1
  <2>3. k \in Nat /\ file[k] \in Urls
    BY <1>3, <1>10
  <2> HIDE DEF made
  <2>. QED
    BY <2>2, <2>3 DEF NewFeed, Feed, Statuses
<1>15. ASSUME NEW o \in Objects
       PROVE  /\ old(o) \in Feed /\ old(o).url = obj[o].url
              /\ old(o).status = obj[o].status /\ old(o).cleared = obj[o].cleared
  <2>1. obj[o] \in Feed
    BY ObjectsTyped
  <2>2. CASE o \in kept
    <3> DEFINE n == CHOOSE j \in DOMAIN file : file[j] = Url(o)
    <3>1. \E j \in DOMAIN file : file[j] = Url(o)
      BY <1>6, <2>2
    <3>2. n \in Nat
      <4>1. n \in DOMAIN file
        BY <3>1
      <4> HIDE DEF n
      <4>. QED
        BY <1>3, <4>1
    <3>3. old(o) = [obj[o] EXCEPT !.order = n]
      BY <2>2
    <3> HIDE DEF n, old
    <3>. QED
      BY <2>1, <3>2, <3>3 DEF Feed
  <2>3. CASE o \notin kept
    BY <2>1, <2>3
  <2>. QED
    BY <2>2, <2>3
<1> HIDE DEF made, old, kept, total, New
<1>16. \A o \in 1 .. total : o > Len(obj) \/ o \in Objects
  BY <1>4, <1>9 DEF Objects
<1>17. obj' \in [1 .. total -> Feed]
  BY <1>2, <1>14, <1>15, <1>16
<1>18. obj' \in Seq(Feed) /\ Len(obj') = total
  BY <1>9, <1>17
<1>19. Objects' = 1 .. total /\ Objects \subseteq 1 .. total /\ \A o \in Objects : ~(o > Len(obj))
  BY <1>4, <1>9, <1>18 DEF Objects
<1>20. \A o \in Objects : obj'[o] = old(o)
  BY <1>2, <1>19
<1>21. \A o \in 1 .. total : o > Len(obj) => obj'[o] = made(o)
  BY <1>2
<1>22. Grows
  BY <1>9, <1>15, <1>18, <1>20 DEF Grows
<1>23. \A o \in Objects' : o \notin Objects => obj'[o].status = "SUCCESS" /\ obj'[o].cleared = FALSE
  BY <1>14, <1>16, <1>19, <1>21
<1>24. NoNewMark
  BY <1>15, <1>20, <1>23 DEF NoNewMark
<1>25. ASSUME NEW k \in DOMAIN file
       PROVE  /\ new[k] \in Nat
              /\ new[k] \in Objects' /\ obj'[new[k]].url = file[k]
              /\ new[k] \in Objects => \E i \in DOMAIN feeds : feeds[i] = new[k]
              /\ new[k] \notin Objects => \A i \in DOMAIN feeds : Url(feeds[i]) # file[k]
  <2>1. CASE k \in New
    <3>1. new[k] = Id(k)
      BY <2>1
    <3>2. Id(k) \in 1 .. total /\ Id(k) > Len(obj) /\ Id(k) \in Nat
      BY <1>4, <1>9, <1>10, <2>1
    <3>3. obj'[Id(k)] = NewFeed(file[k], k)
      BY <1>13, <1>21, <2>1, <3>2
    <3>4. Id(k) \notin Objects
      BY <1>19, <3>2
    <3>. QED
      BY <1>19, <1>29, <2>1, <3>1, <3>2, <3>3, <3>4 DEF NewFeed
  <2>2. CASE k \notin New
    <3> DEFINE i == First(file[k])
    <3>1. new[k] = feeds[i]
      BY <2>2
    <3>2. i \in DOMAIN feeds /\ obj[feeds[i]].url = file[k]
      BY <1>6, <2>2 DEF Url
    <3>3. feeds[i] \in Objects /\ feeds[i] \in Nat
      BY <1>4, <3>2
    <3> HIDE DEF i
    <3>. QED
      BY <1>15, <1>19, <1>20, <3>1, <3>2, <3>3
  <2>. QED
    BY <2>1, <2>2
<1>26. new \in Seq(Nat) /\ DOMAIN new = DOMAIN file
  <2>1. DOMAIN new = DOMAIN file
    OBVIOUS
  <2>2. new = [k \in DOMAIN file |-> new[k]]
    OBVIOUS
  <2> HIDE DEF new
  <2>3. new \in [1 .. Len(file) -> Nat]
    BY <1>3, <1>25, <2>1, <2>2
  <2>. QED
    BY <1>3, <2>1, <2>3
<1>27. ui'.pc = "swap" /\ ui'.new = new
  BY <1>1
<1> HIDE DEF new
<1>28. ui' \in [pc : {"swap"}, new : Seq(Nat)]
  BY <1>1, <1>26
<1>. QED
  BY <1>15, <1>20, <1>22, <1>23, <1>24, <1>25, <1>26, <1>27, <1>28

-----------------------------------------------------------------------------
(* The steps of reload(), with positions that may be anybody's by now *)

Held ==
  /\ call \in [Threads -> Call]
  /\ \A t \in Threads : Busy(t) => call[t].pos # 0 /\ call[t].old \in Objects

\* What is marked as being downloaded has a thread, in the vector or not.
MarksHeld ==
  \A o \in Objects : obj[o].status = "DURING_DOWNLOAD" =>
    \E t \in Threads : Busy(t) /\ call[t].old = o

LEMMA HeldKept ==
  ASSUME WellFormed, Grows, call' = call
  PROVE  Held'
<1>1. Objects \subseteq Objects'
  BY GrowsFacts
<1>. QED
  BY <1>1 DEF Held, WellFormed, TypeOK, Busy

LEMMA MarksKept ==
  ASSUME MarksHeld, NoNewMark, call' = call
  PROVE  MarksHeld'
BY DEF MarksHeld, NoNewMark, Busy

LEMMA BeginAs ==
  ASSUME WellFormed, MarksHeld, NEW t \in Threads, ~Busy(t), NEW pos \in Nat \ {0},
         NEW want \in SUBSET Urls, BeginReload(t, pos, want)
  PROVE  /\ Grows /\ NoNewClear /\ Held' /\ MarksHeld'
         /\ \A x \in Threads :
              \/ call'[x] = call[x]
              \/ /\ x = t /\ pos \in DOMAIN feeds
                 /\ call'[x].pos = pos /\ call'[x].old = feeds[pos]
<1>1. CASE pos > Len(feeds)
  <2>1. UNCHANGED <<call, obj>>
    BY <1>1, ObjectsTyped DEF BeginReload
  <2>2. Grows /\ NoNewClear
    BY <2>1, ObjectsTyped DEF Grows, NoNewClear, Objects, WellFormed, TypeOK
  <2>. QED
    BY <2>1, <2>2, HeldKept DEF MarksHeld, Busy, Objects
<1>2. CASE pos <= Len(feeds)
  <2> DEFINE o == feeds[pos]
             c == [pos |-> pos, old |-> o, want |-> want]
  <2>1. o \in Objects /\ o \in Nat
    BY <1>2, ObjectsTyped
  <2>2. call' = [call EXCEPT ![t] = c] /\ obj' = SetStatus(o, "DURING_DOWNLOAD")
    BY <1>2 DEF BeginReload
  <2>3. c \in Call /\ c # NoCall /\ c.pos # 0 /\ c.old = o /\ c.pos = pos
    BY <2>1 DEF Call, NoCall
  <2> HIDE DEF o, c
  <2>4. Grows /\ NoNewClear /\ Len(obj') = Len(obj) /\ \A i \in Objects : i # o => obj'[i] = obj[i]
    BY <2>1, <2>2, MarkedAs DEF Statuses
  <2>5. Objects' = Objects
    BY <2>4 DEF Objects
  <2>6. call \in [Threads -> Call]
    BY DEF WellFormed, TypeOK
  <2>7. /\ call' \in [Threads -> Call] /\ call'[t] = c
        /\ \A x \in Threads : x # t => call'[x] = call[x]
    BY <2>2, <2>3, <2>6
  <2>8. \A x \in Threads : Busy(x)' => call'[x].pos # 0 /\ call'[x].old \in Objects
    BY <2>1, <2>3, <2>7 DEF WellFormed, Busy
  <2>9. Held'
    BY <2>5, <2>7, <2>8 DEF Held
  <2>10. MarksHeld'
    <3> SUFFICES ASSUME NEW i \in Objects, obj'[i].status = "DURING_DOWNLOAD"
                 PROVE  \E x \in Threads : call'[x] # NoCall /\ call'[x].old = i
      BY <2>5 DEF MarksHeld, Busy
    <3>1. CASE i = o
      BY <3>1, <2>3, <2>7
    <3>2. CASE i # o
      <4>1. PICK x \in Threads : Busy(x) /\ call[x].old = i
        BY <3>2, <2>4 DEF MarksHeld
      <4>. QED
        BY <4>1, <2>7 DEF Busy
    <3>. QED
      BY <3>1, <3>2
  <2>11. pos \in DOMAIN feeds
    BY <1>2, ObjectsTyped
  <2>. QED
    BY <2>3, <2>4, <2>7, <2>9, <2>10, <2>11 DEF o
<1>. QED
  BY <1>1, <1>2, ObjectsTyped

\* The end of a call, when no mark but that of its object may have gone.
LEMMA CallEnds ==
  ASSUME WellFormed, MarksHeld, NEW t \in Threads, Grows,
         call' = [call EXCEPT ![t] = NoCall],
         \A o \in Objects' : obj'[o].status = "DURING_DOWNLOAD" =>
           o \in Objects /\ o # call[t].old /\ obj[o].status = "DURING_DOWNLOAD"
  PROVE  Held' /\ MarksHeld'
<1>1. call \in [Threads -> Call] /\ NoCall \in Call
  BY DEF WellFormed, TypeOK, NoCall, Call
<1>2. /\ call' \in [Threads -> Call] /\ call'[t] = NoCall
      /\ \A x \in Threads : x # t => call'[x] = call[x]
  BY <1>1
<1>3. Objects \subseteq Objects'
  BY GrowsFacts
<1>4. Held'
  BY <1>2, <1>3 DEF Held, WellFormed, Busy
<1>5. MarksHeld'
  <2> SUFFICES ASSUME NEW i \in Objects', obj'[i].status = "DURING_DOWNLOAD"
               PROVE  \E x \in Threads : call'[x] # NoCall /\ call'[x].old = i
    BY DEF MarksHeld, Busy
  <2>1. PICK x \in Threads : Busy(x) /\ call[x].old = i
    BY DEF MarksHeld
  <2>. QED
    BY <2>1, <1>2 DEF Busy
<1>. QED
  BY <1>4, <1>5

LEMMA EndAs ==
  ASSUME WellFormed, MarksHeld, NEW t \in Threads, EndReload(t)
  PROVE  /\ Grows /\ Held' /\ MarksHeld'
         /\ feeds' \in Seq(Nat) /\ Len(feeds') = Len(feeds)
         /\ \A i \in DOMAIN feeds' : feeds'[i] \in Objects'
         /\ UNCHANGED <<reload_mutex, dl, todo, ui, itemlist>>
         /\ crashed' \in BOOLEAN /\ shown' \in {shown, feeds'}
         /\ \A i \in 1 .. Len(feeds) : feeds'[i] = feeds[i] \/ obj'[feeds[i]].cleared
<1>0. /\ feeds \in Seq(Nat) /\ obj \in Seq(Feed) /\ crashed \in BOOLEAN
      /\ \A i \in DOMAIN feeds : feeds[i] \in Objects
  BY DEF WellFormed, TypeOK
<1>1. CASE StoreFeed(t) \/ StoreThenFail(t)
  <2> DEFINE pos == call[t].pos
             old == call[t].old
             new == Len(obj) + 1
  <2>0. PICK order \in Nat, st \in Statuses \ {"DURING_DOWNLOAD", "TO_BE_DOWNLOADED"},
             emptied \in SUBSET {feeds[pos], old} :
          /\ Stored(t, order, emptied, st) /\ feeds[pos] \in emptied
          /\ shown' \in {shown, feeds'}
    BY <1>1, StoresAs
  <2>1. /\ Grows /\ Len(obj') = new /\ pos \in 1 .. Len(feeds) /\ old \in Objects
        /\ feeds' \in Seq(Nat) /\ Len(feeds') = Len(feeds)
        /\ \A i \in 1 .. Len(feeds) : feeds'[i] = IF i = pos THEN new ELSE feeds[i]
        /\ obj'[new] = NewFeed(obj[old].url, order)
        /\ obj'[old].status = st
        /\ \A o \in Objects : o # old => obj'[o].status = obj[o].status
        /\ \A o \in Objects : o \in emptied => obj'[o].cleared
    BY <2>0, StoredAs
  <2>2. /\ call' = [call EXCEPT ![t] = NoCall]
        /\ UNCHANGED <<reload_mutex, dl, todo, ui, itemlist, crashed>>
    BY <2>0 DEF Stored
  <2> HIDE DEF pos, old, new
  <2>3. /\ Len(obj) \in Nat /\ Len(feeds) \in Nat /\ DOMAIN feeds = 1 .. Len(feeds)
        /\ \A i \in 1 .. Len(feeds) : feeds[i] \in Objects
    BY ObjectsTyped
  <2>4. new \in Nat /\ Objects' = Objects \cup {new} /\ new \notin Objects
    BY <2>1, <2>3 DEF Objects, new
  <2>5. obj'[new].status = "SUCCESS"
    BY <2>1 DEF NewFeed
  <2>6. \A o \in Objects' : obj'[o].status = "DURING_DOWNLOAD" =>
          o \in Objects /\ o # old /\ obj[o].status = "DURING_DOWNLOAD"
    BY <2>1, <2>4, <2>5
  <2>7. Held' /\ MarksHeld'
    BY <2>1, <2>2, <2>6, CallEnds DEF old
  <2>8. \A i \in 1 .. Len(feeds) : feeds'[i] \in Objects'
    BY <2>1, <2>3, <2>4
  <2>9. DOMAIN feeds' = 1 .. Len(feeds)
    BY <2>1
  <2>10. \A i \in 1 .. Len(feeds) : feeds'[i] = feeds[i] \/ obj'[feeds[i]].cleared
    BY <2>0, <2>1, <2>3
  <2>. QED
    BY <1>0, <2>0, <2>1, <2>2, <2>7, <2>8, <2>9, <2>10
<1>2. CASE StoreBeyondEnd(t)
  <2>1. UNCHANGED <<feeds, obj, reload_mutex, dl, todo, call, ui, shown, itemlist>> /\ crashed' = TRUE
    BY <1>2 DEF StoreBeyondEnd
  <2>2. Grows
    BY <1>0, <2>1, ObjectsTyped DEF Grows
  <2>. QED
    BY <1>0, <2>1, <2>2, HeldKept DEF MarksHeld, Busy, Objects
<1>3. ASSUME NEW st \in Statuses \ {"DURING_DOWNLOAD"}, NothingStored(t, st)
      PROVE  /\ Grows /\ Held' /\ MarksHeld' /\ Objects' = Objects
             /\ UNCHANGED <<feeds, reload_mutex, dl, todo, ui, shown, itemlist, crashed>>
  <2>1. /\ obj' = SetStatus(call[t].old, st) /\ call' = [call EXCEPT ![t] = NoCall]
        /\ UNCHANGED <<feeds, reload_mutex, dl, todo, ui, shown, itemlist, crashed>>
    BY <1>3 DEF NothingStored
  <2>2. call[t].old \in Objects
    BY <1>3 DEF NothingStored, WellFormed
  <2>3. /\ Grows /\ Len(obj') = Len(obj) /\ obj'[call[t].old].status = st
        /\ \A i \in Objects : i # call[t].old => obj'[i] = obj[i]
    BY <2>1, <2>2, MarkedAs
  <2>4. Objects' = Objects
    BY <2>3 DEF Objects
  <2>5. \A o \in Objects' : obj'[o].status = "DURING_DOWNLOAD" =>
          o \in Objects /\ o # call[t].old /\ obj[o].status = "DURING_DOWNLOAD"
    BY <2>3, <2>4
  <2>. QED
    BY <2>1, <2>3, <2>4, <2>5, CallEnds
<1>4. CASE EmptyFeed(t) \/ FailedFeed(t)
  <2>1. \E st \in Statuses \ {"DURING_DOWNLOAD"} : NothingStored(t, st)
    BY <1>4 DEF EmptyFeed, FailedFeed, Statuses
  <2>. QED
    BY <1>0, <1>3, <2>1
<1>. QED
  BY <1>1, <1>2, <1>4 DEF EndReload

-----------------------------------------------------------------------------
(* The invariant of any configuration *)

\* Only the thread that holds reload_mutex has positions to do, or has given
\* them to its range threads.
MutexInv ==
  /\ \A d \in Downloaders : dl[d].pc \notin {"idle", "try"} => reload_mutex = d
  /\ reload_mutex # Nobody => dl[reload_mutex].pc \notin {"idle", "try"}
  /\ \A t \in Threads : todo[t] # {} =>
       /\ reload_mutex # Nobody
       /\ \/ dl[reload_mutex].pc = "ranges"
          \/ dl[reload_mutex].pc = "indexes" /\ t = reload_mutex
  /\ todo[UI] = {}

General == WellFormed /\ MutexInv /\ MarksHeld /\ ScreenIsCurrent

FeedsTyped == feeds \in Seq(Nat) /\ \A i \in DOMAIN feeds : feeds[i] \in Objects
ControlTyped ==
  /\ reload_mutex \in Downloaders \cup {Nobody}
  /\ dl \in [Downloaders -> [pc : Phases, want : SUBSET Urls, indexes : SUBSET Nat]]
  /\ todo \in [Threads -> SUBSET Nat]
  /\ \A t \in Threads : 0 \notin todo[t]
  /\ \A d \in Downloaders : 0 \notin dl[d].indexes
UiTyped ==
  /\ ui \in [pc : {"idle", "update", "swap", "sort"}, new : Seq(Nat)]
  /\ \A i \in DOMAIN ui.new : ui.new[i] \in Objects
LinesTyped == shown \in Seq(Nat) /\ \A i \in DOMAIN shown : shown[i] \in Objects
ScreenTyped ==
  /\ LinesTyped /\ crashed \in BOOLEAN
  /\ itemlist \in [url : Urls \cup {"none"}, pos : Nat]
  /\ itemlist # Closed => itemlist.url \in Urls /\ itemlist.pos # 0

LEMMA PartsOf ==
  ASSUME WellFormed
  PROVE  FeedsTyped /\ obj \in Seq(Feed) /\ ControlTyped /\ Held /\ UiTyped /\ ScreenTyped
<1>1. FeedsTyped /\ obj \in Seq(Feed)
  BY DEF WellFormed, TypeOK, FeedsTyped
<1>2. ControlTyped
  BY DEF WellFormed, TypeOK, ControlTyped
<1>3. Held /\ UiTyped /\ ScreenTyped
  BY DEF WellFormed, TypeOK, Held, UiTyped, ScreenTyped, LinesTyped
<1>. QED
  BY <1>1, <1>2, <1>3

LEMMA WellFormedAgain ==
  ASSUME Grows, FeedsTyped', ControlTyped', Held', UiTyped', ScreenTyped'
  PROVE  WellFormed'
<1>1. obj' \in Seq(Feed)
  BY DEF Grows
<1>2. TypeOK'
  BY <1>1 DEF TypeOK, FeedsTyped, ControlTyped, Held, UiTyped, ScreenTyped, LinesTyped
<1>. QED
  BY <1>2 DEF WellFormed, FeedsTyped, ControlTyped, Held, UiTyped, ScreenTyped, LinesTyped

\* Threads that stay between sort_feeds() and update_feedlist(), if they are,
\* and a vector in which only objects that have been emptied are replaced.
LEMMA ScreenKept ==
  ASSUME WellFormed, DOMAIN dl' = DOMAIN dl, ScreenIsCurrent, Grows, UNCHANGED <<shown, ui>>,
         feeds' \in Seq(Nat), Len(feeds') = Len(feeds),
         \A i \in 1 .. Len(feeds) : feeds'[i] = feeds[i] \/ obj'[feeds[i]].cleared,
         \A e \in DOMAIN dl : dl[e].pc = "update" => dl'[e].pc = "update"
  PROVE  ScreenIsCurrent'
<1> SUFFICES ASSUME ui.pc \in {"idle", "swap"}
             PROVE  /\ Len(shown) = Len(feeds')
                    /\ \A i \in DOMAIN shown : ShowsFeed(i)' \/ obj'[shown[i]].cleared
  BY DEF ScreenIsCurrent
<1>1. Len(shown) = Len(feeds) /\ \A i \in DOMAIN shown : ShowsFeed(i) \/ obj[shown[i]].cleared
  BY DEF ScreenIsCurrent
<1>2. DOMAIN feeds = 1 .. Len(feeds) /\ DOMAIN feeds' = 1 .. Len(feeds)
  BY ObjectsTyped
<1>3. ASSUME NEW i \in DOMAIN shown
      PROVE  ShowsFeed(i)' \/ obj'[shown[i]].cleared
  <2>1. CASE obj[shown[i]].cleared
    BY <2>1 DEF WellFormed, Grows
  <2>2. CASE ShowsFeed(i)
    <3>1. PICK j \in 1 .. Len(feeds) :
            feeds[j] = shown[i] /\ (j = i \/ \E d \in DOMAIN dl : At(d, "update"))
      BY <1>2, <2>2 DEF ShowsFeed
    <3>2. CASE feeds'[j] = feeds[j]
      <4>1. (\E d \in DOMAIN dl : At(d, "update")) => \E d \in DOMAIN dl' : At(d, "update")'
        BY DEF At
      <4>. QED
        BY <1>2, <3>1, <3>2, <4>1 DEF ShowsFeed
    <3>3. CASE obj'[feeds[j]].cleared
      BY <3>1, <3>3
    <3>. QED
      BY <3>2, <3>3
  <2>. QED
    BY <1>1, <2>1, <2>2
<1>. QED
  BY <1>1, <1>3

\* Neither the vector nor the lines change.
LEMMA ScreenLeft ==
  ASSUME WellFormed, ScreenIsCurrent, Grows, UNCHANGED <<feeds, shown, ui>>, ControlTyped',
         \A e \in Downloaders : dl[e].pc = "update" => dl'[e].pc = "update"
  PROVE  ScreenIsCurrent'
<1>1. feeds' \in Seq(Nat) /\ Len(feeds') = Len(feeds)
  BY PartsOf DEF FeedsTyped
<1>2. DOMAIN dl = Downloaders /\ DOMAIN dl' = Downloaders
  BY PartsOf DEF ControlTyped
<1>. QED
  BY <1>1, <1>2, ScreenKept

\* The list has just been drawn.
LEMMA ScreenDrawn ==
  ASSUME shown' = feeds'
  PROVE  ScreenIsCurrent'
BY DEF ScreenIsCurrent, ShowsFeed

\* A background reload has sorted: a feed that was shown is where it was sorted to.
LEMMA ScreenSorted ==
  ASSUME WellFormed, ScreenIsCurrent, Rearranged(feeds', feeds, Len(feeds)), feeds' \in Seq(Nat),
         UNCHANGED <<obj, shown, ui>>, NEW d \in DOMAIN dl', dl'[d].pc = "update"
  PROVE  ScreenIsCurrent'
<1> DEFINE n == Len(feeds)
<1>1. n \in Nat /\ DOMAIN feeds = 1 .. n
  BY ObjectsTyped
<1>2. PICK p : Permutes(p, n) /\ feeds' = [k \in 1 .. n |-> feeds[p[k]]]
  BY DEF Rearranged
<1>3. Len(feeds') = n /\ DOMAIN feeds' = 1 .. n
  BY <1>1, <1>2
<1>4. \A j \in 1 .. n : \E k \in 1 .. n : feeds'[k] = feeds[j]
  BY <1>2 DEF Permutes
<1> HIDE DEF n
<1> SUFFICES ASSUME ui.pc \in {"idle", "swap"}
             PROVE  /\ Len(shown) = Len(feeds')
                    /\ \A i \in DOMAIN shown : ShowsFeed(i)' \/ obj[shown[i]].cleared
  BY DEF ScreenIsCurrent
<1>5. Len(shown) = n /\ \A i \in DOMAIN shown : ShowsFeed(i) \/ obj[shown[i]].cleared
  BY DEF ScreenIsCurrent, n
<1>6. ASSUME NEW i \in DOMAIN shown, ShowsFeed(i)
      PROVE  ShowsFeed(i)'
  <2>1. PICK j \in 1 .. n : feeds[j] = shown[i]
    BY <1>1, <1>6 DEF ShowsFeed
  <2>2. PICK k \in 1 .. n : feeds'[k] = shown[i]
    BY <1>4, <2>1
  <2>3. At(d, "update")'
    BY DEF At
  <2>. QED
    BY <1>3, <2>2, <2>3 DEF ShowsFeed
<1>. QED
  BY <1>3, <1>5, <1>6

LEMMA Kept ==
  ASSUME WellFormed, Grows
  PROVE  /\ feeds' = feeds => FeedsTyped'
         /\ ui' = ui => UiTyped'
         /\ (reload_mutex' = reload_mutex /\ dl' = dl /\ todo' = todo) => ControlTyped' /\ (MutexInv => MutexInv')
         /\ shown' = shown => LinesTyped'
         /\ shown' = feeds' /\ FeedsTyped' => LinesTyped'
         /\ (shown' = shown /\ crashed' = crashed /\ itemlist' = itemlist) => ScreenTyped'
         /\ (ScreenIsCurrent /\ feeds' = feeds /\ shown' = shown /\ ui' = ui /\ dl' = dl) => ScreenIsCurrent'
<1>1. Objects \subseteq Objects'
  BY GrowsFacts
<1>2. feeds' = feeds => FeedsTyped'
  BY <1>1, PartsOf DEF FeedsTyped
<1>3. ui' = ui => UiTyped'
  BY <1>1, PartsOf DEF UiTyped
<1>4. (reload_mutex' = reload_mutex /\ dl' = dl /\ todo' = todo) => ControlTyped' /\ (MutexInv => MutexInv')
  BY PartsOf DEF ControlTyped, MutexInv
<1>5. shown' = shown => LinesTyped'
  BY <1>1, PartsOf DEF ScreenTyped, LinesTyped
<1>6. shown' = feeds' /\ FeedsTyped' => LinesTyped'
  BY DEF LinesTyped, FeedsTyped
<1>7. (shown' = shown /\ crashed' = crashed /\ itemlist' = itemlist) => ScreenTyped'
  BY <1>5, PartsOf DEF ScreenTyped
<1>8. (ScreenIsCurrent /\ feeds' = feeds /\ shown' = shown /\ ui' = ui /\ dl' = dl) => ScreenIsCurrent'
  <2> SUFFICES ASSUME ScreenIsCurrent, feeds' = feeds, shown' = shown, ui' = ui, dl' = dl
               PROVE  ScreenIsCurrent'
    OBVIOUS
  <2>1. feeds' \in Seq(Nat)
    BY PartsOf DEF FeedsTyped
  <2>. QED
    BY <2>1, ScreenKept
<1>. QED
  BY <1>2, <1>3, <1>4, <1>5, <1>6, <1>7, <1>8

LEMMA UnchangedGrows ==
  ASSUME WellFormed, obj' = obj
  PROVE  Grows /\ NoNewMark /\ NoNewClear
<1>1. obj \in Seq(Feed) /\ Len(obj) <= Len(obj)
  BY ObjectsTyped, PartsOf
<1>. QED
  BY <1>1 DEF Grows, NoNewMark, NoNewClear, Objects

LEMMA GeneralInit ==
  ASSUME Init
  PROVE  General
<1> USE UrlsFacts DEF Init
<1>1. /\ obj \in [1 .. N -> Feed] /\ Len(obj) = N /\ obj \in Seq(Feed)
      /\ \A p \in 1 .. N : obj[p] = NewFeed(InitialUrls[p], p)
  <2>1. \A p \in 1 .. N : NewFeed(InitialUrls[p], p) \in Feed
    BY DEF NewFeed, Feed, Statuses
  <2>2. obj = [p \in 1 .. N |-> NewFeed(InitialUrls[p], p)]
    OBVIOUS
  <2>. QED
    BY <2>1, <2>2
<1>2. feeds \in [1 .. N -> 1 .. N]
  <2> DEFINE ids == [i \in 1 .. N |-> i]
  <2>1. ids \in [1 .. N -> Nat] /\ \A i \in 1 .. N : ids[i] = i /\ obj[ids[i]].order \in Int
    BY <1>1 DEF Feed
  <2>2. feeds \in SortResults(ids)
    OBVIOUS
  <2>5. N \in Nat /\ \A i \in 1 .. N : obj[ids[i]].order \in Int
    BY <2>1
  <2>6. ids \in [1 .. N -> Nat]
    BY <2>1
  <2> HIDE DEF ids, Init
  <2>3. PICK p : Permutes(p, N) /\ feeds = [r \in 1 .. N |-> ids[p[r]]]
    <3>1. Rearranged(feeds, ids, N)
      BY <2>2, <2>5, <2>6, SortPermutes
    <3>. QED
      BY <3>1 DEF Rearranged
  <2>4. \A r \in 1 .. N : p[r] \in 1 .. N
    BY <2>3 DEF Permutes
  <2>. QED
    BY <2>1, <2>3, <2>4
<1>3. Objects = 1 .. N
  BY <1>1 DEF Objects
<1>4. FeedsTyped
  <2>1. feeds \in [1 .. N -> Nat]
    BY <1>2
  <2>. QED
    BY <1>2, <1>3, <2>1 DEF FeedsTyped
<1>5. ControlTyped
  BY DEF ControlTyped, Idle, Phases
<1>6. Held
  BY DEF Held, Busy, NoCall, Call
<1>7. UiTyped
  BY DEF UiTyped, UiIdle
<1>8. shown = feeds
  OBVIOUS
<1>9. ScreenTyped
  BY <1>4, <1>8 DEF ScreenTyped, LinesTyped, FeedsTyped, Closed
<1>10. WellFormed
  <2>1. TypeOK
    BY <1>1, <1>4, <1>5, <1>6, <1>7, <1>9 DEF TypeOK, FeedsTyped, ControlTyped, Held, UiTyped, ScreenTyped, LinesTyped
  <2>. QED
    BY <1>4, <1>5, <1>6, <1>7, <1>9, <2>1 DEF WellFormed, FeedsTyped, ControlTyped, Held, UiTyped, ScreenTyped, LinesTyped
<1>11. MutexInv
  BY DEF MutexInv, Idle, Threads
<1>12. MarksHeld
  BY <1>1, <1>3 DEF MarksHeld, NewFeed
<1>. QED
  BY <1>8, <1>10, <1>11, <1>12 DEF General, ScreenIsCurrent, ShowsFeed

\* Which thread begins a reload(), and what it has to be allowed to.
LEMMA BegunBy ==
  ASSUME General,
         \/ \E t \in Threads : NextFeed(t)
         \/ \E i \in DOMAIN shown : ReloadSelected(i)
         \/ ReloadOpen
  PROVE  \E t \in Threads, pos \in Nat \ {0}, want \in SUBSET Urls :
           /\ ~Busy(t) /\ BeginReload(t, pos, want)
           /\ t = UI => UiFree /\ "reload" \in UiOps
           /\ t # UI => todo[t] # {}
<1> USE DEF General
<1>1. CASE \E t \in Threads : NextFeed(t)
  <2>1. PICK t \in Threads : NextFeed(t)
    BY <1>1
  <2>2. PICK pos \in todo[t] : BeginReload(t, pos, dl[reload_mutex].want)
    BY <2>1 DEF NextFeed
  <2>3. pos \in Nat \ {0}
    BY PartsOf DEF ControlTyped
  <2>4. reload_mutex \in Downloaders
    BY PartsOf DEF ControlTyped, MutexInv
  <2>5. dl[reload_mutex].want \in SUBSET Urls
    BY <2>4, PartsOf DEF ControlTyped
  <2>. QED
    BY <2>1, <2>2, <2>3, <2>5 DEF NextFeed
<1>2. CASE \E i \in DOMAIN shown : ReloadSelected(i)
  <2>1. PICK i \in DOMAIN shown : ReloadSelected(i)
    BY <1>2
  <2>2. i \in Nat \ {0} /\ Url(shown[i]) \in Urls
    <3>1. shown[i] \in Objects /\ i \in Nat \ {0}
      BY PartsOf DEF ScreenTyped, LinesTyped
    <3>. QED
      BY <3>1, ObjectsTyped DEF Url, Feed
  <2>3. UI \in Threads
    BY DEF Threads
  <2>4. {Url(shown[i])} \in SUBSET Urls
    BY <2>2
  <2>. QED
    BY <2>1, <2>2, <2>3, <2>4 DEF ReloadSelected, UiFree
<1>3. CASE ReloadOpen
  <2>1. itemlist.pos \in Nat \ {0} /\ itemlist.url \in Urls
    BY <1>3, PartsOf DEF ScreenTyped, ReloadOpen, Closed
  <2>2. UI \in Threads /\ {itemlist.url} \in SUBSET Urls
    BY <2>1 DEF Threads
  <2>. QED
    BY <1>3, <2>1, <2>2 DEF ReloadOpen, UiFree
<1>. QED
  BY <1>1, <1>2, <1>3

\* reload() begins, on any thread.
LEMMA GeneralBegin ==
  ASSUME General,
         \/ \E t \in Threads : NextFeed(t)
         \/ \E i \in DOMAIN shown : ReloadSelected(i)
         \/ ReloadOpen
  PROVE  General'
<1> USE DEF General
<1>1. PICK t \in Threads, pos \in Nat \ {0}, want \in SUBSET Urls :
        ~Busy(t) /\ BeginReload(t, pos, want)
  BY BegunBy
<1>2. Grows /\ Held' /\ MarksHeld'
  BY <1>1, BeginAs
<1>3. UNCHANGED <<feeds, reload_mutex, dl, ui, shown, itemlist, crashed>>
  BY DEF NextFeed, ReloadSelected, ReloadOpen
<1>4. FeedsTyped' /\ UiTyped' /\ ScreenTyped' /\ ScreenIsCurrent'
  BY <1>2, <1>3, Kept
<1>5. /\ todo' \in [Threads -> SUBSET Nat]
      /\ \A x \in Threads : todo'[x] \subseteq todo[x]
  <2>1. todo \in [Threads -> SUBSET Nat]
    BY PartsOf DEF ControlTyped
  <2>2. CASE todo' = todo
    BY <2>1, <2>2
  <2>3. ASSUME NEW y \in Threads, NextFeed(y)
        PROVE  todo' \in [Threads -> SUBSET Nat] /\ \A x \in Threads : todo'[x] \subseteq todo[x]
    BY <2>1, <2>3 DEF NextFeed
  <2>. QED
    BY <2>2, <2>3 DEF ReloadSelected, ReloadOpen
<1>6. ControlTyped'
  BY <1>3, <1>5, PartsOf DEF ControlTyped
<1>7. MutexInv'
  <2>1. UI \in Threads
    BY DEF Threads
  <2>. QED
    BY <1>3, <1>5, <2>1 DEF MutexInv
<1>. QED
  BY <1>2, <1>4, <1>6, <1>7, WellFormedAgain

\* reload() ends, on any thread.
LEMMA GeneralEnd ==
  ASSUME General, NEW t \in Threads, EndReload(t)
  PROVE  General'
<1> USE DEF General
<1>1. /\ Grows /\ Held' /\ MarksHeld'
      /\ feeds' \in Seq(Nat) /\ Len(feeds') = Len(feeds)
      /\ \A i \in DOMAIN feeds' : feeds'[i] \in Objects'
      /\ UNCHANGED <<reload_mutex, dl, todo, ui, itemlist>>
      /\ crashed' \in BOOLEAN /\ shown' \in {shown, feeds'}
      /\ \A i \in 1 .. Len(feeds) : feeds'[i] = feeds[i] \/ obj'[feeds[i]].cleared
  BY EndAs
<1>2. FeedsTyped'
  BY <1>1 DEF FeedsTyped
<1>3. ControlTyped' /\ MutexInv' /\ UiTyped'
  BY <1>1, Kept
<1>4. ScreenTyped'
  <2>1. LinesTyped'
    BY <1>1, <1>2, Kept
  <2>. QED
    BY <1>1, <2>1, PartsOf DEF ScreenTyped
<1>5. ScreenIsCurrent'
  <2>1. CASE shown' = feeds'
    BY <2>1, ScreenDrawn
  <2>2. CASE shown' = shown
    BY <1>1, <2>2, ScreenKept
  <2>. QED
    BY <1>1, <2>1, <2>2
<1>. QED
  BY <1>1, <1>2, <1>3, <1>4, <1>5, WellFormedAgain

\* A downloadthread between the reloads, or a new one.
LEMMA GeneralControl ==
  ASSUME General, NEW d \in Downloaders,
         \/ TryLock(d) \/ ResetStatus(d) \/ Join(d) \/ IndexesDone(d)
         \/ UpdateAfter(d) \/ SortAfter(d) \/ Unlock(d)
         \/ AutoReload(d) \/ (\E V \in SUBSET DOMAIN shown : StartReloadAll(d, V))
  PROVE  General'
<1> USE DEF General
<1>0. /\ UNCHANGED <<call, ui, itemlist, crashed>>
      /\ d \in Threads /\ UI \in Threads /\ d # Nobody /\ d # UI
      /\ dl \in [Downloaders -> [pc : Phases, want : SUBSET Urls, indexes : SUBSET Nat]]
      /\ todo \in [Threads -> SUBSET Nat]
  BY FeedReloadAssumption, PartsOf
     DEF ControlTyped, Threads, TryLock, ResetStatus, Join, IndexesDone, UpdateAfter,
         SortAfter, Unlock, AutoReload, StartReloadAll
\* What dl[d] becomes, and what that means for the others.
<1>1. ASSUME NEW r \in [pc : Phases, want : SUBSET Urls, indexes : SUBSET Nat],
             dl' = [dl EXCEPT ![d] = r], 0 \notin r.indexes,
             reload_mutex' \in Downloaders \cup {Nobody},
             todo' \in [Threads -> SUBSET Nat],
             \A t \in Threads : 0 \notin todo'[t]
      PROVE  ControlTyped' /\ dl'[d] = r /\ \A e \in Downloaders \ {d} : dl'[e] = dl[e]
  <2>1. /\ dl' \in [Downloaders -> [pc : Phases, want : SUBSET Urls, indexes : SUBSET Nat]]
        /\ dl'[d] = r /\ \A e \in Downloaders \ {d} : dl'[e] = dl[e]
    BY <1>0, <1>1
  <2>. QED
    BY <1>1, <2>1, PartsOf DEF ControlTyped
<1>2. CASE AutoReload(d) \/ (\E V \in SUBSET DOMAIN shown : StartReloadAll(d, V))
  <2>0. At(d, "idle") /\ UNCHANGED <<feeds, obj, reload_mutex, todo, shown>>
    BY <1>2 DEF AutoReload, StartReloadAll
  <2> DEFINE Asked(want, indexes) ==
               dl' = [dl EXCEPT ![d] = [pc |-> "try", want |-> want, indexes |-> indexes]]
  <2>1. PICK want \in SUBSET Urls, indexes \in SUBSET (DOMAIN shown) : Asked(want, indexes)
    <3>1. CASE AutoReload(d)
      <4>1. Asked(Urls, {})
        BY <3>1 DEF AutoReload
      <4> HIDE DEF Asked
      <4>. QED
        BY <4>1
    <3>2. ASSUME NEW V \in SUBSET DOMAIN shown, StartReloadAll(d, V)
          PROVE  \E want \in SUBSET Urls, indexes \in SUBSET (DOMAIN shown) : Asked(want, indexes)
      <4>1. \A i \in DOMAIN shown : Url(shown[i]) \in Urls
        <5>1. \A i \in DOMAIN shown : shown[i] \in Objects
          BY PartsOf DEF ScreenTyped, LinesTyped
        <5>. QED
          BY <5>1, ObjectsTyped DEF Url, Feed
      <4>2. {Url(shown[i]) : i \in V} \in SUBSET Urls
        BY <4>1
      <4>3. IF OnlyVisible THEN Asked({Url(shown[i]) : i \in V}, V) ELSE Asked(Urls, {})
        BY <3>2 DEF StartReloadAll
      <4> HIDE DEF Asked
      <4>. QED
        BY <4>2, <4>3
    <3>. QED
      BY <1>2, <3>1, <3>2
  <2> DEFINE r == [pc |-> "try", want |-> want, indexes |-> indexes]
  <2>2. DOMAIN shown \subseteq Nat \ {0}
    BY PartsOf DEF ScreenTyped, LinesTyped
  <2>3. /\ r \in [pc : Phases, want : SUBSET Urls, indexes : SUBSET Nat]
        /\ r.pc = "try" /\ 0 \notin r.indexes
    BY <2>2 DEF Phases
  <2>4. dl' = [dl EXCEPT ![d] = r]
    BY <2>1
  <2> HIDE DEF Asked
  <2> HIDE DEF r
  <2>5. Grows /\ NoNewMark
    BY <2>0, UnchangedGrows
  <2>6. ControlTyped' /\ dl'[d] = r /\ \A e \in Downloaders \ {d} : dl'[e] = dl[e]
    BY <1>0, <1>1, <2>0, <2>3, <2>4, PartsOf DEF ControlTyped
  <2>7. MutexInv'
    BY <2>0, <2>3, <2>6, PartsOf DEF MutexInv, At, ControlTyped
  <2>8. ScreenIsCurrent'
    <3>1. \A e \in Downloaders : dl[e].pc = "update" => dl'[e].pc = "update"
      BY <2>0, <2>6 DEF At
    <3>. QED
      BY <1>0, <2>0, <2>5, <2>6, <3>1, ScreenLeft
  <2>. QED
    BY <1>0, <2>0, <2>5, <2>6, <2>7, <2>8, Kept, HeldKept, MarksKept, WellFormedAgain
<1>3. ASSUME Grows, NoNewMark, FeedsTyped', LinesTyped', ControlTyped',
             MutexInv', ScreenIsCurrent'
      PROVE  General'
  <2>1. ScreenTyped'
    BY <1>0, <1>3, PartsOf DEF ScreenTyped
  <2>. QED
    BY <1>0, <1>3, <2>1, Kept, HeldKept, MarksKept, WellFormedAgain
<1>4. ASSUME NEW pc \in Phases, Goto(d, pc)
      PROVE  \E r \in [pc : Phases, want : SUBSET Urls, indexes : SUBSET Nat] :
               dl' = [dl EXCEPT ![d] = r] /\ r.pc = pc /\ 0 \notin r.indexes
  <2> DEFINE r == [dl[d] EXCEPT !.pc = pc]
  <2>1. dl[d] \in [pc : Phases, want : SUBSET Urls, indexes : SUBSET Nat] /\ 0 \notin dl[d].indexes
    BY <1>0, PartsOf DEF ControlTyped
  <2>2. r \in [pc : Phases, want : SUBSET Urls, indexes : SUBSET Nat] /\ r.pc = pc /\ r.indexes = dl[d].indexes
    BY <2>1
  <2>3. dl' = [dl EXCEPT ![d] = r]
    BY <1>4 DEF Goto
  <2> HIDE DEF r
  <2>. QED
    BY <2>1, <2>2, <2>3
<1>5. CASE TryLock(d)
  <2>1. /\ UNCHANGED <<feeds, obj, shown>> /\ At(d, "try")
    BY <1>5 DEF TryLock
  <2>2. Grows /\ NoNewMark /\ FeedsTyped' /\ LinesTyped'
    BY <2>1, UnchangedGrows, Kept
  <2>3. CASE reload_mutex = Nobody
    <3>1. /\ reload_mutex' = d /\ todo' = [todo EXCEPT ![d] = dl[d].indexes]
          /\ Goto(d, IF dl[d].indexes = {} THEN "reset" ELSE "indexes")
      BY <1>5, <2>3 DEF TryLock
    <3>2. dl[d].indexes \in SUBSET Nat /\ 0 \notin dl[d].indexes
      BY <1>0, PartsOf DEF ControlTyped
    <3>3. PICK pc \in {"reset", "indexes"} :
            Goto(d, pc) /\ pc = IF dl[d].indexes = {} THEN "reset" ELSE "indexes"
      BY <3>1
    <3>4. PICK r \in [pc : Phases, want : SUBSET Urls, indexes : SUBSET Nat] :
            dl' = [dl EXCEPT ![d] = r] /\ r.pc = pc /\ 0 \notin r.indexes
      BY <1>4, <3>3 DEF Phases
    <3>5. \A t \in Threads : todo[t] = {}
      BY <2>3 DEF MutexInv
    <3>6. /\ todo' \in [Threads -> SUBSET Nat] /\ todo'[d] = dl[d].indexes
          /\ \A t \in Threads : t # d => todo'[t] = {}
      BY <1>0, <3>1, <3>2, <3>5
    <3>7. ControlTyped' /\ dl'[d] = r /\ \A e \in Downloaders \ {d} : dl'[e] = dl[e]
      BY <1>1, <3>1, <3>2, <3>4, <3>6
    <3>8. MutexInv'
      <4>1. \A e \in Downloaders : dl'[e].pc \notin {"idle", "try"} => e = d
        <5>1. \A e \in Downloaders : e # Nobody
          BY FeedReloadAssumption
        <5>. QED
          BY <2>3, <3>7, <5>1 DEF MutexInv
      <4>2. \A t \in Threads : todo'[t] # {} => t = d /\ dl'[d].pc = "indexes"
        BY <3>3, <3>4, <3>6, <3>7
      <4>3. dl'[d].pc \notin {"idle", "try"}
        BY <3>3, <3>4, <3>7
      <4>4. todo'[UI] = {}
        BY <1>0, <3>6
      <4>. QED
        BY <1>0, <3>1, <4>1, <4>2, <4>3, <4>4 DEF MutexInv
    <3>9. ScreenIsCurrent'
      <4>1. \A e \in Downloaders : dl[e].pc = "update" => dl'[e].pc = "update"
        BY <2>1, <3>7 DEF At
      <4>. QED
        BY <1>0, <2>1, <2>2, <3>7, <4>1, ScreenLeft
    <3>. QED
      BY <1>3, <2>2, <3>7, <3>8, <3>9
  <2>4. CASE reload_mutex # Nobody
    <3>1. dl' = [dl EXCEPT ![d] = Idle] /\ UNCHANGED <<reload_mutex, todo>>
      BY <1>5, <2>4 DEF TryLock
    <3>2. Idle \in [pc : Phases, want : SUBSET Urls, indexes : SUBSET Nat] /\ Idle.pc = "idle" /\ 0 \notin Idle.indexes
      BY DEF Idle, Phases
    <3>3. ControlTyped' /\ dl'[d] = Idle /\ \A e \in Downloaders \ {d} : dl'[e] = dl[e]
      BY <1>0, <1>1, <3>1, <3>2, PartsOf DEF ControlTyped
    <3>4. reload_mutex # d /\ reload_mutex \in Downloaders
      BY <2>1, <2>4, PartsOf DEF MutexInv, At, ControlTyped
    <3>5. MutexInv'
      BY <3>1, <3>2, <3>3, <3>4 DEF MutexInv
    <3>6. ScreenIsCurrent'
      <4>1. \A e \in Downloaders : dl[e].pc = "update" => dl'[e].pc = "update"
        BY <2>1, <3>3 DEF At
      <4>. QED
        BY <1>0, <2>1, <2>2, <3>3, <4>1, ScreenLeft
    <3>. QED
      BY <1>3, <2>2, <3>3, <3>5, <3>6
  <2>. QED
    BY <2>3, <2>4
<1>6. CASE ResetStatus(d)
  <2>1. /\ UNCHANGED <<feeds, reload_mutex, shown>> /\ At(d, "reset") /\ reload_mutex = d
    BY <1>6 DEF ResetStatus, MutexInv, At
  <2>2. Grows /\ NoNewMark /\ FeedsTyped' /\ LinesTyped'
    BY <1>6, <2>1, ResetAs, Kept
  <2>3. \A t \in Threads : todo[t] = {}
    BY <2>1 DEF MutexInv, At
  <2>4. PICK pc \in {"endless", "ranges"} :
          Goto(d, pc) /\ (pc = "endless" => todo' = todo)
    BY <1>6 DEF ResetStatus
  <2>5. PICK r \in [pc : Phases, want : SUBSET Urls, indexes : SUBSET Nat] :
          dl' = [dl EXCEPT ![d] = r] /\ r.pc = pc /\ 0 \notin r.indexes
    BY <1>4, <2>4 DEF Phases
  <2>6. /\ todo' \in [Threads -> SUBSET Nat] /\ todo'[UI] = {}
        /\ \A t \in Threads : 0 \notin todo'[t]
    <3>1. CASE feeds = <<>>
      BY <1>0, <1>6, <2>3, <3>1 DEF ResetStatus
    <3>2. CASE feeds # <<>>
      <4>1. todo' = [t \in Threads |->
               IF t = d THEN Partition(Len(feeds), NumThreads, NumThreads)
               ELSE IF t \in 1 .. (NumThreads - 1)
                    THEN Partition(Len(feeds), NumThreads, t) ELSE todo[t]]
        BY <1>6, <3>2 DEF ResetStatus
      <4>2. \A i : Partition(Len(feeds), NumThreads, i) \in SUBSET Nat /\ 0 \notin Partition(Len(feeds), NumThreads, i)
        BY DEF Partition
      <4>3. UI \notin 1 .. (NumThreads - 1)
        BY FeedReloadAssumption, ObjectsTyped DEF NumThreads
      <4>4. \A t \in Threads : todo'[t] \in SUBSET Nat /\ 0 \notin todo'[t]
        BY <2>3, <4>1, <4>2
      <4>5. todo'[UI] = {}
        BY <1>0, <2>3, <4>1, <4>3
      <4>. QED
        BY <4>1, <4>4, <4>5
    <3>. QED
      BY <3>1, <3>2
  <2>7. ControlTyped' /\ dl'[d] = r /\ \A e \in Downloaders \ {d} : dl'[e] = dl[e]
    BY <1>1, <2>1, <2>5, <2>6
  <2>8. MutexInv'
    BY <1>0, <2>1, <2>3, <2>4, <2>5, <2>6, <2>7 DEF MutexInv
  <2>9. ScreenIsCurrent'
    <3>1. \A e \in Downloaders : dl[e].pc = "update" => dl'[e].pc = "update"
      BY <2>1, <2>7 DEF At
    <3>. QED
      BY <1>0, <2>1, <2>2, <2>7, <3>1, ScreenLeft
  <2>. QED
    BY <1>3, <2>2, <2>7, <2>8, <2>9
<1>7. CASE Join(d) \/ IndexesDone(d) \/ SortAfter(d) \/ UpdateAfter(d)
  <2>1. /\ UNCHANGED <<obj, reload_mutex, todo>> /\ reload_mutex = d
    BY <1>7 DEF Join, IndexesDone, SortAfter, UpdateAfter, MutexInv, At
  <2>2. Grows /\ NoNewMark
    BY <2>1, UnchangedGrows
  <2>3. PICK pc \in {"sort", "unlock", "update"} : Goto(d, pc) /\ (SortAfter(d) => pc = "update")
    BY <1>7 DEF Join, IndexesDone, SortAfter, UpdateAfter
  <2>4. PICK r \in [pc : Phases, want : SUBSET Urls, indexes : SUBSET Nat] :
          dl' = [dl EXCEPT ![d] = r] /\ r.pc = pc /\ 0 \notin r.indexes
    BY <1>4, <2>3 DEF Phases
  <2>5. ControlTyped' /\ dl'[d] = r /\ \A e \in Downloaders \ {d} : dl'[e] = dl[e]
    BY <1>0, <1>1, <2>1, <2>4, PartsOf DEF ControlTyped
  <2>6. \A t \in Threads : todo[t] = {}
    BY <1>7, <2>1 DEF Join, RangesDone, IndexesDone, SortAfter, UpdateAfter, MutexInv, At
  <2>7. MutexInv'
    BY <1>0, <2>1, <2>3, <2>4, <2>5, <2>6 DEF MutexInv
  <2>8. CASE Join(d) \/ IndexesDone(d)
    <3>1. UNCHANGED <<feeds, shown>> /\ ~At(d, "update")
      BY <2>8 DEF Join, IndexesDone, At
    <3>2. FeedsTyped' /\ LinesTyped'
      BY <2>2, <3>1, Kept
    <3>3. \A e \in Downloaders : dl[e].pc = "update" => dl'[e].pc = "update"
      BY <2>5, <3>1 DEF At
    <3>4. ScreenIsCurrent'
      BY <1>0, <2>2, <2>5, <3>1, <3>3, ScreenLeft
    <3>. QED
      BY <1>3, <2>2, <2>5, <2>7, <3>2, <3>4
  <2>9. CASE SortAfter(d)
    <3>1. feeds' \in SortResults(feeds) /\ shown' = shown
      BY <2>9 DEF SortAfter
    <3>2. FeedsTyped' /\ LinesTyped'
      <4>1. Objects' = Objects
        BY <2>1 DEF Objects
      <4>2. feeds' \in Seq(Nat) /\ \A i \in DOMAIN feeds' : feeds'[i] \in Objects
        BY <3>1, SortTyped
      <4>. QED
        BY <2>2, <3>1, <4>1, <4>2, Kept DEF FeedsTyped
    <3>3. ScreenIsCurrent'
      <4>1. dl'[d].pc = "update" /\ d \in DOMAIN dl'
        BY <2>3, <2>4, <2>5, <2>9 DEF ControlTyped
      <4>2. Rearranged(feeds', feeds, Len(feeds)) /\ feeds' \in Seq(Nat)
        BY <3>1, SortTyped
      <4>. QED
        BY <1>0, <2>1, <3>1, <4>1, <4>2, ScreenSorted
    <3>. QED
      BY <1>3, <2>2, <2>5, <2>7, <3>2, <3>3
  <2>10. CASE UpdateAfter(d)
    <3>1. feeds' = feeds /\ shown' = feeds'
      BY <2>10 DEF UpdateAfter
    <3>2. FeedsTyped' /\ LinesTyped'
      BY <2>2, <3>1, Kept
    <3>3. ScreenIsCurrent'
      BY <3>1, ScreenDrawn
    <3>. QED
      BY <1>3, <2>2, <2>5, <2>7, <3>2, <3>3
  <2>. QED
    BY <1>7, <2>8, <2>9, <2>10
<1>8. CASE Unlock(d)
  <2>1. /\ UNCHANGED <<feeds, obj, shown, todo>> /\ At(d, "unlock") /\ reload_mutex = d
        /\ reload_mutex' = Nobody /\ dl' = [dl EXCEPT ![d] = Idle]
    BY <1>8 DEF Unlock, MutexInv, At
  <2>2. Grows /\ NoNewMark /\ FeedsTyped' /\ LinesTyped'
    BY <2>1, UnchangedGrows, Kept
  <2>3. Idle \in [pc : Phases, want : SUBSET Urls, indexes : SUBSET Nat] /\ Idle.pc = "idle" /\ 0 \notin Idle.indexes
    BY DEF Idle, Phases
  <2>4. ControlTyped' /\ dl'[d] = Idle /\ \A e \in Downloaders \ {d} : dl'[e] = dl[e]
    BY <1>0, <1>1, <2>1, <2>3, PartsOf DEF ControlTyped
  <2>5. \A t \in Threads : todo[t] = {}
    BY <2>1 DEF MutexInv, At
  <2>6. MutexInv'
    BY <1>0, <2>1, <2>3, <2>4, <2>5 DEF MutexInv
  <2>7. ScreenIsCurrent'
    <3>1. \A e \in Downloaders : dl[e].pc = "update" => dl'[e].pc = "update"
      BY <2>1, <2>4 DEF At
    <3>. QED
      BY <1>0, <2>1, <2>2, <2>4, <3>1, ScreenLeft
  <2>. QED
    BY <1>3, <2>2, <2>4, <2>6, <2>7
<1>. QED
  BY <1>2, <1>5, <1>6, <1>7, <1>8

\* The main thread's own steps on the vector, the list and the article list.
LEMMA GeneralUi ==
  ASSUME General,
         \/ \E i \in DOMAIN shown : OpenFeed(i)
         \/ CloseFeed \/ SortList \/ UpdateList \/ SwapFeeds \/ SortNewFeeds
         \/ \E file \in UrlFiles : BuildFeeds(file)
  PROVE  General'
<1> USE DEF General
<1>1. UNCHANGED <<reload_mutex, dl, todo, call>>
  BY DEF OpenFeed, CloseFeed, SortList, UpdateList, SwapFeeds, SortNewFeeds, BuildFeeds
<1>2. ASSUME Grows, NoNewMark, FeedsTyped', UiTyped', ScreenTyped', ScreenIsCurrent'
      PROVE  General'
  BY <1>1, <1>2, Kept, HeldKept, MarksKept, WellFormedAgain
<1>3. CASE (\E i \in DOMAIN shown : OpenFeed(i)) \/ CloseFeed
  <2>1. UNCHANGED <<feeds, obj, ui, shown>>
    BY <1>3 DEF OpenFeed, CloseFeed
  <2>2. Grows /\ NoNewMark
    BY <2>1, UnchangedGrows
  <2>3. FeedsTyped' /\ UiTyped' /\ ScreenIsCurrent'
    BY <1>1, <2>1, <2>2, Kept
  <2>4. ScreenTyped'
    <3>1. CASE CloseFeed
      BY <2>1, <2>2, <3>1, Kept, PartsOf DEF ScreenTyped, CloseFeed, Closed
    <3>2. CASE \E i \in DOMAIN shown : OpenFeed(i)
      <4>1. PICK i \in DOMAIN shown : OpenFeed(i)
        BY <3>2
      <4>2. i \in Nat \ {0}
        BY PartsOf DEF ScreenTyped, LinesTyped
      <4>3. CASE i > Len(feeds)
        BY <2>1, <2>2, <4>1, <4>3, Kept, PartsOf DEF OpenFeed, ScreenTyped
      <4>4. CASE ~(i > Len(feeds))
        <5>1. i \in 1 .. Len(feeds)
          BY <4>2, <4>4, ObjectsTyped
        <5>2. Url(feeds[i]) \in Urls
          BY <5>1, ObjectsTyped DEF Url, Feed
        <5>3. itemlist' = [url |-> Url(feeds[i]), pos |-> i] /\ crashed' = crashed
          BY <4>1, <4>4 DEF OpenFeed
        <5>. QED
          BY <2>1, <2>2, <4>2, <5>2, <5>3, Kept, PartsOf DEF ScreenTyped
      <4>. QED
        BY <4>3, <4>4
    <3>. QED
      BY <1>3, <3>1, <3>2
  <2>. QED
    BY <1>2, <2>2, <2>3, <2>4
<1>4. CASE SortList \/ SortNewFeeds
  <2>1. /\ UNCHANGED <<obj, shown, itemlist, crashed>> /\ feeds' \in SortResults(feeds)
        /\ ui' = [ui EXCEPT !.pc = "update"]
    BY <1>4 DEF SortList, SortNewFeeds
  <2>2. Grows /\ NoNewMark /\ Objects' = Objects
    BY <2>1, UnchangedGrows DEF Objects
  <2>3. FeedsTyped'
    <3>1. feeds' \in Seq(Nat) /\ \A i \in DOMAIN feeds' : feeds'[i] \in Objects
      BY <2>1, SortTyped
    <3>. QED
      BY <2>2, <3>1 DEF FeedsTyped
  <2>4. UiTyped' /\ ui'.pc = "update"
    <3>1. ui \in [pc : {"idle", "update", "swap", "sort"}, new : Seq(Nat)]
      BY PartsOf DEF UiTyped
    <3>2. /\ ui' \in [pc : {"idle", "update", "swap", "sort"}, new : Seq(Nat)]
          /\ ui'.pc = "update" /\ ui'.new = ui.new
      BY <2>1, <3>1
    <3>. QED
      BY <2>2, <3>2, PartsOf DEF UiTyped
  <2>5. ScreenTyped'
    BY <2>1, <2>2, Kept
  <2>6. ScreenIsCurrent'
    BY <2>4 DEF ScreenIsCurrent
  <2>. QED
    BY <1>2, <2>2, <2>3, <2>4, <2>5, <2>6
<1>5. CASE UpdateList
  <2>1. UNCHANGED <<feeds, obj, itemlist, crashed>> /\ shown' = feeds' /\ ui' = UiIdle
    BY <1>5 DEF UpdateList
  <2>2. Grows /\ NoNewMark
    BY <2>1, UnchangedGrows
  <2>3. FeedsTyped'
    BY <2>1, <2>2, Kept
  <2>4. UiTyped'
    BY <2>1 DEF UiTyped, UiIdle
  <2>5. ScreenTyped'
    BY <2>1, <2>2, <2>3, Kept, PartsOf DEF ScreenTyped
  <2>6. ScreenIsCurrent'
    BY <2>1, ScreenDrawn
  <2>. QED
    BY <1>2, <2>2, <2>3, <2>4, <2>5, <2>6
<1>6. CASE SwapFeeds
  <2>1. UNCHANGED <<obj, shown, itemlist, crashed>> /\ feeds' = ui.new /\ ui' = [pc |-> "sort", new |-> <<>>]
    BY <1>6 DEF SwapFeeds
  <2>2. Grows /\ NoNewMark /\ Objects' = Objects
    BY <2>1, UnchangedGrows DEF Objects
  <2>3. FeedsTyped'
    BY <2>1, <2>2, PartsOf DEF UiTyped, FeedsTyped
  <2>4. UiTyped'
    BY <2>1 DEF UiTyped
  <2>5. ScreenTyped'
    BY <2>1, <2>2, Kept
  <2>6. ScreenIsCurrent'
    BY <2>1 DEF ScreenIsCurrent
  <2>. QED
    BY <1>2, <2>2, <2>3, <2>4, <2>5, <2>6
<1>7. ASSUME NEW file \in UrlFiles, BuildFeeds(file)
      PROVE  General'
  <2>1. UNCHANGED <<feeds, shown, itemlist, crashed>> /\ ui.pc = "idle"
    BY <1>7 DEF BuildFeeds, UiFree
  <2>2. /\ Grows /\ NoNewMark
        /\ ui' \in [pc : {"swap"}, new : Seq(Nat)] /\ DOMAIN ui'.new = DOMAIN file
        /\ \A k \in DOMAIN file : ui'.new[k] \in Objects'
    BY <1>7, BuiltAs
  <2>3. FeedsTyped' /\ ScreenTyped'
    BY <2>1, <2>2, Kept
  <2>4. UiTyped'
    BY <2>2 DEF UiTyped
  <2>5. ScreenIsCurrent'
    <3>1. feeds' \in Seq(Nat) /\ dl' = dl
      BY <1>1, <2>1, PartsOf DEF FeedsTyped
    <3>2. UNCHANGED <<feeds, shown>> /\ ui'.pc = "swap"
      BY <2>1, <2>2
    <3>3. \A i \in DOMAIN shown : shown[i] \in Objects
      BY PartsOf DEF ScreenTyped, LinesTyped
    <3>4. \A i \in DOMAIN shown : ShowsFeed(i) => ShowsFeed(i)'
      BY <3>1, <3>2 DEF ShowsFeed, At
    <3>5. Len(shown) = Len(feeds) /\ \A i \in DOMAIN shown : ShowsFeed(i) \/ obj[shown[i]].cleared
      BY <2>1 DEF ScreenIsCurrent
    <3>. QED
      BY <2>2, <3>2, <3>3, <3>4, <3>5 DEF ScreenIsCurrent, Grows
  <2>. QED
    BY <1>2, <2>2, <2>3, <2>4, <2>5
<1>. QED
  BY <1>3, <1>4, <1>5, <1>6, <1>7

LEMMA GeneralNext ==
  ASSUME General, [Next]_vars
  PROVE  General'
<1>1. CASE UNCHANGED vars
  <2>1. WellFormed /\ obj' = obj
    BY <1>1 DEF General, vars
  <2>2. Grows /\ NoNewMark
    BY <2>1, UnchangedGrows
  <2>3. UNCHANGED <<feeds, reload_mutex, dl, todo, call, ui, shown, itemlist, crashed>>
    BY <1>1 DEF vars
  <2>. QED
    BY <2>1, <2>2, <2>3, Kept, HeldKept, MarksKept, WellFormedAgain DEF General
<1>2. CASE UiStep
  BY <1>2, GeneralBegin, GeneralEnd, GeneralControl, GeneralUi DEF UiStep, Threads
<1>3. ASSUME NEW d \in Downloaders, AutoReload(d) \/ Downloader(d)
      PROVE  General'
  BY <1>3, GeneralBegin, GeneralEnd, GeneralControl DEF Downloader, Threads
<1>4. ASSUME NEW w \in Workers, Worker(w)
      PROVE  General'
  BY <1>4, GeneralBegin, GeneralEnd DEF Worker, Threads
<1>. QED
  BY <1>1, <1>2, <1>3, <1>4 DEF Next

\* Whatever the configuration, and however the steps of the threads fall.
THEOREM GeneralInvariance == Spec => []General
<1>1. Init => General
  BY GeneralInit
<1>2. General /\ [Next]_vars => General'
  BY GeneralNext
<1>. QED
  BY <1>1, <1>2, PTL DEF Spec

\* The state is well typed in every configuration.
THEOREM AlwaysTyped == Spec => []TypeOK
<1>1. General => TypeOK
  BY DEF General, WellFormed
<1>. QED
  BY <1>1, GeneralInvariance, PTL

\* update_feedlist() always follows: whoever sorts, swaps vectors, stores, or
\* fails after a store, a key finds as many lines as there are feeds, each with
\* the feed at its position; with another feed of the vector, between the two
\* calls of reload_all(); or with an object that a failed store has emptied.
THEOREM ScreenStaysCurrent == Spec => []ScreenIsCurrent
<1>1. General => ScreenIsCurrent
  BY DEF General
<1>. QED
  BY <1>1, GeneralInvariance, PTL

\* A feed in the vector that is marked as being downloaded is being downloaded,
\* also when its position has become another feed's during the download.
THEOREM MarkedIsDownloaded == Spec => []DownloadingHasThread
<1>1. General => DownloadingHasThread
  <2> SUFFICES ASSUME General
               PROVE  DownloadingHasThread
    OBVIOUS
  <2>1. DOMAIN call = Threads /\ \A i \in DOMAIN feeds : feeds[i] \in Objects
    BY PartsOf DEF General, FeedsTyped, Held
  <2>. QED
    BY <2>1 DEF General, MarksHeld, DownloadingHasThread
<1>. QED
  BY <1>1, GeneralInvariance, PTL

\* reload_mutex keeps the background reloads apart in every configuration.
THEOREM AlwaysOneReload == Spec => []OneBackgroundReload
<1>1. General => OneBackgroundReload
  BY DEF General, MutexInv, OneBackgroundReload
<1>. QED
  BY <1>1, GeneralInvariance, PTL

-----------------------------------------------------------------------------
(* The list of Subscriptions, for any sort order: as long as nothing moves   *)
(* the feeds under a reload.                                                 *)

\* No background reload, or a main thread that neither reloads nor sorts nor
\* rereads the urls file.
PositionsHold == Downloaders = {} \/ UiOps \subseteq {"open"}

VectorSound == OneFeedPerUrl /\ ListedFeedsHaveArticles

CallsAtHome ==
  \A t \in Threads : Busy(t) =>
    call[t].pos \in DOMAIN feeds /\ Url(feeds[call[t].pos]) = Url(call[t].old)

BusyInv ==
  /\ Busy(UI) => ui.pc = "idle" /\ "reload" \in UiOps
  /\ ui.pc # "idle" => ~(UiOps \subseteq {"open"})
  /\ \A t \in Threads \ {UI} : Busy(t) =>
       /\ reload_mutex # Nobody
       /\ \/ dl[reload_mutex].pc = "ranges"
          \/ dl[reload_mutex].pc = "indexes" /\ t = reload_mutex

\* What reload_urls_file() has built can take the place of the vector.
BuiltInv == ui.pc = "swap" =>
  /\ \A i, j \in DOMAIN ui.new : Url(ui.new[i]) = Url(ui.new[j]) => i = j
  /\ \A i \in DOMAIN ui.new :
       /\ ~obj[ui.new[i]].cleared
       /\ \/ \E j \in DOMAIN feeds : ui.new[i] = feeds[j]
          \/ \A j \in DOMAIN feeds : Url(feeds[j]) # Url(ui.new[i]) /\ feeds[j] < ui.new[i]

Sound == VectorSound /\ CallsAtHome /\ BusyInv /\ BuiltInv

\* Whoever moves the feeds is alone.
LEMMA NobodyReloads ==
  ASSUME PositionsHold, General, BusyInv,
         ui.pc # "idle" \/ (ui.pc = "idle" /\ ~Busy(UI) /\ ~(UiOps \subseteq {"open"}))
           \/ \E d \in Downloaders : SortAfter(d)
  PROVE  \A t \in Threads : ~Busy(t)
<1>1. CASE Downloaders = {}
  <2>1. reload_mutex = Nobody
    BY <1>1, PartsOf DEF General, ControlTyped
  <2>. QED
    BY <1>1, <2>1 DEF BusyInv
<1>2. CASE UiOps \subseteq {"open"}
  <2>1. PICK d \in Downloaders : SortAfter(d)
    BY <1>2 DEF BusyInv
  <2>2. reload_mutex = d /\ dl[d].pc = "sort"
    BY <2>1 DEF General, MutexInv, SortAfter, At
  <2>3. ~Busy(UI)
    BY <1>2 DEF BusyInv
  <2>. QED
    BY <2>2, <2>3 DEF BusyInv
<1>. QED
  BY <1>1, <1>2 DEF PositionsHold

LEMMA SoundKept ==
  ASSUME General, Grows, feeds' = feeds
  PROVE  /\ NoNewClear => (VectorSound => VectorSound')
         /\ call' = call => (CallsAtHome => CallsAtHome')
         /\ NoNewClear /\ ui' = ui => (BuiltInv => BuiltInv')
<1>1. /\ \A i \in DOMAIN feeds : feeds[i] \in Objects
      /\ \A i \in DOMAIN ui.new : ui.new[i] \in Objects
      /\ \A t \in Threads : Busy(t) => call[t].old \in Objects
      /\ \A o \in Objects : Url(o)' = Url(o)
  BY PartsOf, GrowsFacts DEF General, FeedsTyped, UiTyped, Held
<1>2. Objects \subseteq Objects' /\ \A o \in Objects : obj'[o].url = obj[o].url
  BY GrowsFacts DEF Grows, General
<1>3. \A i \in DOMAIN feeds : obj'[feeds[i]].url = obj[feeds[i]].url
  BY <1>1, <1>2
<1>4. \A i \in DOMAIN ui.new : obj'[ui.new[i]].url = obj[ui.new[i]].url
  BY <1>1, <1>2
<1>5. NoNewClear => (VectorSound => VectorSound')
  <2> SUFFICES ASSUME NoNewClear, VectorSound PROVE VectorSound'
    OBVIOUS
  <2>1. OneFeedPerUrl'
    BY <1>3 DEF VectorSound, OneFeedPerUrl, Url
  <2>2. ListedFeedsHaveArticles'
    BY <1>1, <1>2 DEF NoNewClear, VectorSound, ListedFeedsHaveArticles
  <2>. QED
    BY <2>1, <2>2 DEF VectorSound
<1>6. call' = call => (CallsAtHome => CallsAtHome')
  BY <1>1, <1>2 DEF CallsAtHome, Busy, Url
<1>7. NoNewClear /\ ui' = ui => (BuiltInv => BuiltInv')
  <2> SUFFICES ASSUME NoNewClear, ui' = ui, BuiltInv, ui.pc = "swap" PROVE BuiltInv'
    BY DEF BuiltInv
  <2>1. \A i, j \in DOMAIN ui.new : obj'[ui.new[i]].url = obj'[ui.new[j]].url => i = j
    BY <1>4 DEF BuiltInv, Url
  <2>2. \A i \in DOMAIN ui.new : ~obj'[ui.new[i]].cleared
    BY <1>1, <1>2 DEF BuiltInv, NoNewClear
  <2>3. \A i \in DOMAIN ui.new :
          \/ \E j \in DOMAIN feeds : ui.new[i] = feeds[j]
          \/ \A j \in DOMAIN feeds : obj'[feeds[j]].url # obj'[ui.new[i]].url /\ feeds[j] < ui.new[i]
    BY <1>3, <1>4 DEF BuiltInv, Url
  <2>. QED
    BY <2>1, <2>2, <2>3 DEF BuiltInv, Url
<1>. QED
  BY <1>5, <1>6, <1>7

LEMMA SoundInit ==
  ASSUME Init
  PROVE  Sound
<1> USE UrlsFacts
<1>1. General
  BY GeneralInit
<1>2. /\ obj \in [1 .. N -> Feed]
      /\ \A p \in 1 .. N : obj[p] = NewFeed(InitialUrls[p], p)
  <2>1. \A p \in 1 .. N : NewFeed(InitialUrls[p], p) \in Feed
    BY DEF NewFeed, Feed, Statuses
  <2>2. obj = [p \in 1 .. N |-> NewFeed(InitialUrls[p], p)]
    BY DEF Init
  <2>. QED
    BY <2>1, <2>2
<1>3. feeds \in [1 .. N -> 1 .. N] /\ \A i, j \in 1 .. N : feeds[i] = feeds[j] => i = j
  <2> DEFINE ids == [i \in 1 .. N |-> i]
  <2>1. ids \in [1 .. N -> Nat] /\ \A i \in 1 .. N : ids[i] = i /\ obj[ids[i]].order \in Int
    BY <1>2 DEF Feed
  <2>2. feeds \in SortResults(ids)
    BY DEF Init
  <2>3. ids \in [1 .. N -> Nat] /\ \A i \in 1 .. N : obj[ids[i]].order \in Int
    BY <2>1
  <2>4. N \in Nat
    OBVIOUS
  <2> HIDE DEF ids
  <2>5. Rearranged(feeds, ids, N)
    BY <2>2, <2>3, <2>4, SortPermutes
  <2>6. PICK p : Permutes(p, N) /\ feeds = [r \in 1 .. N |-> ids[p[r]]]
    BY <2>5 DEF Rearranged
  <2>7. /\ \A r \in 1 .. N : p[r] \in 1 .. N
        /\ \A q, r \in 1 .. N : p[q] = p[r] => q = r
    BY <2>6 DEF Permutes
  <2>. QED
    BY <2>1, <2>6, <2>7
<1>4. VectorSound
  <2>1. DOMAIN feeds = 1 .. N /\ \A i \in 1 .. N : feeds[i] \in 1 .. N
    BY <1>3
  <2>2. \A p \in 1 .. N : obj[p].url = InitialUrls[p] /\ obj[p].cleared = FALSE
    BY <1>2 DEF NewFeed
  <2>3. \A i, j \in 1 .. N : obj[feeds[i]].url = obj[feeds[j]].url => i = j
    BY SMTT(30), <1>3, <2>1, <2>2
  <2>. QED
    BY <2>1, <2>2, <2>3 DEF VectorSound, OneFeedPerUrl, ListedFeedsHaveArticles, Url
<1>5. CallsAtHome /\ BusyInv /\ BuiltInv
  BY DEF Init, CallsAtHome, BusyInv, BuiltInv, Busy, UiIdle, Threads
<1>. QED
  BY <1>4, <1>5 DEF Sound

\* Sorting moves each feed of the vector to a place of its own.
LEMMA SortSound ==
  ASSUME General, VectorSound, feeds' \in SortResults(feeds), obj' = obj
  PROVE  VectorSound' /\ Abstract!Reorder
<1> DEFINE n == Len(feeds)
<1>1. /\ n \in Nat /\ DOMAIN feeds = 1 .. n /\ Rearranged(feeds', feeds, n)
  BY ObjectsTyped, SortTyped DEF General
<1>2. PICK p : Permutes(p, n) /\ feeds' = [r \in 1 .. n |-> feeds[p[r]]]
  BY <1>1 DEF Rearranged
<1>3. /\ \A r \in 1 .. n : p[r] \in 1 .. n
      /\ \A q, r \in 1 .. n : p[q] = p[r] => q = r
      /\ \A i \in 1 .. n : \E r \in 1 .. n : p[r] = i
  BY <1>2 DEF Permutes
<1> HIDE DEF n
<1>4. DOMAIN feeds' = 1 .. n /\ \A r \in 1 .. n : feeds'[r] = feeds[p[r]]
  BY <1>2
<1>5. \A i, j \in 1 .. n : obj[feeds'[i]].url = obj[feeds'[j]].url => i = j
  <2> SUFFICES ASSUME NEW i \in 1 .. n, NEW j \in 1 .. n, obj[feeds'[i]].url = obj[feeds'[j]].url
               PROVE  i = j
    OBVIOUS
  <2>1. \A k, l \in 1 .. n : obj[feeds[k]].url = obj[feeds[l]].url => k = l
    BY <1>1 DEF VectorSound, OneFeedPerUrl, Url
  <2>2. p[i] \in 1 .. n /\ p[j] \in 1 .. n
    BY <1>3
  <2>3. obj[feeds[p[i]]].url = obj[feeds[p[j]]].url
    BY <1>4
  <2>4. p[i] = p[j]
    BY <2>1, <2>2, <2>3
  <2>. QED
    BY <1>3, <2>4
<1>6. ListedFeedsHaveArticles'
  BY <1>1, <1>3, <1>4 DEF VectorSound, ListedFeedsHaveArticles
<1>7. Abstract!Reorder
  <2>1. DOMAIN Listed = 1 .. n /\ DOMAIN Listed' = 1 .. n
    BY <1>1, <1>4 DEF Listed
  <2>2. /\ \A i \in 1 .. n : Listed[i] = [url |-> obj[feeds[i]].url, version |-> feeds[i]]
        /\ \A i \in 1 .. n : Listed'[i] = [url |-> obj[feeds'[i]].url, version |-> feeds'[i]]
    BY <1>1, <1>4 DEF Listed, Url
  <2>3. ASSUME NEW i \in 1 .. n
        PROVE  \E j \in 1 .. n : Listed'[j] = Listed[i]
    <3>1. PICK r \in 1 .. n : p[r] = i
      BY <1>3
    <3>2. feeds'[r] = feeds[i]
      BY <1>4, <3>1
    <3>. QED
      BY <2>2, <3>2
  <2>4. \A i, j \in 1 .. n : Listed'[i].url = Listed'[j].url => i = j
    <3>1. ASSUME NEW i \in 1 .. n
          PROVE  Listed'[i].url = obj[feeds'[i]].url
      <4>1. Listed'[i] = [url |-> obj[feeds'[i]].url, version |-> feeds'[i]]
        BY <2>2
      <4>. QED
        BY <4>1
    <3>. QED
      BY <1>5, <3>1
  <2>. QED
    BY <2>1, <2>3, <2>4 DEF Abstract!Reorder, Abstract!EachFeedOnce
<1>8. OneFeedPerUrl'
  BY <1>4, <1>5 DEF OneFeedPerUrl, Url
<1>. QED
  BY <1>6, <1>7, <1>8 DEF VectorSound

\* As long as vector and URLs stay, the list of Subscriptions does.
LEMMA ListedKept ==
  ASSUME General, Grows, feeds' = feeds
  PROVE  Listed' = Listed
<1>1. \A i \in DOMAIN feeds : feeds[i] \in Objects
  BY PartsOf DEF General, FeedsTyped
<1>2. \A i \in DOMAIN feeds : obj'[feeds[i]].url = obj[feeds[i]].url
  BY <1>1 DEF Grows
<1>. QED
  BY <1>2 DEF Listed, Url

LEMMA SoundBegin ==
  ASSUME PositionsHold, General, Sound,
         \/ \E t \in Threads : NextFeed(t)
         \/ \E i \in DOMAIN shown : ReloadSelected(i)
         \/ ReloadOpen
  PROVE  Sound' /\ Listed' = Listed
<1>1. PICK t \in Threads, pos \in Nat \ {0}, want \in SUBSET Urls :
        /\ ~Busy(t) /\ BeginReload(t, pos, want)
        /\ t = UI => UiFree /\ "reload" \in UiOps
        /\ t # UI => todo[t] # {}
  BY BegunBy
<1>2. /\ Grows /\ NoNewClear
      /\ \A x \in Threads :
           \/ call'[x] = call[x]
           \/ /\ x = t /\ pos \in DOMAIN feeds
              /\ call'[x].pos = pos /\ call'[x].old = feeds[pos]
  BY <1>1, BeginAs DEF General
<1>3. UNCHANGED <<feeds, reload_mutex, dl, ui>>
  BY DEF NextFeed, ReloadSelected, ReloadOpen
<1>4. VectorSound' /\ BuiltInv'
  BY <1>2, <1>3, SoundKept DEF Sound
<1>5. CallsAtHome'
  <2> SUFFICES ASSUME NEW x \in Threads, Busy(x)'
               PROVE  /\ call'[x].pos \in DOMAIN feeds
                      /\ obj'[feeds[call'[x].pos]].url = obj'[call'[x].old].url
    BY <1>3 DEF CallsAtHome, Url
  <2>1. CASE call'[x] = call[x]
    <3>1. Busy(x)
      BY <2>1 DEF Busy
    <3>2. call[x].pos \in DOMAIN feeds /\ obj[feeds[call[x].pos]].url = obj[call[x].old].url
      BY <3>1 DEF Sound, CallsAtHome, Url
    <3>3. call[x].old \in Objects /\ feeds[call[x].pos] \in Objects
      BY <3>1, <3>2, PartsOf DEF General, Held, FeedsTyped
    <3>. QED
      BY <1>2, <2>1, <3>2, <3>3 DEF Grows
  <2>2. CASE call'[x] # call[x]
    BY <1>2, <2>2
  <2>. QED
    BY <2>1, <2>2
<1>6. BusyInv'
  <2>1. \A x \in Threads : x # t => (Busy(x)' => Busy(x))
    BY <1>2 DEF Busy
  <2>2. UI \in Threads
    BY DEF Threads
  <2>3. Busy(UI)' => ui.pc = "idle" /\ "reload" \in UiOps
    BY <1>1, <2>1, <2>2 DEF Sound, BusyInv, UiFree
  <2>4. \A x \in Threads \ {UI} : Busy(x)' =>
          /\ reload_mutex # Nobody
          /\ \/ dl[reload_mutex].pc = "ranges"
             \/ dl[reload_mutex].pc = "indexes" /\ x = reload_mutex
    BY <1>1, <2>1 DEF Sound, BusyInv, General, MutexInv
  <2>. QED
    BY <1>3, <2>3, <2>4 DEF Sound, BusyInv
<1>. QED
  BY <1>2, <1>3, <1>4, <1>5, <1>6, ListedKept DEF Sound

\* The end of a call leaves the other calls as they were.
LEMMA OthersStayBusy ==
  ASSUME General, NEW t \in Threads, EndReload(t)
  PROVE  \A x \in Threads : Busy(x)' => Busy(x) /\ call'[x] = call[x]
<1>1. call' = [call EXCEPT ![t] = NoCall] \/ call' = call
  BY DEF EndReload, StoreFeed, StoreThenFail, Stored, StoreBeyondEnd, EmptyFeed, FailedFeed, NothingStored
<1>2. call \in [Threads -> Call]
  BY PartsOf DEF General, Held
<1>. QED
  BY <1>1, <1>2 DEF Busy

LEMMA SoundEnd ==
  ASSUME PositionsHold, General, Sound, NEW t \in Threads, EndReload(t)
  PROVE  Sound' /\ (Abstract!Refresh \/ Listed' = Listed)
<1>1. /\ UNCHANGED <<reload_mutex, dl, ui>> /\ Grows
      /\ \A x \in Threads : Busy(x)' => Busy(x) /\ call'[x] = call[x]
  BY OthersStayBusy, EndAs DEF General
<1>2. Busy(t)
  BY DEF EndReload, StoreFeed, StoreThenFail, StoreBeyondEnd, EmptyFeed, FailedFeed, NothingStored, Stored
<1>3. BusyInv'
  <2>1. UI \in Threads
    BY DEF Threads
  <2>. QED
    BY <1>1, <2>1 DEF Sound, BusyInv
<1>4. ui.pc = "idle"
  BY <1>2, NobodyReloads DEF Sound
<1>5. BuiltInv'
  BY <1>1, <1>4 DEF BuiltInv
<1> DEFINE pos == call[t].pos
           old == call[t].old
           new == Len(obj) + 1
           n == Len(feeds)
<1>6. /\ n \in Nat /\ DOMAIN feeds = 1 .. n /\ Len(obj) \in Nat
      /\ \A i \in 1 .. n : feeds[i] \in Objects
  BY ObjectsTyped DEF General
<1>7. /\ \A x \in Threads : Busy(x) =>
           /\ call[x].pos \in 1 .. n /\ call[x].old \in Objects
           /\ obj[feeds[call[x].pos]].url = obj[call[x].old].url
  BY <1>6, PartsOf DEF Sound, CallsAtHome, Url, General, Held
<1>8. CASE StoreFeed(t) \/ StoreThenFail(t)
  <2>0. PICK order \in Nat, st \in Statuses, emptied \in SUBSET {feeds[pos], old} :
          Stored(t, order, emptied, st)
    BY <1>8, StoresAs DEF General
  <2>1. /\ Len(obj') = new /\ pos \in 1 .. n /\ old \in Objects
        /\ feeds' \in Seq(Nat) /\ Len(feeds') = n
        /\ \A i \in 1 .. n : feeds'[i] = IF i = pos THEN new ELSE feeds[i]
        /\ obj'[new] = NewFeed(obj[old].url, order)
        /\ \A o \in Objects : obj'[o].cleared => obj[o].cleared \/ o \in {feeds[pos], old}
    BY <2>0, StoredAs DEF General
  <2>2. obj[feeds[pos]].url = obj[old].url
    BY <1>2, <1>7
  <2> HIDE DEF pos, old, new, n
  <2>3. DOMAIN feeds' = 1 .. n
    BY <2>1
  <2>4. \A i \in 1 .. n : obj'[feeds[i]].url = obj[feeds[i]].url
    BY <1>1, <1>6 DEF Grows
  <2>5. obj'[new].url = obj[old].url /\ obj'[new].cleared = FALSE
    BY <2>1 DEF NewFeed
  <2>6. \A i \in 1 .. n : obj'[feeds'[i]].url = obj[feeds[i]].url
    BY <2>1, <2>2, <2>4, <2>5
  <2>7. \A i, j \in 1 .. n : obj[feeds[i]].url = obj[feeds[j]].url => i = j
    BY <1>6 DEF Sound, VectorSound, OneFeedPerUrl, Url
  <2>8. OneFeedPerUrl'
    BY <2>3, <2>6, <2>7 DEF OneFeedPerUrl, Url
  <2>9. ASSUME NEW i \in 1 .. n
        PROVE  ~obj'[feeds'[i]].cleared
    <3>1. CASE i = pos
      BY <2>1, <2>5, <3>1
    <3>2. CASE i # pos
      <4>1. feeds'[i] = feeds[i] /\ feeds[i] \in Objects
        BY <1>6, <2>1, <3>2
      <4>2. feeds[i] # feeds[pos] /\ feeds[i] # old
        BY <2>1, <2>2, <2>7, <3>2
      <4>3. ~obj[feeds[i]].cleared
        BY <1>6 DEF Sound, VectorSound, ListedFeedsHaveArticles
      <4>. QED
        BY <2>1, <4>1, <4>2, <4>3
    <3>. QED
      BY <3>1, <3>2
  <2>10. VectorSound'
    BY <2>3, <2>8, <2>9 DEF VectorSound, ListedFeedsHaveArticles
  <2>11. CallsAtHome'
    <3> SUFFICES ASSUME NEW x \in Threads, Busy(x)'
                 PROVE  /\ call'[x].pos \in 1 .. n
                        /\ obj'[feeds'[call'[x].pos]].url = obj'[call'[x].old].url
      BY <2>3 DEF CallsAtHome, Url
    <3>1. Busy(x) /\ call'[x] = call[x]
      BY <1>1
    <3>2. call[x].pos \in 1 .. n /\ call[x].old \in Objects /\ obj[feeds[call[x].pos]].url = obj[call[x].old].url
      BY <1>7, <3>1 DEF n
    <3>3. obj'[call[x].old].url = obj[call[x].old].url
      BY <1>1, <3>2 DEF Grows
    <3>. QED
      BY <2>6, <3>1, <3>2, <3>3
  <2>12. Abstract!Refresh
    <3>1. DOMAIN Listed = 1 .. n /\ DOMAIN Listed' = 1 .. n
      BY <1>6, <2>3 DEF Listed, n
    <3>2. /\ Listed = [i \in 1 .. n |-> [url |-> obj[feeds[i]].url, version |-> feeds[i]]]
          /\ Listed' = [i \in 1 .. n |-> [url |-> obj'[feeds'[i]].url, version |-> feeds'[i]]]
      BY <1>6, <2>3 DEF Listed, Url, n
    <3>3. Listed' = [i \in 1 .. n |-> [url |-> obj[feeds[i]].url, version |-> feeds'[i]]]
      BY <2>6, <3>2
    <3>4. Listed'[pos].version = new
      BY <2>1, <3>3
    <3>5. \A i \in 1 .. n : Listed[i].version = feeds[i] /\ feeds[i] < new
      <4>1. \A i \in 1 .. n : feeds[i] < new
        BY <1>6 DEF Objects, new, n
      <4>2. ASSUME NEW i \in 1 .. n PROVE Listed[i].version = feeds[i]
        <5>1. Listed[i] = [url |-> obj[feeds[i]].url, version |-> feeds[i]]
          BY <3>2
        <5>. QED
          BY <5>1
      <4>. QED
        BY <4>1, <4>2
    <3>6. Listed' = [Listed EXCEPT ![pos].version = new]
      <4> DEFINE r == [Listed[pos] EXCEPT !.version = new]
      <4>1. r = [url |-> obj[feeds[pos]].url, version |-> new]
        BY <2>1, <3>2
      <4>2. \A i \in 1 .. n : Listed'[i] = IF i = pos THEN r ELSE Listed[i]
        BY <2>1, <3>2, <3>3, <4>1
      <4> HIDE DEF r
      <4>3. [Listed EXCEPT ![pos] = r] = [i \in 1 .. n |-> IF i = pos THEN r ELSE Listed[i]]
        BY <3>1, <3>2
      <4>4. Listed' = [i \in 1 .. n |-> IF i = pos THEN r ELSE Listed[i]]
        BY <3>3, <4>2
      <4>5. Listed' = [Listed EXCEPT ![pos] = r]
        BY <4>3, <4>4
      <4>. QED
        BY <4>5 DEF r
    <3>7. Listed' = [Listed EXCEPT ![pos].version = Listed'[pos].version]
      BY <3>4, <3>6
    <3>8. Abstract!Newer(Listed'[pos].version)
      BY <3>1, <3>4, <3>5 DEF Abstract!Newer
    <3>. QED
      BY <2>1, <3>1, <3>7, <3>8 DEF Abstract!Refresh
  <2>. QED
    BY <1>3, <1>5, <2>10, <2>11, <2>12 DEF Sound
<1>9. CASE ~StoreFeed(t) /\ ~StoreThenFail(t)
  <2>1. feeds' = feeds /\ NoNewClear
    <3>1. CASE StoreBeyondEnd(t)
      BY <3>1, UnchangedGrows DEF StoreBeyondEnd, General
    <3>2. CASE EmptyFeed(t) \/ FailedFeed(t)
      <4>1. PICK st \in {"SUCCESS", "DL_ERROR"} : NothingStored(t, st)
        BY <3>2 DEF EmptyFeed, FailedFeed
      <4>2. obj' = SetStatus(old, st) /\ feeds' = feeds /\ old \in Objects /\ st \in Statuses
        BY <1>2, <1>7, <4>1 DEF NothingStored, Statuses
      <4> HIDE DEF old
      <4>. QED
        BY <4>2, MarkedAs DEF General
    <3>. QED
      BY <1>9, <3>1, <3>2 DEF EndReload
  <2>2. VectorSound' /\ Listed' = Listed
    BY <1>1, <2>1, SoundKept, ListedKept DEF Sound
  <2>3. CallsAtHome'
    <3> SUFFICES ASSUME NEW x \in Threads, Busy(x)'
                 PROVE  /\ call'[x].pos \in 1 .. n
                        /\ obj'[feeds[call'[x].pos]].url = obj'[call'[x].old].url
      BY <1>6, <2>1 DEF CallsAtHome, Url
    <3>1. Busy(x) /\ call'[x] = call[x]
      BY <1>1
    <3>2. call[x].pos \in 1 .. n /\ call[x].old \in Objects /\ obj[feeds[call[x].pos]].url = obj[call[x].old].url
      BY <1>7, <3>1
    <3>3. feeds[call[x].pos] \in Objects
      BY <1>6, <3>2
    <3>. QED
      BY <1>1, <3>1, <3>2, <3>3 DEF Grows
  <2>. QED
    BY <1>3, <1>5, <2>2, <2>3 DEF Sound
<1>. QED
  BY <1>8, <1>9

LEMMA SoundControl ==
  ASSUME PositionsHold, General, Sound, NEW d \in Downloaders,
         \/ TryLock(d) \/ ResetStatus(d) \/ Join(d) \/ IndexesDone(d)
         \/ UpdateAfter(d) \/ SortAfter(d) \/ Unlock(d)
         \/ AutoReload(d) \/ (\E V \in SUBSET DOMAIN shown : StartReloadAll(d, V))
  PROVE  Sound' /\ (Abstract!Reorder \/ Listed' = Listed)
<1> USE DEF Sound
<1>0. UNCHANGED <<call, ui>>
  BY DEF TryLock, ResetStatus, Join, IndexesDone, UpdateAfter, SortAfter, Unlock,
         AutoReload, StartReloadAll
<1>1. Grows /\ NoNewClear /\ (obj' = obj \/ ResetStatus(d))
  <2>1. CASE ResetStatus(d)
    BY <2>1, ResetAs DEF General
  <2>2. CASE ~ResetStatus(d)
    <3>1. obj' = obj
      BY <2>2 DEF TryLock, Join, IndexesDone, UpdateAfter, SortAfter, Unlock,
                  AutoReload, StartReloadAll
    <3>. QED
      BY <3>1, UnchangedGrows DEF General
  <2>. QED
    BY <2>1, <2>2
\* A thread that is busy has been given its work by the holder of reload_mutex,
\* who waits for it.
<1>2. BusyInv'
  <2>0. UI \in Threads /\ dl \in [Downloaders -> [pc : Phases, want : SUBSET Urls, indexes : SUBSET Nat]]
    BY PartsOf DEF Threads, General, ControlTyped
  <2>1. CASE AutoReload(d) \/ (\E V \in SUBSET DOMAIN shown : StartReloadAll(d, V))
    <3>1. dl[d].pc = "idle" /\ reload_mutex' = reload_mutex
      BY <2>1 DEF AutoReload, StartReloadAll, At
    <3>2. \A e \in Downloaders : e # d => dl'[e] = dl[e]
      BY <2>0, <2>1 DEF AutoReload, StartReloadAll
    <3>5. d # Nobody
      BY FeedReloadAssumption
    <3>3. reload_mutex # d
      BY <3>1, <3>5 DEF General, MutexInv
    <3>4. reload_mutex \in Downloaders \cup {Nobody}
      BY PartsOf DEF General, ControlTyped
    <3>. QED
      BY <1>0, <3>1, <3>2, <3>3, <3>4 DEF BusyInv, Busy
  <2>2. CASE TryLock(d) /\ reload_mutex # Nobody
    <3>1. dl[d].pc = "try" /\ reload_mutex' = reload_mutex /\ dl' = [dl EXCEPT ![d] = Idle]
      BY <2>2 DEF TryLock, At
    <3>2. \A e \in Downloaders : e # d => dl'[e] = dl[e]
      BY <2>0, <3>1
    <3>3. reload_mutex # d /\ reload_mutex \in Downloaders
      BY <2>2, <3>1, PartsOf DEF General, MutexInv, ControlTyped
    <3>. QED
      BY <1>0, <3>1, <3>2, <3>3 DEF BusyInv, Busy
  <2>3. CASE TryLock(d) /\ reload_mutex = Nobody
    BY <1>0, <2>3 DEF BusyInv, Busy
  <2>4. CASE ResetStatus(d) \/ UpdateAfter(d) \/ SortAfter(d) \/ Unlock(d)
    <3>1. reload_mutex = d /\ dl[d].pc \in {"reset", "sort", "update", "unlock"}
      BY <2>4 DEF ResetStatus, UpdateAfter, SortAfter, Unlock, At, General, MutexInv
    <3>2. \A t \in Threads \ {UI} : ~Busy(t)
      BY <3>1 DEF BusyInv
    <3>. QED
      BY <1>0, <3>2 DEF BusyInv, Busy
  <2>5. CASE Join(d)
    <3>1. \A t \in Threads \ {UI} : ~Busy(t)
      BY <2>5 DEF Join, RangesDone
    <3>. QED
      BY <1>0, <3>1 DEF BusyInv, Busy
  <2>6. CASE IndexesDone(d)
    <3>1. reload_mutex = d /\ dl[d].pc = "indexes" /\ ~Busy(d)
      BY <2>6 DEF IndexesDone, At, General, MutexInv
    <3>2. \A t \in Threads \ {UI} : ~Busy(t)
      BY <3>1 DEF BusyInv
    <3>. QED
      BY <1>0, <3>2 DEF BusyInv, Busy
  <2>. QED
    BY <2>1, <2>2, <2>3, <2>4, <2>5, <2>6
<1>3. CASE SortAfter(d)
  <2>1. feeds' \in SortResults(feeds) /\ obj' = obj
    BY <1>3 DEF SortAfter
  <2>2. \A t \in Threads : ~Busy(t)
    BY <1>3, NobodyReloads
  <2>3. CallsAtHome'
    BY <1>0, <2>2 DEF CallsAtHome, Busy
  <2>4. BuiltInv'
    <3>1. ui.pc = "idle"
      BY <1>3 DEF PositionsHold, BusyInv
    <3>. QED
      BY <1>0, <3>1 DEF BuiltInv
  <2>. QED
    BY <1>2, <2>1, <2>3, <2>4, SortSound
<1>4. CASE ~SortAfter(d)
  <2>1. feeds' = feeds
    BY <1>4 DEF TryLock, ResetStatus, Join, IndexesDone, UpdateAfter, Unlock,
                AutoReload, StartReloadAll
  <2>. QED
    BY <1>0, <1>1, <1>2, <2>1, SoundKept, ListedKept
<1>. QED
  BY <1>3, <1>4

LEMMA SoundUi ==
  ASSUME PositionsHold, General, Sound,
         \/ \E i \in DOMAIN shown : OpenFeed(i)
         \/ CloseFeed \/ SortList \/ UpdateList \/ SwapFeeds \/ SortNewFeeds
         \/ \E file \in UrlFiles : BuildFeeds(file)
  PROVE  Sound' /\ ([Abstract!Next]_Listed)
<1> USE DEF Sound
<1>1. UNCHANGED <<reload_mutex, dl, todo, call>>
  BY DEF OpenFeed, CloseFeed, SortList, UpdateList, SwapFeeds, SortNewFeeds, BuildFeeds
<1>2. ~Busy(UI)
  BY DEF OpenFeed, CloseFeed, SortList, UpdateList, SwapFeeds, SortNewFeeds, BuildFeeds,
         UiFree, BusyInv
<1>3. BusyInv'
  <2>1. ui'.pc # "idle" => ~(UiOps \subseteq {"open"})
    <3>1. CASE SortList \/ \E file \in UrlFiles : BuildFeeds(file)
      BY <3>1 DEF SortList, BuildFeeds
    <3>2. CASE SwapFeeds \/ SortNewFeeds
      BY <3>2 DEF SwapFeeds, SortNewFeeds, BusyInv
    <3>3. CASE (\E i \in DOMAIN shown : OpenFeed(i)) \/ CloseFeed
      BY <3>3 DEF OpenFeed, CloseFeed, BusyInv
    <3>4. CASE UpdateList
      BY <3>4 DEF UpdateList, UiIdle
    <3>. QED
      BY <3>1, <3>2, <3>3, <3>4
  <2>. QED
    BY <1>1, <1>2, <2>1 DEF BusyInv, Busy
<1>4. CASE (\E i \in DOMAIN shown : OpenFeed(i)) \/ CloseFeed \/ UpdateList
  <2>1. UNCHANGED <<feeds, obj>> /\ (ui' = ui \/ ui' = UiIdle)
    BY <1>4 DEF OpenFeed, CloseFeed, UpdateList
  <2>2. Grows /\ NoNewClear
    BY <2>1, UnchangedGrows DEF General
  <2>3. BuiltInv'
    BY <2>1, <2>2, SoundKept DEF BuiltInv, UiIdle
  <2>. QED
    BY <1>1, <1>3, <2>1, <2>2, <2>3, SoundKept, ListedKept
<1>5. CASE SortList \/ SortNewFeeds
  <2>1. /\ feeds' \in SortResults(feeds) /\ obj' = obj
        /\ ui' = [ui EXCEPT !.pc = "update"]
        /\ ui.pc = "sort" \/ (ui.pc = "idle" /\ ~(UiOps \subseteq {"open"}))
    BY <1>5 DEF SortList, SortNewFeeds, UiFree
  <2>2. \A t \in Threads : ~Busy(t)
    BY <1>2, <2>1, NobodyReloads
  <2>3. CallsAtHome'
    BY <1>1, <2>2 DEF CallsAtHome, Busy
  <2>4. ui'.pc = "update"
    BY <2>1, PartsOf DEF General, UiTyped
  <2>5. BuiltInv'
    BY <2>4 DEF BuiltInv
  <2>. QED
    BY <1>3, <2>1, <2>3, <2>5, SortSound DEF Abstract!Next
<1>6. CASE SwapFeeds
  <2>1. feeds' = ui.new /\ obj' = obj /\ ui.pc = "swap" /\ ui'.pc = "sort"
    BY <1>6 DEF SwapFeeds
  <2>2. \A t \in Threads : ~Busy(t)
    BY <2>1, NobodyReloads
  <2>3. CallsAtHome' /\ BuiltInv'
    BY <1>1, <2>1, <2>2 DEF CallsAtHome, Busy, BuiltInv
  <2>4. /\ \A i, j \in DOMAIN feeds' : obj[feeds'[i]].url = obj[feeds'[j]].url => i = j
        /\ \A i \in DOMAIN feeds' :
             /\ ~obj[feeds'[i]].cleared
             /\ \/ \E j \in DOMAIN feeds : feeds'[i] = feeds[j]
                \/ \A j \in DOMAIN feeds : obj[feeds[j]].url # obj[feeds'[i]].url /\ feeds[j] < feeds'[i]
    BY <2>1 DEF BuiltInv, Url
  <2>5. VectorSound'
    BY <2>1, <2>4 DEF VectorSound, OneFeedPerUrl, ListedFeedsHaveArticles, Url
  <2>6. Abstract!Resubscribe
    <3>1. DOMAIN Listed = DOMAIN feeds /\ DOMAIN Listed' = DOMAIN feeds'
      BY DEF Listed
    <3>2. ASSUME NEW i \in DOMAIN feeds
          PROVE  Listed[i] = [url |-> obj[feeds[i]].url, version |-> feeds[i]]
      BY DEF Listed, Url
    <3>3. ASSUME NEW i \in DOMAIN feeds'
          PROVE  /\ Listed'[i] = [url |-> obj[feeds'[i]].url, version |-> feeds'[i]]
                 /\ Listed'[i].url = obj[feeds'[i]].url
                 /\ Listed'[i].version = feeds'[i]
      <4>1. Listed'[i] = [url |-> obj[feeds'[i]].url, version |-> feeds'[i]]
        BY <2>1 DEF Listed, Url
      <4>. QED
        BY <4>1
    <3>4. \A i, j \in DOMAIN Listed' : Listed'[i].url = Listed'[j].url => i = j
      BY <2>4, <3>1, <3>3
    <3>5. ASSUME NEW i \in DOMAIN feeds'
          PROVE  \/ \E j \in DOMAIN Listed : Listed'[i] = Listed[j]
                 \/ /\ \A j \in DOMAIN Listed : Listed'[i].url # Listed[j].url
                    /\ Abstract!Newer(Listed'[i].version)
      <4>1. CASE \E j \in DOMAIN feeds : feeds'[i] = feeds[j]
        BY <3>1, <3>2, <3>3, <4>1
      <4>2. CASE \A j \in DOMAIN feeds : obj[feeds[j]].url # obj[feeds'[i]].url /\ feeds[j] < feeds'[i]
        <5>1. ASSUME NEW j \in DOMAIN feeds
              PROVE  Listed[j].url = obj[feeds[j]].url /\ Listed[j].version = feeds[j]
          <6>1. Listed[j] = [url |-> obj[feeds[j]].url, version |-> feeds[j]]
            BY <3>2
          <6>. QED
            BY <6>1
        <5>. QED
          BY <3>1, <3>3, <4>2, <5>1 DEF Abstract!Newer
      <4>. QED
        BY <2>4, <4>1, <4>2
    <3>. QED
      BY <3>1, <3>4, <3>5 DEF Abstract!Resubscribe, Abstract!EachFeedOnce
  <2>. QED
    BY <1>3, <2>3, <2>5, <2>6 DEF Abstract!Next
<1>7. ASSUME NEW file \in UrlFiles, BuildFeeds(file)
      PROVE  Sound' /\ Listed' = Listed
  <2>1. /\ Grows /\ \A o \in Objects : obj'[o].cleared = obj[o].cleared
        /\ \A o \in Objects' : o \notin Objects => ~obj'[o].cleared
        /\ DOMAIN ui'.new = DOMAIN file
        /\ \A k \in DOMAIN file :
             /\ ui'.new[k] \in Objects' /\ obj'[ui'.new[k]].url = file[k]
             /\ ui'.new[k] \in Objects => \E i \in DOMAIN feeds : feeds[i] = ui'.new[k]
             /\ ui'.new[k] \notin Objects => \A i \in DOMAIN feeds : Url(feeds[i]) # file[k]
    BY <1>7, BuiltAs DEF General
  <2>2. NoNewClear
    BY <2>1 DEF NoNewClear
  <2>3. feeds' = feeds
    BY <1>7 DEF BuildFeeds
  <2>4. \A k, l \in DOMAIN file : file[k] = file[l] => k = l
    BY FeedReloadAssumption DEF IsUrlFile
  <2>5. \A i, j \in DOMAIN ui'.new : obj'[ui'.new[i]].url = obj'[ui'.new[j]].url => i = j
    BY <2>1, <2>4
  <2>6. ASSUME NEW k \in DOMAIN file
        PROVE  /\ ~obj'[ui'.new[k]].cleared
               /\ \/ \E j \in DOMAIN feeds : ui'.new[k] = feeds[j]
                  \/ \A j \in DOMAIN feeds : obj'[feeds[j]].url # obj'[ui'.new[k]].url /\ feeds[j] < ui'.new[k]
    <3>1. CASE ui'.new[k] \in Objects
      <4>1. PICK i \in DOMAIN feeds : feeds[i] = ui'.new[k]
        BY <2>1, <3>1
      <4>2. ~obj[feeds[i]].cleared
        BY DEF VectorSound, ListedFeedsHaveArticles
      <4>. QED
        BY <2>1, <3>1, <4>1, <4>2
    <3>2. CASE ui'.new[k] \notin Objects
      <4>1. \A j \in DOMAIN feeds : feeds[j] \in Objects /\ obj[feeds[j]].url # file[k]
        BY <2>1, <3>2, PartsOf DEF Url, General, FeedsTyped
      <4>2. \A j \in DOMAIN feeds : obj'[feeds[j]].url # obj'[ui'.new[k]].url
        BY <2>1, <4>1 DEF Grows
      <4>3. Len(obj) \in Nat /\ Len(obj') \in Nat
        BY <2>1, ObjectsTyped, GrowsFacts DEF General
      <4>4. ui'.new[k] \in Nat /\ ui'.new[k] > Len(obj)
        BY <2>1, <3>2, <4>3 DEF Objects
      <4>5. \A j \in DOMAIN feeds : feeds[j] < ui'.new[k]
        BY <4>1, <4>3, <4>4 DEF Objects
      <4>. QED
        BY <2>1, <3>2, <4>2, <4>5
    <3>. QED
      BY <3>1, <3>2
  <2>7. BuiltInv'
    BY <2>1, <2>3, <2>5, <2>6 DEF BuiltInv, Url
  <2>. QED
    BY <1>1, <1>3, <1>7, <2>1, <2>2, <2>3, <2>7, SoundKept, ListedKept
<1>. QED
  BY <1>4, <1>5, <1>6, <1>7

LEMMA SoundNext ==
  ASSUME PositionsHold, General, Sound, [Next]_vars
  PROVE  Sound' /\ [Abstract!Next]_Listed
<1>1. CASE UNCHANGED vars
  <2>1. feeds' = feeds /\ obj' = obj
    BY <1>1 DEF vars
  <2>2. Grows /\ NoNewClear
    BY <2>1, UnchangedGrows DEF General
  <2>3. BusyInv'
    BY <1>1 DEF vars, Sound, BusyInv, Busy
  <2>4. UNCHANGED <<call, ui>>
    BY <1>1 DEF vars
  <2>. QED
    BY <2>1, <2>2, <2>3, <2>4, SoundKept, ListedKept DEF Sound
<1>2. CASE UiStep
  BY <1>2, SoundBegin, SoundEnd, SoundControl, SoundUi DEF UiStep, Threads, Abstract!Next
<1>3. ASSUME NEW d \in Downloaders, AutoReload(d) \/ Downloader(d)
      PROVE  Sound' /\ [Abstract!Next]_Listed
  BY <1>3, SoundBegin, SoundEnd, SoundControl DEF Downloader, Threads, Abstract!Next
<1>4. ASSUME NEW w \in Workers, Worker(w)
      PROVE  Sound' /\ [Abstract!Next]_Listed
  BY <1>4, SoundBegin, SoundEnd DEF Worker, Threads, Abstract!Next
<1>. QED
  BY <1>1, <1>2, <1>3, <1>4 DEF Next

\* The vector stays sound while its positions hold.
THEOREM SoundInvariance ==
  ASSUME PositionsHold
  PROVE  Spec => []Sound
<1>1. Init => Sound
  BY SoundInit
<1>2. General /\ Sound /\ [Next]_vars => Sound'
  BY SoundNext
<1>. QED
  BY <1>1, <1>2, GeneralInvariance, PTL DEF Spec

\* No feed loses its articles or its place to another one, whatever the sort
\* order and however the urls file is edited, as long as a background reload
\* and the main thread's work on the vector do not come together.
THEOREM SoundVector ==
  ASSUME PositionsHold
  PROVE  Spec => [](OneFeedPerUrl /\ ListedFeedsHaveArticles)
<1>1. Sound => OneFeedPerUrl /\ ListedFeedsHaveArticles
  BY DEF Sound, VectorSound
<1>. QED
  BY <1>1, SoundInvariance, PTL

\* Under the same condition the vector implements the list of Subscriptions.
THEOREM SortedSubscriptions ==
  ASSUME PositionsHold
  PROVE  Spec => IsSubscriptions
<1>1. Init => Abstract!Init
  <2> SUFFICES ASSUME Init PROVE Abstract!Init
    OBVIOUS
  <2>1. \A i, j \in DOMAIN feeds : Url(feeds[i]) = Url(feeds[j]) => i = j
    BY SoundInit DEF Sound, VectorSound, OneFeedPerUrl
  <2>2. DOMAIN Listed = DOMAIN feeds /\ \A i \in DOMAIN feeds : Listed[i].url = Url(feeds[i])
    BY DEF Listed
  <2>. QED
    BY <2>1, <2>2 DEF Abstract!Init, Abstract!EachFeedOnce
<1>2. General /\ Sound /\ [Next]_vars => [Abstract!Next]_Listed
  BY SoundNext
<1>. QED
  BY <1>1, <1>2, GeneralInvariance, SoundInvariance, PTL
     DEF Spec, IsSubscriptions, Abstract!Spec
=============================================================================
