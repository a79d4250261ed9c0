--------------------------- MODULE ArticlesProofs ---------------------------
(* Proofs about Articles for any articles, bounds and options. The first     *)
(* part: an article the user deleted stays deleted for as long as its feed   *)
(* carries it, and flagged articles keep their rows.                         *)
(*                                                                           *)
(* The second part has a reload thread and the main thread at work on the    *)
(* same articles: every variable keeps its type; the list agrees with the    *)
(* cache when both are at rest; what was read stays read and what was queued *)
(* stays queued, step by step; no article is skipped.                        *)
(* Its inductive invariant is ArticlesInv: what an operation of the main     *)
(* thread has left to do (UserInv), row against item for the list (ListInv)  *)
(* and for the items a reload has read (ReadInv), the queue (QueueInv), and  *)
(* the document being stored (DocInv). SkipInv, inductive on top of it,      *)
(* relates the stamp of the feed to what is stored of the document.          *)
EXTENDS Articles, SequenceTheorems, FiniteSetTheorems, TLAPS

\* A row is a record with at least a deleted flag.
IsRow(r) == /\ DOMAIN r = {"unread", "deleted", "enqueued", "flagged", "text"}
            /\ r.deleted \in BOOLEAN
IsRows(d) == DOMAIN d \subseteq Guids /\ \A g \in DOMAIN d : IsRow(d[g])

\* What keeps a deleted article g from coming back with the rows d: its row says
\* so, or it has none and is too old to get one.
Barred(g, d) == IF g \in DOMAIN d THEN d[g].deleted ELSE g <= tooOld

\* Between the download and the removal of old deleted rows the document that
\* decides about them carries every hidden article.
Carried == reload.pc = "stamp" /\ reload.doc.items # {} => hidden \subseteq reload.doc.items

\* The documents hold articles of the feed only.
InGuids == doc.items \cup reload.doc.items \cup reload.todo \subseteq Guids

HiddenInv == /\ IsRows(db)
             /\ DOMAIN reload = {"pc", "doc", "items", "todo"}
             /\ hidden \subseteq Guids
             /\ tooOld \in Nat
             /\ \A g \in hidden : Barred(g, db)
             /\ Carried
             /\ InGuids

\* The limit keeps every deleted row as it is, and adds none.
LEMMA LimitedKeeps ==
  ASSUME NEW d, IsRows(d)
  PROVE  /\ IsRows(Limited(d))
         /\ \A g \in DOMAIN d : d[g].deleted => g \in DOMAIN Limited(d)
         /\ \A g \in DOMAIN Limited(d) : g \in DOMAIN d /\ Limited(d)[g] = d[g]
<1>1. DOMAIN Limited(d) = DOMAIN d \ (Shown(d) \ Kept(d))
  BY DEF Limited, Restrict
<1>2. \A g \in DOMAIN Limited(d) : Limited(d)[g] = d[g]
  BY DEF Limited, Restrict
<1>3. \A g \in DOMAIN d : d[g].deleted => g \in DOMAIN Limited(d)
  BY <1>1 DEF Shown
<1>. QED
  BY <1>1, <1>2, <1>3 DEF IsRows

\* Writing the flags of an item touches no other column.
LEMMA SaveKeeps ==
  ASSUME NEW d, IsRows(d), NEW g, NEW item
  PROVE  /\ IsRows(SaveUnreadAndEnqueued(d, g, item))
         /\ DOMAIN SaveUnreadAndEnqueued(d, g, item) = DOMAIN d
         /\ \A h \in DOMAIN d : SaveUnreadAndEnqueued(d, g, item)[h].deleted = d[h].deleted
<1> DEFINE e == SaveUnreadAndEnqueued(d, g, item)
           row == [d[g] EXCEPT !.unread = item.unread, !.enqueued = item.enqueued]
<1>1. CASE g \in DOMAIN d
  <2>1. IsRow(row) /\ row.deleted = d[g].deleted
    BY <1>1 DEF IsRows, IsRow
  <2>2. e = [d EXCEPT ![g] = row]
    BY <1>1 DEF SaveUnreadAndEnqueued
  <2> HIDE DEF e, row
  <2>3. DOMAIN e = DOMAIN d /\ \A h \in DOMAIN d : e[h] = IF h = g THEN row ELSE d[h]
    BY <2>2
  <2>. QED
    BY <2>1, <2>3 DEF IsRows, e
<1>2. CASE g \notin DOMAIN d
  BY <1>2 DEF SaveUnreadAndEnqueued
<1>. QED
  BY <1>1, <1>2

\* Storing an article adds at most its own row, and leaves the deleted flags.
LEMMA SavedKeeps ==
  ASSUME NEW d, IsRows(d), NEW g \in Guids, NEW text
  PROVE  /\ IsRows(Saved(d, g, text))
         /\ DOMAIN Saved(d, g, text) = DOMAIN d \cup {g}
         /\ \A h \in DOMAIN d : Saved(d, g, text)[h].deleted = d[h].deleted
<1> DEFINE e == Saved(d, g, text)
           old == [d[g] EXCEPT !.text = text, !.unread = @ \/ (ResetUnread /\ d[g].text # text)]
<1>1. CASE g \in DOMAIN d
  <2>1. IsRow(old) /\ old.deleted = d[g].deleted
    BY <1>1 DEF IsRows, IsRow
  <2>2. e = [d EXCEPT ![g] = old]
    BY <1>1 DEF Saved
  <2> HIDE DEF e, old
  <2>3. DOMAIN e = DOMAIN d /\ \A h \in DOMAIN d : e[h] = IF h = g THEN old ELSE d[h]
    BY <2>2
  <2>. QED
    BY <1>1, <2>1, <2>3 DEF IsRows, e
<1>2. CASE g \notin DOMAIN d
  <2>1. IsRow(NewRow(text))
    BY DEF IsRow, NewRow
  <2>2. e = [h \in DOMAIN d \cup {g} |-> IF h = g THEN NewRow(text) ELSE d[h]]
    BY <1>2 DEF Saved, Inserted
  <2> HIDE DEF e
  <2>3. /\ DOMAIN e = DOMAIN d \cup {g}
        /\ \A h \in DOMAIN e : e[h] = IF h = g THEN NewRow(text) ELSE d[h]
    BY <2>2
  <2>. QED
    BY <1>2, <2>1, <2>3 DEF IsRows, e
<1>. QED
  BY <1>1, <1>2

\* A step that keeps the rows and their deleted flags, and the hidden articles,
\* keeps the invariant.
LEMMA SameDeleted ==
  ASSUME HiddenInv, Carried', InGuids', UNCHANGED <<tooOld, hidden>>,
         IsRows(db'), DOMAIN reload' = DOMAIN reload, DOMAIN db' = DOMAIN db,
         \A g \in DOMAIN db : db'[g].deleted = db[g].deleted
  PROVE  HiddenInv'
BY DEF HiddenInv, Barred

\* The program starts without rows.
LEMMA HiddenInit == Init => HiddenInv
BY DEF Init, HiddenInv, IsRows, Barred, Carried, InGuids, NoReload, NoDoc

\* No step of the reload thread lets a hidden article come back.
LEMMA HiddenReload == HiddenInv /\ Reload => HiddenInv'
<1>. SUFFICES ASSUME HiddenInv, Reload PROVE HiddenInv'
  OBVIOUS
<1>. USE DEF HiddenInv
<1>1. CASE Fetch
  <2>1. reload'.pc = "stamp" /\ reload'.doc = doc /\ reload'.todo = reload.todo /\ DOMAIN reload' = DOMAIN reload
    BY <1>1 DEF Fetch, At
  <2>2. hidden' \subseteq hidden /\ (doc.items # {} => hidden' \subseteq doc.items)
    BY <1>1 DEF Fetch
  <2>3. db' = db /\ tooOld' = tooOld /\ doc' = doc
    BY <1>1 DEF Fetch
  <2>. QED
    BY <2>1, <2>2, <2>3 DEF IsRows, Barred, Carried, InGuids
<1>2. CASE StoreStamp
  <2>1. hidden' = hidden /\ tooOld' = tooOld
    BY <1>2 DEF StoreStamp
  <2>2. DOMAIN reload' = DOMAIN reload /\ reload'.pc # "stamp" /\ InGuids'
    BY <1>2 DEF StoreStamp, Goto, NoReload, NoDoc, InGuids
  <2>3. CASE reload.doc.items = {}
    BY <1>2, <2>1, <2>2, <2>3 DEF StoreStamp, IsRows, Barred, Carried, InGuids
  <2>4. CASE reload.doc.items # {}
    <3>1. hidden \subseteq reload.doc.items
      BY <1>2, <2>4 DEF StoreStamp, At, Carried
    <3> DEFINE S == {g \in DOMAIN db : db[g].deleted => g \in reload.doc.items}
    <3>2. db' = [g \in S |-> db[g]]
      BY <1>2, <2>4 DEF StoreStamp, Restrict
    <3>3. \A g \in hidden : g \in DOMAIN db <=> g \in S
      BY <3>1
    <3> HIDE DEF S
    <3>4. DOMAIN db' = S /\ \A g \in S : db'[g] = db[g]
      BY <3>2
    <3>5. S \subseteq DOMAIN db
      BY DEF S
    <3>6. IsRows(db')
      BY <3>4, <3>5 DEF IsRows
    <3>7. \A g \in hidden : Barred(g, db)'
      BY <3>3, <3>4, <2>1 DEF Barred
    <3>. QED
      BY <2>1, <2>2, <3>6, <3>7 DEF Carried, InGuids
  <2>. QED
    BY <2>3, <2>4
<1>3. CASE StartStore
  <2>1. DOMAIN reload' = DOMAIN reload /\ reload'.pc = "store" /\ UNCHANGED <<db, tooOld, hidden>>
          /\ InGuids'
    BY <1>3 DEF StartStore, FirstOf, ghosts, InGuids
  <2>. QED
    BY <2>1 DEF Barred, Carried, InGuids
<1>4. CASE StoreItem
  <2>1. PICK g \in reload.todo :
          /\ db' = IF g > tooOld THEN Saved(db, g, reload.doc.text[g]) ELSE db
          /\ reload' = [reload EXCEPT !.todo = @ \ {g},
                                      !.pc = IF reload.todo = {g} THEN "read" ELSE "store"]
    BY <1>4 DEF StoreItem
  <2>2. DOMAIN reload' = DOMAIN reload /\ reload'.pc # "stamp" /\ UNCHANGED <<tooOld, hidden>>
          /\ InGuids' /\ g \in Guids
    BY <1>4, <2>1 DEF StoreItem, InGuids
  <2>3. CASE g > tooOld
    <3>1. /\ IsRows(db') /\ DOMAIN db' = DOMAIN db \cup {g}
          /\ \A h \in DOMAIN db : db'[h].deleted = db[h].deleted
      <4> DEFINE text == reload.doc.text[g]
      <4>1. db' = Saved(db, g, text) /\ IsRows(db) /\ g \in Guids
        BY <2>1, <2>2, <2>3
      <4> HIDE DEF text
      <4>. QED
        BY ONLY <4>1, SavedKeeps
    <3>2. g \in hidden => g \in DOMAIN db
      BY <2>2, <2>3, GuidsAreRanks DEF Barred
    <3>3. \A h \in hidden : Barred(h, db)'
      BY <2>2, <3>1, <3>2 DEF Barred
    <3>. QED
      BY <2>2, <3>1, <3>3 DEF Carried
  <2>4. CASE ~(g > tooOld)
    BY <2>1, <2>2, <2>4 DEF Barred, Carried, InGuids
  <2>. QED
    BY <2>3, <2>4
<1>5. CASE StoreFails
  BY <1>5 DEF StoreFails, NoReload, NoDoc, ghosts, Barred, Carried, InGuids
<1>6. CASE ReadRows
  <2>1. db' = Limited(db) /\ UNCHANGED <<tooOld, hidden>>
    BY <1>6 DEF ReadRows
  <2>2. DOMAIN reload' = DOMAIN reload
    BY <1>6 DEF ReadRows
  <2>3. reload'.pc # "stamp"
    BY <1>6 DEF ReadRows
  <2>4. InGuids'
    BY <1>6, <2>2 DEF ReadRows, InGuids, NoDoc, Kept, Shown, IsRows
  <2>. QED
    BY <2>1, <2>2, <2>3, <2>4, LimitedKeeps DEF Barred, Carried, InGuids
<1>7. CASE ShowFeed
  <2>1. DOMAIN reload' = DOMAIN reload /\ reload'.pc = "again" /\ UNCHANGED <<db, tooOld, hidden>>
          /\ InGuids'
    BY <1>7 DEF ShowFeed, ghosts, InGuids
  <2>. QED
    BY <2>1 DEF Barred, Carried, InGuids
<1>8. CASE EnqueueItem
  <2>1. DOMAIN reload' = DOMAIN reload /\ reload'.pc = "mark" /\ UNCHANGED <<db, tooOld, hidden>>
          /\ InGuids'
    BY <1>8 DEF EnqueueItem, ghosts, InGuids
  <2>. QED
    BY <2>1 DEF Barred, Carried, InGuids
<1>9. CASE MarkEnqueued
  <2>1. PICK g \in reload.todo :
          /\ db' = SaveUnreadAndEnqueued(db, g, reload.items[g])
          /\ reload' = [reload EXCEPT !.todo = @ \ {g},
                                      !.pc = IF reload.todo = {g} THEN "notify" ELSE "enqueue"]
    BY <1>9 DEF MarkEnqueued
  <2>2. DOMAIN reload' = DOMAIN reload /\ reload'.pc # "stamp" /\ UNCHANGED <<tooOld, hidden>>
          /\ InGuids'
    BY <1>9, <2>1 DEF MarkEnqueued, ghosts, InGuids
  <2>. QED
    BY <2>1, <2>2, SaveKeeps, SameDeleted DEF Carried, InGuids
<1>10. CASE NotifyList
  BY <1>10 DEF NotifyList, NoReload, NoDoc, ghosts, Barred, Carried, InGuids
<1>. QED
  BY <1>1, <1>2, <1>3, <1>4, <1>5, <1>6, <1>7, <1>8, <1>9, <1>10 DEF Reload

\* The main thread's operations that write no row.
LEMMA HiddenReading ==
  HiddenInv /\ UNCHANGED <<doc, tooOld, db, reload, hidden>> => HiddenInv'
BY DEF HiddenInv, IsRows, IsRow, Barred, Carried, InGuids

\* A step that writes other columns of one row of an item keeps the invariant.
LEMMA HiddenWriting ==
  HiddenInv /\ (MarkFeedRead \/ SaveUnread \/ SaveFlags) => HiddenInv'
<1>. SUFFICES ASSUME HiddenInv, MarkFeedRead \/ SaveUnread \/ SaveFlags PROVE HiddenInv'
  OBVIOUS
<1>1. UNCHANGED <<doc, tooOld, reload, hidden>> /\ Carried' /\ InGuids'
  BY DEF MarkFeedRead, SaveUnread, SaveFlags, ghosts, HiddenInv, Carried, InGuids
<1>2. IsRows(db)
  BY DEF HiddenInv
<1>3. CASE MarkFeedRead
  <2>1. db' = [g \in DOMAIN db |-> [db[g] EXCEPT !.unread = FALSE]]
    BY <1>3 DEF MarkFeedRead
  <2>2. DOMAIN db' = DOMAIN db
    BY <2>1
  <2>3. ASSUME NEW g \in DOMAIN db PROVE IsRow(db'[g]) /\ db'[g].deleted = db[g].deleted
    BY <1>2, <2>1 DEF IsRows, IsRow
  <2>4. IsRows(db')
    BY <1>2, <2>2, <2>3 DEF IsRows
  <2>. QED
    BY <1>1, <2>2, <2>3, <2>4, SameDeleted
<1>4. CASE SaveUnread
  <2>1. db' = SaveUnreadAndEnqueued(db, user.on.guid, ItemAt(user.on))
    BY <1>4 DEF SaveUnread
  <2>. QED
    BY <1>1, <1>2, <2>1, SaveKeeps, SameDeleted
<1>5. CASE SaveFlags
  <2> DEFINE g == user.on.guid
             row == [db[g] EXCEPT !.flagged = ItemAt(user.on).flagged]
  <2>1. db' = IF g \in DOMAIN db THEN [db EXCEPT ![g] = row] ELSE db
    BY <1>5 DEF SaveFlags
  <2>2. g \in DOMAIN db => IsRow(row) /\ row.deleted = db[g].deleted
    BY <1>2 DEF IsRows, IsRow
  <2> HIDE DEF row, g
  <2>3. DOMAIN db' = DOMAIN db /\ \A h \in DOMAIN db : db'[h] = IF h = g THEN row ELSE db[h]
    BY <2>1
  <2>4. IsRows(db') /\ \A h \in DOMAIN db : db'[h].deleted = db[h].deleted
    BY <1>2, <2>2, <2>3 DEF IsRows
  <2>. QED
    BY <1>1, <2>3, <2>4, SameDeleted
<1>. QED
  BY <1>3, <1>4, <1>5

\* Deleting an article hides it only if it has a row, and if the document that a
\* reload is about to compare the rows with carries it.
LEMMA HiddenDeleting == HiddenInv /\ MarkDeleted => HiddenInv'
<1>. SUFFICES ASSUME HiddenInv, MarkDeleted PROVE HiddenInv'
  OBVIOUS
<1> DEFINE g == IF user.pos = 0 THEN article.guid ELSE user.on.guid
           row == [db[g] EXCEPT !.deleted = Doing("mark")]
           carried == reload.pc \in {"stamp", "lock", "store"} => g \in reload.doc.items
<1>1. /\ db' = IF g \in DOMAIN db THEN [db EXCEPT ![g] = row] ELSE db
      /\ hidden' = IF Doing("mark") /\ g \in DOMAIN db /\ carried
                     THEN hidden \cup {g} ELSE hidden \ {g}
      /\ UNCHANGED <<doc, tooOld, reload>>
  BY DEF MarkDeleted
<1>2. Doing("mark") \in BOOLEAN
  BY DEF Doing
<1>3. g \in DOMAIN db => IsRow(row) /\ row.deleted = Doing("mark")
  BY <1>2 DEF HiddenInv, IsRows, IsRow
<1> HIDE DEF g, row
<1>4. DOMAIN db' = DOMAIN db /\ \A h \in DOMAIN db : db'[h] = IF h = g THEN row ELSE db[h]
  BY <1>1
<1>5. IsRows(db')
  BY <1>3, <1>4 DEF HiddenInv, IsRows
<1>6. hidden' \subseteq Guids
  BY <1>1 DEF HiddenInv, IsRows
<1>7. \A h \in hidden' : Barred(h, db)'
  <2>1. TAKE h \in hidden'
  <2>2. CASE h = g
    BY <1>1, <1>3, <1>4, <2>2 DEF Barred
  <2>3. CASE h # g
    BY <1>1, <1>4, <2>3 DEF Barred, HiddenInv
  <2>. QED
    BY <2>2, <2>3
<1>8. Carried'
  BY <1>1 DEF Carried, HiddenInv
<1>. QED
  BY <1>1, <1>5, <1>6, <1>7, <1>8 DEF HiddenInv, InGuids

\* The next process removes rows that are too old, or not deleted.
LEMMA HiddenRestart ==
  ASSUME HiddenInv, NEW rows, IsRows(rows), DOMAIN rows = DOMAIN db,
         \A g \in DOMAIN db : db[g].deleted => rows[g].deleted, Restart(rows)
  PROVE  HiddenInv'
<1> DEFINE S == {g \in DOMAIN rows : g > tooOld}
           young == [g \in S |-> rows[g]]
<1>1. db' = Limited(young) /\ reload' = NoReload /\ UNCHANGED <<doc, tooOld, hidden>>
  BY DEF Restart, Restrict
<1>2. DOMAIN young = S /\ \A g \in S : young[g] = rows[g]
  OBVIOUS
<1>3. S \subseteq DOMAIN rows
  OBVIOUS
<1>4. \A g \in hidden : g \in S => rows[g].deleted
  BY DEF HiddenInv, Barred
<1>5. \A g \in hidden : g \notin S => g <= tooOld
  BY GuidsAreRanks DEF HiddenInv, Barred
<1> HIDE DEF S, young
<1>6. IsRows(young)
  BY <1>2, <1>3 DEF IsRows
<1>7. \A g \in hidden : Barred(g, db)'
  BY <1>1, <1>2, <1>4, <1>5, <1>6, LimitedKeeps DEF Barred
<1>8. IsRows(db')
  BY <1>1, <1>6, LimitedKeeps
<1>. QED
  BY <1>1, <1>7, <1>8 DEF HiddenInv, NoReload, NoDoc, Carried, InGuids

\* No step at all lets a hidden article come back.
LEMMA HiddenStep == HiddenInv /\ [Next]_vars => HiddenInv'
<1>. SUFFICES ASSUME HiddenInv, [Next]_vars PROVE HiddenInv'
  OBVIOUS
<1>1. CASE UNCHANGED vars
  BY <1>1, HiddenReading DEF vars
<1>2. CASE Age
  <2>1. tooOld' = tooOld + 1 /\ UNCHANGED <<doc, db, reload, hidden>>
    BY <1>2 DEF Age, program, ghosts
  <2>. QED
    BY <2>1, GuidsAreRanks DEF HiddenInv, IsRows, IsRow, Barred, Carried, InGuids
<1>3. ASSUME NEW g \in Guids, Publish(g) PROVE HiddenInv'
  <2>1. doc'.items \subseteq Guids /\ UNCHANGED <<tooOld, db, reload, hidden>>
    BY <1>3 DEF Publish, program, ghosts, HiddenInv, InGuids
  <2>. QED
    BY <2>1 DEF HiddenInv, IsRows, IsRow, Barred, Carried, InGuids
<1>4. CASE Reload
  BY <1>4, HiddenReload
<1>5. CASE User
  <2>1. CASE MarkFeedRead \/ SaveUnread \/ SaveFlags
    BY <2>1, HiddenWriting
  <2>2. CASE MarkDeleted
    BY <2>2, HiddenDeleting
  <2>3. CASE OpenList \/ CloseList \/ PurgeList \/ OpenArticle
    BY <2>3, HiddenReading DEF OpenList, CloseList, PurgeList, OpenArticle, ghosts
  <2>4. ASSUME NEW op \in UserOps, NEW i \in Guids, PressInList(op, i) PROVE HiddenInv'
    BY <2>4, HiddenReading DEF PressInList, ghosts
  <2>5. ASSUME NEW op \in UserOps, PressInArticle(op) PROVE HiddenInv'
    BY <2>5, HiddenReading DEF PressInArticle, ghosts
  <2>6. CASE SetUnread
    BY <2>6, HiddenReading DEF SetUnread
  <2>7. CASE SetDeleted
    BY <2>7, HiddenReading DEF SetDeleted
  <2>8. CASE SetFlags
    BY <2>8, HiddenReading DEF SetFlags
  <2>9. CASE LookUpAgain \/ LeaveArticle
    BY <2>9, HiddenReading DEF LookUpAgain, LeaveArticle, ghosts
  <2>. QED
    BY <1>5, <2>1, <2>2, <2>3, <2>4, <2>5, <2>6, <2>7, <2>8, <2>9 DEF User
<1>6. CASE Crash
  BY <1>6, HiddenRestart DEF Crash, HiddenInv
<1>7. CASE Quit
  <2> DEFINE rows == [g \in DOMAIN db |->
               [db[g] EXCEPT !.deleted = @ \/ (DeleteReadOnQuit /\ ~db[g].unread)]]
  <2>1. Restart(rows)
    BY <1>7 DEF Quit
  <2>2. ASSUME NEW g \in DOMAIN db
        PROVE  IsRow(rows[g]) /\ (db[g].deleted => rows[g].deleted)
    BY DEF HiddenInv, IsRows, IsRow
  <2>3. DOMAIN rows = DOMAIN db
    OBVIOUS
  <2> HIDE DEF rows
  <2>4. IsRows(rows)
    BY <2>2, <2>3 DEF HiddenInv, IsRows
  <2>. QED
    BY <2>1, <2>2, <2>3, <2>4, HiddenRestart
<1>. QED
  BY <1>1, <1>2, <1>3, <1>4, <1>5, <1>6, <1>7 DEF Next

\* An article that the user deleted stays out of the list for as long as the
\* feed carries it, for every feed, every option and every number of reloads,
\* crashes and restarts.
THEOREM DeletedKept == Spec => []DeletedStaysDeleted
<1>1. HiddenInv => DeletedStaysDeleted
  BY DEF HiddenInv, Barred, DeletedStaysDeleted
<1>. QED
  BY <1>1, HiddenInit, HiddenStep, PTL DEF Spec

\* The rows of d that are not in e may be removed: none is flagged, unless the
\* article is deleted or too old.
Spared(d, e) == \A g \in DOMAIN d \ DOMAIN e : d[g].flagged => d[g].deleted \/ g <= tooOld

\* The limit removes no flagged row.
LEMMA LimitedSpares == \A d : \A g \in DOMAIN d \ DOMAIN Limited(d) : ~d[g].flagged
<1>. TAKE d
<1>1. DOMAIN Limited(d) = DOMAIN d \ (Shown(d) \ Kept(d))
  BY DEF Limited, Restrict
<1>2. \A g \in Shown(d) \ Kept(d) : ~d[g].flagged
  BY DEF Kept
<1>. QED
  BY <1>1, <1>2

\* Neither does a new process, but for the articles that are too old.
LEMMA RestartSpares ==
  ASSUME HiddenInv, NEW rows, IsRows(rows), DOMAIN rows = DOMAIN db,
         \A g \in DOMAIN db : rows[g].flagged = db[g].flagged, Restart(rows)
  PROVE  Spared(db, db')
<1> DEFINE S == {g \in DOMAIN rows : g > tooOld}
           young == [g \in S |-> rows[g]]
<1>1. db' = Limited(young)
  BY DEF Restart, Restrict
<1>2. DOMAIN young = S /\ \A g \in S : young[g] = rows[g]
  OBVIOUS
<1>3. ASSUME NEW g \in DOMAIN db, g \notin S PROVE g <= tooOld
  <2>1. g \in Nat /\ tooOld \in Nat /\ ~(g > tooOld)
    BY <1>3, GuidsAreRanks DEF HiddenInv, IsRows
  <2>. QED
    BY ONLY <2>1
<1>4. S \subseteq DOMAIN db
  OBVIOUS
<1> HIDE DEF S, young
<1>5. \A g \in S \ DOMAIN db' : ~young[g].flagged
  BY <1>1, <1>2, LimitedSpares
<1>. QED
  BY <1>2, <1>3, <1>4, <1>5 DEF Spared

\* No step removes a flagged row that is neither deleted nor too old.
LEMMA FlaggedStep == HiddenInv /\ [Next]_vars => Spared(db, db')
<1>. SUFFICES ASSUME HiddenInv, [Next]_vars PROVE Spared(db, db')
  OBVIOUS
<1>1. ASSUME DOMAIN db \subseteq DOMAIN db' PROVE Spared(db, db')
  BY <1>1 DEF Spared
<1>2. CASE UNCHANGED <<db>>
  BY <1>1, <1>2
<1>3. CASE StoreStamp
  BY <1>2, <1>3 DEF StoreStamp, Restrict, Spared
<1>4. CASE StoreItem
  <2>1. PICK g \in reload.todo :
          db' = IF g > tooOld THEN Saved(db, g, reload.doc.text[g]) ELSE db
    BY <1>4 DEF StoreItem
  <2>2. \A text : DOMAIN Saved(db, g, text) = DOMAIN db \cup {g}
    BY <1>4, SavedKeeps DEF HiddenInv, InGuids
  <2>. QED
    BY <1>1, <2>1, <2>2
<1>5. CASE ReadRows
  BY <1>5, LimitedSpares DEF ReadRows, Spared
<1>6. CASE MarkEnqueued \/ SaveUnread
  <2>1. \A g, item : DOMAIN SaveUnreadAndEnqueued(db, g, item) = DOMAIN db
    BY SaveKeeps DEF HiddenInv
  <2>2. CASE MarkEnqueued
    <3>1. PICK g \in reload.todo : db' = SaveUnreadAndEnqueued(db, g, reload.items[g])
      BY <2>2 DEF MarkEnqueued
    <3>. QED
      BY <1>1, <2>1, <3>1
  <2>3. CASE SaveUnread
    <3>1. db' = SaveUnreadAndEnqueued(db, user.on.guid, ItemAt(user.on))
      BY <2>3 DEF SaveUnread
    <3>. QED
      BY <1>1, <2>1, <3>1
  <2>. QED
    BY <1>6, <2>2, <2>3
<1>7. CASE MarkFeedRead
  BY <1>1, <1>7 DEF MarkFeedRead
<1>8. CASE MarkDeleted
  BY <1>1, <1>8 DEF MarkDeleted
<1>9. CASE SaveFlags
  BY <1>1, <1>9 DEF SaveFlags
<1>10. CASE Crash
  BY <1>10, RestartSpares DEF Crash, HiddenInv
<1>11. CASE Quit
  <2> DEFINE rows == [g \in DOMAIN db |->
               [db[g] EXCEPT !.deleted = @ \/ (DeleteReadOnQuit /\ ~db[g].unread)]]
  <2>1. Restart(rows)
    BY <1>11 DEF Quit
  <2>2. ASSUME NEW g \in DOMAIN db
        PROVE  IsRow(rows[g]) /\ rows[g].flagged = db[g].flagged
    BY DEF HiddenInv, IsRows, IsRow
  <2>3. DOMAIN rows = DOMAIN db
    OBVIOUS
  <2> HIDE DEF rows
  <2>4. IsRows(rows)
    BY <2>2, <2>3 DEF HiddenInv, IsRows
  <2>. QED
    BY <2>1, <2>2, <2>3, <2>4, RestartSpares
<1>12. CASE User
  <2>1. CASE OpenList \/ CloseList \/ PurgeList \/ OpenArticle \/ LookUpAgain \/ LeaveArticle
    BY <1>2, <2>1 DEF OpenList, CloseList, PurgeList, OpenArticle, LookUpAgain, LeaveArticle
  <2>2. CASE SetUnread \/ SetDeleted \/ SetFlags
    BY <1>2, <2>2 DEF SetUnread, SetDeleted, SetFlags
  <2>3. CASE \E op \in UserOps : PressInArticle(op) \/ \E i \in Guids : PressInList(op, i)
    BY <1>2, <2>3 DEF PressInArticle, PressInList
  <2>. QED
    BY <1>6, <1>7, <1>8, <1>9, <1>12, <2>1, <2>2, <2>3 DEF User
<1>13. CASE Reload
  <2>1. CASE Fetch \/ StartStore \/ StoreFails \/ ShowFeed \/ EnqueueItem \/ NotifyList
    BY <1>2, <2>1 DEF Fetch, StartStore, StoreFails, ShowFeed, EnqueueItem, NotifyList
  <2>. QED
    BY <1>3, <1>4, <1>5, <1>6, <1>13, <2>1 DEF Reload
<1>. QED
  BY <1>2, <1>10, <1>11, <1>12, <1>13 DEF Next, Age, Publish, program, vars

\* The limits never remove a flagged article that is not deleted, but for
\* keep-articles-days, however many articles there are.
THEOREM FlaggedKept == Spec => FlaggedStays
<1>1. HiddenInv /\ [Next]_vars =>
        [\A g \in DOMAIN db \ DOMAIN db' : db[g].flagged => db[g].deleted \/ g <= tooOld]_vars
  BY FlaggedStep DEF Spared
<1>. QED
  BY <1>1, HiddenInit, HiddenStep, PTL DEF Spec, FlaggedStays

-----------------------------------------------------------------------------
(* Rows and items                                                            *)

LEMMA CacheFacts ==
  ASSUME NEW d, IsCache(d)
  PROVE  /\ DOMAIN d \subseteq Guids
         /\ d \in [DOMAIN d -> Row]
         /\ \A g \in DOMAIN d : d[g] \in Row /\ ItemOf(d[g]) \in Item
BY DEF IsCache, Row, Item, ItemOf

LEMMA ListFacts ==
  ASSUME NEW items, IsList(items)
  PROVE  /\ DOMAIN items \subseteq Guids
         /\ items \in [DOMAIN items -> Item]
         /\ \A g \in DOMAIN items : items[g] \in Item
BY DEF IsList

LEMMA EmptyList == IsList(<<>>) /\ IsCache(<<>>)
<1>1. <<>> = [g \in {} |-> Dummy]
  OBVIOUS
<1>2. <<>> \in [{} -> Item] /\ <<>> \in [{} -> Row]
  BY <1>1
<1>. QED
  BY <1>2 DEF IsList, IsCache

\* An item or a row takes the place of another one.
LEMMA ItemReplaced ==
  ASSUME NEW items, IsList(items), NEW g, NEW item \in Item
  PROVE  LET new == [items EXCEPT ![g] = item]
         IN  /\ IsList(new) /\ DOMAIN new = DOMAIN items
             /\ g \in DOMAIN items => new[g] = item
             /\ \A h \in DOMAIN items : h # g => new[h] = items[h]
BY ListFacts DEF IsList

LEMMA RowReplaced ==
  ASSUME NEW d, IsCache(d), NEW g, NEW row \in Row
  PROVE  LET new == [d EXCEPT ![g] = row]
         IN  /\ IsCache(new) /\ DOMAIN new = DOMAIN d
             /\ g \in DOMAIN d => new[g] = row
             /\ \A h \in DOMAIN d : h # g => new[h] = d[h]
BY CacheFacts DEF IsCache

\* The limit removes rows, and loading shows what it leaves and is not deleted.
LEMMA LimitedRows ==
  ASSUME NEW d, IsCache(d)
  PROVE  /\ IsCache(Limited(d)) /\ DOMAIN Limited(d) = DOMAIN d \ (Shown(d) \ Kept(d))
         /\ \A g \in DOMAIN Limited(d) : Limited(d)[g] = d[g]
<1>1. Limited(d) = [g \in DOMAIN d \ (Shown(d) \ Kept(d)) |-> d[g]]
  BY DEF Limited, Restrict
<1>2. DOMAIN d \ (Shown(d) \ Kept(d)) \in SUBSET Guids
  BY CacheFacts
<1>. QED
  BY <1>1, <1>2, CacheFacts DEF IsCache

LEMMA LoadedItems ==
  ASSUME NEW d, IsCache(d)
  PROVE  /\ IsList(Loaded(d)) /\ DOMAIN Loaded(d) = Kept(d)
         /\ Kept(d) \subseteq DOMAIN d /\ Kept(d) \subseteq DOMAIN Limited(d)
         /\ \A g \in Kept(d) : Loaded(d)[g] = ItemOf(d[g]) /\ ~d[g].deleted
<1>1. Kept(d) \subseteq Shown(d) /\ Shown(d) \subseteq DOMAIN d
  BY DEF Kept, Shown
<1>2. \A g \in Kept(d) : ~d[g].deleted
  BY DEF Kept, Shown
<1>3. Loaded(d) = [g \in Kept(d) |-> ItemOf(d[g])]
  BY DEF Loaded
<1>4. IsList(Loaded(d))
  BY <1>1, <1>3, CacheFacts DEF IsList
<1>. QED
  BY <1>1, <1>2, <1>3, <1>4, LimitedRows

LEMMA PurgedItems ==
  ASSUME NEW items, IsList(items)
  PROVE  /\ IsList(Purged(items)) /\ DOMAIN Purged(items) \subseteq DOMAIN items
         /\ \A g \in DOMAIN Purged(items) : Purged(items)[g] = items[g]
<1> DEFINE S == {g \in DOMAIN items : ~items[g].deleted}
<1>1. Purged(items) = [g \in S |-> items[g]] /\ S \subseteq DOMAIN items
  BY DEF Purged, Restrict
<1> HIDE DEF S
<1>. QED
  BY <1>1, ListFacts DEF IsList

\* What a download stores: the row of one article, its flags but for unread.
LEMMA SavedRow ==
  ASSUME NEW d, IsCache(d), NEW g \in Guids, NEW text \in 1 .. MaxVersion
  PROVE  /\ IsCache(Saved(d, g, text)) /\ DOMAIN Saved(d, g, text) = DOMAIN d \cup {g}
         /\ \A h \in DOMAIN d : h # g => Saved(d, g, text)[h] = d[h]
         /\ Saved(d, g, text)[g].text = text
         /\ g \in DOMAIN d =>
              /\ Saved(d, g, text)[g].enqueued = d[g].enqueued
              /\ ~d[g].unread /\ Saved(d, g, text)[g].unread => ResetUnread /\ d[g].text # text
<1> DEFINE old == [d[g] EXCEPT !.text = text, !.unread = @ \/ (ResetUnread /\ d[g].text # text)]
<1>1. CASE g \in DOMAIN d
  <2>1. d[g] \in Row
    BY <1>1, CacheFacts
  <2>2. old \in Row /\ old.text = text /\ old.enqueued = d[g].enqueued
        /\ old.unread = (d[g].unread \/ (ResetUnread /\ d[g].text # text))
    BY <2>1 DEF Row
  <2>3. Saved(d, g, text) = [d EXCEPT ![g] = old]
    BY <1>1 DEF Saved
  <2> HIDE DEF old
  <2>4. LET new == [d EXCEPT ![g] = old]
        IN  /\ IsCache(new) /\ DOMAIN new = DOMAIN d /\ new[g] = old
            /\ \A h \in DOMAIN d : h # g => new[h] = d[h]
    BY <1>1, <2>2, RowReplaced
  <2>5. DOMAIN d = DOMAIN d \cup {g}
    BY <1>1
  <2>. QED
    BY <2>2, <2>3, <2>4, <2>5
<1>2. CASE g \notin DOMAIN d
  <2>1. NewRow(text) \in Row /\ NewRow(text).text = text
    BY DEF NewRow, Row
  <2>2. Saved(d, g, text) = [h \in DOMAIN d \cup {g} |-> IF h = g THEN NewRow(text) ELSE d[h]]
    BY <1>2 DEF Saved, Inserted
  <2>3. DOMAIN d \cup {g} \in SUBSET Guids
    BY CacheFacts
  <2>4. \A h \in DOMAIN d \cup {g} : (IF h = g THEN NewRow(text) ELSE d[h]) \in Row
    BY <2>1, CacheFacts
  <2>5. Saved(d, g, text) \in [DOMAIN d \cup {g} -> Row]
    BY <2>2, <2>4
  <2>6. IsCache(Saved(d, g, text)) /\ DOMAIN Saved(d, g, text) = DOMAIN d \cup {g}
    BY <2>3, <2>5 DEF IsCache
  <2>7. /\ Saved(d, g, text)[g] = NewRow(text)
        /\ \A h \in DOMAIN d : h # g => Saved(d, g, text)[h] = d[h]
    BY <2>2
  <2>. QED
    BY <1>2, <2>1, <2>6, <2>7
<1>. QED
  BY <1>1, <1>2

\* What an UPDATE of both flags does to the rows.
LEMMA FlagsSaved ==
  ASSUME NEW d, IsCache(d), NEW g, NEW item \in Item
  PROVE  LET new == SaveUnreadAndEnqueued(d, g, item)
         IN  /\ IsCache(new) /\ DOMAIN new = DOMAIN d
             /\ \A h \in DOMAIN d : h # g => new[h] = d[h]
             /\ g \in DOMAIN d =>
                  /\ new[g].unread = item.unread /\ new[g].enqueued = item.enqueued
                  /\ new[g].deleted = d[g].deleted /\ new[g].flagged = d[g].flagged
                  /\ new[g].text = d[g].text
<1> DEFINE row == [d[g] EXCEPT !.unread = item.unread, !.enqueued = item.enqueued]
           new == SaveUnreadAndEnqueued(d, g, item)
<1>1. CASE g \in DOMAIN d
  <2>1. d[g] \in Row
    BY <1>1, CacheFacts
  <2>2. /\ row \in Row /\ row.unread = item.unread /\ row.enqueued = item.enqueued
        /\ row.deleted = d[g].deleted /\ row.flagged = d[g].flagged /\ row.text = d[g].text
    BY <2>1 DEF Row, Item
  <2>3. new = [d EXCEPT ![g] = row]
    BY <1>1 DEF SaveUnreadAndEnqueued
  <2> HIDE DEF row, new
  <2>4. /\ IsCache(new) /\ DOMAIN new = DOMAIN d /\ new[g] = row
        /\ \A h \in DOMAIN d : h # g => new[h] = d[h]
    BY <1>1, <2>2, <2>3, RowReplaced
  <2>. QED
    BY <2>2, <2>4 DEF new
<1>2. CASE g \notin DOMAIN d
  BY <1>2 DEF SaveUnreadAndEnqueued
<1>. QED
  BY <1>1, <1>2

-----------------------------------------------------------------------------
(* Positions                                                                 *)

VisibleIn(S, i) == CHOOSE g \in S : Cardinality({h \in S : h >= g}) = i

\* The elements of S from its newest one on take the positions 1 .. Cardinality(S).
LEMMA Positions ==
  ASSUME NEW S, S \subseteq Nat, IsFiniteSet(S)
  PROVE  /\ \A i \in 1 .. Cardinality(S) : \E g \in S : Cardinality({h \in S : h >= g}) = i
         /\ \A g \in S : Cardinality({h \in S : h >= g}) \in 1 .. Cardinality(S)
         /\ \A g, x \in S : g < x => Cardinality({h \in S : h >= x}) < Cardinality({h \in S : h >= g})
<1> DEFINE From(g) == {h \in S : h >= g}
           n == Cardinality(S)
<1>0. n \in Nat
  BY FS_CardinalityType
<1>1. ASSUME NEW g \in S
      PROVE  IsFiniteSet(From(g)) /\ Cardinality(From(g)) \in 1 .. n
  <2>1. From(g) \subseteq S /\ g \in From(g)
    OBVIOUS
  <2> HIDE DEF From
  <2>2. IsFiniteSet(From(g)) /\ Cardinality(From(g)) <= n
    BY <2>1, FS_Subset
  <2>3. Cardinality(From(g)) \in Nat /\ Cardinality(From(g)) # 0
    BY <2>1, <2>2, FS_CardinalityType, FS_EmptySet
  <2>. QED
    BY <1>0, <2>2, <2>3
<1>2. ASSUME NEW g \in S, NEW x \in S, g < x
      PROVE  Cardinality(From(x)) < Cardinality(From(g))
  <2>1. From(x) \subseteq From(g) /\ g \in From(g) /\ g \notin From(x)
    <3>1. \A h \in S : h \in Nat
      OBVIOUS
    <3>2. g \in Nat /\ x \in Nat
      BY <3>1
    <3>3. \A h \in S : h >= x => h >= g
      <4>1. \A h \in Nat : h >= x => h >= g
        BY <1>2, <3>2
      <4>. QED
        BY <3>1, <4>1
    <3>4. g >= g /\ ~(g >= x)
      BY <1>2, <3>2
    <3>. QED
      BY <3>3, <3>4
  <2> HIDE DEF From
  <2>2. From(x) # From(g)
    BY <2>1
  <2>3. Cardinality(From(x)) <= Cardinality(From(g)) /\ Cardinality(From(x)) # Cardinality(From(g))
    BY <1>1, <2>1, <2>2, FS_Subset
  <2>4. Cardinality(From(x)) \in Nat /\ Cardinality(From(g)) \in Nat
    BY <1>1, FS_CardinalityType
  <2>. QED
    BY <2>3, <2>4
<1> DEFINE rank == [g \in S |-> Cardinality(From(g))]
<1>3. rank \in Injection(S, 1 .. n)
  <2>1. \A g \in S : rank[g] \in 1 .. n
    BY <1>1
  <2>2. \A g, x \in S : rank[g] = rank[x] => g = x
    <3>1. \A g \in S : rank[g] = Cardinality(From(g)) /\ rank[g] \in 1 .. n
      BY <2>1
    <3>2. \A g, x \in S : g < x => rank[x] < rank[g]
      BY <1>2, <3>1
    <3> HIDE DEF rank, n, From
    <3>3. \A g, x \in S : g # x => g < x \/ x < g
      OBVIOUS
    <3>. QED
      BY <1>0, <3>1, <3>2, <3>3
  <2> HIDE DEF n
  <2>3. rank \in [S -> 1 .. n]
    BY <2>1
  <2>. QED
    BY <2>2, <2>3 DEF Injection, IsInjective
<1>4. IsFiniteSet(1 .. n) /\ Cardinality(1 .. n) = n
  BY <1>0, FS_Interval
<1> HIDE DEF rank
<1>5. rank \in Surjection(S, 1 .. n)
  BY <1>3, <1>4, FS_Injection DEF n
<1>6. \A i \in 1 .. n : \E g \in S : rank[g] = i
  BY <1>5 DEF Surjection
<1>7. \A i \in 1 .. n : \E g \in S : Cardinality(From(g)) = i
  BY <1>6 DEF rank
<1>. QED
  BY <1>1, <1>2, <1>7

LEMMA VisibleInList ==
  ASSUME NEW S, S \subseteq Guids, NEW i \in 1 .. Cardinality(S)
  PROVE  VisibleIn(S, i) \in S
<1>1. S \subseteq Nat /\ IsFiniteSet(S)
  BY GuidsAreRanks, FS_Subset
<1>. QED
  BY <1>1, Positions DEF VisibleIn

-----------------------------------------------------------------------------
(* The steps an operation has left                                           *)

\* The next step is to write a row, or will be without another one for the item.
WillSave(p) == p # <<>> /\ Head(p) = "save"
WillDelete(p) == p # <<>> /\ Head(p) = "mark"
WillUndelete(p) == p # <<>> /\ (Head(p) = "unmark" \/ p = <<"again", "unmark", "toggle">>)
WillMark(p) == p # <<>> /\ (Head(p) = "judge" \/ WillDelete(p) \/ WillUndelete(p))
WillFlag(p) == p # <<>> /\ (Head(p) = "saveFlags" \/ p = <<"again", "saveFlags">>)
WillWrite(p) == WillSave(p) \/ WillMark(p) \/ WillFlag(p)

LEMMA Tuples ==
  /\ \A a : <<a>> # <<>> /\ Head(<<a>>) = a /\ Tail(<<a>>) = <<>>
  /\ \A a, b : <<a, b>> # <<>> /\ Head(<<a, b>>) = a /\ Tail(<<a, b>>) = <<b>>
  /\ \A a, b, c : <<a, b, c>> # <<>> /\ Head(<<a, b, c>>) = a /\ Tail(<<a, b, c>>) = <<b, c>>
  /\ \A a, b, c, d : <<a, b, c, d>> # <<>> /\ Head(<<a, b, c, d>>) = a
                     /\ Tail(<<a, b, c, d>>) = <<b, c, d>>
<1>1. \A a : <<a>> # <<>> /\ Head(<<a>>) = a /\ Tail(<<a>>) = <<>>
  OBVIOUS
<1>2. \A a, b : <<a, b>> # <<>> /\ Head(<<a, b>>) = a /\ Tail(<<a, b>>) = <<b>>
  OBVIOUS
<1>3. \A a, b, c : <<a, b, c>> # <<>> /\ Head(<<a, b, c>>) = a /\ Tail(<<a, b, c>>) = <<b, c>>
  OBVIOUS
<1>4. \A a, b, c, d : <<a, b, c, d>> # <<>> /\ Head(<<a, b, c, d>>) = a
                      /\ Tail(<<a, b, c, d>>) = <<b, c, d>>
  OBVIOUS
<1>. QED
  BY <1>1, <1>2, <1>3, <1>4

\* Steps put before others.
LEMMA PrefixedThree ==
  ASSUME NEW x, NEW a, NEW b, NEW c
  PROVE  <<x>> \o <<a, b, c>> = <<x, a, b, c>>
<1> DEFINE S == {x, a, b, c}
           s == <<x>> \o <<a, b, c>>
           t == <<x, a, b, c>>
<1>1. <<x>> \in Seq(S) /\ <<a, b, c>> \in Seq(S) /\ t \in Seq(S)
  OBVIOUS
<1> HIDE DEF S
<1>2. s \in Seq(S) /\ Len(s) = 4 /\ s[1] = x /\ s[2] = a /\ s[3] = b /\ s[4] = c
  BY <1>1
<1>3. Len(t) = 4 /\ t[1] = x /\ t[2] = a /\ t[3] = b /\ t[4] = c
  OBVIOUS
<1> HIDE DEF s, t
<1>4. \A i \in 1 .. 4 : s[i] = t[i]
  BY <1>2, <1>3
<1>5. s = t
  BY <1>1, <1>2, <1>3, <1>4, SeqEqual
<1>. QED
  BY <1>5 DEF s, t

LEMMA Prefixed ==
  /\ \A x : <<x>> \o <<>> = <<x>>
  /\ \A x, a : <<x>> \o <<a>> = <<x, a>>
  /\ \A x, a, b : <<x>> \o <<a, b>> = <<x, a, b>>
  /\ \A x, a, b, c : <<x>> \o <<a, b, c>> = <<x, a, b, c>>
  /\ \A a : <<>> \o <<a>> = <<a>>
  /\ \A a, b : <<>> \o <<a, b>> = <<a, b>>
<1>1. \A x : <<x>> \o <<>> = <<x>>
  OBVIOUS
<1>2. ASSUME NEW x, NEW a PROVE <<x>> \o <<a>> = <<x, a>>
  <2> DEFINE S == {x, a}
             s == <<x>> \o <<a>>
             t == <<x, a>>
  <2>1. <<x>> \in Seq(S) /\ <<a>> \in Seq(S) /\ t \in Seq(S)
    OBVIOUS
  <2> HIDE DEF S
  <2>2. s \in Seq(S) /\ Len(s) = 2 /\ s[1] = x /\ s[2] = a
    BY <2>1
  <2>3. Len(t) = 2 /\ t[1] = x /\ t[2] = a
    OBVIOUS
  <2> HIDE DEF s, t
  <2>4. \A i \in 1 .. 2 : s[i] = t[i]
    BY <2>2, <2>3
  <2>5. s = t
    BY <2>1, <2>2, <2>3, <2>4, SeqEqual
  <2>. QED
    BY <2>5 DEF s, t
<1>3. ASSUME NEW x, NEW a, NEW b PROVE <<x>> \o <<a, b>> = <<x, a, b>>
  <2> DEFINE S == {x, a, b}
             s == <<x>> \o <<a, b>>
             t == <<x, a, b>>
  <2>1. <<x>> \in Seq(S) /\ <<a, b>> \in Seq(S) /\ t \in Seq(S)
    OBVIOUS
  <2> HIDE DEF S
  <2>2. s \in Seq(S) /\ Len(s) = 3 /\ s[1] = x /\ s[2] = a /\ s[3] = b
    BY <2>1
  <2>3. Len(t) = 3 /\ t[1] = x /\ t[2] = a /\ t[3] = b
    OBVIOUS
  <2> HIDE DEF s, t
  <2>4. \A i \in 1 .. 3 : s[i] = t[i]
    BY <2>2, <2>3
  <2>5. s = t
    BY <2>1, <2>2, <2>3, <2>4, SeqEqual
  <2>. QED
    BY <2>5 DEF s, t
<1>4. \A x, a, b, c : <<x>> \o <<a, b, c>> = <<x, a, b, c>>
  BY Zenon, PrefixedThree
<1>5. ASSUME NEW a PROVE <<>> \o <<a>> = <<a>>
  <2> DEFINE s == <<a>>
  <2>1. s \in Seq({a})
    OBVIOUS
  <2> HIDE DEF s
  <2>2. <<>> \o s = s
    BY <2>1, ConcatEmptySeq
  <2>. QED
    BY <2>2 DEF s
<1>6. ASSUME NEW a, NEW b PROVE <<>> \o <<a, b>> = <<a, b>>
  <2> DEFINE s == <<a, b>>
  <2>1. s \in Seq({a, b})
    OBVIOUS
  <2> HIDE DEF s
  <2>2. <<>> \o s = s
    BY <2>1, ConcatEmptySeq
  <2>. QED
    BY <2>2 DEF s
<1>. QED
  BY Zenon, <1>1, <1>2, <1>3, <1>4, <1>5, <1>6

\* The plans by their first step.
LEMMA ListSteps ==
  ASSUME NEW p \in ListPlans
  PROVE  /\ p # <<>>
         /\ Head(p) = "read" => p = <<"read", "flip", "judge">>
         /\ Head(p) = "save" => p \in {<<"save", "flip", "judge">>, <<"save">>}
         /\ Head(p) = "flip" => p = <<"flip", "judge">>
         /\ Head(p) = "judge" => p = <<"judge">>
         /\ Head(p) = "mark" => p = <<"mark">>
         /\ Head(p) = "unmark" => p \in {<<"unmark">>, <<"unmark", "toggle">>}
         /\ Head(p) = "undelete" => p = <<"undelete", "again", "unmark", "toggle">>
         /\ Head(p) = "again" => p \in {<<"again", "unmark", "toggle">>, <<"again", "saveFlags">>}
         /\ Head(p) = "toggle" => p = <<"toggle">>
         /\ Head(p) = "flag" => p = <<"flag", "again", "saveFlags">>
         /\ Head(p) = "saveFlags" => p = <<"saveFlags">>
         /\ Head(p) \notin {"unread", "delete", "close", "next"}
<1>1. p # <<>>
  BY SMTT(20) DEF ListPlans
<1>2. Head(p) = "read" => p = <<"read", "flip", "judge">>
  BY SMTT(20) DEF ListPlans
<1>3. Head(p) = "save" => p \in {<<"save", "flip", "judge">>, <<"save">>}
  BY SMTT(20) DEF ListPlans
<1>4. Head(p) = "flip" => p = <<"flip", "judge">>
  BY SMTT(20) DEF ListPlans
<1>5. Head(p) = "judge" => p = <<"judge">>
  BY SMTT(20) DEF ListPlans
<1>6. Head(p) = "mark" => p = <<"mark">>
  BY SMTT(20) DEF ListPlans
<1>7. Head(p) = "unmark" => p \in {<<"unmark">>, <<"unmark", "toggle">>}
  BY SMTT(20) DEF ListPlans
<1>8. Head(p) = "undelete" => p = <<"undelete", "again", "unmark", "toggle">>
  BY SMTT(20) DEF ListPlans
<1>9. Head(p) = "again" => p \in {<<"again", "unmark", "toggle">>, <<"again", "saveFlags">>}
  BY SMTT(20) DEF ListPlans
<1>10. Head(p) = "toggle" => p = <<"toggle">>
  BY SMTT(20) DEF ListPlans
<1>11. Head(p) = "flag" => p = <<"flag", "again", "saveFlags">>
  BY SMTT(20) DEF ListPlans
<1>12. Head(p) = "saveFlags" => p = <<"saveFlags">>
  BY SMTT(20) DEF ListPlans
<1>13. Head(p) \notin {"unread", "delete", "close", "next"}
  BY SMTT(20) DEF ListPlans
<1>. QED
  BY <1>1, <1>2, <1>3, <1>4, <1>5, <1>6, <1>7, <1>8, <1>9, <1>10, <1>11, <1>12, <1>13

LEMMA ArticleSteps ==
  ASSUME NEW p \in ArticlePlans
  PROVE  /\ p # <<>>
         /\ Head(p) = "read" => p \in {<<"read", "delete", "mark", "next">>, <<"read", "unread", "close">>,
                                       <<"read", "close">>, <<"read", "again", "flag", "saveFlags">>}
         /\ Head(p) = "save" => p \in {<<"save", "delete", "mark", "next">>, <<"save", "unread", "close">>,
                                       <<"save", "close">>, <<"save", "again", "flag", "saveFlags">>}
         /\ Head(p) = "delete" => p = <<"delete", "mark", "next">>
         /\ Head(p) = "mark" => p = <<"mark", "next">>
         /\ Head(p) = "unread" => p = <<"unread", "close">>
         /\ Head(p) = "again" => p = <<"again", "flag", "saveFlags">>
         /\ Head(p) = "flag" => p = <<"flag", "saveFlags">>
         /\ Head(p) = "saveFlags" => p = <<"saveFlags">>
         /\ Head(p) = "next" => p = <<"next">>
         /\ Head(p) = "close" => p = <<"close">>
         /\ Head(p) \notin {"flip", "judge", "unmark", "undelete", "toggle"}
<1>1. p # <<>>
  BY SMTT(20) DEF ArticlePlans
<1>2. Head(p) = "read" => p \in {<<"read", "delete", "mark", "next">>, <<"read", "unread", "close">>,
       <<"read", "close">>, <<"read", "again", "flag", "saveFlags">>}
  BY SMTT(20) DEF ArticlePlans
<1>3. Head(p) = "save" => p \in {<<"save", "delete", "mark", "next">>, <<"save", "unread", "close">>,
       <<"save", "close">>, <<"save", "again", "flag", "saveFlags">>}
  BY SMTT(20) DEF ArticlePlans
<1>4. Head(p) = "delete" => p = <<"delete", "mark", "next">>
  BY SMTT(20) DEF ArticlePlans
<1>5. Head(p) = "mark" => p = <<"mark", "next">>
  BY SMTT(20) DEF ArticlePlans
<1>6. Head(p) = "unread" => p = <<"unread", "close">>
  BY SMTT(20) DEF ArticlePlans
<1>7. Head(p) = "again" => p = <<"again", "flag", "saveFlags">>
  BY SMTT(20) DEF ArticlePlans
<1>8. Head(p) = "flag" => p = <<"flag", "saveFlags">>
  BY SMTT(20) DEF ArticlePlans
<1>9. Head(p) = "saveFlags" => p = <<"saveFlags">>
  BY SMTT(20) DEF ArticlePlans
<1>10. Head(p) = "next" => p = <<"next">>
  BY SMTT(20) DEF ArticlePlans
<1>11. Head(p) = "close" => p = <<"close">>
  BY SMTT(20) DEF ArticlePlans
<1>12. Head(p) \notin {"flip", "judge", "unmark", "undelete", "toggle"}
  BY SMTT(20) DEF ArticlePlans
<1>. QED
  BY <1>1, <1>2, <1>3, <1>4, <1>5, <1>6, <1>7, <1>8, <1>9, <1>10, <1>11, <1>12

-----------------------------------------------------------------------------
(* The invariant                                                             *)

\* The main thread's operation is one of the screen it is on, and an item it holds
\* is the one at its position, unless a reload has replaced the list since: then
\* no article of the list is deleted.
UserInv ==
  /\ ~Idle /\ user.pos # 0 =>
       /\ user.todo \in ListPlans /\ screen = "list"
       /\ ~user.on.own => /\ user.pos \in 1 .. Cardinality(DOMAIN listed)
                          /\ user.on.guid = VisibleIn(DOMAIN listed, user.pos)
       /\ user.on.own => \A g \in DOMAIN listed : ~listed[g].deleted
  /\ ~Idle /\ user.pos = 0 =>
       /\ user.todo \in ArticlePlans /\ screen = "article"
       /\ user.on.own => article.feed # "listed"
       /\ ~user.on.own => article.feed = "listed" /\ user.on.guid = article.guid
  /\ article.feed = "listed" => article.guid \in DOMAIN listed /\ screen = "article"
  /\ ~user.on.own => /\ WillDelete(user.todo) => listed[user.on.guid].deleted
                     /\ WillUndelete(user.todo) => ~listed[user.on.guid].deleted

\* The operation is on the list's item of g, and not yet written to its row.
Pending(g) == ~Idle /\ ~user.on.own /\ user.on.guid = g

\* Row and item of g agree, but for what the operation has not written yet.
Listing(g) ==
  /\ g \in DOMAIN db
  /\ db[g].enqueued = listed[g].enqueued
  /\ db[g].unread = listed[g].unread \/ (Pending(g) /\ WillSave(user.todo))
  /\ db[g].deleted = listed[g].deleted \/ (Pending(g) /\ WillMark(user.todo))
  /\ db[g].flagged = listed[g].flagged \/ (Pending(g) /\ WillFlag(user.todo))
Reading == {"enqueue", "mark", "notify"}
ListInv == reload.pc \notin Reading => \A g \in DOMAIN listed \ touched : Listing(g)

\* Row and item of g agree, for an item a reload has read and not shown yet.
Newest(S) == {g \in S : \A h \in S : g >= h}
Loading(g) ==
  /\ g \in DOMAIN db
  /\ db[g].unread = reload.items[g].unread
  /\ db[g].deleted = reload.items[g].deleted
  /\ db[g].flagged = reload.items[g].flagged
  /\ db[g].enqueued = reload.items[g].enqueued \/ (At("mark") /\ g \in Newest(reload.todo))
ReadInv == reload.pc \in Reading \cup {"show"} =>
  /\ \A g \in DOMAIN reload.items : ~reload.items[g].deleted
  /\ \A g \in DOMAIN reload.items \ touched : Loading(g)
QueueInv == /\ reload.pc \in {"enqueue", "mark"} => reload.todo \subseteq DOMAIN reload.items
            /\ At("mark") => \A g \in Newest(reload.todo) : reload.items[g].enqueued

\* What a reload stores is a document.
DocInv == reload.pc \in {"stamp", "lock", "store", "read"} => reload.doc \in Document

ArticlesInv == TypeOK /\ UserInv /\ ListInv /\ ReadInv /\ QueueInv /\ DocInv

-----------------------------------------------------------------------------
(* What the main thread holds                                                *)

LEMMA HeldItem ==
  ASSUME TypeOK, UserInv, ~Idle
  PROVE  /\ user.on \in Handle /\ user.todo \in ListPlans \cup ArticlePlans
         /\ ~user.on.own => user.on.guid \in DOMAIN listed
         /\ ItemAt(user.on) \in Item
<1>1. user.on \in Handle /\ user.todo \in ListPlans \cup ArticlePlans
  BY DEF TypeOK, UserTyped, Idle
<1>2. IsList(listed) /\ DOMAIN listed \subseteq Guids
  BY ListFacts DEF TypeOK
<1>3. ~user.on.own => user.on.guid \in DOMAIN listed
  BY <1>2, VisibleInList DEF UserInv
<1>. QED
  BY <1>1, <1>2, <1>3, ListFacts DEF ItemAt, Handle

LEMMA VisibleAs == \A i : VisibleAt(i) = VisibleIn(DOMAIN listed, i)
BY DEF VisibleAt, VisibleIn

\* The item that a step of the operation works on.
LEMMA TargetItem ==
  ASSUME TypeOK, UserInv, ~Idle, InRange
  PROVE  /\ Target \in Handle /\ ItemAt(Target) \in Item
         /\ ~Target.own => Target.guid \in DOMAIN listed
         /\ user.pos # 0 => /\ ~Target.own /\ user.pos \in 1 .. Cardinality(DOMAIN listed)
                            /\ Target.guid = VisibleIn(DOMAIN listed, user.pos)
         /\ user.pos = 0 => Target = user.on
         /\ ~user.on.own => ~Target.own /\ Target.guid = user.on.guid
<1>1. CASE user.pos = 0
  BY <1>1, HeldItem DEF Target
<1>2. CASE user.pos # 0
  <2>1. Target = InList(VisibleIn(DOMAIN listed, user.pos))
    BY <1>2, VisibleAs DEF Target
  <2>2. IsFiniteSet(DOMAIN listed) /\ DOMAIN listed \subseteq Guids /\ IsList(listed)
    BY ListFacts, GuidsAreRanks, FS_Subset DEF TypeOK
  <2>3. user.pos \in 1 .. Cardinality(DOMAIN listed)
    <3>1. user.pos \in Nat /\ Cardinality(DOMAIN listed) \in Nat
          /\ user.pos <= Cardinality(DOMAIN listed)
      BY <2>2, FS_CardinalityType DEF TypeOK, UserTyped, InRange
    <3>. QED
      BY <1>2, <3>1
  <2>4. VisibleIn(DOMAIN listed, user.pos) \in DOMAIN listed
    BY <2>2, <2>3, VisibleInList
  <2> DEFINE g == VisibleIn(DOMAIN listed, user.pos)
  <2>5. Target.guid = g /\ Target.own = FALSE /\ Target \in Handle
    BY <2>1, <2>2, <2>4 DEF InList, Handle, Dummy, Item
  <2>6. ItemAt(Target) \in Item
    BY <2>2, <2>4, <2>5, ListFacts DEF ItemAt
  <2>. QED
    BY <1>2, <2>3, <2>4, <2>5, <2>6 DEF UserInv
<1>. QED
  BY <1>1, <1>2

-----------------------------------------------------------------------------
(* From one step of an operation to the next                                 *)

PlansAt(pos) == IF pos = 0 THEN ArticlePlans ELSE ListPlans

\* Unless the item is looked up again next, the next step tells what is written.
LEMMA WillByHead ==
  ASSUME NEW p, p # <<>>, Head(p) # "again"
  PROVE  /\ WillSave(p) <=> Head(p) = "save"
         /\ WillDelete(p) <=> Head(p) = "mark"
         /\ WillUndelete(p) <=> Head(p) = "unmark"
         /\ WillMark(p) <=> Head(p) \in {"judge", "mark", "unmark"}
         /\ WillFlag(p) <=> Head(p) = "saveFlags"
<1>1. p # <<"again", "unmark", "toggle">> /\ p # <<"again", "saveFlags">>
  OBVIOUS
<1>2. WillDelete(p) <=> Head(p) = "mark"
  BY DEF WillDelete
<1>3. WillUndelete(p) <=> Head(p) = "unmark"
  BY Zenon, <1>1 DEF WillUndelete
<1>4. WillMark(p) <=> Head(p) \in {"judge", "mark", "unmark"}
  BY Zenon, <1>2, <1>3 DEF WillMark
<1>5. WillSave(p) <=> Head(p) = "save"
  BY DEF WillSave
<1>6. WillFlag(p) <=> Head(p) = "saveFlags"
  BY Zenon, <1>1 DEF WillFlag
<1>. QED
  BY <1>2, <1>3, <1>4, <1>5, <1>6

LEMMA NothingLeft == ~WillWrite(<<>>) /\ ~WillDelete(<<>>) /\ ~WillUndelete(<<>>)
BY DEF WillWrite, WillSave, WillMark, WillDelete, WillUndelete, WillFlag

\* A step that sets the unread flag is followed by the others, or first by the
\* one that writes it.
LEMMA UnreadSteps ==
  ASSUME NEW pos, NEW p \in PlansAt(pos), Head(p) \in {"read", "unread", "toggle"},
         NEW q, q = Tail(p) \/ q = <<"save">> \o Tail(p)
  PROVE  /\ ~WillWrite(p)
         /\ q \in PlansAt(pos) \cup {<<>>} /\ ~WillDelete(q) /\ ~WillUndelete(q)
         /\ q = <<"save">> \o Tail(p) => WillSave(q)
<1>1. p # <<>>
  BY ListSteps, ArticleSteps DEF PlansAt
<1>2. ~WillWrite(p)
  BY <1>1, WillByHead DEF WillWrite
<1>3. \/ pos # 0 /\ (p = <<"read", "flip", "judge">> \/ p = <<"toggle">>)
      \/ pos = 0 /\ (p = <<"read", "delete", "mark", "next">>
                     \/ p = <<"read", "unread", "close">>
                     \/ p = <<"read", "close">>
                     \/ p = <<"read", "again", "flag", "saveFlags">>
                     \/ p = <<"unread", "close">>)
  BY ListSteps, ArticleSteps DEF PlansAt
<1>4. CASE pos # 0 /\ p = <<"read", "flip", "judge">>
  <2>1. Tail(p) = <<"flip", "judge">>
    BY <1>4
  <2>2. <<"save">> \o <<"flip", "judge">> = <<"save", "flip", "judge">>
    BY ZenonT(30), Prefixed
  <2>3. <<"flip", "judge">> \in PlansAt(pos) /\ <<"save", "flip", "judge">> \in PlansAt(pos)
    BY Zenon, <1>4 DEF PlansAt, ListPlans
  <2>4. ~WillDelete(<<"flip", "judge">>) /\ ~WillUndelete(<<"flip", "judge">>)
    BY DEF WillDelete, WillUndelete
  <2>5. ~WillDelete(<<"save", "flip", "judge">>) /\ ~WillUndelete(<<"save", "flip", "judge">>)
        /\ WillSave(<<"save", "flip", "judge">>)
    BY DEF WillSave, WillDelete, WillUndelete
  <2>6. q = <<"flip", "judge">> \/ q = <<"save", "flip", "judge">>
    BY <2>1, <2>2
  <2>7. <<"flip", "judge">> # <<"save", "flip", "judge">>
    OBVIOUS
  <2>. QED
    BY Zenon, <1>2, <2>1, <2>2, <2>3, <2>4, <2>5, <2>6, <2>7
<1>5. CASE pos # 0 /\ p = <<"toggle">>
  <2>1. Tail(p) = <<>>
    BY <1>5
  <2>2. <<"save">> \o <<>> = <<"save">>
    BY ZenonT(30), Prefixed
  <2>3. <<"save">> \in PlansAt(pos)
    BY Zenon, <1>5 DEF PlansAt, ListPlans
  <2>4. ~WillDelete(<<>>) /\ ~WillUndelete(<<>>)
    BY NothingLeft
  <2>5. ~WillDelete(<<"save">>) /\ ~WillUndelete(<<"save">>) /\ WillSave(<<"save">>)
    BY DEF WillSave, WillDelete, WillUndelete
  <2>6. q = <<>> \/ q = <<"save">>
    BY <2>1, <2>2
  <2>7. <<>> # <<"save">>
    OBVIOUS
  <2>. QED
    BY Zenon, <1>2, <2>1, <2>2, <2>3, <2>4, <2>5, <2>6, <2>7
<1>6. CASE pos = 0 /\ p = <<"read", "delete", "mark", "next">>
  <2>1. Tail(p) = <<"delete", "mark", "next">>
    BY <1>6
  <2>2. <<"save">> \o <<"delete", "mark", "next">> = <<"save", "delete", "mark", "next">>
    BY Zenon, PrefixedThree
  <2>3. <<"delete", "mark", "next">> \in PlansAt(pos)
        /\ <<"save", "delete", "mark", "next">> \in PlansAt(pos)
    BY Zenon, <1>6 DEF PlansAt, ArticlePlans
  <2>4. ~WillDelete(<<"delete", "mark", "next">>) /\ ~WillUndelete(<<"delete", "mark", "next">>)
    BY DEF WillDelete, WillUndelete
  <2>5. ~WillDelete(<<"save", "delete", "mark", "next">>)
        /\ ~WillUndelete(<<"save", "delete", "mark", "next">>)
           /\ WillSave(<<"save", "delete", "mark", "next">>)
    BY DEF WillSave, WillDelete, WillUndelete
  <2>6. q = <<"delete", "mark", "next">> \/ q = <<"save", "delete", "mark", "next">>
    BY <2>1, <2>2
  <2>7. <<"delete", "mark", "next">> # <<"save", "delete", "mark", "next">>
    OBVIOUS
  <2>. QED
    BY Zenon, <1>2, <2>1, <2>2, <2>3, <2>4, <2>5, <2>6, <2>7
<1>7. CASE pos = 0 /\ p = <<"read", "unread", "close">>
  <2>1. Tail(p) = <<"unread", "close">>
    BY <1>7
  <2>2. <<"save">> \o <<"unread", "close">> = <<"save", "unread", "close">>
    BY ZenonT(30), Prefixed
  <2>3. <<"unread", "close">> \in PlansAt(pos) /\ <<"save", "unread", "close">> \in PlansAt(pos)
    BY Zenon, <1>7 DEF PlansAt, ArticlePlans
  <2>4. ~WillDelete(<<"unread", "close">>) /\ ~WillUndelete(<<"unread", "close">>)
    BY DEF WillDelete, WillUndelete
  <2>5. ~WillDelete(<<"save", "unread", "close">>)
        /\ ~WillUndelete(<<"save", "unread", "close">>) /\ WillSave(<<"save", "unread", "close">>)
    BY DEF WillSave, WillDelete, WillUndelete
  <2>6. q = <<"unread", "close">> \/ q = <<"save", "unread", "close">>
    BY <2>1, <2>2
  <2>7. <<"unread", "close">> # <<"save", "unread", "close">>
    OBVIOUS
  <2>. QED
    BY Zenon, <1>2, <2>1, <2>2, <2>3, <2>4, <2>5, <2>6, <2>7
<1>8. CASE pos = 0 /\ p = <<"read", "close">>
  <2>1. Tail(p) = <<"close">>
    BY <1>8
  <2>2. <<"save">> \o <<"close">> = <<"save", "close">>
    BY ZenonT(30), Prefixed
  <2>3. <<"close">> \in PlansAt(pos) /\ <<"save", "close">> \in PlansAt(pos)
    BY Zenon, <1>8 DEF PlansAt, ArticlePlans
  <2>4. ~WillDelete(<<"close">>) /\ ~WillUndelete(<<"close">>)
    BY DEF WillDelete, WillUndelete
  <2>5. ~WillDelete(<<"save", "close">>) /\ ~WillUndelete(<<"save", "close">>)
        /\ WillSave(<<"save", "close">>)
    BY DEF WillSave, WillDelete, WillUndelete
  <2>6. q = <<"close">> \/ q = <<"save", "close">>
    BY <2>1, <2>2
  <2>7. <<"close">> # <<"save", "close">>
    OBVIOUS
  <2>. QED
    BY Zenon, <1>2, <2>1, <2>2, <2>3, <2>4, <2>5, <2>6, <2>7
<1>9. CASE pos = 0 /\ p = <<"read", "again", "flag", "saveFlags">>
  <2>1. Tail(p) = <<"again", "flag", "saveFlags">>
    BY <1>9
  <2>2. <<"save">> \o <<"again", "flag", "saveFlags">> = <<"save", "again", "flag", "saveFlags">>
    BY Zenon, PrefixedThree
  <2>3. <<"again", "flag", "saveFlags">> \in PlansAt(pos)
        /\ <<"save", "again", "flag", "saveFlags">> \in PlansAt(pos)
    BY Zenon, <1>9 DEF PlansAt, ArticlePlans
  <2>4. ~WillDelete(<<"again", "flag", "saveFlags">>) /\ ~WillUndelete(<<"again", "flag", "saveFlags">>)
    BY DEF WillDelete, WillUndelete
  <2>5. ~WillDelete(<<"save", "again", "flag", "saveFlags">>)
        /\ ~WillUndelete(<<"save", "again", "flag", "saveFlags">>)
           /\ WillSave(<<"save", "again", "flag", "saveFlags">>)
    BY DEF WillSave, WillDelete, WillUndelete
  <2>6. q = <<"again", "flag", "saveFlags">> \/ q = <<"save", "again", "flag", "saveFlags">>
    BY <2>1, <2>2
  <2>7. <<"again", "flag", "saveFlags">> # <<"save", "again", "flag", "saveFlags">>
    OBVIOUS
  <2>. QED
    BY Zenon, <1>2, <2>1, <2>2, <2>3, <2>4, <2>5, <2>6, <2>7
<1>10. CASE pos = 0 /\ p = <<"unread", "close">>
  <2>1. Tail(p) = <<"close">>
    BY <1>10
  <2>2. <<"save">> \o <<"close">> = <<"save", "close">>
    BY ZenonT(30), Prefixed
  <2>3. <<"close">> \in PlansAt(pos) /\ <<"save", "close">> \in PlansAt(pos)
    BY Zenon, <1>10 DEF PlansAt, ArticlePlans
  <2>4. ~WillDelete(<<"close">>) /\ ~WillUndelete(<<"close">>)
    BY DEF WillDelete, WillUndelete
  <2>5. ~WillDelete(<<"save", "close">>) /\ ~WillUndelete(<<"save", "close">>)
        /\ WillSave(<<"save", "close">>)
    BY DEF WillSave, WillDelete, WillUndelete
  <2>6. q = <<"close">> \/ q = <<"save", "close">>
    BY <2>1, <2>2
  <2>7. <<"close">> # <<"save", "close">>
    OBVIOUS
  <2>. QED
    BY Zenon, <1>2, <2>1, <2>2, <2>3, <2>4, <2>5, <2>6, <2>7
<1>. QED
  BY Zenon, <1>3, <1>4, <1>5, <1>6, <1>7, <1>8, <1>9, <1>10

LEMMA DeletedSteps ==
  ASSUME NEW pos, NEW p \in PlansAt(pos), Head(p) \in {"flip", "delete", "undelete"}
  PROVE  /\ ~WillWrite(p)
         /\ Tail(p) \in PlansAt(pos) /\ Tail(p) # <<>> /\ WillMark(Tail(p))
         /\ WillDelete(Tail(p)) => Head(p) = "delete"
         /\ WillUndelete(Tail(p)) => Head(p) = "undelete"
<1>1. p # <<>>
  BY ListSteps, ArticleSteps DEF PlansAt
<1>2. ~WillWrite(p)
  BY <1>1, WillByHead DEF WillWrite
<1>3. \/ pos # 0 /\ p = <<"flip", "judge">>
      \/ pos # 0 /\ p = <<"undelete", "again", "unmark", "toggle">>
      \/ pos = 0 /\ p = <<"delete", "mark", "next">>
  BY ListSteps, ArticleSteps DEF PlansAt
<1>4. CASE pos # 0 /\ p = <<"flip", "judge">>
  <2>1. Tail(p) = <<"judge">> /\ Head(p) = "flip"
    BY <1>4
  <2>2. <<"judge">> \in PlansAt(pos)
    BY Zenon, <1>4 DEF PlansAt, ListPlans
  <2>3. <<"judge">> # <<>> /\ WillMark(<<"judge">>)
    BY DEF WillMark, WillDelete, WillUndelete
  <2>4. ~WillDelete(<<"judge">>) /\ ~WillUndelete(<<"judge">>)
    BY DEF WillDelete, WillUndelete
  <2>. QED
    BY Zenon, <1>2, <2>1, <2>2, <2>3, <2>4
<1>5. CASE pos # 0 /\ p = <<"undelete", "again", "unmark", "toggle">>
  <2>1. Tail(p) = <<"again", "unmark", "toggle">> /\ Head(p) = "undelete"
    BY <1>5
  <2>2. <<"again", "unmark", "toggle">> \in PlansAt(pos)
    BY Zenon, <1>5 DEF PlansAt, ListPlans
  <2>3. <<"again", "unmark", "toggle">> # <<>> /\ WillMark(<<"again", "unmark", "toggle">>)
    BY DEF WillMark, WillDelete, WillUndelete
  <2>4. ~WillDelete(<<"again", "unmark", "toggle">>)
    BY DEF WillDelete, WillUndelete
  <2>. QED
    BY Zenon, <1>2, <2>1, <2>2, <2>3, <2>4
<1>6. CASE pos = 0 /\ p = <<"delete", "mark", "next">>
  <2>1. Tail(p) = <<"mark", "next">> /\ Head(p) = "delete"
    BY <1>6
  <2>2. <<"mark", "next">> \in PlansAt(pos)
    BY Zenon, <1>6 DEF PlansAt, ArticlePlans
  <2>3. <<"mark", "next">> # <<>> /\ WillMark(<<"mark", "next">>)
    BY DEF WillMark, WillDelete, WillUndelete
  <2>4. ~WillUndelete(<<"mark", "next">>)
    BY DEF WillDelete, WillUndelete
  <2>. QED
    BY Zenon, <1>2, <2>1, <2>2, <2>3, <2>4
<1>. QED
  BY Zenon, <1>3, <1>4, <1>5, <1>6

LEMMA FlagSteps ==
  ASSUME NEW pos, NEW p \in PlansAt(pos), Head(p) = "flag"
  PROVE  /\ ~WillWrite(p)
         /\ Tail(p) \in PlansAt(pos) /\ Tail(p) # <<>> /\ WillFlag(Tail(p))
         /\ ~WillDelete(Tail(p)) /\ ~WillUndelete(Tail(p))
<1>1. p # <<>>
  BY ListSteps, ArticleSteps DEF PlansAt
<1>2. ~WillWrite(p)
  BY <1>1, WillByHead DEF WillWrite
<1>3. \/ pos # 0 /\ p = <<"flag", "again", "saveFlags">>
      \/ pos = 0 /\ p = <<"flag", "saveFlags">>
  BY ListSteps, ArticleSteps DEF PlansAt
<1>4. CASE pos # 0 /\ p = <<"flag", "again", "saveFlags">>
  <2>1. Tail(p) = <<"again", "saveFlags">>
    BY <1>4
  <2>2. <<"again", "saveFlags">> \in PlansAt(pos)
    BY Zenon, <1>4 DEF PlansAt, ListPlans
  <2>3. <<"again", "saveFlags">> # <<>> /\ WillFlag(<<"again", "saveFlags">>)
        /\ ~WillDelete(<<"again", "saveFlags">>) /\ ~WillUndelete(<<"again", "saveFlags">>)
    BY DEF WillFlag, WillDelete, WillUndelete
  <2>. QED
    BY Zenon, <1>2, <2>1, <2>2, <2>3
<1>5. CASE pos = 0 /\ p = <<"flag", "saveFlags">>
  <2>1. Tail(p) = <<"saveFlags">>
    BY <1>5
  <2>2. <<"saveFlags">> \in PlansAt(pos)
    BY Zenon, <1>5 DEF PlansAt, ArticlePlans
  <2>3. <<"saveFlags">> # <<>> /\ WillFlag(<<"saveFlags">>) /\ ~WillDelete(<<"saveFlags">>)
        /\ ~WillUndelete(<<"saveFlags">>)
    BY DEF WillFlag, WillDelete, WillUndelete
  <2>. QED
    BY Zenon, <1>2, <2>1, <2>2, <2>3
<1>. QED
  BY Zenon, <1>3, <1>4, <1>5

\* Looking an item up again leaves the same to be written.
LEMMA AgainSteps ==
  ASSUME NEW pos, NEW p \in PlansAt(pos), Head(p) = "again", NEW q, q = <<>> \o Tail(p)
  PROVE  /\ q \in PlansAt(pos) /\ q # <<>>
         /\ ~WillSave(p) /\ ~WillSave(q) /\ ~WillDelete(q)
         /\ (WillMark(p) => WillMark(q)) /\ (WillFlag(p) => WillFlag(q))
         /\ (WillUndelete(q) => WillUndelete(p)) /\ (pos = 0 => ~WillWrite(p))
<1>1. \/ pos # 0 /\ p = <<"again", "unmark", "toggle">>
      \/ pos # 0 /\ p = <<"again", "saveFlags">>
      \/ pos = 0 /\ p = <<"again", "flag", "saveFlags">>
  BY ListSteps, ArticleSteps DEF PlansAt
<1>2. CASE pos # 0 /\ p = <<"again", "unmark", "toggle">>
  <2>1. Tail(p) = <<"unmark", "toggle">>
    BY <1>2
  <2>2. q = <<"unmark", "toggle">>
    BY Zenon, <2>1, Prefixed
  <2>3. <<"unmark", "toggle">> \in PlansAt(pos)
    BY Zenon, <1>2 DEF PlansAt, ListPlans
  <2>4. /\ ~WillSave(<<"again", "unmark", "toggle">>)
           /\ WillUndelete(<<"again", "unmark", "toggle">>) /\ WillMark(<<"again", "unmark", "toggle">>)
        /\ ~WillFlag(<<"again", "unmark", "toggle">>)
    BY DEF WillSave, WillMark, WillDelete, WillUndelete, WillFlag
  <2>5. /\ <<"unmark", "toggle">> # <<>> /\ ~WillSave(<<"unmark", "toggle">>)
           /\ ~WillDelete(<<"unmark", "toggle">>) /\ ~WillFlag(<<"unmark", "toggle">>)
        /\ WillUndelete(<<"unmark", "toggle">>) /\ WillMark(<<"unmark", "toggle">>)
    BY DEF WillSave, WillMark, WillDelete, WillUndelete, WillFlag
  <2>. QED
    BY Zenon, <1>2, <2>2, <2>3, <2>4, <2>5
<1>3. CASE pos # 0 /\ p = <<"again", "saveFlags">>
  <2>1. Tail(p) = <<"saveFlags">>
    BY <1>3
  <2>2. q = <<"saveFlags">>
    BY Zenon, <2>1, Prefixed
  <2>3. <<"saveFlags">> \in PlansAt(pos)
    BY Zenon, <1>3 DEF PlansAt, ListPlans
  <2>4. /\ ~WillSave(<<"again", "saveFlags">>) /\ ~WillUndelete(<<"again", "saveFlags">>)
           /\ ~WillMark(<<"again", "saveFlags">>)
        /\ WillFlag(<<"again", "saveFlags">>)
    BY DEF WillSave, WillMark, WillDelete, WillUndelete, WillFlag
  <2>5. /\ <<"saveFlags">> # <<>> /\ ~WillSave(<<"saveFlags">>) /\ ~WillDelete(<<"saveFlags">>)
           /\ WillFlag(<<"saveFlags">>)
        /\ ~WillUndelete(<<"saveFlags">>) /\ ~WillMark(<<"saveFlags">>)
    BY DEF WillSave, WillMark, WillDelete, WillUndelete, WillFlag
  <2>. QED
    BY Zenon, <1>3, <2>2, <2>3, <2>4, <2>5
<1>4. CASE pos = 0 /\ p = <<"again", "flag", "saveFlags">>
  <2>1. Tail(p) = <<"flag", "saveFlags">>
    BY <1>4
  <2>2. q = <<"flag", "saveFlags">>
    BY Zenon, <2>1, Prefixed
  <2>3. <<"flag", "saveFlags">> \in PlansAt(pos)
    BY Zenon, <1>4 DEF PlansAt, ArticlePlans
  <2>4. /\ ~WillSave(<<"again", "flag", "saveFlags">>)
           /\ ~WillUndelete(<<"again", "flag", "saveFlags">>)
              /\ ~WillMark(<<"again", "flag", "saveFlags">>)
        /\ ~WillFlag(<<"again", "flag", "saveFlags">>) /\ ~WillWrite(<<"again", "flag", "saveFlags">>)
    BY DEF WillSave, WillMark, WillDelete, WillUndelete, WillFlag, WillWrite
  <2>5. /\ <<"flag", "saveFlags">> # <<>> /\ ~WillSave(<<"flag", "saveFlags">>)
           /\ ~WillDelete(<<"flag", "saveFlags">>) /\ ~WillFlag(<<"flag", "saveFlags">>)
        /\ ~WillUndelete(<<"flag", "saveFlags">>) /\ ~WillMark(<<"flag", "saveFlags">>)
    BY DEF WillSave, WillMark, WillDelete, WillUndelete, WillFlag
  <2>. QED
    BY Zenon, <1>4, <2>2, <2>3, <2>4, <2>5
<1>. QED
  BY Zenon, <1>1, <1>2, <1>3, <1>4

\* The list's delete operation writes what it finds.
LEMMA JudgeSteps ==
  ASSUME NEW pos, NEW p \in PlansAt(pos), Head(p) = "judge", NEW m \in {"mark", "unmark"},
         NEW q, q = <<m>> \o Tail(p)
  PROVE  /\ pos # 0 /\ q \in PlansAt(pos) /\ q # <<>>
         /\ ~WillSave(p) /\ ~WillFlag(p) /\ ~WillSave(q) /\ ~WillFlag(q) /\ WillMark(q)
         /\ (WillDelete(q) => m = "mark") /\ (WillUndelete(q) => m = "unmark")
<1>1. pos # 0 /\ p = <<"judge">>
  BY ListSteps, ArticleSteps DEF PlansAt
<1>2. Tail(p) = <<>>
  BY <1>1
<1>3. q = <<m>>
  BY Zenon, <1>2, Prefixed
<1>4. <<"mark">> \in PlansAt(pos) /\ <<"unmark">> \in PlansAt(pos)
  BY Zenon, <1>1 DEF PlansAt, ListPlans
<1>5. q # <<>> /\ Head(q) = m
  BY <1>3
<1>6. ~WillSave(p) /\ ~WillFlag(p)
  BY <1>1 DEF WillSave, WillFlag
<1>7. /\ ~WillSave(q) /\ ~WillFlag(q) /\ WillMark(q)
      /\ (WillDelete(q) => m = "mark") /\ (WillUndelete(q) => m = "unmark")
  BY <1>5, WillByHead
<1>. QED
  BY Zenon, <1>1, <1>3, <1>4, <1>5, <1>6, <1>7

\* After a row has been written nothing is left to be written of it.
LEMMA WriteSteps ==
  ASSUME NEW pos, NEW p \in PlansAt(pos), Head(p) \in {"save", "mark", "unmark", "saveFlags"}
  PROVE  /\ Tail(p) \in PlansAt(pos) \cup {<<>>} /\ ~WillWrite(Tail(p))
         /\ ~WillDelete(Tail(p)) /\ ~WillUndelete(Tail(p))
         /\ WillSave(p) <=> Head(p) = "save"
         /\ WillMark(p) <=> Head(p) \in {"mark", "unmark"}
         /\ WillDelete(p) <=> Head(p) = "mark"
         /\ WillUndelete(p) <=> Head(p) = "unmark"
         /\ WillFlag(p) <=> Head(p) = "saveFlags"
<1>1. p # <<>>
  BY ListSteps, ArticleSteps DEF PlansAt
<1>2. /\ WillSave(p) <=> Head(p) = "save"
      /\ WillMark(p) <=> Head(p) \in {"mark", "unmark"}
      /\ WillDelete(p) <=> Head(p) = "mark"
      /\ WillUndelete(p) <=> Head(p) = "unmark"
      /\ WillFlag(p) <=> Head(p) = "saveFlags"
  BY <1>1, WillByHead
<1>3. (~WillDelete(Tail(p)) /\ ~WillUndelete(Tail(p))) \/ WillWrite(Tail(p))
  BY Zenon DEF WillWrite, WillMark, WillDelete, WillUndelete
<1>4. \/ pos # 0 /\ (p = <<"save", "flip", "judge">> \/ p = <<"save">> \/ p = <<"mark">>
                      \/ p = <<"unmark">> \/ p = <<"unmark", "toggle">> \/ p = <<"saveFlags">>)
      \/ pos = 0 /\ (p = <<"save", "delete", "mark", "next">>
                     \/ p = <<"save", "unread", "close">>
                     \/ p = <<"save", "close">>
                     \/ p = <<"save", "again", "flag", "saveFlags">>
                     \/ p = <<"mark", "next">>
                     \/ p = <<"saveFlags">>)
  BY ListSteps, ArticleSteps DEF PlansAt
<1>5. CASE pos # 0 /\ p = <<"save", "flip", "judge">>
  <2>1. Tail(p) = <<"flip", "judge">>
    BY <1>5
  <2>2. <<"flip", "judge">> \in PlansAt(pos)
    BY Zenon, <1>5 DEF PlansAt, ListPlans
  <2>3. ~WillWrite(<<"flip", "judge">>)
    BY DEF WillWrite, WillSave, WillMark, WillDelete, WillUndelete, WillFlag
  <2>. QED
    BY Zenon, <1>2, <1>3, <2>1, <2>2, <2>3
<1>6. CASE pos # 0 /\ p = <<"save">>
  <2>1. Tail(p) = <<>>
    BY <1>6
  <2>. QED
    BY Zenon, <1>2, <2>1, NothingLeft
<1>7. CASE pos # 0 /\ p = <<"mark">>
  <2>1. Tail(p) = <<>>
    BY <1>7
  <2>. QED
    BY Zenon, <1>2, <2>1, NothingLeft
<1>8. CASE pos # 0 /\ p = <<"unmark">>
  <2>1. Tail(p) = <<>>
    BY <1>8
  <2>. QED
    BY Zenon, <1>2, <2>1, NothingLeft
<1>9. CASE pos # 0 /\ p = <<"unmark", "toggle">>
  <2>1. Tail(p) = <<"toggle">>
    BY <1>9
  <2>2. <<"toggle">> \in PlansAt(pos)
    BY Zenon, <1>9 DEF PlansAt, ListPlans
  <2>3. ~WillWrite(<<"toggle">>)
    BY DEF WillWrite, WillSave, WillMark, WillDelete, WillUndelete, WillFlag
  <2>. QED
    BY Zenon, <1>2, <1>3, <2>1, <2>2, <2>3
<1>10. CASE pos # 0 /\ p = <<"saveFlags">>
  <2>1. Tail(p) = <<>>
    BY <1>10
  <2>. QED
    BY Zenon, <1>2, <2>1, NothingLeft
<1>11. CASE pos = 0 /\ p = <<"save", "delete", "mark", "next">>
  <2>1. Tail(p) = <<"delete", "mark", "next">>
    BY <1>11
  <2>2. <<"delete", "mark", "next">> \in PlansAt(pos)
    BY Zenon, <1>11 DEF PlansAt, ArticlePlans
  <2>3. ~WillWrite(<<"delete", "mark", "next">>)
    BY DEF WillWrite, WillSave, WillMark, WillDelete, WillUndelete, WillFlag
  <2>. QED
    BY Zenon, <1>2, <1>3, <2>1, <2>2, <2>3
<1>12. CASE pos = 0 /\ p = <<"save", "unread", "close">>
  <2>1. Tail(p) = <<"unread", "close">>
    BY <1>12
  <2>2. <<"unread", "close">> \in PlansAt(pos)
    BY Zenon, <1>12 DEF PlansAt, ArticlePlans
  <2>3. ~WillWrite(<<"unread", "close">>)
    BY DEF WillWrite, WillSave, WillMark, WillDelete, WillUndelete, WillFlag
  <2>. QED
    BY Zenon, <1>2, <1>3, <2>1, <2>2, <2>3
<1>13. CASE pos = 0 /\ p = <<"save", "close">>
  <2>1. Tail(p) = <<"close">>
    BY <1>13
  <2>2. <<"close">> \in PlansAt(pos)
    BY Zenon, <1>13 DEF PlansAt, ArticlePlans
  <2>3. ~WillWrite(<<"close">>)
    BY DEF WillWrite, WillSave, WillMark, WillDelete, WillUndelete, WillFlag
  <2>. QED
    BY Zenon, <1>2, <1>3, <2>1, <2>2, <2>3
<1>14. CASE pos = 0 /\ p = <<"save", "again", "flag", "saveFlags">>
  <2>1. Tail(p) = <<"again", "flag", "saveFlags">>
    BY <1>14
  <2>2. <<"again", "flag", "saveFlags">> \in PlansAt(pos)
    BY Zenon, <1>14 DEF PlansAt, ArticlePlans
  <2>3. ~WillWrite(<<"again", "flag", "saveFlags">>)
    BY DEF WillWrite, WillSave, WillMark, WillDelete, WillUndelete, WillFlag
  <2>. QED
    BY Zenon, <1>2, <1>3, <2>1, <2>2, <2>3
<1>15. CASE pos = 0 /\ p = <<"mark", "next">>
  <2>1. Tail(p) = <<"next">>
    BY <1>15
  <2>2. <<"next">> \in PlansAt(pos)
    BY Zenon, <1>15 DEF PlansAt, ArticlePlans
  <2>3. ~WillWrite(<<"next">>)
    BY DEF WillWrite, WillSave, WillMark, WillDelete, WillUndelete, WillFlag
  <2>. QED
    BY Zenon, <1>2, <1>3, <2>1, <2>2, <2>3
<1>16. CASE pos = 0 /\ p = <<"saveFlags">>
  <2>1. Tail(p) = <<>>
    BY <1>16
  <2>. QED
    BY Zenon, <1>2, <2>1, NothingLeft
<1>. QED
  BY Zenon, <1>4, <1>5, <1>6, <1>7, <1>8, <1>9, <1>10, <1>11, <1>12, <1>13, <1>14, <1>15, <1>16

LEMMA LeaveSteps ==
  ASSUME NEW pos, NEW p \in PlansAt(pos), Head(p) \in {"close", "next"}
  PROVE  pos = 0 /\ ~WillWrite(p)
<1>1. pos = 0
  BY ListSteps DEF PlansAt
<1>2. p # <<>>
  BY ListSteps, ArticleSteps DEF PlansAt
<1>3. ~WillWrite(p)
  BY <1>2, WillByHead DEF WillWrite
<1>. QED
  BY <1>1, <1>3

-----------------------------------------------------------------------------
(* What steps leave alone                                                    *)

LEMMA SameReload ==
  ASSUME ReloadTyped, QueueInv, DocInv, reload' = reload
  PROVE  ReloadTyped' /\ QueueInv' /\ DocInv'
<1>1. ReloadTyped'
  BY DEF ReloadTyped
<1>2. QueueInv'
  BY DEF QueueInv, At, Newest
<1>3. DocInv'
  BY DEF DocInv
<1>. QED
  BY <1>1, <1>2, <1>3

\* Rows change while a reload has items to show only where that is noted.
LEMMA ReadKept ==
  ASSUME ReadInv, reload' = reload, DOMAIN db' = DOMAIN db, touched \subseteq touched',
         reload.pc \in Reading \cup {"show"} => \A g \in DOMAIN db \ touched' : db'[g] = db[g]
  PROVE  ReadInv'
<1>. SUFFICES ASSUME reload.pc \in Reading \cup {"show"}
              PROVE  /\ \A g \in DOMAIN reload.items : ~reload.items[g].deleted
                     /\ \A g \in DOMAIN reload.items \ touched' : Loading(g)'
  BY DEF ReadInv
<1>1. \A g \in DOMAIN reload.items : ~reload.items[g].deleted
  BY DEF ReadInv
<1>2. ASSUME NEW g \in DOMAIN reload.items \ touched'
      PROVE  Loading(g)'
  <2>1. Loading(g)
    BY <1>2 DEF ReadInv
  <2>2. g \in DOMAIN db /\ db'[g] = db[g]
    BY <1>2, <2>1 DEF Loading
  <2>. QED
    BY <2>1, <2>2 DEF Loading, At, Newest
<1>. QED
  BY <1>1, <1>2

\* Where nothing is left to be written of an article, row and item agree.
Agrees(g) ==
  /\ g \in DOMAIN db
  /\ db[g].enqueued = listed[g].enqueued /\ db[g].unread = listed[g].unread
  /\ db[g].deleted = listed[g].deleted /\ db[g].flagged = listed[g].flagged

LEMMA NothingPending ==
  ASSUME NEW g, Listing(g), Pending(g) => ~WillWrite(user.todo)
  PROVE  Agrees(g)
BY DEF Listing, Agrees, WillWrite

LEMMA AgreesIsListing ==
  ASSUME NEW g, Agrees(g) PROVE Listing(g)
BY DEF Agrees, Listing

-----------------------------------------------------------------------------
(* The main thread's steps within an operation                               *)

\* The operation goes on with item h and the steps q.
LEMMA ThenFacts ==
  ASSUME TypeOK, UserInv, ~Idle, NEW h \in Handle, NEW q \in PlansAt(user.pos) \cup {<<>>},
         Then(h, q)
  PROVE  /\ UserTyped'
         /\ q = <<>> => user' = AtRest
         /\ q # <<>> => user'.pos = user.pos /\ user'.todo = q /\ user'.on = h
<1>1. CASE q = <<>>
  <2>1. user' = AtRest
    BY <1>1 DEF Then
  <2>2. AtRest \in [pos : Nat, on : Handle, todo : {<<>>} \cup ListPlans \cup ArticlePlans]
    BY DEF AtRest, DummyHandle, Handle, Dummy, Item
  <2>. QED
    BY <1>1, <2>1, <2>2 DEF UserTyped
<1>2. CASE q # <<>>
  <2>1. user' = [user EXCEPT !.todo = q, !.on = h]
    BY <1>2 DEF Then
  <2>2. q \in {<<>>} \cup ListPlans \cup ArticlePlans
    BY DEF PlansAt
  <2>3. user \in [pos : Nat, on : Handle, todo : {<<>>} \cup ListPlans \cup ArticlePlans]
    BY DEF TypeOK, UserTyped
  <2> DEFINE Plans == {<<>>} \cup ListPlans \cup ArticlePlans
  <2>4. q \in Plans /\ user \in [pos : Nat, on : Handle, todo : Plans]
    BY <2>2, <2>3
  <2> HIDE DEF Plans
  <2>5. /\ user' \in [pos : Nat, on : Handle, todo : Plans]
        /\ user'.pos = user.pos /\ user'.todo = q /\ user'.on = h
    BY <2>1, <2>4
  <2>. QED
    BY <1>2, <2>5 DEF UserTyped, Plans
<1>. QED
  BY <1>1, <1>2

\* A step leaves the item it works on as item.
LEMMA ChangeFacts ==
  ASSUME TypeOK, UserInv, ~Idle, InRange, NEW item \in Item,
         NEW q \in PlansAt(user.pos) \cup {<<>>}, Change(Target, item, q), screen' = screen
  PROVE  /\ UserTyped' /\ ScreenTyped' /\ IsList(listed') /\ DOMAIN listed' = DOMAIN listed
         /\ article'.feed = article.feed /\ article'.guid = article.guid
         /\ q = <<>> => user' = AtRest
         /\ q # <<>> => /\ user'.pos = user.pos /\ user'.todo = q
                        /\ user'.on.own = Target.own /\ user'.on.guid = Target.guid
         /\ ~Target.own => listed'[Target.guid] = item
         /\ \A g \in DOMAIN listed : g # Target.guid \/ Target.own => listed'[g] = listed[g]
<1> DEFINE h == Target
           held == IF h.own THEN [h EXCEPT !.item = item] ELSE h
<1>1. h \in Handle /\ (~h.own => h.guid \in DOMAIN listed)
  BY TargetItem
<1>2. IsList(listed)
  BY DEF TypeOK
<1>3. Then(held, q)
  BY DEF Change
<1>4. listed' = IF h.own THEN listed ELSE [listed EXCEPT ![h.guid] = item]
  BY DEF Change
<1>5. article' = IF h.own /\ user.pos = 0 /\ article.feed = "kept"
                   THEN [article EXCEPT !.item = item] ELSE article
  BY DEF Change
<1> HIDE DEF h
<1>6. held \in Handle /\ held.own = h.own /\ held.guid = h.guid
  BY <1>1 DEF Handle
<1> HIDE DEF held
<1>7. /\ UserTyped' /\ (q = <<>> => user' = AtRest)
      /\ q # <<>> => user'.pos = user.pos /\ user'.todo = q /\ user'.on = held
  BY <1>3, <1>6, ThenFacts
<1>8. /\ IsList(listed') /\ DOMAIN listed' = DOMAIN listed
      /\ ~h.own => listed'[h.guid] = item
      /\ \A g \in DOMAIN listed : g # h.guid \/ h.own => listed'[g] = listed[g]
  <2>1. CASE h.own
    BY <1>2, <1>4, <2>1
  <2>2. CASE ~h.own
    BY <1>1, <1>2, <1>4, <2>2, ItemReplaced
  <2>. QED
    BY <2>1, <2>2
<1>9. ScreenTyped' /\ article'.feed = article.feed /\ article'.guid = article.guid
  BY <1>5 DEF TypeOK, ScreenTyped
<1>. QED
  BY <1>6, <1>7, <1>8, <1>9 DEF h

\* The invariant of the operation after such a step.
LEMMA ChangeKeepsUser ==
  ASSUME TypeOK, UserInv, ~Idle, InRange, NEW item \in Item,
         NEW q \in PlansAt(user.pos) \cup {<<>>}, Change(Target, item, q), screen' = screen,
         WillDelete(q) => item.deleted, WillUndelete(q) => ~item.deleted
  PROVE  UserInv'
<1>1. /\ UserTyped' /\ ScreenTyped' /\ IsList(listed') /\ DOMAIN listed' = DOMAIN listed
      /\ article'.feed = article.feed /\ article'.guid = article.guid
  BY ChangeFacts
<1>2. /\ q = <<>> => user' = AtRest
      /\ q # <<>> => /\ user'.pos = user.pos /\ user'.todo = q
                     /\ user'.on.own = Target.own /\ user'.on.guid = Target.guid
  BY ChangeFacts
<1>3. ~Target.own => listed'[Target.guid] = item
  BY ChangeFacts
<1>4. /\ user.pos # 0 => /\ ~Target.own /\ user.pos \in 1 .. Cardinality(DOMAIN listed)
                         /\ Target.guid = VisibleIn(DOMAIN listed, user.pos)
      /\ user.pos = 0 => Target = user.on
  BY TargetItem
<1>5. CASE q = <<>>
  <2>1. user'.todo = <<>> /\ user'.on.own
    BY <1>2, <1>5 DEF AtRest, DummyHandle
  <2>. QED
    BY <1>1, <2>1 DEF UserInv, Idle
<1>6. CASE q # <<>>
  <2>1. user'.todo # <<>> /\ user'.todo = q /\ user'.pos = user.pos
    BY <1>2, <1>6
  <2>2. CASE user.pos # 0
    <3>1. q \in ListPlans
      BY <1>6, <2>2 DEF PlansAt
    <3>2. /\ screen' = "list"
          /\ article.feed = "listed" => article.guid \in DOMAIN listed /\ screen = "article"
      BY <2>2 DEF UserInv
    <3>3. ~user'.on.own /\ user'.on.guid = VisibleIn(DOMAIN listed', user'.pos)
      BY <1>1, <1>2, <1>4, <1>6, <2>2
    <3>. QED
      BY <1>1, <1>2, <1>3, <1>4, <1>6, <2>1, <2>2, <3>1, <3>2, <3>3 DEF UserInv, Idle
  <2>3. CASE user.pos = 0
    <3>1. q \in ArticlePlans
      BY <1>6, <2>3 DEF PlansAt
    <3>2. /\ screen' = "article" /\ (article.feed = "listed" => article.guid \in DOMAIN listed)
          /\ user.on.own => article.feed # "listed"
          /\ ~user.on.own => article.feed = "listed" /\ user.on.guid = article.guid
      BY <2>3 DEF UserInv
    <3>. QED
      BY <1>1, <1>2, <1>3, <1>4, <1>6, <2>1, <2>3, <3>1, <3>2 DEF UserInv, Idle
  <2>. QED
    BY <2>2, <2>3
<1>. QED
  BY <1>5, <1>6

\* Row and item still agree but for what the next steps will write.
LEMMA ChangeKeepsList ==
  ASSUME TypeOK, UserInv, ListInv, ~Idle, InRange, NEW item \in Item,
         NEW q \in PlansAt(user.pos) \cup {<<>>}, Change(Target, item, q), screen' = screen,
         db' = db, reload' = reload, touched \subseteq touched', ~WillWrite(user.todo),
         item.enqueued = ItemAt(Target).enqueued,
         item.unread = ItemAt(Target).unread \/ WillSave(q),
         item.deleted = ItemAt(Target).deleted \/ WillMark(q),
         item.flagged = ItemAt(Target).flagged \/ WillFlag(q)
  PROVE  ListInv'
<1>1. /\ DOMAIN listed' = DOMAIN listed
      /\ q = <<>> => user' = AtRest
      /\ q # <<>> => /\ user'.pos = user.pos /\ user'.todo = q
                     /\ user'.on.own = Target.own /\ user'.on.guid = Target.guid
      /\ ~Target.own => listed'[Target.guid] = item
      /\ \A g \in DOMAIN listed : g # Target.guid \/ Target.own => listed'[g] = listed[g]
  BY ChangeFacts
<1>. SUFFICES ASSUME reload.pc \notin Reading, NEW g \in DOMAIN listed \ touched
              PROVE  Listing(g)'
  BY <1>1 DEF ListInv
<1>2. Agrees(g)
  BY NothingPending DEF ListInv
<1>3. CASE g # Target.guid \/ Target.own
  BY <1>1, <1>2, <1>3 DEF Agrees, Listing
<1>4. CASE g = Target.guid /\ ~Target.own
  <2>1. listed'[g] = item /\ ItemAt(Target) = listed[g]
    BY <1>1, <1>4 DEF ItemAt
  <2>2. q # <<>> => Pending(g)' /\ user'.todo = q
    BY <1>1, <1>4 DEF Pending, Idle
  <2>3. q = <<>> => ~WillSave(q) /\ ~WillMark(q) /\ ~WillFlag(q)
    BY DEF WillSave, WillMark, WillFlag
  <2>4. /\ item.unread = listed[g].unread \/ (Pending(g)' /\ WillSave(user'.todo))
        /\ item.deleted = listed[g].deleted \/ (Pending(g)' /\ WillMark(user'.todo))
        /\ item.flagged = listed[g].flagged \/ (Pending(g)' /\ WillFlag(user'.todo))
    BY <2>1, <2>2, <2>3
  <2>. QED
    BY <1>2, <2>1, <2>4 DEF Agrees, Listing
<1>. QED
  BY <1>3, <1>4

\* The whole invariant after such a step.
LEMMA ChangeKeeps ==
  ASSUME ArticlesInv, ~Idle, InRange, NEW item \in Item,
         NEW q \in PlansAt(user.pos) \cup {<<>>}, Change(Target, item, q),
         touched' = touched \/ Touch(Target.guid, Target.own), ~WillWrite(user.todo),
         UNCHANGED <<doc, tooOld, db, stamp, screen, reload, hidden, interrupted>>,
         WillDelete(q) => item.deleted, WillUndelete(q) => ~item.deleted,
         item.enqueued = ItemAt(Target).enqueued,
         item.unread = ItemAt(Target).unread \/ WillSave(q),
         item.deleted = ItemAt(Target).deleted \/ WillMark(q),
         item.flagged = ItemAt(Target).flagged \/ WillFlag(q)
  PROVE  ArticlesInv'
<1>. USE DEF ArticlesInv
<1>1. touched \subseteq touched' /\ touched' \subseteq touched \cup {Target.guid}
  BY DEF Touch
<1>2. Target.guid \in Guids \cup {0}
  BY TargetItem DEF Handle
<1>3. GhostsTyped'
  BY <1>1, <1>2 DEF TypeOK, GhostsTyped
<1>4. UserTyped' /\ ScreenTyped' /\ IsList(listed')
  BY ChangeFacts
<1>5. ReloadTyped' /\ QueueInv' /\ DocInv'
  BY SameReload DEF TypeOK
<1>6. TypeOK'
  BY <1>3, <1>4, <1>5 DEF TypeOK
<1>7. UserInv'
  BY ChangeKeepsUser
<1>8. ListInv'
  BY <1>1, ChangeKeepsList
<1>9. ReadInv'
  BY <1>1, ReadKept
<1>. QED
  BY <1>5, <1>6, <1>7, <1>8, <1>9

\* The next step of an operation is one of its screen's.
LEMMA PlanOf ==
  ASSUME UserInv, ~Idle
  PROVE  user.todo \in PlansAt(user.pos)
BY DEF UserInv, PlansAt

LEMMA SetUnreadKeeps == ArticlesInv /\ SetUnread => ArticlesInv'
<1>. SUFFICES ASSUME ArticlesInv, SetUnread PROVE ArticlesInv'
  OBVIOUS
<1>. USE DEF ArticlesInv
<1> DEFINE p == user.todo
           item == ItemAt(Target)
           unread == CASE Doing("read") -> FALSE
                       [] Doing("unread") -> TRUE
                       [] Doing("toggle") -> ~item.unread
           new == [item EXCEPT !.unread = unread]
<1>1. ~Idle /\ InRange /\ Head(p) \in {"read", "unread", "toggle"}
  BY DEF SetUnread
<1>2. p \in PlansAt(user.pos) /\ item \in Item
  BY <1>1, PlanOf, TargetItem
<1>3. unread \in BOOLEAN
  BY <1>1, <1>2 DEF Doing, Item
<1>4. \/ item.unread = unread /\ Change(Target, item, Tail(p)) /\ touched' = touched
      \/ Change(Target, new, <<"save">> \o Tail(p)) /\ Touch(Target.guid, Target.own)
  BY DEF SetUnread
<1>5. UNCHANGED <<doc, tooOld, db, stamp, screen, reload, hidden, interrupted>>
  BY DEF SetUnread
<1> HIDE DEF p, item, unread
<1>6. /\ new \in Item /\ new.deleted = item.deleted /\ new.enqueued = item.enqueued
      /\ new.flagged = item.flagged
  BY <1>2, <1>3 DEF Item
<1> HIDE DEF new
<1>7. CASE Change(Target, item, Tail(p)) /\ touched' = touched
  <2> DEFINE q == Tail(p)
  <2>1. /\ ~WillWrite(p) /\ q \in PlansAt(user.pos) \cup {<<>>}
        /\ ~WillDelete(q) /\ ~WillUndelete(q)
    BY <1>1, <1>2, UnreadSteps
  <2> HIDE DEF q
  <2>2. Change(Target, item, q)
    BY <1>7 DEF q
  <2>. QED
    BY <1>1, <1>2, <1>5, <1>7, <2>1, <2>2, ChangeKeeps DEF item, p
<1>8. CASE Change(Target, new, <<"save">> \o Tail(p)) /\ Touch(Target.guid, Target.own)
  <2> DEFINE q == <<"save">> \o Tail(p)
  <2>1. /\ ~WillWrite(p) /\ q \in PlansAt(user.pos) \cup {<<>>}
        /\ ~WillDelete(q) /\ ~WillUndelete(q) /\ WillSave(q)
    BY <1>1, <1>2, UnreadSteps
  <2> HIDE DEF q
  <2>2. Change(Target, new, q)
    BY <1>8 DEF q
  <2>. QED
    BY <1>1, <1>5, <1>6, <1>8, <2>1, <2>2, ChangeKeeps DEF item, p
<1>. QED
  BY <1>4, <1>7, <1>8

LEMMA SetDeletedKeeps == ArticlesInv /\ SetDeleted => ArticlesInv'
<1>. SUFFICES ASSUME ArticlesInv, SetDeleted PROVE ArticlesInv'
  OBVIOUS
<1>. USE DEF ArticlesInv
<1> DEFINE p == user.todo
           q == Tail(p)
           item == ItemAt(Target)
           deleted == CASE Doing("flip") -> ~item.deleted
                        [] Doing("delete") -> TRUE
                        [] Doing("undelete") -> FALSE
           new == [item EXCEPT !.deleted = deleted]
<1>1. ~Idle /\ InRange /\ Head(p) \in {"flip", "delete", "undelete"}
  BY DEF SetDeleted
<1>2. p \in PlansAt(user.pos) /\ item \in Item
  BY <1>1, PlanOf, TargetItem
<1>3. /\ deleted \in BOOLEAN
      /\ Head(p) = "delete" => deleted
      /\ Head(p) = "undelete" => ~deleted
  BY <1>1, <1>2 DEF Doing, Item
<1>4. Change(Target, new, q) /\ Touch(Target.guid, Target.own)
  BY DEF SetDeleted
<1>5. UNCHANGED <<doc, tooOld, db, stamp, screen, reload, hidden, interrupted>>
  BY DEF SetDeleted
<1>6. /\ ~WillWrite(p) /\ q \in PlansAt(user.pos) /\ WillMark(q)
      /\ WillDelete(q) => Head(p) = "delete"
      /\ WillUndelete(q) => Head(p) = "undelete"
  BY <1>1, <1>2, DeletedSteps
<1> HIDE DEF item, deleted, p, q
<1>7. /\ new \in Item /\ new.deleted = deleted /\ new.enqueued = item.enqueued
      /\ new.flagged = item.flagged /\ new.unread = item.unread
  BY <1>2, <1>3 DEF Item
<1> HIDE DEF new
<1>. QED
  BY <1>1, <1>3, <1>4, <1>5, <1>6, <1>7, ChangeKeeps DEF item, p

LEMMA SetFlagsKeeps == ArticlesInv /\ SetFlags => ArticlesInv'
<1>. SUFFICES ASSUME ArticlesInv, SetFlags PROVE ArticlesInv'
  OBVIOUS
<1>. USE DEF ArticlesInv
<1> DEFINE p == user.todo
           q == Tail(p)
           item == ItemAt(Target)
           new == [item EXCEPT !.flagged = ~@]
<1>1. ~Idle /\ InRange /\ Head(p) = "flag"
  BY DEF SetFlags, Doing
<1>2. p \in PlansAt(user.pos) /\ item \in Item
  BY <1>1, PlanOf, TargetItem
<1>3. Change(Target, new, q) /\ Touch(Target.guid, Target.own)
  BY DEF SetFlags
<1>4. UNCHANGED <<doc, tooOld, db, stamp, screen, reload, hidden, interrupted>>
  BY DEF SetFlags
<1>5. /\ ~WillWrite(p) /\ q \in PlansAt(user.pos) /\ WillFlag(q)
      /\ ~WillDelete(q) /\ ~WillUndelete(q)
  BY <1>1, <1>2, FlagSteps
<1> HIDE DEF item, p, q
<1>6. /\ new \in Item /\ new.deleted = item.deleted /\ new.enqueued = item.enqueued
      /\ new.unread = item.unread
  BY <1>2 DEF Item
<1> HIDE DEF new
<1>. QED
  BY <1>1, <1>3, <1>4, <1>5, <1>6, ChangeKeeps DEF item, p

\* Writing a row of the item the main thread holds.
LEMMA WriteKeeps ==
  ASSUME ArticlesInv, ~Idle, Head(user.todo) \in {"save", "mark", "unmark", "saveFlags"},
         NEW g \in Guids \cup {0}, IsCache(db'), DOMAIN db' = DOMAIN db,
         \A h \in DOMAIN db : h # g => db'[h] = db[h],
         ~user.on.own => g = user.on.guid,
         g \in DOMAIN db =>
           /\ Head(user.todo) # "save" =>
                db'[g].unread = db[g].unread /\ db'[g].enqueued = db[g].enqueued
           /\ Head(user.todo) = "save" =>
                /\ db'[g].unread = ItemAt(user.on).unread
                /\ db'[g].enqueued = ItemAt(user.on).enqueued
           /\ Head(user.todo) \notin {"mark", "unmark"} => db'[g].deleted = db[g].deleted
           /\ Head(user.todo) = "mark" => db'[g].deleted
           /\ Head(user.todo) = "unmark" => ~db'[g].deleted
           /\ Head(user.todo) # "saveFlags" => db'[g].flagged = db[g].flagged
           /\ Head(user.todo) = "saveFlags" => db'[g].flagged = ItemAt(user.on).flagged,
         Touch(g, user.on.own), Then(user.on, Tail(user.todo)), hidden' \subseteq Guids,
         UNCHANGED <<doc, tooOld, stamp, listed, screen, article, reload, interrupted>>
  PROVE  ArticlesInv'
<1>. USE DEF ArticlesInv
<1> DEFINE p == user.todo
           q == Tail(p)
           on == user.on
<1>1. /\ q \in PlansAt(user.pos) \cup {<<>>} /\ ~WillWrite(q) /\ ~WillDelete(q) /\ ~WillUndelete(q)
      /\ WillSave(p) <=> Head(p) = "save"
      /\ WillMark(p) <=> Head(p) \in {"mark", "unmark"}
      /\ WillDelete(p) <=> Head(p) = "mark"
      /\ WillUndelete(p) <=> Head(p) = "unmark"
      /\ WillFlag(p) <=> Head(p) = "saveFlags"
  BY PlanOf, WriteSteps
<1>2. on \in Handle /\ (~on.own => on.guid \in DOMAIN listed)
  BY HeldItem
<1>3. /\ UserTyped'
      /\ q = <<>> => user' = AtRest
      /\ q # <<>> => user'.pos = user.pos /\ user'.todo = q /\ user'.on = on
  BY <1>1, <1>2, ThenFacts
<1>4. touched \subseteq touched' /\ touched' \subseteq touched \cup {g}
  BY DEF Touch
<1>5. (on.own \/ reload.pc \in Reading \cup {"show"}) => g \in touched'
  BY DEF Touch, Reading
<1>6. GhostsTyped'
  BY <1>4 DEF TypeOK, GhostsTyped
<1>7. ReloadTyped' /\ QueueInv' /\ DocInv'
  BY SameReload DEF TypeOK
<1>8. ScreenTyped' /\ IsList(listed')
  BY DEF TypeOK, ScreenTyped
<1>9. TypeOK'
  BY <1>3, <1>6, <1>7, <1>8 DEF TypeOK
<1>10. UserInv'
  <2>1. CASE q = <<>>
    <3>1. user'.todo = <<>> /\ user'.on.own
      BY <1>3, <2>1 DEF AtRest, DummyHandle
    <3>. QED
      BY <3>1 DEF UserInv, Idle
  <2>2. CASE q # <<>>
    <3> HIDE DEF q
    <3>1. user'.pos = user.pos /\ user'.todo = q /\ user'.on = user.on /\ q # <<>>
      BY <1>3, <2>2
    <3>2. q \in PlansAt(user.pos)
      BY <1>1, <2>2
    <3>. QED
      BY <1>1, <3>1, <3>2 DEF UserInv, Idle, PlansAt
  <2>. QED
    BY <2>1, <2>2
<1>11. ListInv'
  <2>. SUFFICES ASSUME reload.pc \notin Reading, NEW h \in DOMAIN listed \ touched'
                PROVE  Listing(h)'
    BY DEF ListInv
  <2>1. Listing(h)
    BY <1>4 DEF ListInv
  <2>2. CASE h # g \/ on.own
    <3>1. h # g
      BY <1>5, <2>2
    <3>2. Agrees(h)
      <4>1. ~Pending(h)
        BY <2>2, <3>1 DEF Pending
      <4>. QED
        BY <2>1, <4>1, NothingPending
    <3>. QED
      BY <3>1, <3>2 DEF Agrees, Listing
  <2>3. CASE h = g /\ ~on.own
    <3>1. g \in DOMAIN db /\ ItemAt(user.on) = listed[g]
      BY <2>1, <2>3 DEF Listing, ItemAt
    <3>2. /\ WillDelete(p) => listed[g].deleted
          /\ WillUndelete(p) => ~listed[g].deleted
      BY <2>3 DEF UserInv
    <3>3. db'[g] \in Row /\ listed[g] \in Item /\ db[g] \in Row
      BY <2>3, <3>1, CacheFacts, ListFacts DEF TypeOK
    <3>4. db'[g].deleted = listed[g].deleted
      BY <1>1, <2>1, <2>3, <3>1, <3>2, <3>3 DEF Listing, Row, Item
    <3>5. db'[g].unread = listed[g].unread /\ db'[g].enqueued = listed[g].enqueued
      BY <1>1, <2>1, <2>3, <3>1 DEF Listing
    <3>6. db'[g].flagged = listed[g].flagged
      BY <1>1, <2>1, <2>3, <3>1 DEF Listing
    <3>. QED
      BY <2>3, <3>1, <3>4, <3>5, <3>6 DEF Listing
  <2>. QED
    BY <2>2, <2>3
<1>12. ReadInv'
  BY <1>4, <1>5, ReadKept
<1>. QED
  BY <1>7, <1>9, <1>10, <1>11, <1>12

LEMMA SaveUnreadKeeps == ArticlesInv /\ SaveUnread => ArticlesInv'
<1>. SUFFICES ASSUME ArticlesInv, SaveUnread PROVE ArticlesInv'
  OBVIOUS
<1>1. ~Idle /\ Head(user.todo) = "save"
  BY DEF SaveUnread, Doing
<1>2. ItemAt(user.on) \in Item /\ user.on.guid \in Guids \cup {0} /\ IsCache(db)
  BY <1>1, HeldItem DEF ArticlesInv, TypeOK, Handle
<1>3. db' = SaveUnreadAndEnqueued(db, user.on.guid, ItemAt(user.on))
  BY DEF SaveUnread
<1> DEFINE g == user.on.guid
<1>4. /\ IsCache(db') /\ DOMAIN db' = DOMAIN db
      /\ \A h \in DOMAIN db : h # g => db'[h] = db[h]
      /\ g \in DOMAIN db =>
           /\ db'[g].unread = ItemAt(user.on).unread /\ db'[g].enqueued = ItemAt(user.on).enqueued
           /\ db'[g].deleted = db[g].deleted /\ db'[g].flagged = db[g].flagged
  BY <1>2, <1>3, FlagsSaved
<1>5. /\ Touch(g, user.on.own) /\ Then(user.on, Tail(user.todo)) /\ hidden' = hidden
      /\ UNCHANGED <<doc, tooOld, stamp, listed, screen, article, reload, interrupted>>
  BY DEF SaveUnread
<1>6. hidden' \subseteq Guids
  BY <1>5 DEF ArticlesInv, TypeOK, GhostsTyped
<1>. QED
  BY <1>1, <1>2, <1>4, <1>5, <1>6, WriteKeeps

LEMMA MarkDeletedKeeps == ArticlesInv /\ MarkDeleted => ArticlesInv'
<1>. SUFFICES ASSUME ArticlesInv, MarkDeleted PROVE ArticlesInv'
  OBVIOUS
<1>1. ~Idle /\ Head(user.todo) \in {"mark", "unmark"} /\ (Doing("mark") <=> Head(user.todo) = "mark")
  BY DEF MarkDeleted, Doing
<1> DEFINE g == IF user.pos = 0 THEN article.guid ELSE user.on.guid
           deleted == Doing("mark")
           row == [db[g] EXCEPT !.deleted = deleted]
<1>2. g \in Guids \cup {0} /\ IsCache(db)
  BY <1>1, HeldItem DEF ArticlesInv, TypeOK, Handle, ScreenTyped
<1>3. ~user.on.own => g = user.on.guid
  BY <1>1 DEF ArticlesInv, UserInv
<1>4. db' = IF g \in DOMAIN db THEN [db EXCEPT ![g].deleted = deleted] ELSE db
  BY DEF MarkDeleted
<1>5. hidden' \subseteq hidden \cup {g} /\ (g \notin DOMAIN db => hidden' \subseteq hidden)
  BY DEF MarkDeleted
<1>6. /\ Touch(g, user.on.own) /\ Then(user.on, Tail(user.todo))
      /\ UNCHANGED <<doc, tooOld, stamp, listed, screen, article, reload, interrupted>>
  BY DEF MarkDeleted
<1> HIDE DEF g
<1>7. deleted \in BOOLEAN /\ (deleted <=> Head(user.todo) = "mark")
  BY <1>1 DEF Doing
<1> HIDE DEF deleted
<1>8. hidden' \subseteq Guids
  BY <1>2, <1>5, CacheFacts DEF ArticlesInv, TypeOK, GhostsTyped
<1>9. /\ IsCache(db') /\ DOMAIN db' = DOMAIN db
      /\ \A h \in DOMAIN db : h # g => db'[h] = db[h]
      /\ g \in DOMAIN db => db'[g] = row
  <2>1. CASE g \in DOMAIN db
    <3>1. db[g] \in Row
      BY <1>2, <2>1, CacheFacts
    <3>2. row \in Row /\ db' = [db EXCEPT ![g] = row]
      BY <1>4, <1>7, <2>1, <3>1 DEF Row
    <3> HIDE DEF row
    <3>. QED
      BY <1>2, <2>1, <3>2, RowReplaced
  <2>2. CASE g \notin DOMAIN db
    BY <1>2, <1>4, <2>2
  <2>. QED
    BY <2>1, <2>2
<1>10. g \in DOMAIN db =>
        /\ db'[g].unread = db[g].unread /\ db'[g].enqueued = db[g].enqueued
        /\ db'[g].flagged = db[g].flagged
        /\ Head(user.todo) = "mark" => db'[g].deleted
        /\ Head(user.todo) = "unmark" => ~db'[g].deleted
  <2>1. g \in DOMAIN db => db[g] \in Row
    BY <1>2, CacheFacts
  <2>. QED
    BY <1>7, <1>9, <2>1 DEF Row
<1>. QED
  BY <1>1, <1>2, <1>3, <1>6, <1>8, <1>9, <1>10, WriteKeeps

LEMMA SaveFlagsKeeps == ArticlesInv /\ SaveFlags => ArticlesInv'
<1>. SUFFICES ASSUME ArticlesInv, SaveFlags PROVE ArticlesInv'
  OBVIOUS
<1>1. ~Idle /\ Head(user.todo) = "saveFlags"
  BY DEF SaveFlags, Doing
<1> DEFINE g == user.on.guid
           flagged == ItemAt(user.on).flagged
           row == [db[g] EXCEPT !.flagged = flagged]
<1>2. g \in Guids \cup {0} /\ IsCache(db) /\ flagged \in BOOLEAN
  BY <1>1, HeldItem DEF ArticlesInv, TypeOK, Handle, Item
<1>3. db' = IF g \in DOMAIN db THEN [db EXCEPT ![g].flagged = flagged] ELSE db
  BY DEF SaveFlags
<1>4. /\ Touch(g, user.on.own) /\ Then(user.on, Tail(user.todo)) /\ hidden' = hidden
      /\ UNCHANGED <<doc, tooOld, stamp, listed, screen, article, reload, interrupted>>
  BY DEF SaveFlags
<1>5. hidden' \subseteq Guids
  BY <1>4 DEF ArticlesInv, TypeOK, GhostsTyped
<1> HIDE DEF flagged
<1>6. /\ IsCache(db') /\ DOMAIN db' = DOMAIN db
      /\ \A h \in DOMAIN db : h # g => db'[h] = db[h]
      /\ g \in DOMAIN db => db'[g] = row
  <2>1. CASE g \in DOMAIN db
    <3>1. db[g] \in Row
      BY <1>2, <2>1, CacheFacts
    <3>2. row \in Row /\ db' = [db EXCEPT ![g] = row]
      BY <1>2, <1>3, <2>1, <3>1 DEF Row
    <3> HIDE DEF row
    <3>. QED
      BY <1>2, <2>1, <3>2, RowReplaced
  <2>2. CASE g \notin DOMAIN db
    BY <1>2, <1>3, <2>2
  <2>. QED
    BY <2>1, <2>2
<1>7. g \in DOMAIN db =>
        /\ db'[g].unread = db[g].unread /\ db'[g].enqueued = db[g].enqueued
        /\ db'[g].deleted = db[g].deleted /\ db'[g].flagged = flagged
  <2>1. g \in DOMAIN db => db[g] \in Row
    BY <1>2, CacheFacts
  <2>. QED
    BY <1>6, <2>1 DEF Row
<1>. QED
  BY <1>1, <1>2, <1>4, <1>5, <1>6, <1>7, WriteKeeps DEF flagged

\* The item of the article view, as the main thread holds it.
LEMMA ArticleItemFacts ==
  ASSUME TypeOK, UserInv
  PROVE  /\ ArticleItem \in Handle
         /\ ArticleItem.own => article.feed # "listed"
         /\ ~ArticleItem.own => article.feed = "listed" /\ ArticleItem.guid = article.guid
<1>1. article \in [guid : Guids \cup {0}, feed : {"none", "listed", "cleared", "kept"}, item : Item]
  BY DEF TypeOK, ScreenTyped
<1>2. Dummy \in Item
  BY DEF Dummy, Item
<1>3. CASE article.feed = "listed"
  <2>1. article.guid \in DOMAIN listed
    BY <1>3 DEF UserInv
  <2>2. ArticleItem = [guid |-> article.guid, own |-> FALSE, item |-> Dummy]
    BY <1>3, <2>1 DEF ArticleItem, InList
  <2>. QED
    BY <1>1, <1>2, <1>3, <2>2 DEF Handle
<1>4. CASE article.feed = "kept"
  <2>1. ArticleItem = [guid |-> article.guid, own |-> TRUE, item |-> article.item]
    BY <1>4 DEF ArticleItem
  <2>. QED
    BY <1>1, <1>4, <2>1 DEF Handle
<1>5. CASE article.feed \notin {"listed", "kept"}
  <2>1. ArticleItem = [guid |-> 0, own |-> TRUE, item |-> Dummy]
    BY <1>5 DEF ArticleItem, DummyHandle
  <2>. QED
    BY <1>2, <1>5, <2>1 DEF Handle
<1>. QED
  BY <1>3, <1>4, <1>5

\* A step that changes only what the main thread is about to do.
LEMMA UserOnly ==
  ASSUME ArticlesInv, UserTyped', UserInv',
         UNCHANGED <<doc, tooOld, db, stamp, listed, reload, touched, hidden, interrupted>>,
         ScreenTyped',
         \A g \in DOMAIN listed \ touched : reload.pc \notin Reading => Agrees(g) \/ Listing(g)'
  PROVE  ArticlesInv'
<1>. USE DEF ArticlesInv
<1>1. ReloadTyped' /\ QueueInv' /\ DocInv'
  BY SameReload DEF TypeOK
<1>2. TypeOK'
  BY <1>1 DEF TypeOK, GhostsTyped
<1>3. ReadInv'
  BY ReadKept
<1>4. ListInv'
  BY DEF ListInv, Agrees, Listing
<1>. QED
  BY <1>1, <1>2, <1>3, <1>4

LEMMA LookUpAgainKeeps == ArticlesInv /\ LookUpAgain => ArticlesInv'
<1>. SUFFICES ASSUME ArticlesInv, LookUpAgain PROVE ArticlesInv'
  OBVIOUS
<1>. USE DEF ArticlesInv
<1> DEFINE p == user.todo
           h == IF user.pos = 0 THEN ArticleItem ELSE Target
           mark == IF ItemAt(h).deleted THEN "mark" ELSE "unmark"
           q == (IF Doing("judge") THEN <<mark>> ELSE <<>>) \o Tail(p)
<1>1. ~Idle /\ InRange /\ p \in PlansAt(user.pos)
  BY PlanOf DEF LookUpAgain, Doing
<1>2. /\ Head(p) \in {"again", "judge"} /\ (Doing("judge") <=> Head(p) = "judge")
      /\ Then(h, q)
      /\ UNCHANGED <<doc, tooOld, db, stamp, listed, screen, article, reload, touched, hidden,
                     interrupted>>
  BY DEF LookUpAgain, Doing, ghosts
<1>3. h \in Handle
  BY <1>1, TargetItem, ArticleItemFacts
<1>4. /\ user.pos # 0 => /\ ~h.own /\ user.pos \in 1 .. Cardinality(DOMAIN listed)
                         /\ h.guid = VisibleIn(DOMAIN listed, user.pos) /\ h.guid \in DOMAIN listed
                         /\ ~user.on.own => h.guid = user.on.guid
      /\ user.pos = 0 => /\ h.own => article.feed # "listed"
                         /\ ~h.own => article.feed = "listed" /\ h.guid = article.guid
  BY <1>1, TargetItem, ArticleItemFacts
<1>5. mark \in {"mark", "unmark"} /\ (~h.own => (mark = "mark" <=> listed[h.guid].deleted))
  BY DEF ItemAt
<1> HIDE DEF h, mark
<1>6. /\ q \in PlansAt(user.pos) /\ q # <<>> /\ ~WillSave(p) /\ ~WillSave(q)
      /\ (WillMark(p) => WillMark(q)) /\ (WillFlag(p) => WillFlag(q))
      /\ user.pos = 0 => ~WillWrite(p) /\ ~WillDelete(q) /\ ~WillUndelete(q)
      /\ ~h.own /\ WillDelete(q) => listed[h.guid].deleted
      /\ ~h.own /\ WillUndelete(q) => ~listed[h.guid].deleted
  <2>1. CASE Head(p) = "judge"
    <3>1. q = <<mark>> \o Tail(p)
      BY <1>2, <2>1
    <3> HIDE DEF q
    <3>2. /\ user.pos # 0 /\ q \in PlansAt(user.pos) /\ q # <<>>
          /\ ~WillSave(p) /\ ~WillFlag(p) /\ ~WillSave(q) /\ ~WillFlag(q) /\ WillMark(q)
          /\ (WillDelete(q) => mark = "mark") /\ (WillUndelete(q) => mark = "unmark")
      BY <1>1, <1>5, <2>1, <3>1, JudgeSteps
    <3>. QED
      BY <1>5, <3>2
  <2>2. CASE Head(p) = "again"
    <3>1. q = <<>> \o Tail(p)
      BY <1>2, <2>2
    <3> HIDE DEF q
    <3>2. /\ q \in PlansAt(user.pos) /\ q # <<>>
          /\ ~WillSave(p) /\ ~WillSave(q) /\ ~WillDelete(q)
      BY <1>1, <2>2, <3>1, AgainSteps
    <3>3. WillMark(p) => WillMark(q)
      BY Zenon, <1>1, <2>2, <3>1, AgainSteps
    <3>4. WillFlag(p) => WillFlag(q)
      BY Zenon, <1>1, <2>2, <3>1, AgainSteps
    <3>5. WillUndelete(q) => WillUndelete(p)
      BY <1>1, <2>2, <3>1, AgainSteps
    <3>6. user.pos = 0 => ~WillWrite(p)
      BY <1>1, <2>2, <3>1, AgainSteps
    <3>7. ~WillWrite(p) => ~WillUndelete(p)
      BY DEF WillWrite, WillMark, WillUndelete
    <3>8. ~h.own /\ WillUndelete(q) => ~listed[h.guid].deleted
      <4>. SUFFICES ASSUME ~h.own, WillUndelete(q) PROVE ~listed[h.guid].deleted
        OBVIOUS
      <4>1. user.pos # 0 /\ WillUndelete(user.todo)
        BY <3>5, <3>6, <3>7
      <4>2. CASE ~user.on.own
        BY <1>4, <4>1, <4>2 DEF UserInv
      <4>3. CASE user.on.own
        BY <1>1, <1>4, <4>1, <4>3 DEF UserInv
      <4>. QED
        BY <4>2, <4>3
    <3>. QED
      BY <3>2, <3>3, <3>4, <3>5, <3>6, <3>7, <3>8
  <2>. QED
    BY <1>2, <2>1, <2>2
<1> HIDE DEF q
<1>7. UserTyped' /\ user'.pos = user.pos /\ user'.todo = q /\ user'.on = h
  BY <1>1, <1>2, <1>3, <1>6, ThenFacts
<1>8. UserInv'
  BY <1>1, <1>2, <1>4, <1>6, <1>7 DEF UserInv, Idle, PlansAt
<1>9. ScreenTyped'
  BY <1>2 DEF TypeOK, ScreenTyped
<1>10. ASSUME NEW g \in DOMAIN listed \ touched, reload.pc \notin Reading
       PROVE  Agrees(g) \/ Listing(g)'
  <2>1. Listing(g)
    BY <1>10 DEF ListInv
  <2>2. CASE ~Pending(g) \/ user.pos = 0
    BY <1>6, <2>1, <2>2, NothingPending
  <2>3. CASE Pending(g) /\ user.pos # 0
    <3>1. Pending(g)'
      BY <1>4, <1>6, <1>7, <2>3 DEF Pending, Idle
    <3>2. /\ (WillSave(p) => WillSave(user'.todo)) /\ (WillMark(p) => WillMark(user'.todo))
          /\ (WillFlag(p) => WillFlag(user'.todo))
      BY <1>6, <1>7
    <3>3. Listing(g)'
      <4>1. g \in DOMAIN db' /\ db'[g].enqueued = listed'[g].enqueued
        BY <1>2, <2>1 DEF Listing
      <4>2. db'[g].unread = listed'[g].unread \/ (Pending(g)' /\ WillSave(user'.todo))
        BY <1>2, <2>1, <3>1, <3>2 DEF Listing
      <4>3. db'[g].deleted = listed'[g].deleted \/ (Pending(g)' /\ WillMark(user'.todo))
        BY <1>2, <2>1, <3>1, <3>2 DEF Listing
      <4>4. db'[g].flagged = listed'[g].flagged \/ (Pending(g)' /\ WillFlag(user'.todo))
        BY <1>2, <2>1, <3>1, <3>2 DEF Listing
      <4>. QED
        BY <4>1, <4>2, <4>3, <4>4 DEF Listing
    <3>. QED
      BY <3>3
  <2>. QED
    BY <2>2, <2>3
<1>. QED
  BY <1>2, <1>7, <1>8, <1>9, <1>10, UserOnly

\* At rest nothing is left to be written.
LEMMA AtRestFacts ==
  AtRest \in [pos : Nat, on : Handle, todo : {<<>>} \cup ListPlans \cup ArticlePlans]
  /\ AtRest.todo = <<>> /\ AtRest.on.own
BY DEF AtRest, DummyHandle, Handle, Dummy, Item

LEMMA IdleAgrees ==
  ASSUME ListInv, Idle, reload.pc \notin Reading, NEW g \in DOMAIN listed \ touched
  PROVE  Agrees(g)
<1>1. Listing(g) /\ ~Pending(g)
  BY DEF ListInv, Pending
<1>. QED
  BY <1>1, NothingPending

\* An article of the list in the view.
LEMMA ShowArticle ==
  ASSUME TypeOK, NEW g \in DOMAIN listed
  PROVE  LET a == [Closed EXCEPT !.guid = g, !.feed = "listed"]
         IN  /\ a \in [guid : Guids \cup {0}, feed : {"none", "listed", "cleared", "kept"}, item : Item]
             /\ a.guid = g
BY ListFacts DEF TypeOK, Closed, Dummy, Item

LEMMA LeaveArticleKeeps == ArticlesInv /\ LeaveArticle => ArticlesInv'
<1>. SUFFICES ASSUME ArticlesInv, LeaveArticle PROVE ArticlesInv'
  OBVIOUS
<1>. USE DEF ArticlesInv
<1>1. ~Idle /\ Head(user.todo) \in {"close", "next"} /\ user' = AtRest
  BY DEF LeaveArticle, Doing
<1>2. UNCHANGED <<doc, tooOld, db, stamp, listed, reload, touched, hidden, interrupted>>
  BY DEF LeaveArticle, ghosts
<1>3. user.pos = 0 /\ ~WillWrite(user.todo)
  BY <1>1, PlanOf, LeaveSteps
<1>4. UserTyped' /\ user'.todo = <<>> /\ user'.on.own
  BY <1>1, AtRestFacts DEF UserTyped
<1>5. \/ article' = Closed /\ screen' = "list"
      \/ (\E g \in DOMAIN listed : article' = [Closed EXCEPT !.guid = g, !.feed = "listed"])
         /\ screen' = screen
  BY DEF LeaveArticle
<1>6. screen = "article"
  BY <1>1, <1>3 DEF UserInv
<1>7. /\ ScreenTyped'
      /\ article'.feed = "listed" => article'.guid \in DOMAIN listed' /\ screen' = "article"
  <2>1. CASE article' = Closed /\ screen' = "list"
    BY <2>1 DEF ScreenTyped, Closed, Dummy, Item
  <2>2. CASE /\ \E g \in DOMAIN listed : article' = [Closed EXCEPT !.guid = g, !.feed = "listed"]
             /\ screen' = screen
    BY <1>2, <1>6, <2>2, ShowArticle DEF ScreenTyped
  <2>. QED
    BY <1>5, <2>1, <2>2
<1>8. UserInv'
  BY <1>4, <1>7 DEF UserInv, Idle
<1>9. \A g \in DOMAIN listed \ touched : reload.pc \notin Reading => Agrees(g)
  BY <1>3, NothingPending DEF ListInv
<1>. QED
  BY <1>2, <1>4, <1>7, <1>8, <1>9, UserOnly

LEMMA OpenArticleKeeps == ArticlesInv /\ OpenArticle => ArticlesInv'
<1>. SUFFICES ASSUME ArticlesInv, OpenArticle PROVE ArticlesInv'
  OBVIOUS
<1>. USE DEF ArticlesInv
<1>1. /\ Idle /\ screen = "list" /\ screen' = "article"
      /\ UNCHANGED <<doc, tooOld, db, stamp, listed, user, reload, touched, hidden, interrupted>>
  BY DEF OpenArticle, ghosts
<1>2. \E g \in DOMAIN listed : article' = [Closed EXCEPT !.guid = g, !.feed = "listed"]
  BY DEF OpenArticle
<1>3. ScreenTyped' /\ article'.guid \in DOMAIN listed
  BY <1>1, <1>2, ShowArticle DEF ScreenTyped
<1>4. UserTyped'
  BY <1>1 DEF TypeOK, UserTyped
<1>5. UserInv'
  BY <1>1, <1>3 DEF UserInv, Idle, WillDelete, WillUndelete
<1>6. \A g \in DOMAIN listed \ touched : reload.pc \notin Reading => Agrees(g)
  BY <1>1, IdleAgrees
<1>. QED
  BY <1>1, <1>3, <1>4, <1>5, <1>6, UserOnly

\* The plans of the keys.
LEMMA ListOpsArePlans ==
  ASSUME NEW op \in DOMAIN ListOps
  PROVE  /\ ListOps[op] \in ListPlans /\ ListOps[op] # <<>>
         /\ ~WillDelete(ListOps[op]) /\ ~WillUndelete(ListOps[op])
<1> DEFINE p == ListOps[op]
<1>1. \/ p = <<"read", "flip", "judge">> \/ p = <<"undelete", "again", "unmark", "toggle">>
      \/ p = <<"flag", "again", "saveFlags">>
  BY DEF ListOps
<1> HIDE DEF p
<1>2. CASE p = <<"read", "flip", "judge">>
  <2>1. p \in ListPlans
    BY Zenon, <1>2 DEF ListPlans
  <2>. QED
    BY <1>2, <2>1 DEF WillDelete, WillUndelete, p
<1>3. CASE p = <<"undelete", "again", "unmark", "toggle">>
  <2>1. p \in ListPlans
    BY Zenon, <1>3 DEF ListPlans
  <2>. QED
    BY <1>3, <2>1 DEF WillDelete, WillUndelete, p
<1>4. CASE p = <<"flag", "again", "saveFlags">>
  <2>1. p \in ListPlans
    BY Zenon, <1>4 DEF ListPlans
  <2>. QED
    BY <1>4, <2>1 DEF WillDelete, WillUndelete, p
<1>. QED
  BY Zenon, <1>1, <1>2, <1>3, <1>4

LEMMA ArticleOpsArePlans ==
  ASSUME NEW op \in DOMAIN ArticleOps
  PROVE  /\ ArticleOps[op] \in ArticlePlans /\ ArticleOps[op] # <<>>
         /\ ~WillDelete(ArticleOps[op]) /\ ~WillUndelete(ArticleOps[op])
<1> DEFINE p == ArticleOps[op]
<1>1. /\ p \in {<<"read", "delete", "mark", "next">>, <<"read", "unread", "close">>,
                <<"read", "again", "flag", "saveFlags">>, <<"read", "close">>}
      /\ Head(p) = "read"
  BY DEF ArticleOps
<1>2. p \in ArticlePlans
  BY Zenon, <1>1 DEF ArticlePlans
<1> HIDE DEF p
<1>3. p # <<>>
  BY <1>2, ArticleSteps
<1>4. ~WillDelete(p) /\ ~WillUndelete(p)
  BY <1>1, <1>3, WillByHead
<1>. QED
  BY <1>2, <1>3, <1>4 DEF p

LEMMA PressInListKeeps ==
  ASSUME ArticlesInv, NEW op, NEW i, PressInList(op, i)
  PROVE  ArticlesInv'
<1>. USE DEF ArticlesInv
<1> DEFINE p == ListOps[op]
           h == InList(VisibleAt(i))
<1>1. /\ Idle /\ screen = "list" /\ op \in DOMAIN ListOps /\ i \in 1 .. Cardinality(DOMAIN listed)
      /\ user' = [pos |-> i, on |-> h, todo |-> p]
      /\ UNCHANGED <<doc, tooOld, db, stamp, listed, screen, article, reload, touched, hidden,
                     interrupted>>
  BY DEF PressInList, ghosts
<1>2. p \in ListPlans /\ p # <<>> /\ ~WillDelete(p) /\ ~WillUndelete(p)
  BY <1>1, ListOpsArePlans
<1>3. VisibleAt(i) = VisibleIn(DOMAIN listed, i) /\ VisibleAt(i) \in DOMAIN listed
      /\ VisibleAt(i) \in Guids
  BY <1>1, VisibleAs, VisibleInList, ListFacts DEF TypeOK
<1>4. h \in Handle /\ ~h.own /\ h.guid = VisibleIn(DOMAIN listed, i)
  BY <1>3 DEF InList, Handle, Dummy, Item
<1>5. i \in Nat /\ i # 0
  <2>1. Cardinality(DOMAIN listed) \in Nat
    BY ListFacts, GuidsAreRanks, FS_Subset, FS_CardinalityType DEF TypeOK
  <2>. QED
    BY <1>1, <2>1
<1> HIDE DEF p, h
<1>6. UserTyped' /\ user'.pos = i /\ user'.on = h /\ user'.todo = p
  BY <1>1, <1>2, <1>4, <1>5 DEF UserTyped
<1>7. UserInv'
  BY <1>1, <1>2, <1>4, <1>5, <1>6 DEF UserInv, Idle
<1>8. ScreenTyped'
  BY <1>1 DEF TypeOK, ScreenTyped
<1>9. \A g \in DOMAIN listed \ touched : reload.pc \notin Reading => Agrees(g)
  BY <1>1, IdleAgrees
<1>. QED
  BY <1>1, <1>6, <1>7, <1>8, <1>9, UserOnly

LEMMA PressInArticleKeeps ==
  ASSUME ArticlesInv, NEW op, PressInArticle(op)
  PROVE  ArticlesInv'
<1>. USE DEF ArticlesInv
<1> DEFINE p == ArticleOps[op]
           h == ArticleItem
<1>1. /\ Idle /\ screen = "article" /\ op \in DOMAIN ArticleOps
      /\ user' = [pos |-> 0, on |-> h, todo |-> p]
      /\ UNCHANGED <<doc, tooOld, db, stamp, listed, screen, article, reload, touched, hidden,
                     interrupted>>
  BY DEF PressInArticle, ghosts
<1>2. p \in ArticlePlans /\ p # <<>> /\ ~WillDelete(p) /\ ~WillUndelete(p)
  BY <1>1, ArticleOpsArePlans
<1>3. /\ h \in Handle
      /\ h.own => article.feed # "listed"
      /\ ~h.own => article.feed = "listed" /\ h.guid = article.guid
  BY ArticleItemFacts
<1> HIDE DEF p, h
<1>4. UserTyped' /\ user'.pos = 0 /\ user'.on = h /\ user'.todo = p
  BY <1>1, <1>2, <1>3 DEF UserTyped
<1>5. UserInv'
  BY <1>1, <1>2, <1>3, <1>4 DEF UserInv, Idle
<1>6. ScreenTyped'
  BY <1>1 DEF TypeOK, ScreenTyped
<1>7. \A g \in DOMAIN listed \ touched : reload.pc \notin Reading => Agrees(g)
  BY <1>1, IdleAgrees
<1>. QED
  BY <1>1, <1>4, <1>5, <1>6, <1>7, UserOnly

\* Removing the deleted items from the list.
LEMMA PurgeKeeps ==
  ASSUME ArticlesInv, Idle, screen \in {"feeds", "list"}, screen' \in {"feeds", "list"},
         listed' = Purged(listed),
         UNCHANGED <<doc, tooOld, db, stamp, article, user, reload, touched, hidden, interrupted>>
  PROVE  ArticlesInv'
<1>. USE DEF ArticlesInv
<1>1. /\ IsList(listed') /\ DOMAIN listed' \subseteq DOMAIN listed
      /\ \A g \in DOMAIN listed' : listed'[g] = listed[g]
  BY PurgedItems DEF TypeOK
<1>2. ReloadTyped' /\ QueueInv' /\ DocInv'
  BY SameReload DEF TypeOK
<1>3. ScreenTyped' /\ UserTyped'
  BY DEF TypeOK, ScreenTyped, UserTyped
<1>4. TypeOK'
  BY <1>1, <1>2, <1>3 DEF TypeOK, GhostsTyped
<1>5. UserInv'
  BY DEF UserInv, Idle, WillDelete, WillUndelete
<1>6. ListInv'
  <2>. SUFFICES ASSUME reload.pc \notin Reading, NEW g \in DOMAIN listed' \ touched
                PROVE  Listing(g)'
    BY DEF ListInv
  <2>1. Agrees(g) /\ listed'[g] = listed[g]
    BY <1>1, IdleAgrees
  <2>. QED
    BY <2>1 DEF Agrees, Listing
<1>7. ReadInv'
  BY ReadKept
<1>. QED
  BY <1>2, <1>4, <1>5, <1>6, <1>7

LEMMA MarkFeedReadKeeps == ArticlesInv /\ MarkFeedRead => ArticlesInv'
<1>. SUFFICES ASSUME ArticlesInv, MarkFeedRead PROVE ArticlesInv'
  OBVIOUS
<1>. USE DEF ArticlesInv
<1>1. /\ Idle /\ screen \in {"feeds", "list"} /\ reload.pc \notin Reading \cup {"show"}
      /\ UNCHANGED <<doc, tooOld, stamp, screen, article, user, reload, touched, hidden, interrupted>>
  BY DEF MarkFeedRead, FeedsFree, Reading, ghosts
<1>2. /\ db' = [g \in DOMAIN db |-> [db[g] EXCEPT !.unread = FALSE]]
      /\ listed' = [g \in DOMAIN listed |-> [listed[g] EXCEPT !.unread = FALSE]]
  BY DEF MarkFeedRead
<1>3. /\ IsCache(db') /\ DOMAIN db' = DOMAIN db
      /\ \A g \in DOMAIN db : db'[g] = [db[g] EXCEPT !.unread = FALSE] /\ db[g] \in Row
  <2>1. \A g \in DOMAIN db : db[g] \in Row /\ [db[g] EXCEPT !.unread = FALSE] \in Row
    <3>1. \A g \in DOMAIN db : db[g] \in Row
      BY CacheFacts DEF TypeOK
    <3>2. \A row \in Row : [row EXCEPT !.unread = FALSE] \in Row
      BY DEF Row
    <3>. QED
      BY <3>1, <3>2
  <2>2. DOMAIN db \in SUBSET Guids
    BY CacheFacts DEF TypeOK
  <2>. QED
    BY <1>2, <2>1, <2>2 DEF IsCache
<1>4. /\ IsList(listed') /\ DOMAIN listed' = DOMAIN listed
      /\ \A g \in DOMAIN listed : listed'[g] = [listed[g] EXCEPT !.unread = FALSE] /\ listed[g] \in Item
  <2>1. \A g \in DOMAIN listed : listed[g] \in Item /\ [listed[g] EXCEPT !.unread = FALSE] \in Item
    <3>1. \A g \in DOMAIN listed : listed[g] \in Item
      BY ListFacts DEF TypeOK
    <3>2. \A item \in Item : [item EXCEPT !.unread = FALSE] \in Item
      BY DEF Item
    <3>. QED
      BY <3>1, <3>2
  <2>2. DOMAIN listed \in SUBSET Guids
    BY ListFacts DEF TypeOK
  <2>. QED
    BY <1>2, <2>1, <2>2 DEF IsList
<1>5. ReloadTyped' /\ QueueInv' /\ DocInv'
  BY <1>1, SameReload DEF TypeOK
<1>6. ScreenTyped' /\ UserTyped'
  BY <1>1 DEF TypeOK, ScreenTyped, UserTyped
<1>7. TypeOK'
  BY <1>1, <1>3, <1>4, <1>5, <1>6 DEF TypeOK, GhostsTyped
<1>8. UserInv'
  BY <1>1 DEF UserInv, Idle, WillDelete, WillUndelete
<1>9. ListInv'
  <2>. SUFFICES ASSUME reload.pc \notin Reading, NEW g \in DOMAIN listed \ touched
                PROVE  Listing(g)'
    BY <1>1, <1>4 DEF ListInv
  <2>1. Agrees(g)
    BY <1>1, IdleAgrees
  <2>2. /\ db'[g] = [db[g] EXCEPT !.unread = FALSE] /\ db[g] \in Row
        /\ listed'[g] = [listed[g] EXCEPT !.unread = FALSE] /\ listed[g] \in Item
    BY <1>3, <1>4, <2>1 DEF Agrees
  <2>3. db'[g].unread = listed'[g].unread /\ db'[g].deleted = db[g].deleted
        /\ db'[g].enqueued = db[g].enqueued /\ db'[g].flagged = db[g].flagged
        /\ listed'[g].deleted = listed[g].deleted /\ listed'[g].enqueued = listed[g].enqueued
        /\ listed'[g].flagged = listed[g].flagged
    BY <2>2 DEF Row, Item
  <2>. QED
    BY <1>3, <2>1, <2>3 DEF Agrees, Listing
<1>10. ReadInv'
  BY <1>1 DEF ReadInv
<1>. QED
  BY <1>5, <1>7, <1>8, <1>9, <1>10

LEMMA UserKeeps == ArticlesInv /\ User => ArticlesInv'
<1>. SUFFICES ASSUME ArticlesInv, User PROVE ArticlesInv'
  OBVIOUS
<1>1. CASE OpenList
  BY <1>1, PurgeKeeps DEF OpenList, ghosts
<1>2. CASE CloseList
  BY <1>2, PurgeKeeps DEF CloseList, ghosts
<1>3. CASE PurgeList
  BY <1>3, PurgeKeeps DEF PurgeList, ghosts
<1>4. CASE MarkFeedRead
  BY <1>4, MarkFeedReadKeeps
<1>5. CASE OpenArticle
  BY <1>5, OpenArticleKeeps
<1>6. CASE \E op \in UserOps, i \in Guids : PressInList(op, i)
  BY <1>6, PressInListKeeps
<1>7. CASE \E op \in UserOps : PressInArticle(op)
  BY <1>7, PressInArticleKeeps
<1>8. CASE SetUnread \/ SaveUnread
  BY <1>8, SetUnreadKeeps, SaveUnreadKeeps
<1>9. CASE SetDeleted \/ MarkDeleted
  BY <1>9, SetDeletedKeeps, MarkDeletedKeeps
<1>10. CASE SetFlags \/ SaveFlags
  BY <1>10, SetFlagsKeeps, SaveFlagsKeeps
<1>11. CASE LookUpAgain \/ LeaveArticle
  BY <1>11, LookUpAgainKeeps, LeaveArticleKeeps
<1>. QED
  BY <1>1, <1>2, <1>3, <1>4, <1>5, <1>6, <1>7, <1>8, <1>9, <1>10, <1>11 DEF User

-----------------------------------------------------------------------------
(* The reload thread's steps                                                 *)

\* A step of the reload that leaves the list and the main thread alone.
LEMMA BehindTheList ==
  ASSUME ArticlesInv, ReloadTyped', stamp' \in 0 .. NoRow, IsCache(db'), hidden' \subseteq Guids,
         interrupted' \in BOOLEAN, touched' \subseteq Guids \cup {0},
         reload'.pc \notin Reading => reload.pc \notin Reading,
         reload'.pc \notin Reading =>
           \A g \in DOMAIN listed \ touched' :
             /\ g \in DOMAIN db => g \notin touched /\ g \in DOMAIN db' /\ db'[g] = db[g]
             /\ g \notin touched,
         QueueInv', ReadInv', DocInv',
         UNCHANGED <<doc, tooOld, listed, screen, article, user>>
  PROVE  ArticlesInv'
<1>. USE DEF ArticlesInv
<1>1. ScreenTyped' /\ UserTyped'
  BY DEF TypeOK, ScreenTyped, UserTyped
<1>2. TypeOK'
  BY <1>1 DEF TypeOK, GhostsTyped
<1>3. UserInv'
  BY DEF UserInv, Idle
<1>4. ListInv'
  <2>. SUFFICES ASSUME reload'.pc \notin Reading, NEW g \in DOMAIN listed \ touched'
                PROVE  Listing(g)'
    BY DEF ListInv
  <2>1. Listing(g)
    BY DEF ListInv
  <2>2. g \in DOMAIN db /\ g \in DOMAIN db' /\ db'[g] = db[g]
    BY <2>1 DEF Listing
  <2>. QED
    BY <2>1, <2>2 DEF Listing, Pending, Idle
<1>. QED
  BY <1>2, <1>3, <1>4

\* While nothing has been read for the list, and nothing is put in the queue.
LEMMA NotLoading ==
  ASSUME reload'.pc \notin Reading \cup {"show"}
  PROVE  ReadInv' /\ QueueInv'
BY DEF ReadInv, QueueInv, Reading, At

\* The reload's record once it is through.
LEMMA NoReloadTyped ==
  ASSUME reload' = NoReload
  PROVE  ReloadTyped' /\ reload'.pc = "idle"
BY EmptyList DEF ReloadTyped, NoReload

LEMMA FetchKeeps == ArticlesInv /\ Fetch => ArticlesInv'
<1>. SUFFICES ASSUME ArticlesInv, Fetch PROVE ArticlesInv'
  OBVIOUS
<1>. USE DEF ArticlesInv
<1>1. reload.pc = "idle" /\ reload' = [reload EXCEPT !.pc = "stamp", !.doc = doc]
  BY DEF Fetch, At
<1>2. UNCHANGED <<doc, tooOld, db, stamp, listed, screen, article, user, touched, interrupted>>
      /\ hidden' \subseteq hidden
  BY DEF Fetch
<1>3. /\ ReloadTyped' /\ reload'.pc = "stamp" /\ reload'.doc = doc
  BY <1>1 DEF TypeOK, ReloadTyped
<1>4. ReadInv' /\ QueueInv'
  BY <1>3, NotLoading DEF Reading
<1>5. DocInv'
  BY <1>3 DEF DocInv, TypeOK
<1>6. reload.pc \notin Reading
  BY <1>1 DEF Reading
<1>. QED
  BY <1>2, <1>3, <1>4, <1>5, <1>6, BehindTheList DEF TypeOK, GhostsTyped

LEMMA StoreStampKeeps == ArticlesInv /\ StoreStamp => ArticlesInv'
<1>. SUFFICES ASSUME ArticlesInv, StoreStamp PROVE ArticlesInv'
  OBVIOUS
<1>. USE DEF ArticlesInv
<1> DEFINE S == {g \in DOMAIN db : db[g].deleted => g \in reload.doc.items}
<1>1. /\ reload.pc = "stamp" /\ reload.doc \in Document
      /\ touched' = touched \cup (DOMAIN db \ DOMAIN db')
      /\ UNCHANGED <<doc, tooOld, listed, screen, article, user, hidden>>
  BY DEF StoreStamp, At, DocInv
<1>2. stamp' \in 0 .. NoRow
  <2>1. stamp' = IF stamp = NoRow THEN NoRow ELSE reload.doc.version
    BY DEF StoreStamp
  <2>2. reload.doc.version \in 1 .. MaxVersion
    BY <1>1 DEF Document
  <2>. QED
    BY <2>1, <2>2, BoundsAreNumbers DEF TypeOK, NoRow
<1>3. \/ reload' = NoReload /\ interrupted' = FALSE /\ db' = db
      \/ reload' = [reload EXCEPT !.pc = "lock"] /\ interrupted' = TRUE /\ db' = Restrict(db, S)
  BY DEF StoreStamp, Goto
<1>4. /\ IsCache(db') /\ DOMAIN db' \subseteq DOMAIN db
      /\ \A g \in DOMAIN db' : db'[g] = db[g]
  <2>1. Restrict(db, S) = [g \in S |-> db[g]] /\ S \subseteq DOMAIN db
    BY DEF Restrict
  <2> HIDE DEF S
  <2>2. IsCache(Restrict(db, S))
    BY <2>1, CacheFacts DEF TypeOK, IsCache
  <2>. QED
    BY <1>3, <2>1, <2>2 DEF TypeOK
<1>5. ReloadTyped' /\ reload'.pc \in {"idle", "lock"} /\ DocInv'
  <2>1. CASE reload' = NoReload
    BY <2>1, NoReloadTyped DEF DocInv
  <2>2. CASE reload' = [reload EXCEPT !.pc = "lock"]
    BY <1>1, <2>2 DEF TypeOK, ReloadTyped, DocInv
  <2>. QED
    BY <1>3, <2>1, <2>2
<1>6. ReadInv' /\ QueueInv'
  BY <1>5, NotLoading DEF Reading
<1>7. reload.pc \notin Reading
  BY <1>1 DEF Reading
<1>8. touched' \subseteq Guids \cup {0} /\ interrupted' \in BOOLEAN /\ hidden' \subseteq Guids
  BY <1>1, <1>3, CacheFacts DEF TypeOK, GhostsTyped
<1>9. \A g \in DOMAIN listed \ touched' :
        /\ g \in DOMAIN db => g \notin touched /\ g \in DOMAIN db' /\ db'[g] = db[g]
        /\ g \notin touched
  BY <1>1, <1>4
<1>. QED
  BY <1>1, <1>2, <1>4, <1>5, <1>6, <1>7, <1>8, <1>9, BehindTheList

LEMMA StartStoreKeeps == ArticlesInv /\ StartStore => ArticlesInv'
<1>. SUFFICES ASSUME ArticlesInv, StartStore PROVE ArticlesInv'
  OBVIOUS
<1>. USE DEF ArticlesInv
<1> DEFINE S == FirstOf(reload.doc)
<1>1. /\ reload.pc = "lock" /\ reload' = [reload EXCEPT !.pc = "store", !.todo = S]
      /\ stamp' = (IF stamp = NoRow THEN 0 ELSE stamp)
      /\ UNCHANGED <<doc, tooOld, db, listed, screen, article, user, touched, hidden, interrupted>>
  BY DEF StartStore, At, ghosts
<1>2. reload.doc \in Document
  BY <1>1 DEF DocInv
<1>3. S \subseteq Guids
  BY <1>2 DEF Document, FirstOf
<1> HIDE DEF S
<1>4. ReloadTyped' /\ reload'.pc = "store" /\ reload'.doc = reload.doc
  BY <1>1, <1>3 DEF TypeOK, ReloadTyped
<1>5. ReadInv' /\ QueueInv'
  BY <1>4, NotLoading DEF Reading
<1>6. DocInv'
  BY <1>2, <1>4 DEF DocInv
<1>7. stamp' \in 0 .. NoRow
  BY <1>1, BoundsAreNumbers DEF TypeOK, NoRow
<1>8. reload.pc \notin Reading
  BY <1>1 DEF Reading
<1>. QED
  BY <1>1, <1>4, <1>5, <1>6, <1>7, <1>8, BehindTheList DEF TypeOK, GhostsTyped

\* What storing one article does to the cache.
LEMMA StoreItemFacts ==
  ASSUME ArticlesInv, StoreItem
  PROVE  \E g \in reload.todo :
           /\ g \in Guids /\ reload.doc \in Document
           /\ IsCache(db') /\ DOMAIN db \subseteq DOMAIN db' /\ DOMAIN db' \subseteq DOMAIN db \cup {g}
           /\ \A h \in DOMAIN db : h # g => db'[h] = db[h]
           /\ g \in DOMAIN db =>
                /\ db'[g].enqueued = db[g].enqueued
                /\ ~db[g].unread /\ db'[g].unread => ResetUnread /\ db'[g].text # db[g].text
           /\ touched' = touched \cup {g}
           /\ reload' = [reload EXCEPT !.todo = @ \ {g},
                                       !.pc = IF reload.todo = {g} THEN "read" ELSE "store"]
           /\ interrupted' = (interrupted /\ reload.todo # {g})
<1>. USE DEF ArticlesInv
<1>1. PICK g \in reload.todo :
        /\ db' = IF g > tooOld THEN Saved(db, g, reload.doc.text[g]) ELSE db
        /\ touched' = touched \cup {g}
        /\ reload' = [reload EXCEPT !.todo = @ \ {g},
                                    !.pc = IF reload.todo = {g} THEN "read" ELSE "store"]
        /\ interrupted' = (interrupted /\ reload.todo # {g})
  BY DEF StoreItem
<1>2. g \in Guids /\ reload.doc \in Document /\ IsCache(db)
  BY DEF TypeOK, ReloadTyped, DocInv, StoreItem, At
<1>3. reload.doc.text[g] \in 1 .. MaxVersion
  BY <1>2 DEF Document
<1> DEFINE text == reload.doc.text[g]
           new == Saved(db, g, text)
<1> HIDE DEF text
<1>4. text \in 1 .. MaxVersion
  BY <1>3 DEF text
<1>5. /\ IsCache(new) /\ DOMAIN new = DOMAIN db \cup {g}
      /\ \A h \in DOMAIN db : h # g => new[h] = db[h]
      /\ new[g].text = text
      /\ g \in DOMAIN db => new[g].enqueued = db[g].enqueued
  BY <1>2, <1>4, SavedRow
<1>6. g \in DOMAIN db => (~db[g].unread /\ new[g].unread => ResetUnread /\ db[g].text # text)
  BY <1>2, <1>4, SavedRow
<1> HIDE DEF new
<1>7. db' = new \/ db' = db
  BY <1>1 DEF new, text
<1>8. /\ IsCache(db') /\ DOMAIN db \subseteq DOMAIN db' /\ DOMAIN db' \subseteq DOMAIN db \cup {g}
      /\ \A h \in DOMAIN db : h # g => db'[h] = db[h]
      /\ g \in DOMAIN db =>
                /\ db'[g].enqueued = db[g].enqueued
                /\ ~db[g].unread /\ db'[g].unread => ResetUnread /\ db'[g].text # db[g].text
  <2>1. CASE db' = new
    BY <1>5, <1>6, <2>1
  <2>2. CASE db' = db
    BY <1>2, <2>2
  <2>. QED
    BY <1>7, <2>1, <2>2
<1>. QED
  BY <1>1, <1>2, <1>8

LEMMA StoreItemKeeps == ArticlesInv /\ StoreItem => ArticlesInv'
<1>. SUFFICES ASSUME ArticlesInv, StoreItem PROVE ArticlesInv'
  OBVIOUS
<1>1. PICK g \in reload.todo :
        /\ g \in Guids /\ reload.doc \in Document
        /\ IsCache(db') /\ DOMAIN db \subseteq DOMAIN db' /\ DOMAIN db' \subseteq DOMAIN db \cup {g}
        /\ \A h \in DOMAIN db : h # g => db'[h] = db[h]
        /\ g \in DOMAIN db =>
             /\ db'[g].enqueued = db[g].enqueued
             /\ ~db[g].unread /\ db'[g].unread => ResetUnread /\ db'[g].text # db[g].text
        /\ touched' = touched \cup {g}
        /\ reload' = [reload EXCEPT !.todo = @ \ {g},
                                    !.pc = IF reload.todo = {g} THEN "read" ELSE "store"]
        /\ interrupted' = (interrupted /\ reload.todo # {g})
  BY StoreItemFacts
<1>. USE DEF ArticlesInv
<1>2. reload.pc = "store" /\ UNCHANGED <<doc, tooOld, stamp, listed, screen, article, user, hidden>>
  BY DEF StoreItem, At
<1>3. ReloadTyped' /\ reload'.pc \in {"read", "store"} /\ reload'.doc = reload.doc
  <2> DEFINE pc == IF reload.todo = {g} THEN "read" ELSE "store"
             todo == reload.todo \ {g}
  <2>1. pc \in {"read", "store"} /\ todo \subseteq Guids
    BY DEF TypeOK, ReloadTyped
  <2>2. reload' = [reload EXCEPT !.todo = todo, !.pc = pc]
    BY <1>1
  <2> HIDE DEF pc, todo
  <2>. QED
    BY <2>1, <2>2 DEF TypeOK, ReloadTyped
<1>4. ReadInv' /\ QueueInv'
  BY <1>3, NotLoading DEF Reading
<1>5. DocInv'
  BY <1>1, <1>3 DEF DocInv
<1>6. reload.pc \notin Reading
  BY <1>2 DEF Reading
<1>7. touched' \subseteq Guids \cup {0} /\ hidden' \subseteq Guids /\ interrupted' \in BOOLEAN
  BY <1>1, <1>2 DEF TypeOK, GhostsTyped
<1>8. stamp' \in 0 .. NoRow
  BY <1>2 DEF TypeOK
<1>9. \A x \in DOMAIN listed \ touched' :
        /\ x \in DOMAIN db => x \notin touched /\ x \in DOMAIN db' /\ db'[x] = db[x]
        /\ x \notin touched
  BY <1>1
<1>. QED
  BY <1>1, <1>2, <1>3, <1>4, <1>5, <1>6, <1>7, <1>8, <1>9, BehindTheList

LEMMA StoreFailsKeeps == ArticlesInv /\ StoreFails => ArticlesInv'
<1>. SUFFICES ASSUME ArticlesInv, StoreFails PROVE ArticlesInv'
  OBVIOUS
<1>. USE DEF ArticlesInv
<1>1. /\ reload.pc = "store" /\ reload' = NoReload
      /\ UNCHANGED <<doc, tooOld, db, stamp, listed, screen, article, user, touched, hidden,
                     interrupted>>
  BY DEF StoreFails, At, ghosts
<1>2. ReloadTyped' /\ reload'.pc = "idle"
  BY <1>1, NoReloadTyped
<1>3. ReadInv' /\ QueueInv' /\ DocInv'
  BY <1>2, NotLoading DEF Reading, DocInv
<1>4. reload.pc \notin Reading
  BY <1>1 DEF Reading
<1>. QED
  BY <1>1, <1>2, <1>3, <1>4, BehindTheList DEF TypeOK, GhostsTyped

\* Rows as they are read agree with the items made of them.
LEMMA RowsRead ==
  ASSUME NEW d, IsCache(d), NEW g \in Kept(d)
  PROVE  /\ g \in DOMAIN Limited(d) /\ ~Loaded(d)[g].deleted
         /\ Limited(d)[g].unread = Loaded(d)[g].unread
         /\ Limited(d)[g].deleted = Loaded(d)[g].deleted
         /\ Limited(d)[g].enqueued = Loaded(d)[g].enqueued
         /\ Limited(d)[g].flagged = Loaded(d)[g].flagged
<1>1. g \in DOMAIN Limited(d) /\ Limited(d)[g] = d[g] /\ Loaded(d)[g] = ItemOf(d[g]) /\ ~d[g].deleted
  BY LimitedRows, LoadedItems
<1>. QED
  BY <1>1 DEF ItemOf

LEMMA ReadRowsKeeps == ArticlesInv /\ ReadRows => ArticlesInv'
<1>. SUFFICES ASSUME ArticlesInv, ReadRows PROVE ArticlesInv'
  OBVIOUS
<1>. USE DEF ArticlesInv
<1> DEFINE queued == IF At("again") /\ AutoEnqueue THEN {g \in Kept(db) : ~db[g].enqueued} ELSE {}
           pc == IF At("read") THEN "show" ELSE IF queued = {} THEN "notify" ELSE "enqueue"
<1>1. /\ reload.pc \in {"read", "again"} /\ db' = Limited(db)
      /\ reload' = [reload EXCEPT !.doc = NoDoc, !.items = Loaded(db), !.todo = queued, !.pc = pc]
      /\ touched' = IF At("read") THEN touched \cup (DOMAIN db \ DOMAIN db') ELSE {}
      /\ UNCHANGED <<doc, tooOld, stamp, listed, screen, article, user, hidden, interrupted>>
  BY DEF ReadRows, At
<1>2. IsCache(db) /\ IsCache(db') /\ DOMAIN db' \subseteq DOMAIN db
      /\ \A g \in DOMAIN db' : db'[g] = db[g]
  BY <1>1, LimitedRows DEF TypeOK
<1>3. /\ IsList(Loaded(db)) /\ DOMAIN Loaded(db) = Kept(db) /\ Kept(db) \subseteq DOMAIN db
      /\ Kept(db) \subseteq DOMAIN db'
  BY <1>1, <1>2, LoadedItems
<1>4. queued \subseteq Kept(db) /\ Kept(db) \subseteq Guids
  BY <1>2, <1>3, CacheFacts
<1>5. /\ pc \in {"show", "notify", "enqueue"} /\ (pc = "show" <=> reload.pc = "read")
  BY DEF At
<1> HIDE DEF queued, pc
<1>6. ReloadTyped' /\ reload'.pc = pc /\ reload'.items = Loaded(db) /\ reload'.todo = queued
  BY <1>1, <1>3, <1>4, <1>5 DEF TypeOK, ReloadTyped
<1>7. QueueInv'
  BY <1>3, <1>4, <1>5, <1>6 DEF QueueInv, At
<1>8. DocInv'
  BY <1>5, <1>6 DEF DocInv
<1>9. ReadInv'
  <2>1. \A g \in DOMAIN reload'.items : ~reload'.items[g].deleted
    BY <1>2, <1>3, <1>6, RowsRead
  <2>2. ASSUME NEW g \in DOMAIN reload'.items PROVE Loading(g)'
    <3>1. g \in Kept(db)
      BY <1>3, <1>6, <2>2
    <3>. QED
      BY <1>1, <1>2, <1>6, <3>1, RowsRead DEF Loading
  <2>. QED
    BY <2>1, <2>2 DEF ReadInv
<1>10. reload'.pc \notin Reading => reload.pc = "read"
       /\ touched' = touched \cup (DOMAIN db \ DOMAIN db')
  BY <1>1, <1>5, <1>6 DEF Reading, At
<1>11. reload'.pc \notin Reading =>
         /\ reload.pc \notin Reading
         /\ \A g \in DOMAIN listed \ touched' :
              /\ g \in DOMAIN db => g \notin touched /\ g \in DOMAIN db' /\ db'[g] = db[g]
              /\ g \notin touched
  BY <1>2, <1>10 DEF Reading
<1>12. touched' \subseteq Guids \cup {0} /\ hidden' \subseteq Guids /\ interrupted' \in BOOLEAN
       /\ stamp' \in 0 .. NoRow
  BY <1>1, <1>2, CacheFacts DEF TypeOK, GhostsTyped
<1>. QED
  BY <1>1, <1>2, <1>6, <1>7, <1>8, <1>9, <1>11, <1>12, BehindTheList

LEMMA EnqueueItemKeeps == ArticlesInv /\ EnqueueItem => ArticlesInv'
<1>. SUFFICES ASSUME ArticlesInv, EnqueueItem PROVE ArticlesInv'
  OBVIOUS
<1>. USE DEF ArticlesInv
<1>1. /\ reload.pc = "enqueue"
      /\ UNCHANGED <<doc, tooOld, db, stamp, listed, screen, article, user, touched, hidden,
                     interrupted>>
  BY DEF EnqueueItem, At, ghosts
<1>2. PICK g \in reload.todo :
        /\ \A h \in reload.todo : g >= h
        /\ reload' = [reload EXCEPT !.items[g].enqueued = TRUE, !.pc = "mark"]
  BY DEF EnqueueItem
<1> DEFINE item == [reload.items[g] EXCEPT !.enqueued = TRUE]
           items == [reload.items EXCEPT ![g] = item]
<1>3. g \in DOMAIN reload.items /\ IsList(reload.items) /\ reload.todo \subseteq Guids
  BY <1>1, <1>2 DEF QueueInv, TypeOK, ReloadTyped
<1>4. reload.items[g] \in Item
  BY <1>3, ListFacts
<1>5. /\ item \in Item /\ item.enqueued /\ item.unread = reload.items[g].unread
      /\ item.deleted = reload.items[g].deleted /\ item.flagged = reload.items[g].flagged
  BY <1>4 DEF Item
<1>6. reload' = [reload EXCEPT !.items = items, !.pc = "mark"]
  BY <1>2 DEF TypeOK, ReloadTyped
<1> HIDE DEF item
<1>7. /\ IsList(items) /\ DOMAIN items = DOMAIN reload.items /\ items[g] = item
      /\ \A h \in DOMAIN reload.items : h # g => items[h] = reload.items[h]
  BY <1>3, <1>5, ItemReplaced
<1> HIDE DEF items
<1>8. /\ ReloadTyped' /\ reload'.pc = "mark" /\ reload'.items = items
      /\ reload'.todo = reload.todo
  BY <1>6, <1>7 DEF TypeOK, ReloadTyped
<1>9. \A h \in Newest(reload.todo) : h = g
  <2>1. \A h \in reload.todo : h \in Nat
    BY <1>3, GuidsAreRanks
  <2>. QED
    BY <1>2, <2>1 DEF Newest
<1>10. QueueInv'
  <2>1. reload'.todo \subseteq DOMAIN reload'.items
    BY <1>1, <1>7, <1>8 DEF QueueInv
  <2>2. \A h \in Newest(reload'.todo) : reload'.items[h].enqueued
    BY <1>5, <1>7, <1>8, <1>9
  <2>. QED
    BY <2>1, <2>2 DEF QueueInv
<1>11. DocInv'
  BY <1>8 DEF DocInv
<1>12. ReadInv'
  <2>1. /\ \A h \in DOMAIN reload.items : ~reload.items[h].deleted
        /\ \A h \in DOMAIN reload.items \ touched : Loading(h)
    BY <1>1 DEF ReadInv, Reading
  <2>2. \A h \in DOMAIN items : ~items[h].deleted
    BY <1>5, <1>7, <2>1
  <2>3. ASSUME NEW h \in DOMAIN items \ touched PROVE Loading(h)'
    <3>1. Loading(h) /\ ~At("mark")
      BY <1>1, <1>7, <2>1 DEF At
    <3>2. CASE h # g
      BY <1>1, <1>7, <1>8, <3>1, <3>2 DEF Loading
    <3>3. CASE h = g
      <4>1. g \in Newest(reload'.todo) /\ At("mark")'
        BY <1>2, <1>8 DEF Newest, At
      <4>. QED
        BY <1>1, <1>5, <1>7, <1>8, <3>1, <3>3, <4>1 DEF Loading
    <3>. QED
      BY <3>2, <3>3
  <2>. QED
    BY <1>1, <1>8, <2>2, <2>3 DEF ReadInv
<1>13. reload'.pc \in Reading
  BY <1>8 DEF Reading
<1>. QED
  BY <1>1, <1>8, <1>10, <1>11, <1>12, <1>13, BehindTheList DEF TypeOK, GhostsTyped

LEMMA MarkEnqueuedKeeps == ArticlesInv /\ MarkEnqueued => ArticlesInv'
<1>. SUFFICES ASSUME ArticlesInv, MarkEnqueued PROVE ArticlesInv'
  OBVIOUS
<1>. USE DEF ArticlesInv
<1>1. /\ reload.pc = "mark"
      /\ UNCHANGED <<doc, tooOld, stamp, listed, screen, article, user, touched, hidden, interrupted>>
  BY DEF MarkEnqueued, At, ghosts
<1>2. PICK g \in reload.todo :
        /\ \A h \in reload.todo : g >= h
        /\ db' = SaveUnreadAndEnqueued(db, g, reload.items[g])
        /\ reload' = [reload EXCEPT !.todo = @ \ {g},
                                    !.pc = IF reload.todo = {g} THEN "notify" ELSE "enqueue"]
  BY DEF MarkEnqueued
<1> DEFINE todo == reload.todo \ {g}
           pc == IF reload.todo = {g} THEN "notify" ELSE "enqueue"
<1>3. g \in DOMAIN reload.items /\ IsList(reload.items) /\ reload.todo \subseteq Guids /\ IsCache(db)
  BY <1>1, <1>2 DEF QueueInv, TypeOK, ReloadTyped
<1>4. reload.items[g] \in Item
  BY <1>3, ListFacts
<1>5. /\ IsCache(db') /\ DOMAIN db' = DOMAIN db
      /\ \A h \in DOMAIN db : h # g => db'[h] = db[h]
      /\ g \in DOMAIN db =>
           /\ db'[g].unread = reload.items[g].unread /\ db'[g].enqueued = reload.items[g].enqueued
           /\ db'[g].deleted = db[g].deleted /\ db'[g].flagged = db[g].flagged
  BY <1>2, <1>3, <1>4, FlagsSaved
<1>6. pc \in {"notify", "enqueue"} /\ todo \subseteq Guids /\ todo \subseteq reload.todo
  BY <1>3
<1>7. reload' = [reload EXCEPT !.todo = todo, !.pc = pc]
  BY <1>2
<1> HIDE DEF todo, pc
<1>8. ReloadTyped' /\ reload'.pc = pc /\ reload'.items = reload.items /\ reload'.todo = todo
  BY <1>6, <1>7 DEF TypeOK, ReloadTyped
<1>9. QueueInv'
  BY <1>1, <1>6, <1>8 DEF QueueInv, At
<1>10. DocInv'
  BY <1>6, <1>8 DEF DocInv
<1>11. \A h \in Newest(reload.todo) : h = g
  <2>1. \A h \in reload.todo : h \in Nat
    BY <1>3, GuidsAreRanks
  <2>. QED
    BY <1>2, <2>1 DEF Newest
<1>12. ReadInv'
  <2>1. /\ \A h \in DOMAIN reload.items : ~reload.items[h].deleted
        /\ \A h \in DOMAIN reload.items \ touched : Loading(h)
    BY <1>1 DEF ReadInv, Reading
  <2>2. ASSUME NEW h \in DOMAIN reload.items \ touched PROVE Loading(h)'
    <3>1. Loading(h)
      BY <2>1
    <3>2. CASE h # g
      <4>1. db[h].enqueued = reload.items[h].enqueued
        BY <1>11, <3>1, <3>2 DEF Loading
      <4>. QED
        BY <1>5, <1>8, <3>1, <3>2, <4>1 DEF Loading
    <3>3. CASE h = g
      BY <1>5, <1>8, <3>1, <3>3 DEF Loading
    <3>. QED
      BY <3>2, <3>3
  <2>. QED
    BY <1>1, <1>8, <2>1, <2>2 DEF ReadInv
<1>13. reload'.pc \in Reading
  BY <1>6, <1>8 DEF Reading
<1>. QED
  BY <1>1, <1>5, <1>8, <1>9, <1>10, <1>12, <1>13, BehindTheList DEF TypeOK, GhostsTyped

\* The list gets the items that the reload has read.
LEMMA DetachedFacts ==
  ASSUME TypeOK, UserInv, user' = Detached
  PROVE  /\ UserTyped' /\ user'.pos = user.pos /\ user'.todo = user.todo
         /\ user'.todo # <<>> => user'.on.own
<1>1. user \in [pos : Nat, on : Handle, todo : {<<>>} \cup ListPlans \cup ArticlePlans]
  BY DEF TypeOK, UserTyped
<1>2. CASE Idle \/ user.on.own
  BY <1>1, <1>2 DEF Detached, UserTyped, Idle
<1>3. CASE ~Idle /\ ~user.on.own
  <2> DEFINE on == [user.on EXCEPT !.own = TRUE, !.item = listed[user.on.guid]]
             Plans == {<<>>} \cup ListPlans \cup ArticlePlans
  <2>1. listed[user.on.guid] \in Item /\ user.on \in Handle
    BY <1>3, HeldItem, ListFacts DEF TypeOK
  <2>2. on \in Handle /\ on.own
    BY <2>1 DEF Handle
  <2>3. user' = [user EXCEPT !.on = on]
    BY <1>1, <1>3, <2>1 DEF Detached, Handle
  <2>4. user \in [pos : Nat, on : Handle, todo : Plans]
    BY <1>1
  <2> HIDE DEF on, Plans
  <2>5. /\ user' \in [pos : Nat, on : Handle, todo : Plans]
        /\ user'.on = on /\ user'.pos = user.pos /\ user'.todo = user.todo
    BY <2>2, <2>3, <2>4
  <2>. QED
    BY <2>2, <2>5 DEF UserTyped, Plans
<1>. QED
  BY <1>2, <1>3

LEMMA ShownKeeps ==
  ASSUME ArticlesInv, reload.pc \in {"show", "notify"}, listed' = reload.items, user' = Detached,
         ScreenTyped', article'.feed # "listed", article'.guid = article.guid, screen' = screen,
         ReloadTyped', reload'.pc \in {"again", "idle"},
         UNCHANGED <<doc, tooOld, db, stamp, touched, hidden, interrupted>>
  PROVE  ArticlesInv'
<1>. USE DEF ArticlesInv
<1>1. /\ UserTyped' /\ user'.pos = user.pos /\ user'.todo = user.todo
      /\ user'.todo # <<>> => user'.on.own
  BY DetachedFacts
<1>2. /\ IsList(listed') /\ \A g \in DOMAIN listed' : ~listed'[g].deleted
      /\ \A g \in DOMAIN listed' \ touched : Loading(g)
  BY DEF TypeOK, ReloadTyped, ReadInv, Reading
<1>3. TypeOK'
  BY <1>1, <1>2 DEF TypeOK, GhostsTyped
<1>4. UserInv'
  BY <1>1, <1>2 DEF UserInv, Idle, WillDelete, WillUndelete
<1>5. ListInv'
  <2>. SUFFICES ASSUME NEW g \in DOMAIN listed' \ touched PROVE Listing(g)'
    BY DEF ListInv
  <2>1. Loading(g) /\ ~At("mark") /\ listed'[g] = reload.items[g]
    BY <1>2 DEF At
  <2>. QED
    BY <2>1 DEF Loading, Listing
<1>6. ReadInv' /\ QueueInv'
  BY NotLoading DEF Reading
<1>7. DocInv'
  BY DEF DocInv
<1>. QED
  BY <1>3, <1>4, <1>5, <1>6, <1>7

LEMMA ShowFeedKeeps == ArticlesInv /\ ShowFeed => ArticlesInv'
<1>. SUFFICES ASSUME ArticlesInv, ShowFeed PROVE ArticlesInv'
  OBVIOUS
<1>1. /\ reload.pc = "show" /\ listed' = reload.items /\ user' = Detached /\ screen' = screen
      /\ article' = IF article.feed = "listed" THEN [article EXCEPT !.feed = "cleared"] ELSE article
      /\ reload' = [reload EXCEPT !.pc = "again", !.items = <<>>]
      /\ UNCHANGED <<doc, tooOld, db, stamp, touched, hidden, interrupted>>
  BY DEF ShowFeed, At, ghosts
<1>2. ScreenTyped' /\ article'.feed # "listed" /\ article'.guid = article.guid
  BY <1>1 DEF ArticlesInv, TypeOK, ScreenTyped
<1>3. IsList(<<>>)
  BY EmptyList
<1>4. ReloadTyped' /\ reload'.pc = "again"
  BY <1>1, <1>3 DEF ArticlesInv, TypeOK, ReloadTyped
<1>. QED
  BY <1>1, <1>2, <1>4, ShownKeeps

LEMMA NotifyListKeeps == ArticlesInv /\ NotifyList => ArticlesInv'
<1>. SUFFICES ASSUME ArticlesInv, NotifyList PROVE ArticlesInv'
  OBVIOUS
<1>1. /\ reload.pc = "notify" /\ listed' = reload.items /\ user' = Detached /\ screen' = screen
      /\ article' = IF article.feed = "listed"
                      THEN [article EXCEPT !.feed = "kept", !.item = listed[article.guid]]
                      ELSE article
      /\ reload' = NoReload
      /\ UNCHANGED <<doc, tooOld, db, stamp, touched, hidden, interrupted>>
  BY DEF NotifyList, At, ghosts
<1>2. article.feed = "listed" => listed[article.guid] \in Item
  BY ListFacts DEF ArticlesInv, TypeOK, UserInv
<1>3. ScreenTyped' /\ article'.feed # "listed" /\ article'.guid = article.guid
  BY <1>1, <1>2 DEF ArticlesInv, TypeOK, ScreenTyped
<1>4. ReloadTyped' /\ reload'.pc = "idle"
  BY <1>1, NoReloadTyped
<1>. QED
  BY <1>1, <1>3, <1>4, ShownKeeps

LEMMA ReloadKeeps == ArticlesInv /\ Reload => ArticlesInv'
<1>. SUFFICES ASSUME ArticlesInv, Reload PROVE ArticlesInv'
  OBVIOUS
<1>1. CASE Fetch \/ StoreStamp \/ StartStore
  BY <1>1, FetchKeeps, StoreStampKeeps, StartStoreKeeps
<1>2. CASE StoreItem \/ StoreFails \/ ReadRows
  BY <1>2, StoreItemKeeps, StoreFailsKeeps, ReadRowsKeeps
<1>3. CASE ShowFeed \/ EnqueueItem \/ MarkEnqueued \/ NotifyList
  BY <1>3, ShowFeedKeeps, EnqueueItemKeeps, MarkEnqueuedKeeps, NotifyListKeeps
<1>. QED
  BY <1>1, <1>2, <1>3 DEF Reload

-----------------------------------------------------------------------------
(* The process stops and starts, the server publishes                        *)

\* The rows of the articles that are not too old.
Young(rows) == Restrict(rows, {g \in DOMAIN rows : g > tooOld})

LEMMA YoungRows ==
  ASSUME NEW rows, IsCache(rows)
  PROVE  /\ IsCache(Young(rows)) /\ DOMAIN Young(rows) \subseteq DOMAIN rows
         /\ \A g \in DOMAIN Young(rows) : Young(rows)[g] = rows[g]
<1> DEFINE S == {g \in DOMAIN rows : g > tooOld}
<1>1. Young(rows) = [g \in S |-> rows[g]] /\ S \subseteq DOMAIN rows
  BY DEF Young, Restrict
<1> HIDE DEF S
<1>. QED
  BY <1>1, CacheFacts DEF IsCache

LEMMA RestartKeeps ==
  ASSUME ArticlesInv, NEW rows, IsCache(rows), Restart(rows)
  PROVE  ArticlesInv'
<1>. USE DEF ArticlesInv
<1> DEFINE young == Young(rows)
<1>1. /\ db' = Limited(young) /\ listed' = Loaded(young)
      /\ screen' = "feeds" /\ article' = Closed /\ user' = AtRest /\ reload' = NoReload
      /\ touched' = {} /\ UNCHANGED <<doc, tooOld, stamp, hidden, interrupted>>
  BY DEF Restart, Young
<1>2. IsCache(young)
  BY YoungRows
<1> HIDE DEF young
<1>3. IsCache(db') /\ IsList(listed') /\ DOMAIN listed' = Kept(young)
  BY <1>1, <1>2, LimitedRows, LoadedItems
<1>4. ReloadTyped' /\ reload'.pc = "idle"
  BY <1>1, NoReloadTyped
<1>5. UserTyped' /\ user'.todo = <<>> /\ user'.on.own
  BY <1>1, AtRestFacts DEF UserTyped
<1>6. ScreenTyped' /\ article'.feed = "none"
  BY <1>1 DEF ScreenTyped, Closed, Dummy, Item
<1>7. TypeOK'
  BY <1>1, <1>3, <1>4, <1>5, <1>6 DEF TypeOK, GhostsTyped
<1>8. UserInv'
  BY <1>5, <1>6 DEF UserInv, Idle
<1>9. ListInv'
  BY <1>1, <1>2, <1>3, RowsRead DEF ListInv, Listing
<1>10. ReadInv' /\ QueueInv' /\ DocInv'
  BY <1>4, NotLoading DEF Reading, DocInv
<1>. QED
  BY <1>7, <1>8, <1>9, <1>10

LEMMA CrashKeeps == ArticlesInv /\ Crash => ArticlesInv'
BY RestartKeeps DEF Crash, ArticlesInv, TypeOK

\* What cleanup-on-quit leaves of the rows.
Cleaned(d) == [g \in DOMAIN d |-> [d[g] EXCEPT !.deleted = @ \/ (DeleteReadOnQuit /\ ~d[g].unread)]]

LEMMA CleanedRows ==
  ASSUME NEW d, IsCache(d)
  PROVE  /\ IsCache(Cleaned(d)) /\ DOMAIN Cleaned(d) = DOMAIN d
         /\ \A g \in DOMAIN d :
              /\ Cleaned(d)[g].unread = d[g].unread /\ Cleaned(d)[g].enqueued = d[g].enqueued
              /\ Cleaned(d)[g].text = d[g].text
<1> DEFINE row(g) == [d[g] EXCEPT !.deleted = @ \/ (DeleteReadOnQuit /\ ~d[g].unread)]
<1>1. ASSUME NEW g \in DOMAIN d
      PROVE  /\ row(g) \in Row /\ row(g).unread = d[g].unread /\ row(g).enqueued = d[g].enqueued
             /\ row(g).text = d[g].text
  <2> DEFINE deleted == d[g].deleted \/ (DeleteReadOnQuit /\ ~d[g].unread)
  <2>1. d[g] \in Row /\ deleted \in BOOLEAN
    BY CacheFacts
  <2>2. row(g) = [d[g] EXCEPT !.deleted = deleted]
    OBVIOUS
  <2> HIDE DEF deleted, row
  <2>. QED
    BY <2>1, <2>2 DEF Row
<1>2. Cleaned(d) = [g \in DOMAIN d |-> row(g)]
  BY DEF Cleaned
<1> HIDE DEF row
<1>3. Cleaned(d) \in [DOMAIN d -> Row] /\ DOMAIN d \in SUBSET Guids
  BY <1>1, <1>2, CacheFacts
<1>. QED
  BY <1>1, <1>2, <1>3 DEF IsCache

LEMMA QuitKeeps == ArticlesInv /\ Quit => ArticlesInv'
BY RestartKeeps, CleanedRows DEF Quit, Cleaned, ArticlesInv, TypeOK

\* The world around the program.
LEMMA WorldKeeps ==
  ASSUME ArticlesInv, doc' \in Document, tooOld' \in Nat, UNCHANGED <<program, ghosts>>
  PROVE  ArticlesInv'
<1>. USE DEF ArticlesInv
<1>1. UNCHANGED <<db, stamp, listed, screen, article, user, reload, touched, hidden, interrupted>>
  BY DEF program, ghosts
<1>2. TypeOK'
  BY <1>1 DEF TypeOK, ScreenTyped, UserTyped, ReloadTyped, GhostsTyped
<1>3. UserInv'
  BY <1>1 DEF UserInv, Idle
<1>4. ListInv'
  BY <1>1 DEF ListInv, Listing, Pending, Idle
<1>5. ReadInv'
  BY <1>1, ReadKept
<1>6. QueueInv' /\ DocInv'
  BY <1>1, SameReload DEF TypeOK
<1>. QED
  BY <1>2, <1>3, <1>4, <1>5, <1>6

LEMMA PublishKeeps ==
  ASSUME ArticlesInv, NEW g \in Guids, Publish(g)
  PROVE  ArticlesInv'
<1>1. doc \in Document /\ tooOld \in Nat
  BY DEF ArticlesInv, TypeOK
<1>2. PICK items \in {doc.items \cup {g}, doc.items \ {g}}, place \in Places :
        doc' = [version |-> doc.version + 1, items |-> items, place |-> place,
                text |-> [doc.text EXCEPT ![g] = doc.version + 1]]
  BY DEF Publish, Orders
<1> DEFINE version == doc.version + 1
           text == [doc.text EXCEPT ![g] = version]
<1>3. version \in 1 .. MaxVersion
  BY <1>1, BoundsAreNumbers DEF Publish, Document
<1>4. items \in SUBSET Guids
  BY <1>1, <1>2 DEF Document
<1> HIDE DEF version
<1>5. text \in [Guids -> 1 .. MaxVersion]
  BY <1>1, <1>3 DEF Document
<1>6. doc' = [version |-> version, items |-> items, place |-> place, text |-> text]
  BY <1>2 DEF version
<1> HIDE DEF text
<1>7. doc' \in Document
  BY <1>3, <1>4, <1>5, <1>6 DEF Document
<1>8. tooOld' = tooOld /\ UNCHANGED <<program, ghosts>>
  BY DEF Publish
<1>. QED
  BY <1>1, <1>7, <1>8, WorldKeeps

LEMMA ArticlesInit == Init => ArticlesInv
<1>. SUFFICES ASSUME Init PROVE ArticlesInv
  OBVIOUS
<1>1. /\ tooOld = 0 /\ db = <<>> /\ stamp = NoRow /\ listed = <<>>
      /\ screen = "feeds" /\ article = Closed /\ user = AtRest /\ reload = NoReload
      /\ touched = {} /\ hidden = {} /\ interrupted = FALSE
  BY Zenon DEF Init
<1>2. doc \in Document
  <2>1. doc \in [version : {1}, items : SUBSET Guids, text : {[g \in Guids |-> 1]}, place : Places]
    BY Zenon DEF Init
  <2>2. 1 \in 1 .. MaxVersion
    BY BoundsAreNumbers
  <2>3. [g \in Guids |-> 1] \in [Guids -> 1 .. MaxVersion]
    BY <2>2
  <2>. QED
    BY <2>1, <2>2, <2>3 DEF Document
<1>3. IsCache(db) /\ IsList(listed)
  BY <1>1, EmptyList
<1>4. DOMAIN listed = {}
  BY <1>1
<1>5. ReloadTyped
  BY <1>1, EmptyList DEF ReloadTyped, NoReload
<1>6. UserTyped
  BY <1>1, AtRestFacts DEF UserTyped
<1>7. ScreenTyped
  BY <1>1 DEF ScreenTyped, Closed, Dummy, Item
<1>8. TypeOK
  <2>1. GhostsTyped
    BY <1>1 DEF GhostsTyped
  <2>2. stamp \in 0 .. NoRow /\ tooOld \in Nat
    BY <1>1, BoundsAreNumbers DEF NoRow
  <2>. QED
    BY <1>2, <1>3, <1>5, <1>6, <1>7, <2>1, <2>2 DEF TypeOK
<1>9. UserInv
  BY <1>1, AtRestFacts DEF UserInv, Idle, Closed
<1>10. ListInv
  BY <1>4 DEF ListInv
<1>11. ReadInv /\ QueueInv /\ DocInv
  BY <1>1 DEF ReadInv, QueueInv, DocInv, NoReload, Reading, At
<1>. QED
  BY <1>8, <1>9, <1>10, <1>11 DEF ArticlesInv

LEMMA ArticlesSame == ArticlesInv /\ UNCHANGED vars => ArticlesInv'
BY WorldKeeps DEF vars, program, ghosts, ArticlesInv, TypeOK

LEMMA ArticlesNext == ArticlesInv /\ Next => ArticlesInv'
<1>. SUFFICES ASSUME ArticlesInv, Next PROVE ArticlesInv'
  OBVIOUS
<1>1. CASE Age
  <2>1. tooOld \in Nat /\ doc \in Document
    BY DEF ArticlesInv, TypeOK
  <2>. QED
    BY <1>1, <2>1, WorldKeeps DEF Age
<1>2. CASE \E g \in Guids : Publish(g)
  BY <1>2, PublishKeeps
<1>3. CASE Reload
  BY <1>3, ReloadKeeps
<1>4. CASE User
  BY <1>4, UserKeeps
<1>5. CASE Crash \/ Quit
  BY <1>5, CrashKeeps, QuitKeeps
<1>. QED
  BY <1>1, <1>2, <1>3, <1>4, <1>5 DEF Next

\* Rows, items, screen, operation and reload stay what they are meant to be, and
\* every row and item of an article agree but for what a thread has still to write.
THEOREM ArticlesInvariance == Spec => []ArticlesInv
<1>1. Init => ArticlesInv
  BY ArticlesInit
<1>2. ArticlesInv /\ [Next]_vars => ArticlesInv'
  BY ArticlesNext, ArticlesSame
<1>. QED
  BY <1>1, <1>2, PTL DEF Spec

\* Every variable keeps its type.
THEOREM ArticlesTyped == Spec => []TypeOK
<1>1. ArticlesInv => TypeOK
  BY DEF ArticlesInv
<1>. QED
  BY <1>1, ArticlesInvariance, PTL

\* When both threads are at rest the list shows what the cache holds.
THEOREM ListShowsCache == Spec => []ListMatchesCache
<1>1. ArticlesInv => ListMatchesCache
  <2>. SUFFICES ASSUME ArticlesInv, Idle, reload.pc = "idle", NEW g \in DOMAIN listed \ touched
                PROVE  g \in DOMAIN db /\ ItemOf(db[g]) = listed[g]
    BY DEF ListMatchesCache
  <2>1. Agrees(g)
    BY IdleAgrees DEF ArticlesInv, Reading
  <2>2. g \in DOMAIN db /\ db[g] \in Row /\ listed[g] \in Item
    BY <2>1, CacheFacts, ListFacts DEF Agrees, ArticlesInv, TypeOK
  <2>3. ItemOf(db[g]) \in Item
    BY <2>2 DEF ItemOf, Row, Item
  <2>4. /\ ItemOf(db[g]).unread = listed[g].unread /\ ItemOf(db[g]).deleted = listed[g].deleted
        /\ ItemOf(db[g]).enqueued = listed[g].enqueued /\ ItemOf(db[g]).flagged = listed[g].flagged
    BY <2>1 DEF Agrees, ItemOf
  <2>. QED
    BY <2>2, <2>3, <2>4 DEF Item
<1>. QED
  BY <1>1, ArticlesInvariance, PTL

-----------------------------------------------------------------------------
(* What a step does to the flags of a row                                    *)

\* The flags of a row, but for a mark as read, are kept, ...
FlagsKept(g) == (db'[g].unread => db[g].unread) /\ db'[g].enqueued = db[g].enqueued
\* ... or the article was downloaded, ...
Downloaded(g) ==
  /\ db'[g].enqueued = db[g].enqueued
  /\ ~db[g].unread /\ db'[g].unread => ResetUnread /\ db'[g].text # db[g].text
\* ... or written with the item that was just put in the queue, ...
Queued(g) ==
  /\ At("mark") /\ g \in Newest(reload.todo) /\ g \in DOMAIN reload.items
  /\ db'[g].unread = reload.items[g].unread /\ db'[g].enqueued = reload.items[g].enqueued
\* ... or with the item the main thread holds.
WrittenBack(g) ==
  /\ Doing("save") /\ user.on.guid = g /\ Touch(g, user.on.own)
  /\ db'[g].unread = ItemAt(user.on).unread /\ db'[g].enqueued = ItemAt(user.on).enqueued

RowStep(g) == FlagsKept(g) \/ Downloaded(g) \/ Queued(g) \/ WrittenBack(g)

LEMMA RowKept ==
  ASSUME NEW g, db'[g] = db[g] PROVE RowStep(g)
BY DEF RowStep, FlagsKept

LEMMA RestartRows ==
  ASSUME NEW rows, IsCache(rows), Restart(rows)
  PROVE  \A g \in DOMAIN db' : g \in DOMAIN rows /\ db'[g] = rows[g]
<1> DEFINE young == Young(rows)
<1>1. db' = Limited(young)
  BY DEF Restart, Young
<1>2. /\ IsCache(young) /\ DOMAIN young \subseteq DOMAIN rows
      /\ \A g \in DOMAIN young : young[g] = rows[g]
  BY YoungRows
<1> HIDE DEF young
<1>. QED
  BY <1>1, <1>2, LimitedRows

LEMMA ReloadRows ==
  ASSUME ArticlesInv, Reload, NEW g \in DOMAIN db, g \in DOMAIN db'
  PROVE  RowStep(g)
<1>. USE DEF ArticlesInv
<1>1. IsCache(db)
  BY DEF TypeOK
<1>2. CASE Fetch \/ StartStore \/ StoreFails \/ ShowFeed \/ EnqueueItem \/ NotifyList
  <2>1. db' = db
    BY <1>2 DEF Fetch, StartStore, StoreFails, ShowFeed, EnqueueItem, NotifyList
  <2>. QED
    BY <2>1, RowKept
<1>3. CASE StoreStamp
  <2> DEFINE S == {h \in DOMAIN db : db[h].deleted => h \in reload.doc.items}
  <2>1. db' = db \/ db' = [h \in S |-> db[h]]
    BY <1>3 DEF StoreStamp, Restrict
  <2> HIDE DEF S
  <2>. QED
    BY <2>1, RowKept
<1>4. CASE StoreItem
  <2>1. PICK x \in reload.todo :
          /\ x \in Guids /\ reload.doc \in Document
          /\ IsCache(db') /\ DOMAIN db \subseteq DOMAIN db' /\ DOMAIN db' \subseteq DOMAIN db \cup {x}
          /\ \A h \in DOMAIN db : h # x => db'[h] = db[h]
          /\ x \in DOMAIN db =>
               /\ db'[x].enqueued = db[x].enqueued
               /\ ~db[x].unread /\ db'[x].unread => ResetUnread /\ db'[x].text # db[x].text
          /\ touched' = touched \cup {x}
          /\ reload' = [reload EXCEPT !.todo = @ \ {x},
                                      !.pc = IF reload.todo = {x} THEN "read" ELSE "store"]
          /\ interrupted' = (interrupted /\ reload.todo # {x})
    BY <1>4, StoreItemFacts
  <2>2. CASE g # x
    BY <2>1, <2>2, RowKept
  <2>3. CASE g = x
    BY <2>1, <2>3 DEF RowStep, Downloaded
  <2>. QED
    BY <2>2, <2>3
<1>5. CASE ReadRows
  <2>1. db'[g] = db[g]
    BY <1>1, <1>5, LimitedRows DEF ReadRows
  <2>. QED
    BY <2>1, RowKept
<1>6. CASE MarkEnqueued
  <2>1. reload.pc = "mark"
    BY <1>6 DEF MarkEnqueued, At
  <2>2. PICK x \in reload.todo : /\ \A h \in reload.todo : x >= h
                                 /\ db' = SaveUnreadAndEnqueued(db, x, reload.items[x])
    BY <1>6 DEF MarkEnqueued
  <2>3. x \in DOMAIN reload.items /\ reload.items[x] \in Item
    BY <2>1, <2>2, ListFacts DEF QueueInv, TypeOK, ReloadTyped
  <2>4. /\ \A h \in DOMAIN db : h # x => db'[h] = db[h]
        /\ x \in DOMAIN db => /\ db'[x].unread = reload.items[x].unread
                              /\ db'[x].enqueued = reload.items[x].enqueued
    BY <1>1, <2>2, <2>3, FlagsSaved
  <2>5. CASE g # x
    BY <2>4, <2>5, RowKept
  <2>6. CASE g = x
    BY <2>1, <2>2, <2>3, <2>4, <2>6 DEF RowStep, Queued, At, Newest
  <2>. QED
    BY <2>5, <2>6
<1>. QED
  BY <1>2, <1>3, <1>4, <1>5, <1>6 DEF Reload

LEMMA UserRows ==
  ASSUME ArticlesInv, User, NEW g \in DOMAIN db, g \in DOMAIN db'
  PROVE  RowStep(g)
<1>. USE DEF ArticlesInv
<1>1. IsCache(db) /\ db[g] \in Row
  BY CacheFacts DEF TypeOK
<1>2. CASE OpenList \/ CloseList \/ PurgeList \/ OpenArticle \/ SetUnread \/ SetDeleted \/ SetFlags
           \/ LookUpAgain \/ LeaveArticle
  <2>1. db' = db
    BY <1>2 DEF OpenList, CloseList, PurgeList, OpenArticle, SetUnread, SetDeleted, SetFlags,
                LookUpAgain, LeaveArticle
  <2>. QED
    BY <2>1, RowKept
<1>3. CASE (\E op \in UserOps, i \in Guids : PressInList(op, i))
           \/ (\E op \in UserOps : PressInArticle(op))
  <2>1. db' = db
    BY <1>3 DEF PressInList, PressInArticle
  <2>. QED
    BY <2>1, RowKept
<1>4. CASE MarkFeedRead
  <2>1. db'[g] = [db[g] EXCEPT !.unread = FALSE]
    BY <1>4 DEF MarkFeedRead
  <2>. QED
    BY <1>1, <2>1 DEF Row, RowStep, FlagsKept
<1>5. CASE SaveUnread
  <2> DEFINE x == user.on.guid
  <2>1. /\ Doing("save") /\ ~Idle /\ db' = SaveUnreadAndEnqueued(db, x, ItemAt(user.on))
        /\ Touch(x, user.on.own)
    BY <1>5 DEF SaveUnread, Doing
  <2>2. ItemAt(user.on) \in Item
    BY <2>1, HeldItem
  <2>3. /\ \A h \in DOMAIN db : h # x => db'[h] = db[h]
        /\ x \in DOMAIN db => /\ db'[x].unread = ItemAt(user.on).unread
                              /\ db'[x].enqueued = ItemAt(user.on).enqueued
    BY <1>1, <2>1, <2>2, FlagsSaved
  <2>4. CASE g # x
    BY <2>3, <2>4, RowKept
  <2>5. CASE g = x
    BY <2>1, <2>3, <2>5 DEF RowStep, WrittenBack
  <2>. QED
    BY <2>4, <2>5
<1>6. CASE MarkDeleted
  <2> DEFINE x == IF user.pos = 0 THEN article.guid ELSE user.on.guid
             deleted == Doing("mark")
  <2>1. db' = IF x \in DOMAIN db THEN [db EXCEPT ![x].deleted = deleted] ELSE db
    BY <1>6 DEF MarkDeleted
  <2> HIDE DEF x, deleted
  <2>2. db'[g] = db[g] \/ db'[g] = [db[g] EXCEPT !.deleted = deleted]
    BY <2>1
  <2>3. db'[g].unread = db[g].unread /\ db'[g].enqueued = db[g].enqueued
    BY <1>1, <2>2 DEF Row
  <2>. QED
    BY <2>3 DEF RowStep, FlagsKept
<1>7. CASE SaveFlags
  <2> DEFINE x == user.on.guid
             flagged == ItemAt(user.on).flagged
  <2>1. db' = IF x \in DOMAIN db THEN [db EXCEPT ![x].flagged = flagged] ELSE db
    BY <1>7 DEF SaveFlags
  <2> HIDE DEF x, flagged
  <2>2. db'[g] = db[g] \/ db'[g] = [db[g] EXCEPT !.flagged = flagged]
    BY <2>1
  <2>3. db'[g].unread = db[g].unread /\ db'[g].enqueued = db[g].enqueued
    BY <1>1, <2>2 DEF Row
  <2>. QED
    BY <2>3 DEF RowStep, FlagsKept
<1>. QED
  BY <1>2, <1>3, <1>4, <1>5, <1>6, <1>7 DEF User

LEMMA NextRows ==
  ASSUME ArticlesInv, Next, NEW g \in DOMAIN db, g \in DOMAIN db'
  PROVE  RowStep(g)
<1>1. CASE Age \/ (\E x \in Guids : Publish(x))
  <2>1. db' = db
    BY <1>1 DEF Age, Publish, program
  <2>. QED
    BY <2>1, RowKept
<1>2. CASE Reload
  BY <1>2, ReloadRows
<1>3. CASE User
  BY <1>3, UserRows
<1>4. CASE Crash
  BY <1>4, RestartRows, RowKept DEF Crash, ArticlesInv, TypeOK
<1>5. CASE Quit
  <2>1. IsCache(db) /\ Restart(Cleaned(db))
    BY <1>5 DEF Quit, Cleaned, ArticlesInv, TypeOK
  <2>2. db'[g] = Cleaned(db)[g]
    BY <2>1, CleanedRows, RestartRows
  <2>3. Cleaned(db)[g].unread = db[g].unread /\ Cleaned(db)[g].enqueued = db[g].enqueued
    BY <2>1, CleanedRows
  <2>. QED
    BY <2>2, <2>3 DEF RowStep, FlagsKept
<1>. QED
  BY <1>1, <1>2, <1>3, <1>4, <1>5 DEF Next

\* An article once read becomes unread only as the user or reset-unread-on-update
\* wants it, but for those acted on while a reload was replacing the feed.
THEOREM ReadRowsStayRead == Spec => ReadStaysRead
<1> DEFINE Step == \A g \in DOMAIN db \cap DOMAIN db' :
                     ~db[g].unread /\ db'[g].unread =>
                       \/ At("mark") /\ g \in touched
                       \/ ResetUnread /\ db'[g].text # db[g].text
                       \/ Doing("save") /\ user.on.guid = g /\ ItemAt(user.on).unread
<1>1. ArticlesInv /\ Next => Step
  <2>. SUFFICES ASSUME ArticlesInv, Next, NEW g \in DOMAIN db, g \in DOMAIN db',
                       ~db[g].unread, db'[g].unread
                PROVE  \/ At("mark") /\ g \in touched
                       \/ ResetUnread /\ db'[g].text # db[g].text
                       \/ Doing("save") /\ user.on.guid = g /\ ItemAt(user.on).unread
    OBVIOUS
  <2>1. RowStep(g)
    BY NextRows
  <2>2. CASE FlagsKept(g) \/ Downloaded(g) \/ WrittenBack(g)
    BY <2>2 DEF FlagsKept, Downloaded, WrittenBack
  <2>3. CASE Queued(g)
    <3>1. reload.pc = "mark" /\ g \in DOMAIN reload.items /\ db'[g].unread = reload.items[g].unread
      BY <2>3 DEF Queued, At
    <3>2. g \notin touched => db[g].unread = reload.items[g].unread
      BY <3>1 DEF ArticlesInv, ReadInv, Reading, Loading
    <3>. QED
      BY <3>1, <3>2 DEF At
  <2>. QED
    BY <2>1, <2>2, <2>3 DEF RowStep
<1> HIDE DEF Step
<1>2. ArticlesInv /\ [Next]_vars => [Step]_vars
  BY <1>1
<1>3. Spec => [][Step]_vars
  BY <1>2, ArticlesInvariance, PTL DEF Spec
<1>. QED
  BY <1>3 DEF ReadStaysRead, Step

\* A podcast put in the queue once is not queued again, but for those acted on
\* while a reload was replacing the feed.
THEOREM QueuedOnlyOnce == Spec => EnqueuedOnce
<1> DEFINE Step == \A g \in DOMAIN db \cap DOMAIN db' :
                     db[g].enqueued => db'[g].enqueued \/ (Doing("save") /\ g \in touched')
<1>1. ArticlesInv /\ Next => Step
  <2>. SUFFICES ASSUME ArticlesInv, Next, NEW g \in DOMAIN db, g \in DOMAIN db', db[g].enqueued
                PROVE  db'[g].enqueued \/ (Doing("save") /\ g \in touched')
    OBVIOUS
  <2>1. RowStep(g)
    BY NextRows
  <2>2. CASE FlagsKept(g) \/ Downloaded(g)
    BY <2>2 DEF FlagsKept, Downloaded
  <2>3. CASE Queued(g)
    BY <2>3 DEF Queued, ArticlesInv, QueueInv
  <2>4. CASE WrittenBack(g)
    <3>1. Doing("save") /\ user.on.guid = g /\ Touch(g, user.on.own)
          /\ db'[g].enqueued = ItemAt(user.on).enqueued
      BY <2>4 DEF WrittenBack
    <3>2. ~Idle /\ (~user.on.own => g \in DOMAIN listed)
      BY <3>1, HeldItem DEF Doing, ArticlesInv
    <3>3. CASE user.on.own \/ reload.pc \in Reading
      BY <3>1, <3>3 DEF Touch, Reading
    <3>4. CASE ~user.on.own /\ reload.pc \notin Reading /\ g \in touched
      BY <3>1, <3>4 DEF Touch
    <3>5. CASE ~user.on.own /\ reload.pc \notin Reading /\ g \notin touched
      BY <3>1, <3>2, <3>5 DEF ArticlesInv, ListInv, Listing, ItemAt
    <3>. QED
      BY <3>3, <3>4, <3>5
  <2>. QED
    BY <2>1, <2>2, <2>3, <2>4 DEF RowStep
<1> HIDE DEF Step
<1>2. ArticlesInv /\ [Next]_vars => [Step]_vars
  BY <1>1
<1>3. Spec => [][Step]_vars
  BY <1>2, ArticlesInvariance, PTL DEF Spec
<1>. QED
  BY <1>3 DEF EnqueuedOnce, Step

-----------------------------------------------------------------------------
(* No article is skipped                                                     *)

Newer(S, g) == {h \in S : h > g}

\* A larger set has at least as many newer articles.
LEMMA MoreNewer ==
  ASSUME NEW S \in SUBSET Guids, NEW T \in SUBSET Guids, NEW g, Newer(S, g) \subseteq Newer(T, g)
  PROVE  /\ Cardinality(Newer(S, g)) \in Nat /\ Cardinality(Newer(T, g)) \in Nat
         /\ Cardinality(Newer(S, g)) <= Cardinality(Newer(T, g))
<1>1. Newer(T, g) \subseteq Guids
  BY DEF Newer
<1>2. IsFiniteSet(Newer(T, g))
  BY <1>1, GuidsAreRanks, FS_Subset
<1>. QED
  BY <1>2, FS_Subset, FS_CardinalityType

\* Where the limit leaves an article out, it keeps MaxItems newer ones.
LEMMA KeptNewest ==
  ASSUME NEW d, IsCache(d), NEW g \in Shown(d) \ Kept(d)
  PROVE  MaxItems > 0 /\ Cardinality(Newer(Kept(d), g)) >= MaxItems
<1> DEFINE S == Shown(d)
           From(x) == {h \in S : h >= x}
           T == Newer(Kept(d), g)
<1>1. S \subseteq Guids /\ S \subseteq Nat /\ IsFiniteSet(S) /\ Kept(d) \subseteq S
  <2>1. S \subseteq Guids /\ Kept(d) \subseteq S
    BY CacheFacts DEF Shown, Kept
  <2>. QED
    BY <2>1, GuidsAreRanks, FS_Subset
<1>2. MaxItems # 0 /\ ~(Cardinality(Newer(S, g)) < MaxItems) /\ g \in S
  BY DEF Kept, Newer
<1>3. \A x \in S : Cardinality(Newer(S, x)) < MaxItems => x \in Kept(d)
  BY DEF Kept, Newer
<1>4. MaxItems \in Nat /\ MaxItems > 0
  BY <1>2, BoundsAreNumbers
<1> HIDE DEF S
<1>5. ASSUME NEW x \in S
      PROVE  /\ IsFiniteSet(Newer(S, x)) /\ Cardinality(Newer(S, x)) \in Nat
             /\ Cardinality(From(x)) = Cardinality(Newer(S, x)) + 1
  <2>1. Newer(S, x) \subseteq S
    BY DEF Newer
  <2>2. IsFiniteSet(Newer(S, x)) /\ Cardinality(Newer(S, x)) \in Nat
    BY <1>1, <2>1, FS_Subset, FS_CardinalityType
  <2>3. \A h \in S : h \in Nat
    BY <1>1
  <2>4. x \in Nat
    BY <2>3
  <2>5. x \notin Newer(S, x)
    BY <2>4 DEF Newer
  <2>6. From(x) = Newer(S, x) \cup {x}
    <3>1. \A h \in Nat : h >= x <=> h > x \/ h = x
      BY <2>4
    <3>. QED
      BY <2>3, <3>1 DEF Newer
  <2> HIDE DEF From
  <2>. QED
    BY <2>2, <2>5, <2>6, FS_AddElement
<1>6. Cardinality(Newer(S, g)) \in Nat /\ Cardinality(Newer(S, g)) >= MaxItems
  <2>1. Cardinality(Newer(S, g)) \in Nat
    BY <1>2, <1>5
  <2>. QED
    BY <1>2, <1>4, <2>1
\* An article that is not newer than g has more than MaxItems from it on.
<1>7. ASSUME NEW x \in S, Cardinality(From(x)) <= MaxItems
      PROVE  x \in T
  <2>1. Cardinality(Newer(S, x)) \in Nat /\ Cardinality(From(x)) = Cardinality(Newer(S, x)) + 1
    BY <1>5
  <2>2. x \in Kept(d)
    BY <1>3, <1>4, <1>7, <2>1
  <2>3. x > g
    <3>. SUFFICES ASSUME ~(x > g) PROVE FALSE
      OBVIOUS
    <3>1. \A h \in S : h \in Nat
      BY <1>1
    <3>2. x \in Nat /\ g \in Nat /\ x <= g
      BY <1>2, <3>1
    <3>3. \A h \in Nat : h >= g => h >= x
      BY <3>2
    <3>4. From(g) \subseteq From(x)
      BY <3>1, <3>3
    <3>5. From(x) \subseteq S
      OBVIOUS
    <3> HIDE DEF From
    <3>6. IsFiniteSet(From(x))
      BY <1>1, <3>5, FS_Subset
    <3>7. Cardinality(From(g)) <= Cardinality(From(x))
      BY <3>4, <3>6, FS_Subset
    <3>8. Cardinality(From(g)) = Cardinality(Newer(S, g)) + 1
      BY <1>2, <1>5
    <3>. QED
      BY <1>4, <1>6, <1>7, <2>1, <3>7, <3>8
  <2>. QED
    BY <2>2, <2>3 DEF Newer
<1>8. MaxItems <= Cardinality(S)
  <2>1. Newer(S, g) \subseteq S
    BY DEF Newer
  <2>2. Cardinality(Newer(S, g)) <= Cardinality(S) /\ Cardinality(S) \in Nat
    BY <1>1, <2>1, FS_Subset, FS_CardinalityType
  <2>. QED
    BY <1>4, <1>6, <2>2
\* So there is one of T for each of the first MaxItems positions.
<1> DEFINE f == [i \in 1 .. MaxItems |-> CHOOSE x \in S : Cardinality(From(x)) = i]
<1>9. ASSUME NEW i \in 1 .. MaxItems
      PROVE  f[i] \in T /\ Cardinality(From(f[i])) = i
  <2>1. i \in 1 .. Cardinality(S)
    <3>1. Cardinality(S) \in Nat
      BY <1>1, FS_CardinalityType
    <3>. QED
      BY <1>4, <1>8, <3>1
  <2>2. \E x \in S : Cardinality(From(x)) = i
    BY <1>1, <2>1, Positions
  <2>3. f[i] \in S /\ Cardinality(From(f[i])) = i
    <3> HIDE DEF From
    <3>. QED
      BY <2>2
  <2>4. i <= MaxItems
    BY <1>4
  <2>. QED
    BY <1>7, <2>3, <2>4
<1> HIDE DEF f, From
<1>10. f \in [1 .. MaxItems -> T]
  <2>1. \A i \in 1 .. MaxItems : f[i] \in T
    BY <1>9
  <2>2. f = [i \in 1 .. MaxItems |-> f[i]]
    BY DEF f
  <2>. QED
    BY <2>1, <2>2
<1>11. T \subseteq S
  BY <1>1 DEF Newer
<1> HIDE DEF T
<1>12. IsFiniteSet(T) /\ Cardinality(T) \in Nat
  BY <1>1, <1>11, FS_Subset, FS_CardinalityType
<1>13. IsFiniteSet(1 .. MaxItems) /\ Cardinality(1 .. MaxItems) = MaxItems
  BY <1>4, FS_Interval
<1>14. ~(Cardinality(T) < MaxItems)
  <2>. SUFFICES ASSUME Cardinality(T) < MaxItems PROVE FALSE
    OBVIOUS
  <2>1. \E i, j \in 1 .. MaxItems : i # j /\ f[i] = f[j]
    BY <1>10, <1>12, <1>13, FS_PigeonHole
  <2>. QED
    BY <1>9, <2>1
<1>15. Cardinality(T) >= MaxItems
  BY <1>4, <1>12, <1>14
<1>. QED
  BY <1>4, <1>15 DEF T

\* Article g of the document is stored with its text, or left out on purpose.
Held(d, old, g, text) ==
  \/ g <= old
  \/ g \in DOMAIN d /\ d[g].text = text[g]
  \/ MaxItems > 0 /\ Cardinality(Newer(DOMAIN d, g)) >= MaxItems

LEMMA HeldGrows ==
  ASSUME NEW d, IsCache(d), NEW e, IsCache(e), NEW old \in Nat, NEW older \in Nat, old <= older,
         NEW g \in Guids, NEW text, Held(d, old, g, text),
         DOMAIN d \subseteq DOMAIN e,
         g \in DOMAIN d => e[g].text \in {d[g].text, text[g]}
  PROVE  Held(e, older, g, text)
<1>1. CASE g <= old
  <2>1. g \in Nat
    BY GuidsAreRanks
  <2>2. g <= older
    BY <1>1, <2>1
  <2>. QED
    BY <2>2 DEF Held
<1>2. CASE g \in DOMAIN d /\ d[g].text = text[g]
  BY <1>2 DEF Held
<1>3. CASE MaxItems > 0 /\ Cardinality(Newer(DOMAIN d, g)) >= MaxItems
  <2> DEFINE S == DOMAIN d
             T == DOMAIN e
  <2>1. S \in SUBSET Guids /\ T \in SUBSET Guids /\ Newer(S, g) \subseteq Newer(T, g)
    BY CacheFacts DEF Newer
  <2>2. /\ Cardinality(Newer(S, g)) \in Nat /\ Cardinality(Newer(T, g)) \in Nat
        /\ Cardinality(Newer(S, g)) <= Cardinality(Newer(T, g))
    <3> HIDE DEF S, T
    <3>. QED
      BY <2>1, MoreNewer
  <2>3. Cardinality(Newer(S, g)) >= MaxItems
    BY <1>3
  <2> HIDE DEF S, T
  <2>4. Cardinality(Newer(T, g)) >= MaxItems
    BY <2>2, <2>3, BoundsAreNumbers
  <2>. QED
    BY <1>3, <2>4 DEF Held, T
<1>. QED
  BY <1>1, <1>2, <1>3 DEF Held

\* The limit leaves no article out but for newer ones.
LEMMA HeldLimited ==
  ASSUME NEW d, IsCache(d), NEW old, NEW g \in Guids, NEW text,
         Held(d, old, g, text)
  PROVE  Held(Limited(d), old, g, text)
<1> DEFINE e == Limited(d)
           S == DOMAIN d
           T == DOMAIN e
<1>1. /\ IsCache(e) /\ DOMAIN e = DOMAIN d \ (Shown(d) \ Kept(d))
      /\ \A h \in DOMAIN e : e[h] = d[h]
  BY LimitedRows
<1>2. Kept(d) \subseteq DOMAIN e /\ Shown(d) \subseteq Guids
  BY LoadedItems, CacheFacts DEF Shown
<1> HIDE DEF e
<1>3. S \in SUBSET Guids /\ T \in SUBSET Guids
  BY <1>1, CacheFacts
\* Where an article h from g on is left out, there are enough newer ones.
<1>4. ASSUME NEW h \in Shown(d) \ Kept(d), h >= g
      PROVE  Held(e, old, g, text)
  <2>1. MaxItems > 0 /\ Cardinality(Newer(Kept(d), h)) >= MaxItems
    BY KeptNewest
  <2>2. \A x \in Guids : x \in Nat
    BY GuidsAreRanks
  <2>3. \A x \in Kept(d) : x \in Guids
    BY <1>1, <1>2, CacheFacts
  <2>4. h \in Nat /\ g \in Nat
    BY <1>2, <2>2
  <2>5. \A x \in Nat : x > h => x > g
    BY <1>4, <2>4
  <2>6. Newer(Kept(d), h) \subseteq Newer(T, g)
    BY <1>2, <2>2, <2>3, <2>5 DEF Newer
  <2> HIDE DEF T
  <2>7. IsFiniteSet(Newer(T, g))
    BY <1>3, GuidsAreRanks, FS_Subset DEF Newer
  <2>8. /\ Cardinality(Newer(Kept(d), h)) <= Cardinality(Newer(T, g))
        /\ Cardinality(Newer(T, g)) \in Nat /\ Cardinality(Newer(Kept(d), h)) \in Nat
    BY <2>6, <2>7, FS_Subset, FS_CardinalityType
  <2>9. Cardinality(Newer(T, g)) >= MaxItems
    BY <2>1, <2>8, BoundsAreNumbers
  <2>. QED
    BY <2>1, <2>9 DEF Held, T
<1>5. CASE g <= old
  BY <1>5 DEF Held
<1>6. CASE g \in DOMAIN d /\ d[g].text = text[g]
  <2>1. CASE g \in DOMAIN e
    <3>1. e[g].text = text[g]
      BY <1>1, <1>6, <2>1
    <3>. QED
      BY <2>1, <3>1 DEF Held, e
  <2>2. CASE g \notin DOMAIN e
    <3>1. g \in Shown(d) \ Kept(d) /\ g \in Nat
      BY <1>1, <1>6, <2>2, GuidsAreRanks
    <3>2. g >= g
      BY <3>1
    <3>. QED
      BY <1>4, <3>1, <3>2 DEF e
  <2>. QED
    BY <2>1, <2>2 DEF e
<1>7. CASE MaxItems > 0 /\ Cardinality(Newer(DOMAIN d, g)) >= MaxItems
  <2>1. CASE \E h \in Shown(d) \ Kept(d) : h > g
    <3>1. PICK h \in Shown(d) \ Kept(d) : h > g
      BY <2>1
    <3>2. h \in Nat /\ g \in Nat
      BY <1>2, GuidsAreRanks
    <3>3. h >= g
      BY <3>1, <3>2
    <3>. QED
      BY <1>4, <3>3 DEF e
  <2>2. CASE ~\E h \in Shown(d) \ Kept(d) : h > g
    <3>1. Newer(S, g) \subseteq Newer(T, g)
      BY <1>1, <2>2 DEF Newer
    <3>2. /\ Cardinality(Newer(S, g)) \in Nat /\ Cardinality(Newer(T, g)) \in Nat
          /\ Cardinality(Newer(S, g)) <= Cardinality(Newer(T, g))
      <4> HIDE DEF S, T
      <4>. QED
        BY <1>3, <3>1, MoreNewer
    <3>3. Cardinality(Newer(S, g)) >= MaxItems
      BY <1>7
    <3> HIDE DEF S, T
    <3>4. Cardinality(Newer(T, g)) >= MaxItems
      BY <3>2, <3>3, BoundsAreNumbers
    <3>. QED
      BY <1>7, <3>4 DEF Held, T, e
  <2>. QED
    BY <2>1, <2>2
<1>. QED
  BY <1>5, <1>6, <1>7 DEF Held, e

\* Nor does removing the articles that are too old.
LEMMA HeldYoung ==
  ASSUME NEW d, IsCache(d), tooOld \in Nat, NEW g \in Guids, NEW text,
         Held(d, tooOld, g, text)
  PROVE  Held(Young(d), tooOld, g, text)
<1> DEFINE e == Young(d)
           S == DOMAIN d
           T == DOMAIN e
<1>1. /\ IsCache(e) /\ DOMAIN e \subseteq DOMAIN d /\ \A h \in DOMAIN e : e[h] = d[h]
  BY YoungRows
<1>2. \A h \in DOMAIN d : h > tooOld => h \in DOMAIN e
  BY DEF Young, Restrict
<1> HIDE DEF e
<1>3. S \in SUBSET Guids /\ T \in SUBSET Guids
  BY <1>1, CacheFacts
<1>4. \A h \in Guids : h \in Nat
  BY GuidsAreRanks
<1>5. CASE g <= tooOld
  BY <1>5 DEF Held
<1>6. CASE ~(g <= tooOld)
  <2>1. g > tooOld /\ \A h \in Nat : h > g => h > tooOld
    BY <1>4, <1>6
  <2>2. CASE g \in DOMAIN d /\ d[g].text = text[g]
    BY <1>1, <1>2, <2>1, <2>2 DEF Held, e
  <2>3. CASE MaxItems > 0 /\ Cardinality(Newer(DOMAIN d, g)) >= MaxItems
    <3>1. Newer(S, g) \subseteq Newer(T, g)
      BY <1>2, <1>3, <1>4, <2>1 DEF Newer
    <3>2. /\ Cardinality(Newer(S, g)) \in Nat /\ Cardinality(Newer(T, g)) \in Nat
          /\ Cardinality(Newer(S, g)) <= Cardinality(Newer(T, g))
      <4> HIDE DEF S, T
      <4>. QED
        BY <1>3, <3>1, MoreNewer
    <3>3. Cardinality(Newer(S, g)) >= MaxItems
      BY <2>3
    <3> HIDE DEF S, T
    <3>4. Cardinality(Newer(T, g)) >= MaxItems
      BY <3>2, <3>3, BoundsAreNumbers
    <3>. QED
      BY <2>3, <3>4 DEF Held, T, e
  <2>. QED
    BY <1>6, <2>2, <2>3 DEF Held
<1>. QED
  BY <1>5, <1>6

-----------------------------------------------------------------------------
(* Stamp and articles                                                        *)

\* The first articles of a document but for those of todo are stored or left out on
\* purpose.
AllHeld(d, old, source, todo) ==
  \A g \in FirstOf(source) \ todo : Held(d, old, g, source.text)

\* The document downloaded is the server's, or one before it.
Storing == {"stamp", "lock", "store"}
FetchInv == reload.pc \in Storing => /\ reload.doc.version <= doc.version
                                     /\ reload.doc.version = doc.version => reload.doc = doc
\* From the stamp to the last article stored the download counts as interrupted.
StampInv == /\ stamp <= doc.version \/ stamp = NoRow
            /\ reload.pc \in {"lock", "store"} =>
                 interrupted /\ stamp \in {0, NoRow, reload.doc.version}
\* What is stored so far is all that is not still to be stored.
StoreInv == At("store") => stamp # NoRow /\ AllHeld(db, tooOld, reload.doc, reload.todo)
CompleteInv == stamp = doc.version /\ ~interrupted => AllHeld(db, tooOld, doc, {})

SkipInv == FetchInv /\ StampInv /\ StoreInv /\ CompleteInv

\* A step takes nothing from what is stored.
HeldKept == \A g \in Guids : \A text :
              Held(db, tooOld, g, text) => Held(db', tooOld', g, text)

LEMMA AllHeldKept ==
  ASSUME HeldKept, NEW source \in Document, NEW todo, AllHeld(db, tooOld, source, todo)
  PROVE  AllHeld(db', tooOld', source, todo)
<1>1. FirstOf(source) \subseteq Guids
  BY DEF Document, FirstOf
<1>. QED
  BY <1>1 DEF HeldKept, AllHeld

LEMMA SkipKept ==
  ASSUME ArticlesInv, SkipInv, UNCHANGED <<doc, stamp, interrupted>>, HeldKept,
         reload'.pc \in Storing =>
           reload.pc = reload'.pc /\ reload'.doc = reload.doc /\ reload'.todo = reload.todo
  PROVE  SkipInv'
<1>1. doc \in Document /\ (At("store") => reload.doc \in Document)
  BY DEF ArticlesInv, TypeOK, DocInv, At
<1>2. FetchInv'
  BY DEF SkipInv, FetchInv
<1>3. StampInv'
  BY DEF SkipInv, StampInv, Storing
<1>4. StoreInv'
  <2>. SUFFICES ASSUME At("store")' PROVE stamp' # NoRow /\ AllHeld(db', tooOld', reload'.doc, reload'.todo)
    BY DEF StoreInv
  <2>1. At("store") /\ reload'.doc = reload.doc /\ reload'.todo = reload.todo
    BY DEF At, Storing
  <2>2. stamp # NoRow /\ AllHeld(db, tooOld, reload.doc, reload.todo)
    BY <2>1 DEF SkipInv, StoreInv
  <2>3. AllHeld(db', tooOld', reload.doc, reload.todo)
    BY <1>1, <2>1, <2>2, AllHeldKept
  <2>. QED
    BY <2>1, <2>2, <2>3
<1>5. CompleteInv'
  BY <1>1, AllHeldKept DEF SkipInv, CompleteInv
<1>. QED
  BY <1>2, <1>3, <1>4, <1>5 DEF SkipInv

\* Rows that keep their texts are all that is kept.
LEMMA TextsKept ==
  ASSUME IsCache(db), IsCache(db'), tooOld \in Nat, tooOld' \in Nat, tooOld <= tooOld',
         DOMAIN db' = DOMAIN db, \A g \in DOMAIN db : db'[g].text = db[g].text
  PROVE  HeldKept
<1>. SUFFICES ASSUME NEW g \in Guids, NEW text,
                     Held(db, tooOld, g, text)
              PROVE  Held(db', tooOld', g, text)
  BY DEF HeldKept
<1>. QED
  BY HeldGrows

LEMMA UserTexts ==
  ASSUME ArticlesInv, User
  PROVE  /\ DOMAIN db' = DOMAIN db /\ \A g \in DOMAIN db : db'[g].text = db[g].text
         /\ UNCHANGED <<doc, tooOld, stamp, reload, interrupted>>
<1>1. IsCache(db)
  BY DEF ArticlesInv, TypeOK
<1>2. CASE OpenList \/ CloseList \/ PurgeList \/ OpenArticle \/ SetUnread \/ SetDeleted \/ SetFlags
           \/ LookUpAgain \/ LeaveArticle
  BY <1>2 DEF OpenList, CloseList, PurgeList, OpenArticle, SetUnread, SetDeleted, SetFlags,
              LookUpAgain, LeaveArticle, ghosts
<1>3. CASE (\E op \in UserOps, i \in Guids : PressInList(op, i))
           \/ (\E op \in UserOps : PressInArticle(op))
  BY <1>3 DEF PressInList, PressInArticle, ghosts
<1>4. CASE MarkFeedRead
  <2>1. /\ db' = [g \in DOMAIN db |-> [db[g] EXCEPT !.unread = FALSE]]
        /\ UNCHANGED <<doc, tooOld, stamp, reload, interrupted>>
    BY <1>4 DEF MarkFeedRead, ghosts
  <2>2. ASSUME NEW g \in DOMAIN db PROVE db'[g].text = db[g].text
    <3>1. db[g] \in Row /\ db'[g] = [db[g] EXCEPT !.unread = FALSE]
      BY <1>1, <2>1, CacheFacts
    <3>. QED
      BY <3>1 DEF Row
  <2>. QED
    BY <2>1, <2>2
<1>5. CASE SaveUnread
  <2>1. /\ ~Idle /\ db' = SaveUnreadAndEnqueued(db, user.on.guid, ItemAt(user.on))
        /\ UNCHANGED <<doc, tooOld, stamp, reload, interrupted>>
    BY <1>5 DEF SaveUnread, Doing
  <2>2. ItemAt(user.on) \in Item
    BY <2>1, HeldItem DEF ArticlesInv
  <2>3. /\ DOMAIN db' = DOMAIN db /\ \A g \in DOMAIN db : g # user.on.guid => db'[g] = db[g]
        /\ user.on.guid \in DOMAIN db => db'[user.on.guid].text = db[user.on.guid].text
    BY <1>1, <2>1, <2>2, FlagsSaved
  <2>. QED
    BY <2>1, <2>3
<1>6. CASE MarkDeleted
  <2> DEFINE x == IF user.pos = 0 THEN article.guid ELSE user.on.guid
             deleted == Doing("mark")
  <2>1. /\ db' = IF x \in DOMAIN db THEN [db EXCEPT ![x].deleted = deleted] ELSE db
        /\ UNCHANGED <<doc, tooOld, stamp, reload, interrupted>>
    BY <1>6 DEF MarkDeleted
  <2> HIDE DEF x, deleted
  <2>2. ASSUME NEW g \in DOMAIN db PROVE db'[g].text = db[g].text
    <3>1. db[g] \in Row /\ (db'[g] = db[g] \/ db'[g] = [db[g] EXCEPT !.deleted = deleted])
      BY <1>1, <2>1, CacheFacts
    <3>. QED
      BY <3>1 DEF Row
  <2>. QED
    BY <2>1, <2>2
<1>7. CASE SaveFlags
  <2> DEFINE x == user.on.guid
             flagged == ItemAt(user.on).flagged
  <2>1. /\ db' = IF x \in DOMAIN db THEN [db EXCEPT ![x].flagged = flagged] ELSE db
        /\ UNCHANGED <<doc, tooOld, stamp, reload, interrupted>>
    BY <1>7 DEF SaveFlags
  <2> HIDE DEF x, flagged
  <2>2. ASSUME NEW g \in DOMAIN db PROVE db'[g].text = db[g].text
    <3>1. db[g] \in Row /\ (db'[g] = db[g] \/ db'[g] = [db[g] EXCEPT !.flagged = flagged])
      BY <1>1, <2>1, CacheFacts
    <3>. QED
      BY <3>1 DEF Row
  <2>. QED
    BY <2>1, <2>2
<1>. QED
  BY <1>2, <1>3, <1>4, <1>5, <1>6, <1>7 DEF User

\* The steps that are not about what is stored.
LEMMA UserSkips ==
  ASSUME ArticlesInv, ArticlesInv', SkipInv, User
  PROVE  SkipInv'
<1>1. /\ DOMAIN db' = DOMAIN db /\ \A g \in DOMAIN db : db'[g].text = db[g].text
      /\ UNCHANGED <<doc, tooOld, stamp, reload, interrupted>>
  BY UserTexts
<1>2. IsCache(db) /\ IsCache(db') /\ tooOld \in Nat /\ tooOld' \in Nat /\ tooOld <= tooOld'
  BY <1>1 DEF ArticlesInv, TypeOK
<1>3. HeldKept
  BY <1>1, <1>2, TextsKept
<1>. QED
  BY <1>1, <1>3, SkipKept

LEMMA AgeSkips ==
  ASSUME ArticlesInv, SkipInv, Age
  PROVE  SkipInv'
<1>1. tooOld' = tooOld + 1 /\ UNCHANGED <<doc, db, stamp, reload, interrupted>>
  BY DEF Age, program, ghosts
<1>2. IsCache(db) /\ IsCache(db') /\ tooOld \in Nat /\ tooOld' \in Nat /\ tooOld <= tooOld'
  BY <1>1 DEF ArticlesInv, TypeOK
<1>3. HeldKept
  BY <1>1, <1>2, TextsKept
<1>. QED
  BY <1>1, <1>3, SkipKept

LEMMA RestartSkips ==
  ASSUME ArticlesInv, SkipInv, NEW rows, IsCache(rows), Restart(rows),
         DOMAIN rows = DOMAIN db, \A g \in DOMAIN db : rows[g].text = db[g].text
  PROVE  SkipInv'
<1>1. /\ db' = Limited(Young(rows)) /\ reload' = NoReload
      /\ UNCHANGED <<doc, tooOld, stamp, interrupted>>
  BY DEF Restart, Young
<1>2. IsCache(db) /\ tooOld \in Nat
  BY DEF ArticlesInv, TypeOK
<1>3. ASSUME NEW g \in Guids, NEW text, Held(db, tooOld, g, text)
      PROVE  Held(db', tooOld', g, text)
  <2>1. Held(rows, tooOld, g, text)
    BY <1>2, <1>3, HeldGrows
  <2>2. Held(Young(rows), tooOld, g, text)
    BY <1>2, <2>1, HeldYoung
  <2>3. IsCache(Young(rows))
    BY YoungRows
  <2>4. Held(Limited(Young(rows)), tooOld, g, text)
    BY <2>2, <2>3, HeldLimited
  <2>. QED
    BY <1>1, <2>4
<1>4. HeldKept
  BY <1>3 DEF HeldKept
<1>5. reload'.pc \notin Storing
  BY <1>1 DEF NoReload, Storing
<1>. QED
  BY <1>1, <1>4, <1>5, SkipKept

LEMMA StopSkips ==
  ASSUME ArticlesInv, SkipInv, Crash \/ Quit
  PROVE  SkipInv'
<1>1. IsCache(db)
  BY DEF ArticlesInv, TypeOK
<1>2. CASE Crash
  BY <1>1, <1>2, RestartSkips DEF Crash
<1>3. CASE Quit
  <2>1. Restart(Cleaned(db))
    BY <1>3 DEF Quit, Cleaned
  <2>. QED
    BY <1>1, <2>1, CleanedRows, RestartSkips
<1>. QED
  BY <1>2, <1>3

\* The reload's steps that store nothing.
LEMMA QuietSkips ==
  ASSUME ArticlesInv, SkipInv, StoreFails \/ ReadRows \/ ShowFeed \/ EnqueueItem \/ MarkEnqueued \/ NotifyList
  PROVE  SkipInv'
<1>. USE DEF ArticlesInv
<1>1. IsCache(db) /\ tooOld \in Nat
  BY DEF TypeOK
<1>2. DOMAIN reload = {"pc", "doc", "items", "todo"}
  BY DEF TypeOK, ReloadTyped
<1>3. CASE StoreFails \/ ShowFeed \/ EnqueueItem \/ NotifyList
  <2>1. UNCHANGED <<doc, tooOld, db, stamp, interrupted>>
    BY <1>3 DEF StoreFails, ShowFeed, EnqueueItem, NotifyList, ghosts
  <2>2. HeldKept
    BY <2>1 DEF HeldKept
  <2>3. reload'.pc \notin Storing
    <3>1. CASE StoreFails \/ NotifyList
      BY <3>1 DEF StoreFails, NotifyList, NoReload, Storing
    <3>2. CASE ShowFeed
      BY <1>2, <3>2 DEF ShowFeed, Storing
    <3>3. CASE EnqueueItem
      <4>1. reload'.pc = "mark"
        BY <1>2, <3>3 DEF EnqueueItem
      <4>. QED
        BY <4>1 DEF Storing
    <3>. QED
      BY <1>3, <3>1, <3>2, <3>3
  <2>. QED
    BY <2>1, <2>2, <2>3, SkipKept
<1>4. CASE ReadRows
  <2> DEFINE queued == IF At("again") /\ AutoEnqueue THEN {g \in Kept(db) : ~db[g].enqueued} ELSE {}
             pc == IF At("read") THEN "show" ELSE IF queued = {} THEN "notify" ELSE "enqueue"
  <2>1. /\ db' = Limited(db) /\ UNCHANGED <<doc, tooOld, stamp, interrupted>>
        /\ reload' = [reload EXCEPT !.doc = NoDoc, !.items = Loaded(db), !.todo = queued, !.pc = pc]
    BY <1>4 DEF ReadRows
  <2>2. pc \notin Storing
    BY DEF Storing
  <2> HIDE DEF queued, pc
  <2>3. reload'.pc \notin Storing
    BY <1>2, <2>1, <2>2
  <2>4. HeldKept
    BY <1>1, <2>1, HeldLimited DEF HeldKept
  <2>. QED
    BY <2>1, <2>3, <2>4, SkipKept
<1>5. CASE MarkEnqueued
  <2>1. PICK x \in reload.todo :
          /\ db' = SaveUnreadAndEnqueued(db, x, reload.items[x])
          /\ reload' = [reload EXCEPT !.todo = @ \ {x},
                                      !.pc = IF reload.todo = {x} THEN "notify" ELSE "enqueue"]
    BY <1>5 DEF MarkEnqueued
  <2>2. reload.pc = "mark" /\ UNCHANGED <<doc, tooOld, stamp, interrupted>>
    BY <1>5 DEF MarkEnqueued, At, ghosts
  <2>3. reload.items[x] \in Item
    BY <2>2, ListFacts DEF QueueInv, TypeOK, ReloadTyped
  <2>4. /\ IsCache(db') /\ DOMAIN db' = DOMAIN db /\ \A h \in DOMAIN db : h # x => db'[h] = db[h]
        /\ x \in DOMAIN db => db'[x].text = db[x].text
    BY <1>1, <2>1, <2>3, FlagsSaved
  <2>5. HeldKept
    <3>1. \A g \in DOMAIN db : db'[g].text = db[g].text
      BY <2>4
    <3>2. tooOld' \in Nat /\ tooOld <= tooOld'
      BY <1>1, <2>2
    <3>. QED
      BY <1>1, <2>4, <3>1, <3>2, TextsKept
  <2> DEFINE pc == IF reload.todo = {x} THEN "notify" ELSE "enqueue"
             todo == reload.todo \ {x}
  <2>6. reload' = [reload EXCEPT !.todo = todo, !.pc = pc] /\ pc \notin Storing
    BY <2>1 DEF Storing
  <2> HIDE DEF pc, todo
  <2>7. reload'.pc \notin Storing
    BY <1>2, <2>6
  <2>. QED
    BY <2>2, <2>5, <2>7, SkipKept
<1>. QED
  BY <1>3, <1>4, <1>5

\* A new document's version is no stamp yet.
LEMMA PublishSkips ==
  ASSUME ArticlesInv, SkipInv, NEW x \in Guids, Publish(x)
  PROVE  SkipInv'
<1>. USE DEF ArticlesInv
<1>1. UNCHANGED <<tooOld, db, stamp, reload, interrupted>>
  BY DEF Publish, program, ghosts
<1>2. doc'.version = doc.version + 1 /\ doc.version < MaxVersion
  BY DEF Publish
<1>3. doc.version \in Nat /\ stamp \in Nat /\ MaxVersion \in Nat
  BY BoundsAreNumbers DEF TypeOK, Document, NoRow
<1>4. stamp # doc'.version /\ (stamp <= doc'.version \/ stamp = NoRow)
  BY <1>2, <1>3 DEF SkipInv, StampInv, NoRow
<1>5. FetchInv'
  <2>. SUFFICES ASSUME reload.pc \in Storing
                PROVE  reload.doc.version <= doc'.version /\ reload.doc.version # doc'.version
    BY <1>1 DEF FetchInv
  <2>1. reload.doc.version \in Nat
    BY DEF DocInv, Storing, Document
  <2>2. reload.doc.version <= doc.version
    BY DEF SkipInv, FetchInv
  <2>. QED
    BY <1>2, <1>3, <2>1, <2>2
<1>6. StampInv' /\ StoreInv' /\ CompleteInv'
  BY <1>1, <1>4 DEF SkipInv, StampInv, StoreInv, CompleteInv, At, AllHeld, Held
<1>. QED
  BY <1>5, <1>6 DEF SkipInv

LEMMA FetchSkips ==
  ASSUME ArticlesInv, SkipInv, Fetch
  PROVE  SkipInv'
<1>. USE DEF ArticlesInv
<1>1. reload' = [reload EXCEPT !.pc = "stamp", !.doc = doc]
      /\ UNCHANGED <<doc, tooOld, db, stamp, interrupted>>
  BY DEF Fetch
<1>2. reload'.pc = "stamp" /\ reload'.doc = doc
  BY <1>1 DEF TypeOK, ReloadTyped
<1>3. doc.version \in Nat
  BY DEF TypeOK, Document
<1>4. FetchInv'
  BY <1>1, <1>2, <1>3 DEF FetchInv
<1>5. StampInv' /\ StoreInv'
  BY <1>1, <1>2 DEF SkipInv, StampInv, StoreInv, At
<1>6. CompleteInv'
  BY <1>1 DEF SkipInv, CompleteInv, AllHeld, Held
<1>. QED
  BY <1>4, <1>5, <1>6 DEF SkipInv

LEMMA StoreStampSkips ==
  ASSUME ArticlesInv, SkipInv, StoreStamp
  PROVE  SkipInv'
<1>. USE DEF ArticlesInv
<1>1. /\ reload.pc = "stamp" /\ reload.doc \in Document /\ doc \in Document /\ doc' = doc
      /\ stamp' = IF stamp = NoRow THEN NoRow ELSE reload.doc.version
  BY DEF StoreStamp, At, DocInv, TypeOK
<1>2. reload.doc.version <= doc.version /\ (reload.doc.version = doc.version => reload.doc = doc)
  BY <1>1 DEF SkipInv, FetchInv, Storing
<1>3. NoRow # doc.version
  BY <1>1, BoundsAreNumbers DEF Document, NoRow
<1>4. stamp' <= doc'.version \/ stamp' = NoRow
  BY <1>1, <1>2
\* A document without articles is done with.
<1>5. CASE reload.doc.items = {}
  <2>1. reload' = NoReload
    BY <1>5 DEF StoreStamp
  <2>2. FetchInv' /\ StoreInv'
    BY <2>1 DEF FetchInv, StoreInv, NoReload, Storing, At
  <2>3. StampInv'
    BY <1>4, <2>1 DEF StampInv, NoReload
  <2>4. CompleteInv'
    <3>1. stamp' = doc'.version => doc'.items = {}
      BY <1>1, <1>2, <1>3, <1>5
    <3>. QED
      BY <3>1 DEF CompleteInv, AllHeld, FirstOf
  <2>. QED
    BY <2>2, <2>3, <2>4 DEF SkipInv
\* Of one with articles none is stored yet.
<1>6. CASE reload.doc.items # {}
  <2>1. reload' = [reload EXCEPT !.pc = "lock"] /\ interrupted' = TRUE
    BY <1>6 DEF StoreStamp, Goto
  <2>2. reload'.pc = "lock" /\ reload'.doc = reload.doc
    BY <2>1 DEF TypeOK, ReloadTyped
  <2>3. FetchInv'
    BY <1>1, <1>2, <2>2 DEF FetchInv
  <2>4. StampInv'
    BY <1>1, <1>4, <2>1, <2>2 DEF StampInv
  <2>5. StoreInv' /\ CompleteInv'
    BY <2>1, <2>2 DEF StoreInv, CompleteInv, At
  <2>. QED
    BY <2>3, <2>4, <2>5 DEF SkipInv
<1>. QED
  BY <1>5, <1>6

\* All that is to be stored is still to be stored.
LEMMA StartStoreSkips ==
  ASSUME ArticlesInv, SkipInv, StartStore
  PROVE  SkipInv'
<1>. USE DEF ArticlesInv
<1> DEFINE todo == FirstOf(reload.doc)
<1>1. /\ reload.pc = "lock" /\ reload.doc \in Document /\ doc \in Document
      /\ stamp' = IF stamp = NoRow THEN 0 ELSE stamp
      /\ reload' = [reload EXCEPT !.pc = "store", !.todo = todo]
      /\ UNCHANGED <<doc, tooOld, db, interrupted>>
  BY DEF StartStore, At, DocInv, TypeOK, ghosts
<1> HIDE DEF todo
<1>2. reload'.pc = "store" /\ reload'.doc = reload.doc /\ reload'.todo = todo
  BY <1>1 DEF TypeOK, ReloadTyped
<1>3. interrupted /\ stamp \in {0, NoRow, reload.doc.version}
      /\ reload.doc.version <= doc.version /\ (reload.doc.version = doc.version => reload.doc = doc)
  BY <1>1 DEF SkipInv, StampInv, FetchInv, Storing
<1>4. stamp' \in {0, reload.doc.version} /\ stamp' # NoRow /\ stamp' <= doc.version
  <2>1. reload.doc.version \in 1 .. MaxVersion /\ doc.version \in Nat
    BY <1>1 DEF Document
  <2>2. stamp' \in {0, reload.doc.version}
    BY <1>1, <1>3
  <2>. QED
    BY <1>3, <2>1, <2>2, BoundsAreNumbers DEF NoRow
<1>5. FetchInv'
  BY <1>1, <1>2, <1>3 DEF FetchInv
<1>6. StampInv'
  BY <1>1, <1>2, <1>3, <1>4 DEF StampInv
<1>7. StoreInv'
  BY <1>2, <1>4 DEF StoreInv, AllHeld, todo
<1>8. CompleteInv'
  BY <1>1, <1>3 DEF CompleteInv
<1>. QED
  BY <1>5, <1>6, <1>7, <1>8 DEF SkipInv

LEMMA StoreItemSkips ==
  ASSUME ArticlesInv, ArticlesInv', SkipInv, StoreItem
  PROVE  SkipInv'
<1>. USE DEF ArticlesInv
<1>1. PICK x \in reload.todo :
        /\ db' = IF x > tooOld THEN Saved(db, x, reload.doc.text[x]) ELSE db
        /\ reload' = [reload EXCEPT !.todo = @ \ {x},
                                    !.pc = IF reload.todo = {x} THEN "read" ELSE "store"]
        /\ interrupted' = (interrupted /\ reload.todo # {x})
  BY DEF StoreItem
<1>2. reload.pc = "store" /\ UNCHANGED <<doc, tooOld, stamp>>
  BY DEF StoreItem, At
<1>3. /\ x \in Guids /\ reload.doc \in Document /\ doc \in Document /\ tooOld \in Nat
      /\ IsCache(db) /\ IsCache(db')
  BY <1>2 DEF TypeOK, ReloadTyped, DocInv
<1> DEFINE first == FirstOf(reload.doc)
           text == reload.doc.text
           pc == IF reload.todo = {x} THEN "read" ELSE "store"
           todo == reload.todo \ {x}
<1>4. text[x] \in 1 .. MaxVersion /\ first \subseteq Guids
  BY <1>3 DEF Document, FirstOf
<1>5. /\ pc = "read" => reload.todo = {x}
      /\ pc \in {"read", "store"} /\ reload' = [reload EXCEPT !.todo = todo, !.pc = pc]
  BY <1>1
<1>6. reload'.pc = pc /\ reload'.doc = reload.doc /\ reload'.todo = todo
  <2> HIDE DEF pc, todo
  <2>. QED
    BY <1>5 DEF TypeOK, ReloadTyped
<1>7. /\ interrupted /\ stamp \in {0, NoRow, reload.doc.version} /\ stamp # NoRow
      /\ stamp <= doc.version /\ AllHeld(db, tooOld, reload.doc, reload.todo)
      /\ reload.doc.version <= doc.version /\ (reload.doc.version = doc.version => reload.doc = doc)
  BY <1>2 DEF SkipInv, StampInv, StoreInv, FetchInv, Storing, At
\* The article is stored with its text, and the others as they were.
<1>8. /\ DOMAIN db \subseteq DOMAIN db' /\ \A g \in DOMAIN db : g # x => db'[g] = db[g]
      /\ ~(x <= tooOld) => x \in DOMAIN db' /\ db'[x].text = text[x]
      /\ x \in DOMAIN db => db'[x].text \in {db[x].text, text[x]}
  <2> DEFINE new == Saved(db, x, text[x])
             t == text[x]
  <2>1. /\ DOMAIN new = DOMAIN db \cup {x} /\ \A g \in DOMAIN db : g # x => new[g] = db[g]
        /\ new[x].text = t
    <3> HIDE DEF text
    <3>. QED
      BY <1>3, <1>4, SavedRow
  <2>2. x \in Nat
    BY <1>3, GuidsAreRanks
  <2>3. db' = IF x > tooOld THEN new ELSE db
    BY <1>1
  <2> HIDE DEF new
  <2>4. CASE x > tooOld
    BY <2>1, <2>3, <2>4
  <2>5. CASE ~(x > tooOld)
    BY <1>3, <2>2, <2>3, <2>5
  <2>. QED
    BY <2>4, <2>5
<1>9. AllHeld(db', tooOld, reload.doc, todo)
  <2>. SUFFICES ASSUME NEW g \in first \ todo
                PROVE  Held(db', tooOld, g, text)
    BY DEF AllHeld
  <2>1. CASE g = x
    BY <1>8, <2>1 DEF Held
  <2>2. CASE g # x
    <3>1. g \in first \ reload.todo /\ g \in Guids
      BY <1>4, <2>2
    <3>2. Held(db, tooOld, g, text)
      BY <1>7, <3>1 DEF AllHeld
    <3>3. g \in DOMAIN db => db'[g].text \in {db[g].text, text[g]}
      BY <1>8, <2>2
    <3>4. tooOld <= tooOld
      BY <1>3
    <3> HIDE DEF first, text
    <3>. QED
      BY <1>3, <1>4, <1>8, <3>1, <3>2, <3>3, <3>4, HeldGrows
  <2>. QED
    BY <2>1, <2>2
<1>10. FetchInv'
  BY <1>2, <1>6, <1>7 DEF FetchInv
<1>11. StampInv'
  <2>1. reload'.pc = "store" => interrupted'
    <3>1. reload.todo # {x} => interrupted'
      BY <1>1, <1>7
    <3>2. reload'.pc = "store" => reload.todo # {x}
      BY <1>6
    <3>. QED
      BY <3>1, <3>2
  <2>2. reload'.pc # "lock"
    BY <1>5, <1>6
  <2>. QED
    BY <1>2, <1>6, <1>7, <2>1, <2>2 DEF StampInv
<1>12. StoreInv'
  BY <1>2, <1>6, <1>7, <1>9 DEF StoreInv
<1>13. CompleteInv'
  <2>. SUFFICES ASSUME stamp = doc.version, ~interrupted'
                PROVE  AllHeld(db', tooOld, doc, {})
    BY <1>2 DEF CompleteInv
  <2>1. todo = {}
    BY <1>1, <1>7
  <2>2. doc.version # 0
    BY <1>3 DEF Document
  <2>3. reload.doc = doc
    BY <1>7, <2>2
  <2> HIDE DEF todo
  <2>. QED
    BY <1>9, <2>1, <2>3
<1>. QED
  BY <1>10, <1>11, <1>12, <1>13 DEF SkipInv

LEMMA SkipNext == ArticlesInv /\ ArticlesInv' /\ SkipInv /\ Next => SkipInv'
<1>. SUFFICES ASSUME ArticlesInv, ArticlesInv', SkipInv, Next PROVE SkipInv'
  OBVIOUS
<1>1. CASE Age \/ (\E g \in Guids : Publish(g))
  BY <1>1, AgeSkips, PublishSkips
<1>2. CASE Reload
  <2>1. CASE Fetch \/ StoreStamp \/ StartStore \/ StoreItem
    BY <2>1, FetchSkips, StoreStampSkips, StartStoreSkips, StoreItemSkips
  <2>2. CASE StoreFails \/ ReadRows \/ ShowFeed \/ EnqueueItem \/ MarkEnqueued \/ NotifyList
    BY <2>2, QuietSkips
  <2>. QED
    BY <1>2, <2>1, <2>2 DEF Reload
<1>3. CASE User
  BY <1>3, UserSkips
<1>4. CASE Crash \/ Quit
  BY <1>4, StopSkips
<1>. QED
  BY <1>1, <1>2, <1>3, <1>4 DEF Next

\* No article is skipped: what the stored stamp says was downloaded is stored, but
\* for what max-items and keep-articles-days leave out and interrupted downloads.
THEOREM NoArticleSkipped == Spec => []NothingSkipped
<1>1. Init => SkipInv
  <2>. SUFFICES ASSUME Init PROVE SkipInv
    OBVIOUS
  <2>1. doc.version = 1 /\ stamp = NoRow /\ reload = NoReload
    BY DEF Init
  <2>2. NoRow # 1
    BY BoundsAreNumbers DEF NoRow
  <2>. QED
    BY <2>1, <2>2 DEF SkipInv, FetchInv, StampInv, StoreInv, CompleteInv, NoReload, Storing, At
<1>2. ArticlesInv /\ ArticlesInv' /\ SkipInv /\ [Next]_vars => SkipInv'
  <2>1. ArticlesInv /\ SkipInv /\ UNCHANGED vars => SkipInv'
    <3>. SUFFICES ASSUME ArticlesInv, SkipInv, UNCHANGED vars PROVE SkipInv'
      OBVIOUS
    <3>1. UNCHANGED <<doc, tooOld, db, stamp, reload, interrupted>>
      BY DEF vars
    <3>2. HeldKept
      BY <3>1 DEF HeldKept
    <3>. QED
      BY <3>1, <3>2, SkipKept
  <2>. QED
    BY <2>1, SkipNext
<1>3. SkipInv => NothingSkipped
  <2>. SUFFICES ASSUME SkipInv, stamp = doc.version, ~interrupted, NEW g \in FirstOf(doc)
                PROVE  \/ g <= tooOld
                       \/ g \in DOMAIN db /\ db[g].text = doc.text[g]
                       \/ MaxItems > 0 /\ Cardinality({h \in DOMAIN db : h > g}) >= MaxItems
    BY DEF NothingSkipped
  <2>1. Held(db, tooOld, g, doc.text)
    BY DEF SkipInv, CompleteInv, AllHeld
  <2>. QED
    BY <2>1 DEF Held, Newer
<1>. QED
  BY <1>1, <1>2, <1>3, ArticlesInvariance, PTL DEF Spec
=============================================================================
