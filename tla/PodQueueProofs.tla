--------------------------- MODULE PodQueueProofs ---------------------------
(* Proofs about PodQueue for any enclosures, queue file, keys and number of  *)
(* threads: what a reload of the queue keeps, loses and takes from under the *)
(* threads.                                                                  *)
EXTENDS PodQueue, FiniteSetTheorems, SequenceTheorems, TLAPS

Entry == [url : Urls, st : Statuses]
Contents == {"absent", "partial", "complete", "garbled"}
ReloadPlaces == {"reload", "read", "open", "write", "swap"}
ViewPlaces == ReloadPlaces \cup {"off", "loop", "key", "count", "start", "set"}
ThreadPlaces == {"none", "spawned", "transfer", "failed", "again"}
Views == [pc : ViewPlaces, i : Nat, budget : Int, purge : BOOLEAN, next : {"loop", "off"},
          temp : Seq(Entry), st : Statuses]
ThreadStates == [pc : ThreadPlaces, slot : Nat, url : Urls \cup {"none"},
                 resumed : BOOLEAN, alone : BOOLEAN, shown : BOOLEAN]

TypeOK ==
  /\ queuefile \in Seq(Line)
  /\ disk \in [Urls -> Contents]
  /\ downloads \in Seq(Entry)
  /\ capacity \in Nat
  /\ view \in Views
  /\ auto \in BOOLEAN /\ max_dls \in Int
  /\ thread \in [Threads -> ThreadStates]
  /\ enqueue \in Urls \cup {"none"}

\* What a thread points at is an element of the vector, or is marked as gone.
SlotsThere == \A t \in Threads : thread[t].slot \in 0 .. Len(downloads)

\* The line to be written is at most the one after the file's last.
IndexInRange ==
  /\ At("start") => view.i >= 1
  /\ view.pc \in {"read", "open"} => view.i <= Len(queuefile)
  /\ At("write") => view.i \in 1 .. Len(view.temp) /\ view.i <= Len(queuefile) + 1

TypeInv == TypeOK /\ SlotsThere /\ IndexInRange

-----------------------------------------------------------------------------
(* The vector and the counter of downloads in progress.                      *)

\* set_status changes one status and nothing else.
LEMMA StatusSet ==
  ASSUME downloads \in Seq(Entry), NEW i \in Nat, NEW st \in Statuses, SetStatus(i, st)
  PROVE  /\ downloads' \in Seq(Entry) /\ Len(downloads') = Len(downloads)
         /\ DOMAIN downloads' = DOMAIN downloads
         /\ \A j \in DOMAIN downloads :
              /\ downloads'[j].url = downloads[j].url
              /\ downloads'[j].st = IF j = i THEN st ELSE downloads[j].st
<1> DEFINE e == [downloads[i] EXCEPT !.st = st]
<1>1. downloads' = [downloads EXCEPT ![i] = e] /\ DOMAIN downloads = 1 .. Len(downloads)
  BY DEF SetStatus
<1>2. ASSUME NEW d \in Entry
      PROVE  [d EXCEPT !.st = st] \in Entry /\ [d EXCEPT !.st = st].url = d.url
             /\ [d EXCEPT !.st = st].st = st
  BY DEF Entry
<1>3. CASE i \in DOMAIN downloads
  <2>1. downloads[i] \in Entry
    BY <1>3
  <2>2. e \in Entry /\ e.url = downloads[i].url /\ e.st = st
    BY <1>2, <2>1
  <2> HIDE DEF e
  <2>3. /\ downloads' \in Seq(Entry) /\ Len(downloads') = Len(downloads)
        /\ \A j \in 1 .. Len(downloads) : downloads'[j] = IF j = i THEN e ELSE downloads[j]
    BY <1>1, <1>3, <2>2, ExceptSeq
  <2>. QED
    BY <1>1, <2>2, <2>3
<1>4. CASE i \notin DOMAIN downloads
  <2>1. downloads' = downloads
    BY <1>1, <1>4
  <2>. QED
    BY <1>4, <2>1
<1>. QED
  BY <1>3, <1>4

\* The URLs of a sequence that has grown by one element.
LEMMA UrlsOfAppend ==
  ASSUME NEW S, NEW s \in Seq(S), NEW d \in S
  PROVE  /\ Append(s, d) \in Seq(S) /\ Len(Append(s, d)) = Len(s) + 1
         /\ UrlsIn(Append(s, d)) = UrlsIn(s) \cup {d.url}
<1>1. /\ Append(s, d) \in Seq(S) /\ Len(Append(s, d)) = Len(s) + 1
      /\ DOMAIN Append(s, d) = 1 .. Len(s) + 1 /\ DOMAIN s = 1 .. Len(s)
      /\ \A k \in 1 .. Len(s) : Append(s, d)[k] = s[k]
      /\ Append(s, d)[Len(s) + 1] = d
  OBVIOUS
<1>. QED
  BY <1>1 DEF UrlsIn

\* Nothing is in progress exactly if no element says so.
LEMMA NoneInProgress ==
  ASSUME downloads \in Seq(Entry)
  PROVE  /\ InProgress \in Nat
         /\ InProgress = 0 <=> \A i \in DOMAIN downloads : Status(i) # "DOWNLOADING"
<1> DEFINE P == {i \in DOMAIN downloads : Status(i) = "DOWNLOADING"}
<1>1. IsFiniteSet(P)
  <2>1. IsFiniteSet(1 .. Len(downloads))
    BY FS_Interval
  <2>. QED
    BY <2>1, FS_Subset
<1>2. Cardinality(P) \in Nat /\ (Cardinality(P) = 0 <=> P = {})
  BY <1>1, FS_CardinalityType, FS_EmptySet
<1>. QED
  BY <1>2 DEF InProgress

\* A thread whose element has got another status is the same but for "shown".
LEMMA OverwrittenThread ==
  ASSUME NEW th \in ThreadStates, NEW i
  PROVE  LET new == Overwritten(th, i)
         IN  /\ new \in ThreadStates
             /\ new.pc = th.pc /\ new.slot = th.slot
             /\ new.shown => th.shown /\ th.slot # i
BY DEF Overwritten, ThreadStates

-----------------------------------------------------------------------------
(* Types.                                                                    *)
LEMMA TypeInit == Init => TypeInv
<1>. SUFFICES ASSUME Init PROVE TypeInv
  OBVIOUS
<1>1. <<>> \in Seq(Entry) /\ Len(<<>>) = 0
  BY EmptySeq
<1>2. Off \in Views
  BY <1>1 DEF Off, Views, ViewPlaces, Statuses
<1>3. NoThread \in ThreadStates
  BY DEF NoThread, ThreadStates, ThreadPlaces
<1>4. TypeOK
  <2>1. queuefile \in Seq(Line) /\ downloads \in Seq(Entry) /\ view \in Views
    BY <1>1, <1>2, PodQueueAssumption DEF Init
  <2>2. max_dls \in Int /\ capacity \in Nat
    BY PodQueueAssumption DEF Init
  <2>. QED
    BY <1>3, <2>1, <2>2 DEF Init, TypeOK, Contents
<1>5. SlotsThere
  <2>1. \A t \in Threads : thread[t].slot = 0
    BY DEF Init, NoThread
  <2>2. Len(downloads) = 0
    BY <1>1 DEF Init
  <2>. QED
    BY <2>1, <2>2 DEF SlotsThere
<1>6. IndexInRange
  BY DEF Init, IndexInRange, At, Off
<1>. QED
  BY <1>4, <1>5, <1>6 DEF TypeInv

\* The end of the program empties the vector and ends the threads.
LEMMA TypeEnded ==
  ASSUME downloads' = <<>>, thread' = [t \in Threads |-> NoThread]
  PROVE  /\ downloads' \in Seq(Entry) /\ SlotsThere'
         /\ thread' \in [Threads -> ThreadStates]
<1>1. <<>> \in Seq(Entry) /\ Len(<<>>) = 0
  BY EmptySeq
<1>2. NoThread \in ThreadStates /\ NoThread.slot = 0
  BY DEF NoThread, ThreadStates, ThreadPlaces
<1>3. \A t \in Threads : thread'[t].slot = 0
  BY <1>2
<1>4. Len(downloads') = 0
  BY <1>1
<1>5. SlotsThere'
  BY <1>3, <1>4 DEF SlotsThere
<1>. QED
  BY <1>1, <1>2, <1>5

LEMMA TypeGoto ==
  ASSUME NEW pc \in ViewPlaces
  PROVE  /\ [Off EXCEPT !.pc = pc] \in Views /\ [Off EXCEPT !.pc = pc].pc = pc
         /\ Off \in Views /\ Off.pc = "off"
<1>1. <<>> \in Seq(Entry)
  BY EmptySeq
<1>2. Off \in Views
  BY <1>1 DEF Off, Views, ViewPlaces, Statuses
<1>3. [Off EXCEPT !.pc = pc].pc = pc /\ Off.pc = "off"
  BY DEF Off
<1>. QED
  BY <1>2, <1>3 DEF Views

\* A new thread is given an element of the vector.
LEMMA TypeSpawn ==
  ASSUME TypeInv, NEW i \in DOMAIN downloads, Spawn(i), downloads' = downloads
  PROVE  thread' \in [Threads -> ThreadStates] /\ SlotsThere'
<1>1. PICK t \in Threads :
        thread' = [thread EXCEPT ![t] = [NoThread EXCEPT !.pc = "spawned", !.slot = i]]
  BY DEF Spawn
<1>2. i \in 1 .. Len(downloads) /\ i \in Nat
  BY DEF TypeInv, TypeOK
<1> DEFINE new == [NoThread EXCEPT !.pc = "spawned", !.slot = i]
<1>3. new \in ThreadStates /\ new.slot = i
  <2>1. NoThread \in ThreadStates
    BY DEF NoThread, ThreadStates, ThreadPlaces
  <2>2. ASSUME NEW th \in ThreadStates
        PROVE  LET moved == [th EXCEPT !.pc = "spawned", !.slot = i]
               IN  moved \in ThreadStates /\ moved.slot = i
    BY <1>2 DEF ThreadStates, ThreadPlaces
  <2>. QED
    BY <2>1, <2>2
<1> HIDE DEF new
<1>4. thread' = [thread EXCEPT ![t] = new]
  BY <1>1 DEF new
<1>. QED
  BY <1>2, <1>3, <1>4 DEF TypeInv, TypeOK, SlotsThere

LEMMA TypeLeave ==
  ASSUME TypeInv, LeaveReload, view.next = "loop" => UNCHANGED <<downloads, capacity, thread>>,
         UNCHANGED <<queuefile, disk, auto, max_dls, enqueue>>
  PROVE  TypeInv'
<1>1. view' \in Views /\ view'.pc \in {"off", "loop"}
  <2>1. view' = Off \/ view' = [Off EXCEPT !.pc = "loop"]
    BY DEF LeaveReload, Goto
  <2>. QED
    BY <2>1, TypeGoto DEF ViewPlaces
<1>4. IndexInRange'
  BY <1>1 DEF IndexInRange, At
<1>2. CASE view.next = "off"
  <2>1. downloads' = <<>> /\ capacity' = 0 /\ thread' = [t \in Threads |-> NoThread]
    BY <1>2 DEF LeaveReload
  <2>. QED
    BY <1>1, <1>4, <2>1, TypeEnded DEF TypeInv, TypeOK
<1>3. CASE view.next # "off"
  <2>1. UNCHANGED <<downloads, capacity, thread>>
    BY <1>3 DEF TypeInv, TypeOK, Views
  <2>. QED
    BY <1>1, <1>4, <2>1 DEF TypeInv, TypeOK, SlotsThere
<1>. QED
  BY <1>2, <1>3

LEMMA TypeScan == TypeInv /\ Scan => TypeInv'
<1>. SUFFICES ASSUME TypeInv, Scan PROVE TypeInv'
  OBVIOUS
<1>1. CASE LeaveReload /\ (view.next = "loop" => UNCHANGED <<downloads, capacity, thread>>)
  BY <1>1, TypeLeave DEF Scan
<1>2. CASE view' = Looked(view.i + 1) /\ UNCHANGED <<downloads, capacity, thread>>
  <2> DEFINE i == view.i + 1
             temp == IF i \in DOMAIN downloads /\ Status(i) \in Kept(view.purge)
                     THEN Append(view.temp, downloads[i]) ELSE view.temp
  <2>1. view \in Views /\ downloads \in Seq(Entry)
    BY DEF TypeInv, TypeOK
  <2>2. i \in Nat /\ temp \in Seq(Entry)
    BY <2>1 DEF Views
  <2>3. view' = [view EXCEPT !.temp = temp, !.i = IF i < Len(downloads) THEN i ELSE 0,
                             !.pc = IF i < Len(downloads) THEN "reload" ELSE "read"]
    BY <1>2 DEF Looked
  <2> HIDE DEF i, temp
  <2>4. /\ view' \in Views /\ view'.pc \in {"reload", "read"}
        /\ view'.pc = "read" => view'.i = 0
    BY <2>1, <2>2, <2>3 DEF Views, ViewPlaces, ReloadPlaces
  <2>5. Len(queuefile) \in Nat
    BY DEF TypeInv, TypeOK
  <2>. QED
    BY <1>2, <2>4, <2>5 DEF Scan, TypeInv, TypeOK, SlotsThere, IndexInRange, At
<1>. QED
  BY <1>1, <1>2 DEF Scan

\* A line read from the file makes an element of its URL, if it makes one.
LEMMA LineAdded ==
  ASSUME NEW temp \in Seq(Entry), NEW line \in Line
  PROVE  /\ Loaded(line) \in Entry /\ Loaded(line).url = line.url
         /\ Loaded(line).st \in {"QUEUED", "ALREADY_DOWNLOADED", "READY", "PLAYED"}
         /\ AddLine(temp, line) \in Seq(Entry)
<1>1. /\ Loaded(line) \in Entry /\ Loaded(line).url = line.url
      /\ Loaded(line).st \in {"QUEUED", "ALREADY_DOWNLOADED", "READY", "PLAYED"}
  BY DEF Loaded, Line, Marks, Entry, Statuses
<1>. QED
  BY <1>1, UrlsOfAppend DEF AddLine

LEMMA TypeReadLine == TypeInv /\ ReadLine => TypeInv'
<1>. SUFFICES ASSUME TypeInv, ReadLine PROVE TypeInv'
  OBVIOUS
<1> DEFINE i == view.i + 1
           temp == IF i \in DOMAIN queuefile THEN AddLine(view.temp, queuefile[i]) ELSE view.temp
<1>1. view \in Views /\ queuefile \in Seq(Line)
  BY DEF TypeInv, TypeOK
<1>2. i \in Nat /\ temp \in Seq(Entry)
  BY <1>1, LineAdded DEF Views
<1>3. view' = [view EXCEPT !.temp = temp, !.i = IF i < Len(queuefile) THEN i ELSE Len(queuefile),
                           !.pc = IF i < Len(queuefile) THEN "read" ELSE "open"]
        /\ Len(queuefile) \in Nat
  BY <1>1 DEF ReadLine
<1> HIDE DEF i, temp
<1> DEFINE j == IF i < Len(queuefile) THEN i ELSE Len(queuefile)
           place == IF i < Len(queuefile) THEN "read" ELSE "open"
<1>5. /\ view' = [view EXCEPT !.temp = temp, !.i = j, !.pc = place]
      /\ j \in Nat /\ j <= Len(queuefile)
      /\ place \in {"read", "open"} /\ place \in ViewPlaces
  BY <1>2, <1>3 DEF ViewPlaces, ReloadPlaces
<1> HIDE DEF j, place
<1>4. view' \in Views /\ view'.pc \in {"read", "open"} /\ view'.i <= Len(queuefile)
  BY <1>1, <1>2, <1>5 DEF Views
<1>. QED
  BY <1>4 DEF ReadLine, TypeInv, TypeOK, SlotsThere, IndexInRange, At

\* A line written goes to the place of its element, over what is there.
LEMMA LineWritten ==
  ASSUME TypeInv, WriteLine
  PROVE  /\ queuefile' \in Seq(Line)
         /\ Len(queuefile') = IF view.i > Len(queuefile) THEN view.i ELSE Len(queuefile)
         /\ \A k \in 1 .. Len(queuefile') :
              queuefile'[k] = IF k = view.i THEN Saved(view.temp[view.i]) ELSE queuefile[k]
<1> DEFINE i == view.i
           n == IF i > Len(queuefile) THEN i ELSE Len(queuefile)
<1>1. queuefile \in Seq(Line) /\ view.temp \in Seq(Entry) /\ n \in Nat
      /\ i \in 1 .. Len(view.temp) /\ i <= Len(queuefile) + 1
  BY DEF TypeInv, TypeOK, IndexInRange, Views, WriteLine
<1>2. queuefile' = [k \in 1 .. n |-> IF k = i THEN Saved(view.temp[i]) ELSE queuefile[k]]
  BY DEF WriteLine
<1>3. view.temp[i] \in Entry
  BY <1>1
<1>4. Saved(view.temp[i]) \in Line
  BY <1>3 DEF Saved, Line, Marks, Entry, Statuses
<1>5. \A k \in 1 .. n : queuefile'[k] = IF k = i THEN Saved(view.temp[i]) ELSE queuefile[k]
  BY <1>2
<1>6. \A k \in 1 .. n : queuefile'[k] \in Line
  BY <1>1, <1>4, <1>5
<1>7. queuefile' \in Seq(Line) /\ Len(queuefile') = n
  <2>1. queuefile' \in [1 .. n -> Line]
    BY <1>2, <1>6
  <2>. QED
    BY <1>1, <2>1
<1>. QED
  BY <1>5, <1>7

LEMMA TypeWrite == TypeInv /\ (OpenForWriting \/ WriteLine) => TypeInv'
<1>. SUFFICES ASSUME TypeInv, OpenForWriting \/ WriteLine PROVE TypeInv'
  OBVIOUS
<1>1. CASE OpenForWriting
  <2>1. <<>> \in Seq(Line) /\ Len(<<>>) = 0
    BY EmptySeq
  <2>2. view \in Views /\ view.temp \in Seq(Entry)
    BY DEF TypeInv, TypeOK, Views
  <2>3. view' = [view EXCEPT !.pc = IF view.temp = <<>> THEN "swap" ELSE "write", !.i = 1]
        /\ queuefile' = <<>> /\ UNCHANGED <<disk, downloads, capacity, auto, max_dls, thread, enqueue>>
    BY <1>1 DEF OpenForWriting
  <2>4. view' \in Views
    <3> DEFINE place == IF view.temp = <<>> THEN "swap" ELSE "write"
    <3>1. place \in ViewPlaces
      BY DEF ViewPlaces, ReloadPlaces
    <3>2. view' = [view EXCEPT !.pc = place, !.i = 1]
      BY <2>3
    <3> HIDE DEF place
    <3>. QED
      BY <2>2, <3>1, <3>2 DEF Views
  <2>5. view.temp # <<>> => Len(view.temp) \in Nat \ {0}
    BY <2>2, EmptySeq
  <2>6. IndexInRange'
    BY <2>1, <2>2, <2>3, <2>5 DEF IndexInRange, At, Views
  <2>. QED
    BY <2>1, <2>3, <2>4, <2>6 DEF TypeInv, TypeOK, SlotsThere
<1>2. CASE WriteLine
  <2>1. /\ queuefile' \in Seq(Line)
        /\ Len(queuefile') = IF view.i > Len(queuefile) THEN view.i ELSE Len(queuefile)
    BY <1>2, LineWritten
  <2>2. view \in Views /\ view.temp \in Seq(Entry) /\ view.i \in 1 .. Len(view.temp)
        /\ Len(queuefile) \in Nat /\ Len(view.temp) \in Nat
    BY <1>2 DEF TypeInv, TypeOK, Views, WriteLine, IndexInRange
  <2>3. view' = [view EXCEPT !.i = @ + 1, !.pc = IF view.i = Len(view.temp) THEN "swap" ELSE "write"]
        /\ UNCHANGED <<disk, downloads, capacity, auto, max_dls, thread, enqueue>>
    BY <1>2 DEF WriteLine
  <2>4. view' \in Views
    <3> DEFINE i == view.i + 1
               place == IF view.i = Len(view.temp) THEN "swap" ELSE "write"
    <3>1. i \in Nat /\ place \in ViewPlaces /\ view' = [view EXCEPT !.i = i, !.pc = place]
      BY <2>2, <2>3 DEF ViewPlaces, ReloadPlaces
    <3> HIDE DEF i, place
    <3>. QED
      BY <2>2, <3>1 DEF Views
  <2>5. IndexInRange'
    BY <2>1, <2>2, <2>3 DEF IndexInRange, At, Views
  <2>. QED
    BY <2>1, <2>3, <2>4, <2>5 DEF TypeInv, TypeOK, SlotsThere
<1>. QED
  BY <1>1, <1>2

LEMMA TypeSwap == TypeInv /\ Swap => TypeInv'
<1>. SUFFICES ASSUME TypeInv, Swap PROVE TypeInv'
  OBVIOUS
<1>1. UNCHANGED <<queuefile, disk, auto, max_dls, enqueue>>
  BY DEF Swap
<1>2. CASE view.next = "off"
  <2>1. LeaveReload
    BY <1>2 DEF Swap
  <2>. QED
    BY <1>1, <1>2, <2>1, TypeLeave
<1>3. CASE view.next # "off"
  <2> DEFINE n == Len(view.temp)
             Moved(th) == IF th.slot > n \/ n > capacity THEN [th EXCEPT !.slot = 0] ELSE th
  <2>1. downloads' = view.temp /\ capacity' = (IF n > capacity THEN n ELSE capacity)
        /\ thread' = [t \in Threads |-> Moved(thread[t])] /\ view' = [Off EXCEPT !.pc = "loop"]
    BY <1>3 DEF Swap, Goto
  <2>2. view.temp \in Seq(Entry) /\ n \in Nat /\ thread \in [Threads -> ThreadStates]
        /\ capacity \in Nat
    BY DEF TypeInv, TypeOK, Views
  <2>3. ASSUME NEW th \in ThreadStates
        PROVE  Moved(th) \in ThreadStates /\ Moved(th).slot \in 0 .. n
    BY SMTT(30), <2>2 DEF ThreadStates
  <2> HIDE DEF n, Moved
  <2>4. thread' \in [Threads -> ThreadStates] /\ \A t \in Threads : thread'[t].slot \in 0 .. n
    BY <2>1, <2>2, <2>3
  <2>5. SlotsThere'
    BY <2>1, <2>4 DEF SlotsThere, n
  <2>6. view' \in Views
    BY <2>1, TypeGoto DEF ViewPlaces
  <2>7. IndexInRange'
    BY <2>1 DEF IndexInRange, At, Off
  <2>. QED
    BY <1>1, <2>1, <2>2, <2>4, <2>5, <2>6, <2>7 DEF TypeInv, TypeOK
<1>. QED
  BY <1>2, <1>3

\* The other steps of the main thread.
LEMMA TypeMain ==
  ASSUME TypeInv, Start \/ CountDownloads \/ SetBudget \/ StartDownload \/ NoKey \/ Toggle
                  \/ More \/ Less \/ SetNewStatus \/ Purge \/ Quit
  PROVE  TypeInv'
<1>1. view \in Views /\ InProgress \in Nat /\ downloads \in Seq(Entry)
  BY NoneInProgress DEF TypeInv, TypeOK
<1>2. CASE Start
  <2>1. view' \in Views /\ view'.pc = "reload" /\ max_dls' \in Int /\ auto' \in BOOLEAN
    <3>1. view' = [Off EXCEPT !.pc = "reload"] /\ auto' \in BOOLEAN /\ max_dls' = MaxDownloads
      BY <1>2 DEF Start
    <3>. QED
      BY <3>1, TypeGoto, PodQueueAssumption DEF ViewPlaces, ReloadPlaces
  <2>. QED
    BY <1>2, <2>1 DEF Start, TypeInv, TypeOK, SlotsThere, IndexInRange, At
<1>3. CASE CountDownloads \/ NoKey \/ Toggle \/ More \/ Less
  <2>1. view' \in Views /\ view'.pc \in {"count", "loop"}
    <3>1. view' = [Off EXCEPT !.pc = "count"] \/ view' = [Off EXCEPT !.pc = "loop"]
      BY <1>3 DEF CountDownloads, NoKey, Toggle, More, Less, Goto
    <3>. QED
      BY <3>1, TypeGoto DEF ViewPlaces
  <2>2. auto' \in BOOLEAN /\ max_dls' \in Int
    <3>1. auto' \in {auto, ~auto} /\ max_dls' \in {max_dls, max_dls + 1, max_dls - 1}
      BY <1>3 DEF CountDownloads, NoKey, Toggle, More, Less
    <3>2. auto \in BOOLEAN /\ max_dls \in Int
      BY DEF TypeInv, TypeOK
    <3>3. auto' \in BOOLEAN
      BY <3>1, <3>2, Zenon
    <3>. QED
      BY <3>1, <3>2, <3>3
  <2>3. UNCHANGED <<queuefile, disk, downloads, capacity, thread, enqueue>>
    BY <1>3 DEF CountDownloads, NoKey, Toggle, More, Less
  <2>. QED
    BY <2>1, <2>2, <2>3 DEF TypeInv, TypeOK, SlotsThere, IndexInRange, At
<1>4. CASE SetBudget
  <2>1. max_dls - InProgress \in Int
    BY <1>1 DEF TypeInv, TypeOK
  <2>2. view' \in Views /\ view'.pc = "start" /\ view'.i = 1
    BY <1>1, <1>4, <2>1 DEF SetBudget, Views, ViewPlaces
  <2>. QED
    BY <1>4, <2>2 DEF SetBudget, TypeInv, TypeOK, SlotsThere, IndexInRange, At
<1>5. CASE StartDownload
  <2>1. UNCHANGED <<queuefile, disk, downloads, capacity, auto, max_dls, enqueue>>
    BY <1>5 DEF StartDownload
  <2>2. view' \in Views /\ view'.pc \in {"start", "key"} /\ IndexInRange'
    <3>1. \/ view' = [Off EXCEPT !.pc = "key"]
          \/ view' = [view EXCEPT !.i = @ + 1, !.budget = @ - 1] /\ At("start")
          \/ view' = [view EXCEPT !.i = @ + 1] /\ At("start")
      BY <1>5 DEF StartDownload, Goto
    <3>2. CASE view' = [Off EXCEPT !.pc = "key"]
      BY <3>2, TypeGoto DEF ViewPlaces, IndexInRange, At
    <3>3. CASE view' # [Off EXCEPT !.pc = "key"]
      <4>1. view.pc = "start" /\ view.i \in Nat /\ view.budget \in Int
        BY <1>1, <3>1, <3>3 DEF At, Views
      <4>2. CASE view' = [view EXCEPT !.i = @ + 1, !.budget = @ - 1]
        <5> DEFINE i == view.i + 1
                   budget == view.budget - 1
        <5>1. i \in Nat /\ i >= 1 /\ budget \in Int /\ view' = [view EXCEPT !.i = i, !.budget = budget]
          BY <4>1, <4>2
        <5> HIDE DEF i, budget
        <5>2. view' \in Views /\ view'.pc = "start" /\ view'.i = i
          BY <1>1, <4>1, <5>1 DEF Views
        <5>. QED
          BY <5>1, <5>2 DEF IndexInRange, At
      <4>3. CASE view' = [view EXCEPT !.i = @ + 1]
        BY <1>1, <4>1, <4>3 DEF Views, IndexInRange, At
      <4>. QED
        BY <3>1, <3>3, <4>2, <4>3
    <3>. QED
      BY <3>2, <3>3
  <2>3. thread' \in [Threads -> ThreadStates] /\ SlotsThere'
    <3>1. CASE UNCHANGED thread
      BY <2>1, <3>1 DEF TypeInv, TypeOK, SlotsThere
    <3>2. CASE ~UNCHANGED thread
      <4>1. view.i <= Len(downloads) /\ Spawn(view.i) /\ Status(view.i) = "QUEUED"
        BY <1>1, <1>5, <3>2 DEF StartDownload, Views
      <4>2. view.i \in DOMAIN downloads
        BY <1>1, <1>5, <4>1 DEF StartDownload, TypeInv, IndexInRange, Views
      <4>. QED
        BY <2>1, <4>1, <4>2, TypeSpawn
    <3>. QED
      BY <3>1, <3>2
  <2>. QED
    BY <2>1, <2>2, <2>3 DEF TypeInv, TypeOK
<1>6. CASE SetNewStatus
  <2>1. SetStatus(view.i, view.st) /\ view.i \in Nat /\ view.st \in Statuses
        /\ UNCHANGED <<queuefile, disk, capacity, auto, max_dls, enqueue>>
        /\ thread' = [t \in Threads |-> Overwritten(thread[t], view.i)]
    BY <1>1, <1>6 DEF SetNewStatus, Views
  <2>2. downloads' \in Seq(Entry) /\ Len(downloads') = Len(downloads)
    BY <1>1, <2>1, StatusSet
  <2>3. view' \in Views /\ view'.pc = "loop"
    BY <1>6, TypeGoto DEF SetNewStatus, Goto, ViewPlaces, Off
  <2>4. \A t \in Threads : thread'[t] \in ThreadStates /\ thread'[t].slot = thread[t].slot
    BY <2>1, OverwrittenThread DEF TypeInv, TypeOK
  <2>. QED
    BY <2>1, <2>2, <2>3, <2>4 DEF TypeInv, TypeOK, SlotsThere, IndexInRange, At
<1>7. CASE Purge \/ Quit
  <2>1. view' \in Views /\ view'.pc = "reload"
    <3>1. \/ view' = [[Off EXCEPT !.pc = "reload"] EXCEPT !.purge = TRUE]
          \/ view' = [[Off EXCEPT !.pc = "reload"] EXCEPT !.next = "off"]
      BY <1>7 DEF Purge, Quit, Off
    <3>2. [Off EXCEPT !.pc = "reload"] \in Views /\ [Off EXCEPT !.pc = "reload"].pc = "reload"
      BY TypeGoto DEF ViewPlaces, ReloadPlaces, Off
    <3>. QED
      BY <3>1, <3>2 DEF Views
  <2>. QED
    BY <1>7, <2>1 DEF Purge, Quit, TypeInv, TypeOK, SlotsThere, IndexInRange, At
<1>. QED
  BY <1>2, <1>3, <1>4, <1>5, <1>6, <1>7

\* A key on an element of the vector.
LEMMA TypeKey ==
  ASSUME TypeInv, NEW i \in DOMAIN downloads,
         Download(i) \/ \E op \in {"play", "finished", "cancel", "delete"} : LookAtStatus(op, i)
  PROVE  TypeInv'
<1>1. view \in Views /\ downloads \in Seq(Entry) /\ i \in 1 .. Len(downloads) /\ i \in Nat
  BY DEF TypeInv, TypeOK
<1>2. CASE Download(i)
  <2>1. view' \in Views /\ view'.pc = "loop"
    BY <1>2, TypeGoto DEF Download, Goto, ViewPlaces
  <2>2. thread' \in [Threads -> ThreadStates] /\ SlotsThere'
    BY <1>2, TypeSpawn DEF Download
  <2>. QED
    BY <1>2, <2>1, <2>2 DEF Download, TypeInv, TypeOK, IndexInRange, At
<1>3. ASSUME NEW op \in {"play", "finished", "cancel", "delete"}, LookAtStatus(op, i)
      PROVE  TypeInv'
  <2> DEFINE st == Change(op, i)
  <2>1. st \in Statuses
    <3>1. downloads[i] \in Entry
      BY <1>1
    <3>. QED
      BY <3>1 DEF Change, Status, Statuses, Entry
  <2>2. view' = [view EXCEPT !.pc = "set", !.i = i, !.st = st]
    BY <1>3 DEF LookAtStatus
  <2> HIDE DEF st
  <2>3. view' \in Views /\ view'.pc = "set"
    <3>1. "set" \in ViewPlaces
      BY DEF ViewPlaces
    <3>2. ASSUME NEW pc \in ViewPlaces, view' = [view EXCEPT !.pc = pc, !.i = i, !.st = st]
          PROVE  view' \in Views /\ view'.pc = pc
      BY <1>1, <2>1, <3>2 DEF Views
    <3>. QED
      BY <2>2, <3>1, <3>2
  <2>. QED
    BY <1>3, <2>3 DEF LookAtStatus, TypeInv, TypeOK, SlotsThere, IndexInRange, At
<1>. QED
  BY <1>2, <1>3

\* What a thread may do to the vector: set the status of its element, to one of
\* three.
LEMMA ThreadSets ==
  ASSUME NEW t \in Threads, Thread(t)
  PROVE  \/ downloads' = downloads
         \/ /\ thread[t].slot # 0
            /\ \E st \in {"DOWNLOADING", "READY", "FAILED"} : SetStatus(thread[t].slot, st)
BY DEF Thread, OpenFile, OpenFails, TransferDone, TransferFails, AfterFailure, UseDangling, Has, EndsWith

\* So its URLs stay what they are.
LEMMA ThreadVector ==
  ASSUME TypeInv, NEW t \in Threads, Thread(t)
  PROVE  /\ downloads' \in Seq(Entry) /\ Len(downloads') = Len(downloads)
         /\ DOMAIN downloads' = DOMAIN downloads
         /\ \A j \in DOMAIN downloads :
              /\ downloads'[j].url = downloads[j].url
              /\ downloads'[j].st = "DELETED" => downloads[j].st = "DELETED"
<1>1. downloads \in Seq(Entry) /\ thread[t].slot \in Nat
  BY DEF TypeInv, TypeOK, ThreadStates
<1>2. CASE downloads' = downloads
  BY <1>1, <1>2
<1>3. CASE downloads' # downloads
  <2>1. PICK st \in {"DOWNLOADING", "READY", "FAILED"} : SetStatus(thread[t].slot, st)
    BY <1>3, ThreadSets
  <2>2. st \in Statuses
    BY DEF Statuses
  <2>3. /\ downloads' \in Seq(Entry) /\ Len(downloads') = Len(downloads)
        /\ DOMAIN downloads' = DOMAIN downloads
        /\ \A j \in DOMAIN downloads :
             /\ downloads'[j].url = downloads[j].url
             /\ downloads'[j].st = IF j = thread[t].slot THEN st ELSE downloads[j].st
    BY <1>1, <2>1, <2>2, StatusSet
  <2>. QED
    BY <2>3
<1>. QED
  BY <1>2, <1>3

LEMMA TypeThread == ASSUME TypeInv, NEW t \in Threads, Thread(t) PROVE TypeInv'
<1>1. /\ downloads' \in Seq(Entry) /\ Len(downloads') = Len(downloads)
      /\ UNCHANGED <<queuefile, capacity, view, auto, max_dls, enqueue>>
  BY ThreadVector DEF Thread, OpenFile, OpenFails, TransferDone, TransferFails, AfterFailure, UseDangling
<1>2. disk' \in [Urls -> Contents]
  <2>1. disk \in [Urls -> Contents]
    BY DEF TypeInv, TypeOK
  <2>2. PICK u : \/ disk' = disk
                 \/ disk' = [disk EXCEPT ![u] = IF @ = "absent" THEN "partial" ELSE @]
                 \/ \E content \in Contents \cup {disk[u]} : disk' = [disk EXCEPT ![u] = content]
    <3>1. \/ disk' = disk
          \/ disk' = [disk EXCEPT ![downloads[thread[t].slot].url] = IF @ = "absent" THEN "partial" ELSE @]
          \/ \E content \in Contents \cup {disk[thread[t].url]} :
               disk' = [disk EXCEPT ![thread[t].url] = content]
      BY DEF Thread, OpenFile, OpenFails, TransferDone, TransferFails, AfterFailure, UseDangling, Contents
    <3>. QED
      BY <3>1
  <2>. QED
    BY <2>1, <2>2 DEF Contents
<1>3. \A s \in Threads : thread[s] \in ThreadStates
  BY DEF TypeInv, TypeOK
<1>4. NoThread \in ThreadStates /\ NoThread.slot = 0
  BY DEF NoThread, ThreadStates, ThreadPlaces
<1>5. \/ thread' = thread
      \/ thread' = [thread EXCEPT ![t] = NoThread]
      \/ \E pc \in ThreadPlaces : thread' = [thread EXCEPT ![t].pc = pc]
      \/ OpenFile(t)
      \/ thread' = [s \in Threads |-> IF s = t THEN NoThread
                                     ELSE Overwritten(thread[s], thread[t].slot)]
  BY DEF Thread, OpenFails, TransferDone, TransferFails, AfterFailure, UseDangling, Ends, EndsWith, ThreadPlaces
<1>6. thread' \in [Threads -> ThreadStates] /\ \A s \in Threads : thread'[s].slot \in {0, thread[s].slot}
  <2>1. CASE thread' = thread \/ thread' = [thread EXCEPT ![t] = NoThread]
    BY <1>4, <2>1 DEF TypeInv, TypeOK
  <2>2. ASSUME NEW pc \in ThreadPlaces, thread' = [thread EXCEPT ![t].pc = pc]
        PROVE  thread' \in [Threads -> ThreadStates] /\ \A s \in Threads : thread'[s].slot \in {0, thread[s].slot}
    <3> DEFINE new == [thread[t] EXCEPT !.pc = pc]
    <3>1. new \in ThreadStates /\ new.slot = thread[t].slot
      BY <1>3, <2>2 DEF ThreadStates
    <3>2. thread' = [thread EXCEPT ![t] = new]
      BY <2>2
    <3> HIDE DEF new
    <3>. QED
      BY <3>1, <3>2 DEF TypeInv, TypeOK
  <2>3. CASE OpenFile(t)
    <3> DEFINE u == downloads[thread[t].slot].url
               shared == {s \in Threads : Loading(s) /\ thread[s].url = u}
               new == [pc |-> "transfer", slot |-> thread[t].slot, url |-> u,
                       resumed |-> disk[u] # "absent", alone |-> shared = {},
                       shown |-> thread[t].shown \/ ~Reloading]
    <3>1. thread' = [s \in Threads |-> IF s = t THEN new
                       ELSE IF s \in shared THEN [thread[s] EXCEPT !.alone = FALSE] ELSE thread[s]]
      BY <2>3 DEF OpenFile
    <3>2. u \in Urls
      <4>1. thread[t].slot \in DOMAIN downloads
        BY <1>3, <2>3 DEF OpenFile, Has, TypeInv, TypeOK, SlotsThere, ThreadStates
      <4>2. downloads[thread[t].slot] \in Entry
        BY <4>1 DEF TypeInv, TypeOK
      <4>. QED
        BY <4>2 DEF Entry
    <3>3. new \in ThreadStates /\ new.slot = thread[t].slot
      <4>1. /\ (disk[u] # "absent") \in BOOLEAN /\ (shared = {}) \in BOOLEAN
            /\ (thread[t].shown \/ ~Reloading) \in BOOLEAN
        OBVIOUS
      <4>. QED
        BY <1>3, <3>2, <4>1 DEF ThreadStates, ThreadPlaces
    <3>4. ASSUME NEW th \in ThreadStates
          PROVE  [th EXCEPT !.alone = FALSE] \in ThreadStates /\ [th EXCEPT !.alone = FALSE].slot = th.slot
      BY DEF ThreadStates
    <3> HIDE DEF new, shared
    <3>. QED
      BY <1>3, <3>1, <3>3, <3>4
  <2>4. CASE thread' = [s \in Threads |-> IF s = t THEN NoThread
                                         ELSE Overwritten(thread[s], thread[t].slot)]
    BY <1>3, <1>4, <2>4, OverwrittenThread
  <2>. QED
    BY <1>5, <2>1, <2>2, <2>3, <2>4
<1>7. SlotsThere'
  <2>1. \A s \in Threads : thread[s].slot \in 0 .. Len(downloads) /\ 0 \in 0 .. Len(downloads)
    BY DEF TypeInv, TypeOK, SlotsThere
  <2>. QED
    BY <1>1, <1>6, <2>1 DEF SlotsThere
<1>. QED
  BY <1>1, <1>2, <1>6, <1>7 DEF TypeInv, TypeOK, IndexInRange, At

LEMMA TypeRest ==
  ASSUME TypeInv, (\E u \in Urls : SearchQueue(u)) \/ AppendToQueue \/ Crash
  PROVE  TypeInv'
<1>1. CASE \E u \in Urls : SearchQueue(u)
  BY <1>1 DEF SearchQueue, TypeInv, TypeOK, SlotsThere, IndexInRange, At
<1>2. CASE AppendToQueue
  <2> DEFINE line == [url |-> enqueue, mark |-> "none"]
  <2>1. queuefile' = Append(queuefile, line) /\ line \in Line /\ queuefile \in Seq(Line)
    BY <1>2 DEF AppendToQueue, TypeInv, TypeOK, Line, Marks
  <2> HIDE DEF line
  <2>2. queuefile' \in Seq(Line) /\ Len(queuefile') = Len(queuefile) + 1
    BY <2>1, UrlsOfAppend
  <2>3. UNCHANGED <<disk, downloads, capacity, view, auto, max_dls, thread>> /\ enqueue' = "none"
    BY <1>2 DEF AppendToQueue
  <2>4. view.i \in Nat /\ Len(queuefile) \in Nat
    BY DEF TypeInv, TypeOK, Views
  <2>. QED
    BY <2>2, <2>3, <2>4 DEF TypeInv, TypeOK, SlotsThere, IndexInRange, At
<1>3. CASE Crash
  <2>1. view' \in Views /\ view'.pc = "off"
    BY <1>3, TypeGoto DEF Crash, ViewPlaces
  <2>2. downloads' \in Seq(Entry) /\ SlotsThere' /\ thread' \in [Threads -> ThreadStates]
    BY <1>3, TypeEnded DEF Crash
  <2>. QED
    BY <1>3, <2>1, <2>2 DEF Crash, TypeInv, TypeOK, IndexInRange, At
<1>. QED
  BY <1>1, <1>2, <1>3

LEMMA TypeNext == TypeInv /\ [Next]_vars => TypeInv'
<1>. SUFFICES ASSUME TypeInv, [Next]_vars PROVE TypeInv'
  OBVIOUS
<1>1. CASE View
  BY <1>1, TypeScan, TypeReadLine, TypeWrite, TypeSwap, TypeMain, TypeKey DEF View
<1>2. CASE \E t \in Threads : Thread(t)
  BY <1>2, TypeThread
<1>3. CASE (\E u \in Urls : SearchQueue(u)) \/ AppendToQueue \/ Crash
  BY <1>3, TypeRest
<1>4. CASE UNCHANGED vars
  BY <1>4 DEF vars, TypeInv, TypeOK, SlotsThere, IndexInRange, At
<1>. QED
  BY <1>1, <1>2, <1>3, <1>4 DEF Next

\* Type correctness of PodQueue, and that a thread's element is one of the vector
\* unless it is known to be gone (poddlthread.cpp, queueloader.cpp).
THEOREM TypesHold == Spec => []TypeInv
<1>. QED
  BY TypeInit, TypeNext, PTL DEF Spec

-----------------------------------------------------------------------------
(* Steps of the main thread outside of a reload, alike in what they do to    *)
(* the reload's locals and to the vector.                                    *)
Ordinary ==
  \/ Start \/ CountDownloads \/ SetBudget \/ StartDownload \/ NoKey \/ Toggle \/ More \/ Less
  \/ SetNewStatus \/ Purge \/ Quit
  \/ \E i \in DOMAIN downloads :
       \/ Download(i)
       \/ \E op \in {"play", "finished", "cancel", "delete"} : LookAtStatus(op, i)

LEMMA EmptyUrls == DOMAIN <<>> = {} /\ UrlsIn(<<>>) = {} /\ Len(<<>>) = 0
<1>1. Len(<<>>) = 0 /\ <<>> \in Seq({})
  BY EmptySeq
<1>2. DOMAIN <<>> = {}
  OBVIOUS
<1>. QED
  BY <1>1, <1>2 DEF UrlsIn

LEMMA Fresh ==
  ASSUME NEW pc
  PROVE  LET v == [Off EXCEPT !.pc = pc] IN v.pc = pc /\ v.i = 0 /\ v.temp = <<>> /\ v.next = "loop"
BY DEF Off

LEMMA OrdinaryView ==
  ASSUME TypeInv, Ordinary
  PROVE  /\ view'.pc \in ViewPlaces \ {"off", "read", "open", "write", "swap"}
         /\ view'.pc = "reload" => view'.temp = <<>> /\ view'.i = 0
         /\ view.pc \notin ReloadPlaces
         /\ UNCHANGED <<queuefile, disk, enqueue>>
<1>. view \in Views
  BY DEF TypeInv, TypeOK
<1>1. CASE Start \/ Purge \/ Quit
  <2>1. /\ UNCHANGED <<queuefile, disk, enqueue>> /\ view.pc \notin ReloadPlaces
        /\ \/ view' = [Off EXCEPT !.pc = "reload"]
           \/ view' = [Off EXCEPT !.pc = "reload", !.purge = TRUE]
           \/ view' = [Off EXCEPT !.pc = "reload", !.next = "off"]
    BY <1>1 DEF Start, Purge, Quit, KeyRead, At, ReloadPlaces
  <2>. QED
    BY <2>1 DEF ViewPlaces, ReloadPlaces, Off
<1>2. CASE CountDownloads \/ NoKey \/ Toggle \/ More \/ Less \/ SetNewStatus
           \/ \E i \in DOMAIN downloads : Download(i)
  <2>1. /\ UNCHANGED <<queuefile, disk, enqueue>> /\ view.pc \notin ReloadPlaces
        /\ \/ view' = [Off EXCEPT !.pc = "count"]
           \/ view' = [Off EXCEPT !.pc = "loop"]
    BY <1>2 DEF CountDownloads, NoKey, Toggle, More, Less, SetNewStatus, Download, KeyRead, At, Goto, ReloadPlaces
  <2>. QED
    BY ZenonT(30), <2>1, Fresh DEF ViewPlaces
<1>3. CASE SetBudget \/ StartDownload
  <2>1. /\ UNCHANGED <<queuefile, disk, enqueue>> /\ view.pc \notin ReloadPlaces
        /\ \/ view' = [Off EXCEPT !.pc = "key"]
           \/ view' = [view EXCEPT !.pc = "start", !.budget = max_dls - InProgress, !.i = 1]
           \/ view.pc = "start" /\ view' = [view EXCEPT !.i = @ + 1, !.budget = @ - 1]
           \/ view.pc = "start" /\ view' = [view EXCEPT !.i = @ + 1]
    BY <1>3 DEF SetBudget, StartDownload, At, Goto, ReloadPlaces
  <2>2. view'.pc \in {"start", "key"}
    BY ZenonT(30), <2>1, Fresh DEF Views
  <2>. QED
    BY <2>1, <2>2 DEF ViewPlaces
<1>4. CASE \E i \in DOMAIN downloads, op \in {"play", "finished", "cancel", "delete"} : LookAtStatus(op, i)
  <2>1. PICK i, op : LookAtStatus(op, i)
    BY <1>4
  <2>2. /\ UNCHANGED <<queuefile, disk, enqueue>> /\ view.pc \notin ReloadPlaces
        /\ view' = [view EXCEPT !.pc = "set", !.i = i, !.st = Change(op, i)]
    BY <2>1 DEF LookAtStatus, KeyRead, At, ReloadPlaces
  <2>3. view'.pc = "set"
    BY <2>2 DEF Views
  <2>. QED
    BY <2>2, <2>3 DEF ViewPlaces
<1>. QED
  BY <1>1, <1>2, <1>3, <1>4 DEF Ordinary

\* Only a key that looks at a status goes on to set one.
LEMMA OnlyLooking ==
  ASSUME TypeInv, Ordinary, view'.pc = "set"
  PROVE  \E i \in DOMAIN downloads, op \in {"play", "finished", "cancel", "delete"} : LookAtStatus(op, i)
<1>1. view' # [Off EXCEPT !.pc = "loop"] /\ view' # [Off EXCEPT !.pc = "count"]
      /\ view' # [Off EXCEPT !.pc = "key"] /\ view' # [Off EXCEPT !.pc = "reload"]
  BY Fresh
<1>2. ~Start /\ ~CountDownloads /\ ~NoKey /\ ~Toggle /\ ~More /\ ~Less /\ ~SetNewStatus
      /\ \A i \in DOMAIN downloads : ~Download(i)
  BY <1>1 DEF Start, CountDownloads, NoKey, Toggle, More, Less, SetNewStatus, Download, Goto
<1>3. view \in Views
  BY DEF TypeInv, TypeOK
<1>4. ~SetBudget /\ ~StartDownload
  BY <1>1, <1>3 DEF SetBudget, StartDownload, Goto, At, Views
<1>5. ~Purge /\ ~Quit
  BY DEF Purge, Quit, Off
<1>. QED
  BY <1>2, <1>4, <1>5 DEF Ordinary

LEMMA OrdinaryVector ==
  ASSUME TypeInv, Ordinary
  PROVE  \/ downloads' = downloads
         \/ /\ At("set") /\ SetStatus(view.i, view.st)
            /\ thread' = [t \in Threads |-> Overwritten(thread[t], view.i)]
            /\ downloads' \in Seq(Entry) /\ Len(downloads') = Len(downloads)
            /\ DOMAIN downloads' = DOMAIN downloads
            /\ \A j \in DOMAIN downloads :
                 /\ downloads'[j].url = downloads[j].url
                 /\ downloads'[j].st = IF j = view.i THEN view.st ELSE downloads[j].st
<1>1. CASE SetNewStatus
  <2>1. /\ At("set") /\ SetStatus(view.i, view.st)
        /\ thread' = [t \in Threads |-> Overwritten(thread[t], view.i)]
    BY <1>1 DEF SetNewStatus
  <2>2. downloads \in Seq(Entry) /\ view.i \in Nat /\ view.st \in Statuses
    BY DEF TypeInv, TypeOK, Views
  <2>. QED
    BY <2>1, <2>2, StatusSet
<1>2. CASE ~SetNewStatus
  BY <1>2 DEF Ordinary, Start, CountDownloads, SetBudget, StartDownload, NoKey, Toggle, More, Less,
              Purge, Quit, Download, LookAtStatus
<1>. QED
  BY <1>1, <1>2

LEMMA Steps ==
  ASSUME [Next]_vars
  PROVE  \/ Ordinary \/ Scan \/ ReadLine \/ OpenForWriting \/ WriteLine \/ Swap
         \/ (\E t \in Threads : Thread(t)) \/ (\E u \in Urls : SearchQueue(u)) \/ AppendToQueue
         \/ Crash \/ UNCHANGED vars
BY DEF Next, View, Ordinary

-----------------------------------------------------------------------------
(* A download shown as in progress has a thread.                             *)

NoneShown(s) == \A k \in DOMAIN s : s[k].st # "DOWNLOADING"
\* A reload never carries a download in progress over, and no key starts one by
\* setting the status.
CarriesNone == view.pc \in ReloadPlaces => NoneShown(view.temp)
SetsNone == At("set") => view.st # "DOWNLOADING"

ProgressInv == DownloadingHasThread /\ CarriesNone /\ SetsNone

LEMMA ProgressInit == Init => ProgressInv
<1>. SUFFICES ASSUME Init PROVE ProgressInv
  OBVIOUS
<1>1. view.pc = "off" /\ DOMAIN downloads = {}
  BY EmptyUrls DEF Init, Off
<1>. QED
  BY <1>1 DEF ProgressInv, DownloadingHasThread, CarriesNone, SetsNone, ReloadPlaces, At

\* A step that leaves the vector alone and ends no thread.
LEMMA SameProgress ==
  ASSUME DownloadingHasThread, downloads' = downloads,
         \A t \in Threads : thread[t].pc # "none" => thread'[t].pc # "none" /\ thread'[t].slot = thread[t].slot
  PROVE  DownloadingHasThread'
BY DEF DownloadingHasThread, Status

LEMMA SpawnKeeps ==
  ASSUME TypeInv, NEW i, Spawn(i)
  PROVE  \A t \in Threads : thread[t].pc # "none" => thread'[t] = thread[t]
BY DEF Spawn, TypeInv, TypeOK

LEMMA ProgressOrdinary == TypeInv /\ ProgressInv /\ Ordinary => ProgressInv'
<1>. SUFFICES ASSUME TypeInv, ProgressInv, Ordinary PROVE ProgressInv'
  OBVIOUS
<1>1. CarriesNone'
  BY OrdinaryView, EmptyUrls DEF CarriesNone, NoneShown, ReloadPlaces
<1>2. SetsNone'
  <2>. SUFFICES ASSUME view'.pc = "set" PROVE view'.st # "DOWNLOADING"
    BY DEF SetsNone, At
  <2>1. PICK i \in DOMAIN downloads, op \in {"play", "finished", "cancel", "delete"} : LookAtStatus(op, i)
    BY OnlyLooking
  <2>2. view'.st = Change(op, i)
    BY <2>1 DEF LookAtStatus, TypeInv, TypeOK, Views
  <2>. QED
    BY <2>1, <2>2 DEF LookAtStatus, Change
<1>3. DownloadingHasThread'
  <2>1. CASE downloads' = downloads
    <3>1. \/ thread' = thread \/ \E i : Spawn(i)
          \/ thread' = [t \in Threads |-> Overwritten(thread[t], view.i)]
      BY DEF Ordinary, Start, CountDownloads, SetBudget, StartDownload, NoKey, Toggle, More, Less,
              SetNewStatus, Purge, Quit, Download, LookAtStatus
    <3>2. \A t \in Threads : thread[t].pc # "none" =>
            thread'[t].pc # "none" /\ thread'[t].slot = thread[t].slot
      <4>1. thread' = thread \/ (\E i : Spawn(i)) =>
              \A t \in Threads : thread[t].pc # "none" => thread'[t] = thread[t]
        BY SpawnKeeps
      <4>2. thread' = [t \in Threads |-> Overwritten(thread[t], view.i)] =>
              \A t \in Threads : thread'[t].pc = thread[t].pc /\ thread'[t].slot = thread[t].slot
        BY OverwrittenThread DEF TypeInv, TypeOK
      <4>. QED
        BY <3>1, <4>1, <4>2
    <3>. QED
      BY <2>1, <3>2, SameProgress DEF ProgressInv
  <2>2. CASE downloads' # downloads
    <3>1. /\ At("set") /\ DOMAIN downloads' = DOMAIN downloads
          /\ \A j \in DOMAIN downloads :
               downloads'[j].st = IF j = view.i THEN view.st ELSE downloads[j].st
          /\ thread' = [t \in Threads |-> Overwritten(thread[t], view.i)]
      BY <2>2, OrdinaryVector
    <3>4. \A t \in Threads : thread'[t].pc = thread[t].pc /\ thread'[t].slot = thread[t].slot
      BY <3>1, OverwrittenThread DEF TypeInv, TypeOK
    <3>2. view.st # "DOWNLOADING"
      BY <3>1 DEF ProgressInv, SetsNone
    <3>3. \A j \in DOMAIN downloads' : downloads'[j].st = "DOWNLOADING" => downloads[j].st = "DOWNLOADING"
      BY <3>1, <3>2
    <3>. QED
      BY <3>1, <3>3, <3>4 DEF ProgressInv, DownloadingHasThread, Status
  <2>. QED
    BY <2>1, <2>2
<1>. QED
  BY <1>1, <1>2, <1>3 DEF ProgressInv

\* The program ends: the vector is empty.
LEMMA ProgressEnded ==
  ASSUME downloads' = <<>>, view'.pc = "off"
  PROVE  ProgressInv'
BY EmptyUrls DEF ProgressInv, DownloadingHasThread, CarriesNone, SetsNone, ReloadPlaces, At

LEMMA ProgressLeave ==
  ASSUME TypeInv, ProgressInv, LeaveReload, view.next = "loop" => UNCHANGED <<downloads, capacity, thread>>
  PROVE  ProgressInv'
<1>1. CASE view.next = "off"
  BY <1>1, ProgressEnded DEF LeaveReload, Off
<1>2. CASE view.next # "off"
  <2>1. view.next = "loop"
    BY <1>2 DEF TypeInv, TypeOK, Views
  <2>2. UNCHANGED <<downloads, thread>> /\ view'.pc = "loop"
    BY <2>1, Fresh DEF LeaveReload, Goto
  <2>. QED
    BY <2>2, SameProgress DEF ProgressInv, CarriesNone, SetsNone, ReloadPlaces, At
<1>. QED
  BY <1>1, <1>2

LEMMA ProgressReload ==
  TypeInv /\ ProgressInv /\ (Scan \/ ReadLine \/ OpenForWriting \/ WriteLine \/ Swap) => ProgressInv'
<1>. SUFFICES ASSUME TypeInv, ProgressInv, Scan \/ ReadLine \/ OpenForWriting \/ WriteLine \/ Swap
              PROVE  ProgressInv'
  OBVIOUS
<1>1. view \in Views /\ view.temp \in Seq(Entry) /\ queuefile \in Seq(Line) /\ downloads \in Seq(Entry)
  BY DEF TypeInv, TypeOK, Views
<1>2. ASSUME UNCHANGED <<downloads, thread>>, view'.pc \in ReloadPlaces, NoneShown(view'.temp)
      PROVE  ProgressInv'
  BY <1>2, SameProgress DEF ProgressInv, CarriesNone, SetsNone, ReloadPlaces, At
<1>3. ASSUME NEW d \in Entry, d.st # "DOWNLOADING", NoneShown(view.temp)
      PROVE  NoneShown(Append(view.temp, d))
  BY <1>1, <1>3 DEF NoneShown
<1>4. CASE Scan
  <2>1. CASE LeaveReload /\ (view.next = "loop" => UNCHANGED <<downloads, capacity, thread>>)
    BY <2>1, ProgressLeave
  <2>2. CASE view' = Looked(view.i + 1) /\ UNCHANGED <<downloads, capacity, thread>>
    <3> DEFINE i == view.i + 1
    <3>1. /\ view'.pc \in {"reload", "read"}
          /\ view'.temp = IF i \in DOMAIN downloads /\ Status(i) \in Kept(view.purge)
                          THEN Append(view.temp, downloads[i]) ELSE view.temp
      BY <1>1, <2>2 DEF Looked, Views
    <3>2. NoneShown(view.temp)
      BY <1>4 DEF Scan, At, ProgressInv, CarriesNone, ReloadPlaces
    <3>3. i \in DOMAIN downloads /\ Status(i) \in Kept(view.purge) =>
            downloads[i] \in Entry /\ downloads[i].st # "DOWNLOADING"
      BY <1>1 DEF Status, Kept
    <3> HIDE DEF i
    <3>4. NoneShown(view'.temp)
      BY <1>3, <3>1, <3>2, <3>3
    <3>. QED
      BY <1>2, <2>2, <3>1, <3>4 DEF ReloadPlaces
  <2>. QED
    BY <1>4, <2>1, <2>2 DEF Scan
<1>5. CASE ReadLine
  <2> DEFINE i == view.i + 1
  <2>1. /\ view'.pc \in {"read", "open"} /\ UNCHANGED <<downloads, thread>>
        /\ view'.temp = IF i \in DOMAIN queuefile THEN AddLine(view.temp, queuefile[i]) ELSE view.temp
    BY <1>1, <1>5 DEF ReadLine, Views
  <2>2. NoneShown(view.temp)
    BY <1>5 DEF ReadLine, At, ProgressInv, CarriesNone, ReloadPlaces
  <2>3. i \in DOMAIN queuefile => /\ Loaded(queuefile[i]) \in Entry
                                  /\ Loaded(queuefile[i]).st # "DOWNLOADING"
    <3>1. i \in DOMAIN queuefile => queuefile[i] \in Line
      BY <1>1
    <3>2. \A line \in Line : Loaded(line) \in Entry /\ Loaded(line).st # "DOWNLOADING"
      BY <1>1, LineAdded
    <3>. QED
      BY <3>1, <3>2
  <2> HIDE DEF i
  <2>4. NoneShown(view'.temp)
    BY <1>3, <2>1, <2>2, <2>3 DEF AddLine
  <2>. QED
    BY <1>2, <2>1, <2>4 DEF ReloadPlaces
<1>6. CASE OpenForWriting \/ WriteLine
  <2>1. /\ view'.pc \in {"write", "swap"} /\ UNCHANGED <<downloads, thread>> /\ view'.temp = view.temp
        /\ view.pc \in ReloadPlaces
    BY <1>1, <1>6 DEF OpenForWriting, WriteLine, At, Views, ReloadPlaces
  <2>. QED
    BY <1>2, <2>1 DEF ProgressInv, CarriesNone, ReloadPlaces
<1>7. CASE Swap
  <2>1. NoneShown(view.temp)
    BY <1>7 DEF Swap, At, ProgressInv, CarriesNone, ReloadPlaces
  <2>2. CASE view.next = "off"
    BY <1>7, <2>2, ProgressEnded DEF Swap, LeaveReload, Off
  <2>3. CASE view.next # "off"
    <3>1. downloads' = view.temp /\ view'.pc = "loop"
      BY <1>7, <2>3, Fresh DEF Swap, Goto
    <3>. QED
      BY <2>1, <3>1 DEF ProgressInv, DownloadingHasThread, Status, NoneShown, CarriesNone, SetsNone, ReloadPlaces, At
  <2>. QED
    BY <2>2, <2>3
<1>. QED
  BY <1>4, <1>5, <1>6, <1>7

\* A thread ends only after it has set its element to another status, or has seen
\* that the user did.
LEMMA ProgressThread == ASSUME TypeInv, ProgressInv, NEW t \in Threads, Thread(t) PROVE ProgressInv'
<1>1. CarriesNone' /\ SetsNone'
  <2>1. view' = view
    BY DEF Thread, OpenFile, OpenFails, TransferDone, TransferFails, AfterFailure, UseDangling
  <2>. QED
    BY <2>1 DEF ProgressInv, CarriesNone, SetsNone, At
<1> DEFINE i == thread[t].slot
<1>2. /\ downloads \in Seq(Entry) /\ i \in Nat /\ thread \in [Threads -> ThreadStates]
      /\ \A st \in {"READY", "FAILED", "DOWNLOADING"} : st \in Statuses
  BY DEF TypeInv, TypeOK, ThreadStates, Statuses
<1>3. ASSUME NEW s \in Threads, s # t
      PROVE  thread'[s].pc = thread[s].pc /\ thread'[s].slot = thread[s].slot
  <2>1. CASE OpenFile(t)
    <3>1. thread'[s] = thread[s] \/ thread'[s] = [thread[s] EXCEPT !.alone = FALSE]
      BY <1>3, <2>1 DEF OpenFile
    <3>2. thread[s] \in ThreadStates
      BY <1>2
    <3>. QED
      BY <3>1, <3>2 DEF ThreadStates
  <2>2. CASE ~OpenFile(t)
    <3>1. thread'[s] = thread[s] \/ thread'[s] = Overwritten(thread[s], i)
      BY <1>2, <1>3, <2>2 DEF Thread, OpenFails, TransferDone, TransferFails, AfterFailure, UseDangling, Ends, EndsWith
    <3>. QED
      BY <1>2, <3>1, OverwrittenThread
  <2>. QED
    BY <2>1, <2>2
<1>4. CASE OpenFile(t)
  <2>1. SetStatus(i, "DOWNLOADING") /\ thread'[t].pc = "transfer" /\ thread'[t].slot = i
    BY <1>4 DEF OpenFile
  <2>2. DOMAIN downloads' = DOMAIN downloads
        /\ \A j \in DOMAIN downloads : j # i => downloads'[j].st = downloads[j].st
    BY <1>2, <2>1, StatusSet
  <2>3. DownloadingHasThread'
    BY <1>3, <2>1, <2>2 DEF ProgressInv, DownloadingHasThread, Status
  <2>. QED
    BY <1>1, <2>3 DEF ProgressInv
<1>5. CASE OpenFails(t) \/ TransferDone(t) \/ (AfterFailure(t) /\ downloads' # downloads)
  <2>1. PICK st \in {"READY", "FAILED"} : SetStatus(i, st)
    BY <1>5 DEF OpenFails, TransferDone, AfterFailure, EndsWith
  <2>2. DOMAIN downloads' = DOMAIN downloads
        /\ \A j \in DOMAIN downloads : downloads'[j].st = IF j = i THEN st ELSE downloads[j].st
    BY <1>2, <2>1, StatusSet
  <2>3. DownloadingHasThread'
    BY <1>3, <2>1, <2>2 DEF ProgressInv, DownloadingHasThread, Status
  <2>. QED
    BY <1>1, <2>3 DEF ProgressInv
<1>6. CASE TransferFails(t) \/ UseDangling(t) \/ (AfterFailure(t) /\ downloads' = downloads)
  <2>1. downloads' = downloads
    BY <1>6 DEF TransferFails, UseDangling
  <2>0. ASSUME NEW pc \in {"failed", "again"}, thread' = [thread EXCEPT ![t].pc = pc]
        PROVE  thread'[t].pc # "none" /\ thread'[t].slot = i
    <3>1. thread'[t] = [thread[t] EXCEPT !.pc = pc] /\ thread[t] \in ThreadStates
      BY <1>2, <2>0
    <3>. QED
      BY <3>1 DEF ThreadStates
  <2>2. \/ thread'[t].pc # "none" /\ thread'[t].slot = i
        \/ Status(i) # "DOWNLOADING" \/ i \notin DOMAIN downloads
    <3>1. CASE TransferFails(t) \/ UseDangling(t)
      BY <2>0, <3>1 DEF TransferFails, UseDangling
    <3>2. CASE AfterFailure(t)
      <4>1. CASE Status(i) = "CANCELLED"
        BY <4>1
      <4>2. CASE Status(i) # "CANCELLED" /\ thread[t].resumed
        BY <2>0, <3>2, <4>2 DEF AfterFailure
      <4>3. CASE Status(i) # "CANCELLED" /\ ~thread[t].resumed
        <5>1. SetStatus(i, "FAILED")
          BY <3>2, <4>3 DEF AfterFailure, EndsWith
        <5>2. i \in DOMAIN downloads => downloads'[i].st = "FAILED"
          BY <1>2, <5>1, StatusSet
        <5>. QED
          BY <2>1, <5>2 DEF Status
      <4>. QED
        BY <4>1, <4>2, <4>3
    <3>. QED
      BY <1>6, <3>1, <3>2
  <2>3. DownloadingHasThread'
    BY <1>3, <2>1, <2>2 DEF ProgressInv, DownloadingHasThread, Status
  <2>. QED
    BY <1>1, <2>3 DEF ProgressInv
<1>. QED
  BY <1>4, <1>5, <1>6 DEF Thread

LEMMA ProgressNext == TypeInv /\ ProgressInv /\ [Next]_vars => ProgressInv'
<1>. SUFFICES ASSUME TypeInv, ProgressInv, [Next]_vars PROVE ProgressInv'
  OBVIOUS
<1>1. CASE (\E u \in Urls : SearchQueue(u)) \/ AppendToQueue \/ UNCHANGED vars
  BY <1>1 DEF SearchQueue, AppendToQueue, vars, ProgressInv, DownloadingHasThread, CarriesNone, SetsNone, At, Status
<1>2. CASE Crash
  BY <1>2, ProgressEnded DEF Crash, Off
<1>. QED
  BY <1>1, <1>2, Steps, ProgressOrdinary, ProgressReload, ProgressThread

\* Whatever the keys and however late the threads run, a download shown as in
\* progress has a thread that will end it, so that purge and quit are not refused
\* for ever (pb_view.cpp:105, poddlthread.cpp).
THEOREM DownloadsHaveThreads == Spec => []DownloadingHasThread
<1>1. ProgressInv => DownloadingHasThread
  BY DEF ProgressInv
<1>. QED
  BY <1>1, ProgressInit, ProgressNext, TypesHold, PTL DEF Spec

-----------------------------------------------------------------------------
(* What a reload writes, and what it forgets.                                *)

\* The lines before the one to be written are those of the elements carried over.
Written ==
  /\ At("write") => \A k \in 1 .. view.i - 1 : queuefile[k].url = view.temp[k].url
  /\ At("swap") => /\ Len(view.temp) <= Len(queuefile)
                   /\ \A k \in DOMAIN view.temp : queuefile[k].url = view.temp[k].url
OnDisk == ~At("write") /\ ~At("swap") => UrlsIn(downloads) \subseteq UrlsIn(queuefile)

Distinct(s) == \A j, k \in DOMAIN s : s[j].url = s[k].url => j = k
\* No URL is in the vector twice, nor in what a reload carries over.
NoTwins == Distinct(downloads) /\ (view.pc \in ReloadPlaces => Distinct(view.temp))
\* What has been copied comes from elements already looked at.
Copied == At("reload") => \A k \in DOMAIN view.temp : \E j \in DOMAIN downloads :
                            j <= view.i /\ downloads[j].url = view.temp[k].url
Forgotten == view.pc \in ReloadPlaces =>
               \A j \in DOMAIN downloads : Status(j) = "DELETED" => downloads[j].url \notin UrlsIn(view.temp)

ReloadInv == Written /\ OnDisk /\ NoTwins /\ Copied /\ Forgotten

LEMMA ReloadInit == Init => ReloadInv
<1>. SUFFICES ASSUME Init PROVE ReloadInv
  OBVIOUS
<1>1. view.pc = "off" /\ downloads = <<>> /\ DOMAIN downloads = {} /\ UrlsIn(downloads) = {}
  BY EmptyUrls DEF Init, Off
<1>. QED
  BY <1>1 DEF ReloadInv, Written, OnDisk, NoTwins, Distinct, Copied, Forgotten, ReloadPlaces, At

LEMMA SameUrls ==
  ASSUME DOMAIN downloads' = DOMAIN downloads,
         \A j \in DOMAIN downloads : downloads'[j].url = downloads[j].url
  PROVE  UrlsIn(downloads') = UrlsIn(downloads) /\ (Distinct(downloads) => Distinct(downloads'))
BY DEF UrlsIn, Distinct

\* Outside of a reload there is little to keep.
LEMMA ReloadBegins ==
  ASSUME ReloadInv, view.pc \notin {"write", "swap"}, queuefile' = queuefile,
         DOMAIN downloads' = DOMAIN downloads,
         \A j \in DOMAIN downloads : downloads'[j].url = downloads[j].url,
         view'.pc \notin {"read", "open", "write", "swap"},
         view'.pc = "reload" => view'.temp = <<>>
  PROVE  ReloadInv'
<1>1. UrlsIn(downloads') = UrlsIn(downloads) /\ Distinct(downloads')
  BY SameUrls DEF ReloadInv, NoTwins
<1>2. view'.pc = "reload" => DOMAIN view'.temp = {} /\ UrlsIn(view'.temp) = {}
  BY EmptyUrls
<1>. QED
  BY <1>1, <1>2 DEF ReloadInv, Written, OnDisk, NoTwins, Distinct, Copied, Forgotten, ReloadPlaces, At

LEMMA ReloadOrdinary == TypeInv /\ ReloadInv /\ Ordinary => ReloadInv'
<1>. SUFFICES ASSUME TypeInv, ReloadInv, Ordinary PROVE ReloadInv'
  OBVIOUS
<1>1. DOMAIN downloads' = DOMAIN downloads /\ \A j \in DOMAIN downloads : downloads'[j].url = downloads[j].url
  BY OrdinaryVector
<1>. QED
  BY <1>1, OrdinaryView, ReloadBegins DEF ReloadPlaces

LEMMA ReloadEnded ==
  ASSUME downloads' = <<>>, view'.pc = "off"
  PROVE  ReloadInv'
BY EmptyUrls DEF ReloadInv, Written, OnDisk, NoTwins, Distinct, Copied, Forgotten, ReloadPlaces, At

LEMMA ReloadScan == TypeInv /\ ReloadInv /\ Scan => ReloadInv'
<1>. SUFFICES ASSUME TypeInv, ReloadInv, Scan PROVE ReloadInv'
  OBVIOUS
<1>1. view \in Views /\ view.temp \in Seq(Entry) /\ downloads \in Seq(Entry) /\ view.i \in Nat
      /\ view.pc = "reload" /\ queuefile' = queuefile
  BY DEF TypeInv, TypeOK, Views, Scan, At
<1>2. CASE LeaveReload /\ (view.next = "loop" => UNCHANGED <<downloads, capacity, thread>>)
  <2>1. CASE view.next = "off"
    BY <1>2, <2>1, ReloadEnded DEF LeaveReload, Off
  <2>2. CASE view.next # "off"
    <3>1. downloads' = downloads /\ view'.pc = "loop"
      BY ZenonT(30), <1>1, <1>2, <2>2, Fresh DEF LeaveReload, Goto, Views
    <3>. QED
      BY <1>1, <3>1, ReloadBegins
  <2>. QED
    BY <2>1, <2>2
<1>3. CASE view' = Looked(view.i + 1) /\ downloads' = downloads
  <2> DEFINE i == view.i + 1
             keeps == i \in DOMAIN downloads /\ Status(i) \in Kept(view.purge)
  <2>1. /\ view'.temp = IF keeps THEN Append(view.temp, downloads[i]) ELSE view.temp
        /\ \/ view'.pc = "reload" /\ view'.i = i
           \/ view'.pc = "read"
    BY <1>1, <1>3 DEF Looked, Views
  <2>2. i \in Nat /\ \A k \in DOMAIN view.temp : \E j \in DOMAIN downloads :
                           j < i /\ downloads[j].url = view.temp[k].url
    BY <1>1 DEF ReloadInv, Copied, At
  <2>3. Distinct(view.temp) /\ Distinct(downloads)
        /\ \A j \in DOMAIN downloads : Status(j) = "DELETED" => downloads[j].url \notin UrlsIn(view.temp)
    BY <1>1 DEF ReloadInv, NoTwins, Forgotten, ReloadPlaces
  <2> HIDE DEF i
  <2>4. /\ Distinct(view'.temp)
        /\ \A k \in DOMAIN view'.temp : \E j \in DOMAIN downloads :
             j <= i /\ downloads[j].url = view'.temp[k].url
        /\ \A j \in DOMAIN downloads : Status(j) = "DELETED" => downloads[j].url \notin UrlsIn(view'.temp)
    <3>1. CASE keeps
      <4>1. downloads[i] \in Entry /\ downloads[i].st # "DELETED" /\ i \in DOMAIN downloads
        BY <1>1, <3>1 DEF Status, Kept
      <4>2. view'.temp = Append(view.temp, downloads[i])
        BY <2>1, <3>1
      <4>3. UrlsIn(view'.temp) = UrlsIn(view.temp) \cup {downloads[i].url}
        BY <1>1, <4>1, <4>2, UrlsOfAppend
      <4>4. /\ DOMAIN view'.temp = 1 .. Len(view.temp) + 1 /\ DOMAIN view.temp = 1 .. Len(view.temp)
            /\ \A k \in 1 .. Len(view.temp) : view'.temp[k] = view.temp[k]
            /\ view'.temp[Len(view.temp) + 1] = downloads[i]
            /\ Len(view.temp) \in Nat
        BY <1>1, <4>1, <4>2
      <4>5. \A k \in DOMAIN view.temp : view.temp[k].url # downloads[i].url
        BY <2>2, <2>3, <4>1 DEF Distinct
      <4>6. Distinct(view'.temp)
        BY SMTT(30), <2>3, <4>4, <4>5 DEF Distinct
      <4>7. \A k \in DOMAIN view'.temp : \E j \in DOMAIN downloads :
              j <= i /\ downloads[j].url = view'.temp[k].url
        <5>1. \A k \in DOMAIN view.temp : \E j \in DOMAIN downloads :
                j <= i /\ downloads[j].url = view.temp[k].url
          BY <1>1, <2>2
        <5>. QED
          BY <2>2, <4>1, <4>4, <5>1
      <4>8. \A j \in DOMAIN downloads : Status(j) = "DELETED" => downloads[j].url # downloads[i].url
        BY <2>3, <4>1 DEF Distinct, Status
      <4>. QED
        BY <2>3, <4>3, <4>6, <4>7, <4>8
    <3>2. CASE ~keeps
      BY <1>1, <2>1, <2>2, <2>3, <3>2
    <3>. QED
      BY <3>1, <3>2
  <2>5. UrlsIn(downloads) \subseteq UrlsIn(queuefile)
    BY <1>1 DEF ReloadInv, OnDisk, At
  <2>. QED
    BY <1>1, <1>3, <2>1, <2>3, <2>4, <2>5
       DEF ReloadInv, Written, OnDisk, NoTwins, Copied, Forgotten, ReloadPlaces, At, Status
<1>. QED
  BY <1>2, <1>3 DEF Scan

LEMMA ReloadReadLine == TypeInv /\ ReloadInv /\ ReadLine => ReloadInv'
<1>. SUFFICES ASSUME TypeInv, ReloadInv, ReadLine PROVE ReloadInv'
  OBVIOUS
<1> DEFINE i == view.i + 1
<1>1. /\ view \in Views /\ view.temp \in Seq(Entry) /\ queuefile \in Seq(Line) /\ view.pc = "read"
      /\ UNCHANGED <<queuefile, downloads>>
  BY DEF TypeInv, TypeOK, Views, ReadLine, At
<1>2. /\ view'.pc \in {"read", "open"}
      /\ view'.temp = IF i \in DOMAIN queuefile THEN AddLine(view.temp, queuefile[i]) ELSE view.temp
  BY <1>1 DEF ReadLine, Views
<1>3. i \in DOMAIN queuefile => queuefile[i] \in Line
  BY <1>1
<1>4. Distinct(view.temp) /\ Distinct(downloads) /\ UrlsIn(downloads) \subseteq UrlsIn(queuefile)
      /\ \A j \in DOMAIN downloads : Status(j) = "DELETED" => downloads[j].url \notin UrlsIn(view.temp)
  BY <1>1 DEF ReloadInv, NoTwins, Forgotten, OnDisk, ReloadPlaces, At
<1> HIDE DEF i
<1>5. /\ Distinct(view'.temp)
      /\ \A j \in DOMAIN downloads : Status(j) = "DELETED" => downloads[j].url \notin UrlsIn(view'.temp)
  <2>1. CASE view'.temp = view.temp
    BY <1>4, <2>1
  <2>2. CASE view'.temp # view.temp
    <3> DEFINE d == Loaded(queuefile[i])
    <3>1. view'.temp = Append(view.temp, d) /\ i \in DOMAIN queuefile
          /\ queuefile[i].url \notin UrlsIn(view.temp) \cup UrlsIn(downloads)
      BY <1>2, <2>2 DEF AddLine
    <3>2. d \in Entry /\ d.url = queuefile[i].url
      BY <1>1, <1>3, <3>1, LineAdded
    <3> HIDE DEF d
    <3>3. UrlsIn(view'.temp) = UrlsIn(view.temp) \cup {d.url}
      BY <1>1, <3>1, <3>2, UrlsOfAppend
    <3>4. /\ DOMAIN view'.temp = 1 .. Len(view.temp) + 1 /\ DOMAIN view.temp = 1 .. Len(view.temp)
          /\ \A k \in 1 .. Len(view.temp) : view'.temp[k] = view.temp[k]
          /\ view'.temp[Len(view.temp) + 1] = d
          /\ Len(view.temp) \in Nat
      BY <1>1, <3>1, <3>2
    <3>5. \A k \in DOMAIN view.temp : view.temp[k].url # d.url
      BY <3>1, <3>2 DEF UrlsIn
    <3>6. \A j \in DOMAIN downloads : downloads[j].url # d.url
      BY <3>1, <3>2 DEF UrlsIn
    <3>7. Distinct(view'.temp)
      <4>1. \A j, k \in 1 .. Len(view.temp) : view.temp[j].url = view.temp[k].url => j = k
        BY <1>4, <3>4 DEF Distinct
      <4>. SUFFICES ASSUME NEW j \in 1 .. Len(view.temp) + 1, NEW k \in 1 .. Len(view.temp) + 1,
                           view'.temp[j].url = view'.temp[k].url
                    PROVE  j = k
        BY <3>4 DEF Distinct
      <4> DEFINE n == Len(view.temp)
      <4>2. \A m \in 1 .. n : view'.temp[m].url = view.temp[m].url /\ view.temp[m].url # d.url
        BY <3>4, <3>5
      <4>3. view'.temp[n + 1].url = d.url /\ n \in Nat
        BY <3>4
      <4> HIDE DEF n
      <4>4. CASE j = n + 1
        BY <4>2, <4>3, <4>4 DEF n
      <4>5. CASE j # n + 1
        <5>1. j \in 1 .. n /\ (k \in 1 .. n \/ k = n + 1)
          BY <4>3, <4>5 DEF n
        <5>2. view'.temp[j].url = view.temp[j].url /\ view.temp[j].url # d.url
          BY <4>2, <5>1
        <5>3. k # n + 1
          BY <4>3, <5>2
        <5>4. k \in 1 .. n /\ view'.temp[k].url = view.temp[k].url
          BY <4>2, <5>1, <5>3
        <5>5. view.temp[j].url = view.temp[k].url
          BY <5>2, <5>4
        <5>. QED
          BY <4>1, <5>1, <5>4, <5>5 DEF n
      <4>. QED
        BY <4>4, <4>5
    <3>8. \A j \in DOMAIN downloads : Status(j) = "DELETED" => downloads[j].url \notin UrlsIn(view'.temp)
      BY <1>4, <3>3, <3>6
    <3>. QED
      BY <3>7, <3>8
  <2>. QED
    BY <2>1, <2>2
<1>. QED
  BY <1>1, <1>2, <1>4, <1>5
     DEF ReloadInv, Written, OnDisk, NoTwins, Copied, Forgotten, ReloadPlaces, At, Status

LEMMA ReloadWrites == TypeInv /\ ReloadInv /\ (OpenForWriting \/ WriteLine) => ReloadInv'
<1>. SUFFICES ASSUME TypeInv, ReloadInv, OpenForWriting \/ WriteLine PROVE ReloadInv'
  OBVIOUS
<1>1. view \in Views /\ view.temp \in Seq(Entry) /\ queuefile \in Seq(Line) /\ view.i \in Nat
  BY DEF TypeInv, TypeOK, Views
<1>2. view'.temp = view.temp /\ downloads' = downloads /\ view.pc \in {"open", "write"}
  BY <1>1 DEF OpenForWriting, WriteLine, At, Views
<1>3. NoTwins' /\ Forgotten'
  BY <1>2 DEF ReloadInv, NoTwins, Forgotten, ReloadPlaces, Status
<1>4. view'.pc \in {"write", "swap"} /\ Written'
  <2>1. CASE OpenForWriting
    <3>1. CASE view.temp = <<>>
      <4>1. view'.pc = "swap" /\ DOMAIN view'.temp = {} /\ Len(view'.temp) = 0 /\ queuefile' = <<>>
        BY <1>1, <2>1, <3>1, EmptyUrls DEF OpenForWriting, Views
      <4>2. Len(queuefile') = 0
        BY <4>1, EmptyUrls
      <4>. QED
        BY <4>1, <4>2 DEF Written, At
    <3>2. CASE view.temp # <<>>
      BY <1>1, <2>1, <3>2 DEF OpenForWriting, Views, Written, At
    <3>. QED
      BY <3>1, <3>2
  <2>2. CASE WriteLine
    <3> DEFINE i == view.i
    <3>1. /\ Len(queuefile') = IF i > Len(queuefile) THEN i ELSE Len(queuefile)
          /\ \A k \in 1 .. Len(queuefile') :
               queuefile'[k] = IF k = i THEN Saved(view.temp[i]) ELSE queuefile[k]
      BY <2>2, LineWritten
    <3>2. i \in 1 .. Len(view.temp) /\ i <= Len(queuefile) + 1 /\ Len(queuefile) \in Nat /\ Len(view.temp) \in Nat
      BY <1>1, <2>2 DEF TypeInv, IndexInRange, WriteLine
    <3>3. Saved(view.temp[i]).url = view.temp[i].url
      BY DEF Saved
    <3>4. \A k \in 1 .. i - 1 : queuefile[k].url = view.temp[k].url
      BY <2>2 DEF ReloadInv, Written, WriteLine
    <3>5. \A k \in 1 .. i : queuefile'[k].url = view.temp[k].url
      BY <3>1, <3>2, <3>3, <3>4
    <3>6. \/ view'.pc = "write" /\ view'.i = i + 1
          \/ view'.pc = "swap" /\ i = Len(view.temp)
      BY <1>1, <2>2 DEF WriteLine, Views
    <3>. QED
      BY <1>1, <1>2, <3>1, <3>2, <3>5, <3>6 DEF Written, At
  <2>. QED
    BY <2>1, <2>2
<1>. QED
  BY <1>3, <1>4 DEF ReloadInv, OnDisk, Copied, At

LEMMA ReloadSwap == TypeInv /\ ReloadInv /\ Swap => ReloadInv'
<1>. SUFFICES ASSUME TypeInv, ReloadInv, Swap PROVE ReloadInv'
  OBVIOUS
<1>1. CASE view.next = "off"
  BY <1>1, ReloadEnded DEF Swap, LeaveReload, Off
<1>2. CASE view.next # "off"
  <2>1. downloads' = view.temp /\ view'.pc = "loop" /\ queuefile' = queuefile /\ view.pc = "swap"
    BY <1>2, Fresh DEF Swap, Goto, At
  <2>2. view.temp \in Seq(Entry) /\ queuefile \in Seq(Line)
    BY DEF TypeInv, TypeOK, Views
  <2>3. UrlsIn(view.temp) \subseteq UrlsIn(queuefile)
    BY <2>1, <2>2 DEF ReloadInv, Written, UrlsIn, At
  <2>4. Distinct(view.temp)
    BY <2>1 DEF ReloadInv, NoTwins, ReloadPlaces
  <2>. QED
    BY <2>1, <2>3, <2>4 DEF ReloadInv, Written, OnDisk, NoTwins, Copied, Forgotten, ReloadPlaces, At
<1>. QED
  BY <1>1, <1>2

LEMMA ReloadThread == ASSUME TypeInv, ReloadInv, NEW t \in Threads, Thread(t) PROVE ReloadInv'
<1>1. UNCHANGED <<queuefile, view>>
  BY DEF Thread, OpenFile, OpenFails, TransferDone, TransferFails, AfterFailure, UseDangling
<1>2. /\ DOMAIN downloads' = DOMAIN downloads
      /\ \A j \in DOMAIN downloads :
           /\ downloads'[j].url = downloads[j].url
           /\ downloads'[j].st = "DELETED" => downloads[j].st = "DELETED"
  BY ThreadVector
<1>3. UrlsIn(downloads') = UrlsIn(downloads) /\ (Distinct(downloads) => Distinct(downloads'))
  BY <1>2, SameUrls
<1>. QED
  BY <1>1, <1>2, <1>3 DEF ReloadInv, Written, OnDisk, NoTwins, Copied, Forgotten, At, Status

LEMMA ReloadAppend == TypeInv /\ ReloadInv /\ AppendToQueue => ReloadInv'
<1>. SUFFICES ASSUME TypeInv, ReloadInv, AppendToQueue PROVE ReloadInv'
  OBVIOUS
<1> DEFINE line == [url |-> enqueue, mark |-> "none"]
<1>1. /\ queuefile' = Append(queuefile, line) /\ line \in Line /\ queuefile \in Seq(Line)
      /\ UNCHANGED <<downloads, view>>
  BY DEF AppendToQueue, TypeInv, TypeOK, Line, Marks
<1> HIDE DEF line
<1>2. /\ Len(queuefile') = Len(queuefile) + 1 /\ Len(queuefile) \in Nat
      /\ \A k \in 1 .. Len(queuefile) : queuefile'[k] = queuefile[k]
      /\ UrlsIn(queuefile) \subseteq UrlsIn(queuefile')
  BY <1>1, UrlsOfAppend
<1>3. Written'
  <2>1. CASE At("write")
    <3>1. view.i <= Len(queuefile) + 1 /\ view.i \in Nat
      BY <2>1 DEF TypeInv, TypeOK, IndexInRange, Views
    <3>. QED
      BY <1>1, <1>2, <2>1, <3>1 DEF ReloadInv, Written, At
  <2>2. CASE At("swap")
    <3>1. view.temp \in Seq(Entry)
      BY DEF TypeInv, TypeOK, Views
    <3>. QED
      BY <1>1, <1>2, <2>2, <3>1 DEF ReloadInv, Written, At
  <2>. QED
    BY <1>1, <2>1, <2>2 DEF Written, At
<1>. QED
  BY <1>1, <1>2, <1>3 DEF ReloadInv, OnDisk, NoTwins, Copied, Forgotten, At, Status

LEMMA ReloadNext == TypeInv /\ ReloadInv /\ [Next]_vars => ReloadInv'
<1>. SUFFICES ASSUME TypeInv, ReloadInv, [Next]_vars PROVE ReloadInv'
  OBVIOUS
<1>1. CASE (\E u \in Urls : SearchQueue(u)) \/ UNCHANGED vars
  <2>1. UNCHANGED <<queuefile, downloads, view>>
    BY <1>1 DEF SearchQueue, vars
  <2>. QED
    BY <2>1 DEF ReloadInv, Written, OnDisk, NoTwins, Copied, Forgotten, At, Status
<1>2. CASE Crash
  BY <1>2, ReloadEnded DEF Crash, Off
<1>. QED
  BY <1>1, <1>2, Steps, ReloadOrdinary, ReloadScan, ReloadReadLine, ReloadWrites, ReloadSwap, ReloadThread,
     ReloadAppend

\* Except while a reload rewrites the queue file, whatever is in the vector is in
\* the file: at any other moment a crash loses no download, whatever newsbeuter
\* appends and whenever (queueloader.cpp, controller::enqueue_url).
THEOREM CrashLosesNothing == Spec => []QueueOnDisk
<1>1. TypeInv /\ ReloadInv => QueueOnDisk
  <2>. SUFFICES ASSUME TypeInv, ReloadInv PROVE QueueOnDisk
    OBVIOUS
  <2>1. view.temp \in Seq(Entry) /\ queuefile \in Seq(Line)
    BY DEF TypeInv, TypeOK, Views
  <2>2. At("swap") => UrlsIn(view.temp) \subseteq UrlsIn(queuefile)
    BY <2>1 DEF ReloadInv, Written, UrlsIn
  <2>. QED
    BY <2>2 DEF ReloadInv, OnDisk, QueueOnDisk
<1>. QED
  BY <1>1, ReloadInit, ReloadNext, TypesHold, PTL DEF Spec

\* An entry the user has deleted is not listed again by the reload that drops it,
\* although its line is still in the file (queueloader.cpp:69).
THEOREM DeletedAreForgotten == Spec => []DeletedIsForgotten
<1>1. ReloadInv => DeletedIsForgotten
  BY DEF ReloadInv, Forgotten, DeletedIsForgotten, At, ReloadPlaces
<1>. QED
  BY <1>1, ReloadInit, ReloadNext, TypesHold, PTL DEF Spec
-----------------------------------------------------------------------------
(* What the queue keeps, whatever newsbeuter appends and whenever podbeuter  *)
(* is killed.                                                                *)

\* The lines read so far are carried over or in the vector, and what is carried
\* over comes from the file.
QueueInv ==
  /\ view.pc \in {"read", "open"} => \A k \in DOMAIN queuefile :
       k <= view.i => queuefile[k].url \in UrlsIn(view.temp) \cup UrlsIn(downloads)
  /\ view.pc \in {"reload", "read", "open"} => UrlsIn(view.temp) \subseteq UrlsIn(queuefile)

LEMMA QueueInit == Init => QueueInv
BY DEF Init, QueueInv, Off

\* The effect of a line read on what is carried over.
LEMMA LineRead ==
  ASSUME TypeInv, ReadLine
  PROVE  /\ view.temp \in Seq(Entry) /\ queuefile \in Seq(Line) /\ view.i \in Nat
         /\ UrlsIn(view.temp) \subseteq UrlsIn(view'.temp)
         /\ view.i + 1 \in DOMAIN queuefile =>
              queuefile[view.i + 1].url \in UrlsIn(view'.temp) \cup UrlsIn(downloads)
         /\ UrlsIn(view'.temp) \subseteq UrlsIn(view.temp) \cup UrlsIn(queuefile)
         /\ \/ view'.pc = "read" /\ view'.i = view.i + 1 /\ view.i + 1 < Len(queuefile)
            \/ view'.pc = "open" /\ view'.i = Len(queuefile) /\ view.i + 1 >= Len(queuefile)
<1> DEFINE i == view.i + 1
<1>1. view \in Views /\ view.temp \in Seq(Entry) /\ queuefile \in Seq(Line) /\ view.i \in Nat
  BY DEF TypeInv, TypeOK, Views
<1>2. /\ \/ view'.pc = "read" /\ view'.i = i /\ i < Len(queuefile)
         \/ view'.pc = "open" /\ view'.i = Len(queuefile) /\ i >= Len(queuefile)
      /\ view'.temp = IF i \in DOMAIN queuefile THEN AddLine(view.temp, queuefile[i]) ELSE view.temp
  BY <1>1 DEF ReadLine, Views
<1>3. ASSUME i \in DOMAIN queuefile
      PROVE  /\ UrlsIn(view.temp) \subseteq UrlsIn(view'.temp)
             /\ UrlsIn(view'.temp) \subseteq UrlsIn(view.temp) \cup {queuefile[i].url}
             /\ queuefile[i].url \in UrlsIn(view'.temp) \cup UrlsIn(downloads)
  <2>1. queuefile[i] \in Line
    BY <1>1, <1>3
  <2> DEFINE d == Loaded(queuefile[i])
  <2>2. d \in Entry /\ d.url = queuefile[i].url
    BY <1>1, <2>1, LineAdded
  <2> HIDE DEF d
  <2>3. UrlsIn(Append(view.temp, d)) = UrlsIn(view.temp) \cup {d.url}
    BY <1>1, <2>2, UrlsOfAppend
  <2>4. \/ view'.temp = view.temp /\ queuefile[i].url \in UrlsIn(view.temp) \cup UrlsIn(downloads)
        \/ view'.temp = Append(view.temp, d)
    BY <1>2, <1>3 DEF AddLine, d
  <2>. QED
    BY <2>2, <2>3, <2>4
<1>4. i \in DOMAIN queuefile => queuefile[i].url \in UrlsIn(queuefile)
  BY DEF UrlsIn
<1>. QED
  BY <1>1, <1>2, <1>3, <1>4

LEMMA QueueNext == TypeInv /\ ReloadInv /\ QueueInv /\ [Next]_vars => QueueInv'
<1>. SUFFICES ASSUME TypeInv, ReloadInv, QueueInv, [Next]_vars PROVE QueueInv'
  OBVIOUS
<1>0. /\ view \in Views /\ queuefile \in Seq(Line) /\ view.i \in Nat
      /\ view.temp \in Seq(Entry) /\ downloads \in Seq(Entry)
  BY DEF TypeInv, TypeOK, Views
<1>1. CASE Ordinary
  <2>1. /\ view'.pc \notin {"read", "open"}
        /\ view'.pc = "reload" => UrlsIn(view'.temp) = {}
    BY <1>1, OrdinaryView, EmptyUrls
  <2>. QED
    BY <2>1 DEF QueueInv
<1>2. CASE Scan
  <2>1. UNCHANGED queuefile /\ view.pc = "reload"
        /\ (LeaveReload \/ (view' = Looked(view.i + 1) /\ downloads' = downloads))
    BY <1>2 DEF Scan, At
  <2>2. CASE LeaveReload
    <3>1. view'.pc \in {"off", "loop"}
      BY <2>2, Fresh DEF LeaveReload, Goto, Off
    <3>. QED
      BY <3>1 DEF QueueInv
  <2>3. CASE view' = Looked(view.i + 1) /\ downloads' = downloads
    <3> DEFINE i == view.i + 1
               keeps == i \in DOMAIN downloads /\ Status(i) \in Kept(view.purge)
    <3>1. /\ view'.temp = IF keeps THEN Append(view.temp, downloads[i]) ELSE view.temp
          /\ view'.pc \in {"reload", "read"} /\ (view'.pc = "read" => view'.i = 0)
      BY <1>0, <2>1, <2>3 DEF Looked, Views
    <3>2. /\ UrlsIn(downloads) \subseteq UrlsIn(queuefile)
          /\ UrlsIn(view.temp) \subseteq UrlsIn(queuefile)
      BY <2>1 DEF ReloadInv, OnDisk, QueueInv, At
    <3>3. UrlsIn(view'.temp) \subseteq UrlsIn(queuefile)
      <4>1. CASE keeps
        <5>1. downloads[i] \in Entry /\ downloads[i].url \in UrlsIn(downloads)
          BY <1>0, <4>1 DEF UrlsIn
        <5>2. UrlsIn(view'.temp) = UrlsIn(view.temp) \cup {downloads[i].url}
          BY <1>0, <3>1, <4>1, <5>1, UrlsOfAppend
        <5>. QED
          BY <3>2, <5>1, <5>2
      <4>2. CASE ~keeps
        BY <3>1, <3>2, <4>2
      <4>. QED
        BY <4>1, <4>2
    <3>4. view'.pc = "read" => \A k \in DOMAIN queuefile : ~(k <= view'.i)
      BY <1>0, <3>1
    <3>. QED
      BY <2>1, <3>1, <3>3, <3>4 DEF QueueInv
  <2>. QED
    BY <2>1, <2>2, <2>3
<1>3. CASE ReadLine
  <2>1. /\ UrlsIn(view.temp) \subseteq UrlsIn(view'.temp)
        /\ view.i + 1 \in DOMAIN queuefile =>
             queuefile[view.i + 1].url \in UrlsIn(view'.temp) \cup UrlsIn(downloads)
        /\ UrlsIn(view'.temp) \subseteq UrlsIn(view.temp) \cup UrlsIn(queuefile)
        /\ \/ view'.pc = "read" /\ view'.i = view.i + 1 /\ view.i + 1 < Len(queuefile)
           \/ view'.pc = "open" /\ view'.i = Len(queuefile) /\ view.i + 1 >= Len(queuefile)
    BY <1>3, LineRead
  <2>2. UNCHANGED <<queuefile, downloads>> /\ view.pc = "read"
    BY <1>3 DEF ReadLine, At
  <2>3. \A k \in DOMAIN queuefile :
          k <= view.i + 1 => queuefile[k].url \in UrlsIn(view'.temp) \cup UrlsIn(downloads)
    <3>1. \A k \in DOMAIN queuefile :
            k <= view.i => queuefile[k].url \in UrlsIn(view'.temp) \cup UrlsIn(downloads)
      BY <2>1, <2>2 DEF QueueInv
    <3>2. \A k \in DOMAIN queuefile : k <= view.i + 1 => k <= view.i \/ k = view.i + 1
      BY <1>0
    <3>. QED
      BY <2>1, <3>1, <3>2
  <2>4. \A k \in DOMAIN queuefile : k <= view'.i => k <= view.i + 1
    BY <1>0, <2>1
  <2>5. UrlsIn(view'.temp) \subseteq UrlsIn(queuefile)
    BY <2>1, <2>2 DEF QueueInv
  <2>. QED
    BY <2>2, <2>3, <2>4, <2>5 DEF QueueInv
<1>4. CASE OpenForWriting \/ WriteLine \/ Swap
  <2>1. view'.pc \in {"write", "swap", "off", "loop"}
    <3>1. CASE OpenForWriting \/ WriteLine
      BY <1>0, <3>1 DEF OpenForWriting, WriteLine, Views
    <3>2. CASE Swap
      BY <3>2, Fresh DEF Swap, LeaveReload, Goto, Off
    <3>. QED
      BY <1>4, <3>1, <3>2
  <2>. QED
    BY <2>1 DEF QueueInv
<1>5. CASE \E t \in Threads : Thread(t)
  <2>1. PICK t \in Threads : Thread(t)
    BY <1>5
  <2>2. UNCHANGED <<queuefile, view>>
    BY <2>1 DEF Thread, OpenFile, OpenFails, TransferDone, TransferFails, AfterFailure, UseDangling
  <2>3. UrlsIn(downloads') = UrlsIn(downloads)
    BY <2>1, ThreadVector, SameUrls
  <2>. QED
    BY <2>2, <2>3 DEF QueueInv
<1>6. CASE AppendToQueue
  <2> DEFINE line == [url |-> enqueue, mark |-> "none"]
  <2>1. queuefile' = Append(queuefile, line) /\ line \in Line /\ UNCHANGED <<downloads, view>>
    BY <1>6 DEF AppendToQueue, TypeInv, TypeOK, Line, Marks
  <2> HIDE DEF line
  <2>2. UrlsIn(queuefile) \subseteq UrlsIn(queuefile')
    BY <1>0, <2>1, UrlsOfAppend
  <2>3. /\ DOMAIN queuefile' = 1 .. Len(queuefile) + 1 /\ DOMAIN queuefile = 1 .. Len(queuefile)
        /\ \A k \in 1 .. Len(queuefile) : queuefile'[k] = queuefile[k]
        /\ Len(queuefile) \in Nat
    BY <1>0, <2>1
  <2>4. view.pc = "read" => view.i <= Len(queuefile)
    BY DEF TypeInv, IndexInRange, At
  <2>5. view.pc \in {"read", "open"} => \A k \in DOMAIN queuefile' : k <= view.i => k \in DOMAIN queuefile
    BY <1>0, <2>3, <2>4 DEF TypeInv, IndexInRange, At
  <2>. QED
    BY <2>1, <2>2, <2>3, <2>5 DEF QueueInv
<1>7. CASE (\E u \in Urls : SearchQueue(u)) \/ UNCHANGED vars
  <2>1. UNCHANGED <<queuefile, downloads, view>>
    BY <1>7 DEF SearchQueue, vars
  <2>. QED
    BY <2>1 DEF QueueInv
<1>8. CASE Crash
  BY <1>8 DEF Crash, Off, QueueInv
<1>. QED
  BY <1>1, <1>2, <1>3, <1>4, <1>5, <1>6, <1>7, <1>8, Steps

\* Whether an URL may leave the queue: the user has dropped it, or it is lost.
Dropped(u) ==
  \E i \in DOMAIN downloads :
    /\ downloads[i].url = u
    /\ \/ Status(i) = "DELETED"
       \/ view.purge /\ Status(i) \in {"PLAYED", "FINISHED"}
MayLeave(u) == Dropped(u) \/ u \in Late \/ (At("write") /\ view'.pc = "off")

\* What is carried over comes from the vector, so it is in the file while the
\* vector is looked through.
LEMMA CarriedOnDisk ==
  ASSUME TypeInv, ReloadInv, At("reload")
  PROVE  /\ Carried \subseteq UrlsIn(downloads)
         /\ UrlsIn(downloads) \subseteq UrlsIn(queuefile)
<1>1. view \in Views /\ view.temp \in Seq(Entry) /\ downloads \in Seq(Entry) /\ view.i \in Nat
  BY DEF TypeInv, TypeOK, Views
<1>2. UrlsIn(view.temp) \subseteq UrlsIn(downloads)
  BY DEF ReloadInv, Copied, UrlsIn
<1>3. {downloads[i].url : i \in view.i + 1 .. Len(downloads)} \subseteq UrlsIn(downloads)
  BY <1>1 DEF UrlsIn
<1>4. UrlsIn(downloads) \subseteq UrlsIn(queuefile)
  BY DEF ReloadInv, OnDisk, At
<1>. QED
  BY <1>2, <1>3, <1>4 DEF Carried

\* While the vector is looked through, an URL is only left behind with an
\* element that is not to be kept.
LEMMA ScanKeeps ==
  ASSUME TypeInv, ReloadInv, Scan, NEW u \in Known \ Known'
  PROVE  Dropped(u)
<1>1. view \in Views /\ view.temp \in Seq(Entry) /\ downloads \in Seq(Entry) /\ view.i \in Nat
      /\ view.pc = "reload" /\ queuefile' = queuefile
  BY DEF TypeInv, TypeOK, Views, Scan, At
<1>2. Carried \subseteq UrlsIn(downloads) /\ UrlsIn(downloads) \subseteq UrlsIn(queuefile)
  BY <1>1, CarriedOnDisk DEF At
<1>3. CASE LeaveReload /\ (view.next = "loop" => UNCHANGED <<downloads, capacity, thread>>)
  <2>1. CASE view.next = "off"
    <3>1. UrlsIn(downloads') = {}
      BY <1>3, <2>1, EmptyUrls DEF LeaveReload
    <3>. QED
      BY <1>1, <1>2, <3>1 DEF Known
  <2>2. CASE view.next # "off"
    <3>1. downloads' = downloads /\ view'.pc = "loop"
      BY <1>1, <1>3, <2>2, Fresh DEF LeaveReload, Goto, Views
    <3>2. Carried' = UrlsIn(downloads)
      BY <3>1 DEF Carried, At
    <3>. QED
      BY <1>1, <1>2, <3>1, <3>2 DEF Known
  <2>. QED
    BY <2>1, <2>2
<1>4. CASE view' = Looked(view.i + 1) /\ downloads' = downloads
           /\ ~(view.i + 1 \in DOMAIN downloads /\ Status(view.i + 1) = "DOWNLOADING")
  <2> DEFINE i == view.i + 1
             keeps == i \in DOMAIN downloads /\ Status(i) \in Kept(view.purge)
             rest == {downloads[j].url : j \in i .. Len(downloads)}
             rest2 == {downloads[j].url : j \in i + 1 .. Len(downloads)}
  <2>1. /\ view'.temp = IF keeps THEN Append(view.temp, downloads[i]) ELSE view.temp
        /\ \/ view'.pc = "reload" /\ view'.i = i
           \/ view'.pc = "read" /\ i >= Len(downloads)
    BY <1>1, <1>4 DEF Looked, Views
  <2>2. Carried = UrlsIn(view.temp) \cup rest
    BY <1>1 DEF Carried, At
  <2>3. UrlsIn(view'.temp) \cup rest2 \subseteq Carried'
    <3>1. CASE view'.pc = "reload"
      BY <1>4, <2>1, <3>1 DEF Carried, At
    <3>2. CASE view'.pc = "read"
      <4>1. rest2 = {} /\ Carried' = UrlsIn(view'.temp)
        BY <1>1, <2>1, <3>2 DEF Carried, At
      <4>. QED
        BY <4>1
    <3>. QED
      BY <2>1, <3>1, <3>2
  <2>4. UrlsIn(view.temp) \subseteq UrlsIn(view'.temp)
        /\ (keeps => downloads[i].url \in UrlsIn(view'.temp))
    <3>1. CASE keeps
      <4>1. downloads[i] \in Entry /\ view'.temp = Append(view.temp, downloads[i])
        BY <1>1, <2>1, <3>1
      <4>. QED
        BY <1>1, <4>1, UrlsOfAppend
    <3>2. CASE ~keeps
      BY <2>1, <3>2
    <3>. QED
      BY <3>1, <3>2
  <2>5. rest \subseteq rest2 \cup (IF i \in DOMAIN downloads THEN {downloads[i].url} ELSE {})
    BY <1>1
  <2>6. u \in Carried \ Carried'
    BY <1>1, <1>4 DEF Known
  <2>7. i \in DOMAIN downloads /\ u = downloads[i].url /\ ~keeps
    BY <2>2, <2>3, <2>4, <2>5, <2>6
  <2>8. Status(i) = "DELETED" \/ (view.purge /\ Status(i) \in {"PLAYED", "FINISHED"})
    <3>1. downloads[i] \in Entry /\ view.purge \in BOOLEAN
      BY <1>1, <2>7 DEF Views
    <3>2. Status(i) \in Statuses \ {"DOWNLOADING"}
      BY <1>4, <2>7, <3>1 DEF Status, Entry
    <3>3. Status(i) \notin Kept(view.purge)
      BY <2>7
    <3>. QED
      BY <3>1, <3>2, <3>3 DEF Kept, Statuses
  <2>. QED
    BY <2>7, <2>8 DEF Dropped
<1>. QED
  BY <1>3, <1>4 DEF Scan

LEMMA StepKeeps ==
  ASSUME TypeInv, ReloadInv, QueueInv, [Next]_vars, NEW u \in Known \ Known'
  PROVE  MayLeave(u)
<1>0. /\ view \in Views /\ queuefile \in Seq(Line) /\ view.i \in Nat
      /\ view.temp \in Seq(Entry) /\ downloads \in Seq(Entry)
  BY DEF TypeInv, TypeOK, Views
<1>1. CASE Ordinary
  <2>1. /\ DOMAIN downloads' = DOMAIN downloads
        /\ \A j \in DOMAIN downloads : downloads'[j].url = downloads[j].url
        /\ view.pc \notin ReloadPlaces /\ queuefile' = queuefile
        /\ view'.pc \notin {"read", "open", "write", "swap"}
        /\ view'.pc = "reload" => view'.temp = <<>> /\ view'.i = 0
    BY <1>1, OrdinaryVector, OrdinaryView
  <2>2. UrlsIn(downloads') = UrlsIn(downloads) /\ downloads' \in Seq(Entry)
    BY <2>1, SameUrls, TypeNext DEF TypeInv, TypeOK
  <2>3. Carried = UrlsIn(downloads)
    BY <2>1 DEF Carried, At, ReloadPlaces
  <2>4. UrlsIn(downloads') \subseteq Carried'
    <3>1. CASE view'.pc = "reload"
      <4>1. Carried' = UrlsIn(view'.temp) \cup {downloads'[j].url : j \in view'.i + 1 .. Len(downloads')}
        BY <3>1 DEF Carried, At
      <4>2. DOMAIN downloads' = view'.i + 1 .. Len(downloads')
        BY <2>1, <2>2, <3>1
      <4>. QED
        BY <4>1, <4>2 DEF UrlsIn
    <3>2. CASE view'.pc # "reload"
      BY <2>1, <3>2 DEF Carried, At
    <3>. QED
      BY <3>1, <3>2
  <2>. QED
    BY <2>1, <2>2, <2>3, <2>4 DEF Known
<1>2. CASE Scan
  BY <1>2, ScanKeeps DEF MayLeave
<1>3. CASE ReadLine
  <2>1. UrlsIn(view.temp) \subseteq UrlsIn(view'.temp) /\ view'.pc \in {"read", "open"}
    BY <1>3, LineRead
  <2>2. UNCHANGED <<queuefile, downloads>> /\ view.pc = "read"
    BY <1>3 DEF ReadLine, At
  <2>. QED
    BY <2>1, <2>2 DEF Known, Carried, At
<1>4. CASE OpenForWriting
  <2>1. view'.pc \in {"write", "swap"} /\ view'.temp = view.temp /\ view.pc = "open" /\ downloads' = downloads
    BY <1>0, <1>4 DEF OpenForWriting, Views, At
  <2>2. u \in UrlsIn(queuefile) \ (UrlsIn(view.temp) \cup UrlsIn(downloads))
    BY <2>1 DEF Known, Carried, At
  <2>3. PICK k \in DOMAIN queuefile : u = queuefile[k].url
    BY <2>2 DEF UrlsIn
  <2>4. k > view.i
    BY <1>0, <2>1, <2>2, <2>3 DEF QueueInv
  <2>. QED
    BY <2>1, <2>3, <2>4 DEF MayLeave, Late, IsLate, At
<1>5. CASE WriteLine
  <2>1. /\ downloads' = downloads /\ view.pc = "write" /\ view'.temp = view.temp
        /\ view'.pc \in {"write", "swap"}
    BY <1>0, <1>5 DEF WriteLine, At, Views
  <2>2. /\ Len(queuefile') = IF view.i > Len(queuefile) THEN view.i ELSE Len(queuefile)
        /\ \A k \in 1 .. Len(queuefile') :
             queuefile'[k] = IF k = view.i THEN Saved(view.temp[view.i]) ELSE queuefile[k]
        /\ queuefile' \in Seq(Line)
    BY <1>5, LineWritten
  <2>3. u \in UrlsIn(queuefile) \ UrlsIn(queuefile')
    BY <2>1 DEF Known, Carried, At
  <2>4. PICK k \in DOMAIN queuefile : u = queuefile[k].url
    BY <2>3 DEF UrlsIn
  <2>5. k \in 1 .. Len(queuefile') /\ k \in DOMAIN queuefile'
    BY <1>0, <2>2
  <2>6. k = view.i
    BY <2>2, <2>3, <2>4, <2>5 DEF UrlsIn
  <2>7. k >= view.i
    BY <1>0, <2>6
  <2>. QED
    BY <2>1, <2>4, <2>7 DEF MayLeave, Late, IsLate, At
<1>6. CASE Swap
  <2>1. view.pc = "swap" /\ queuefile' = queuefile /\ view.temp \in Seq(Entry) /\ queuefile \in Seq(Line)
    BY <1>6 DEF Swap, At, TypeInv, TypeOK, Views
  <2>2. Carried = UrlsIn(view.temp) /\ UrlsIn(view.temp) \subseteq UrlsIn(queuefile)
    <3>1. UrlsIn(view.temp) \subseteq UrlsIn(queuefile)
      BY <2>1 DEF ReloadInv, Written, UrlsIn, At
    <3>. QED
      BY <2>1, <3>1 DEF Carried, At
  <2>3. CASE view.next = "off"
    <3>1. UrlsIn(downloads') = {}
      BY <1>6, <2>3, EmptyUrls DEF Swap, LeaveReload
    <3>. QED
      BY <2>1, <2>2, <3>1 DEF Known
  <2>4. CASE view.next # "off"
    <3>1. downloads' = view.temp /\ view'.pc = "loop"
      BY <1>6, <2>4, Fresh DEF Swap, Goto
    <3>2. Carried' = UrlsIn(downloads')
      BY <3>1 DEF Carried, At
    <3>. QED
      BY <2>1, <2>2, <3>1, <3>2 DEF Known
  <2>. QED
    BY <2>3, <2>4
<1>7. CASE \E t \in Threads : Thread(t)
  <2>1. PICK t \in Threads : Thread(t)
    BY <1>7
  <2>2. UNCHANGED <<queuefile, view>>
    BY <2>1 DEF Thread, OpenFile, OpenFails, TransferDone, TransferFails, AfterFailure, UseDangling
  <2>3. /\ DOMAIN downloads' = DOMAIN downloads /\ Len(downloads') = Len(downloads)
        /\ \A j \in DOMAIN downloads : downloads'[j].url = downloads[j].url
        /\ downloads \in Seq(Entry) /\ view.i \in Nat
    BY <1>0, <2>1, ThreadVector DEF TypeInv, TypeOK, Views
  <2>4. UrlsIn(downloads') = UrlsIn(downloads)
    BY <2>3, SameUrls
  <2>5. {downloads'[j].url : j \in view.i + 1 .. Len(downloads')}
          = {downloads[j].url : j \in view.i + 1 .. Len(downloads)}
    BY <2>3
  <2>6. Carried' = Carried
    BY <2>2, <2>4, <2>5 DEF Carried, At
  <2>. QED
    BY <2>2, <2>4, <2>6 DEF Known
<1>8. CASE UNCHANGED vars \/ \E w \in Urls : SearchQueue(w)
  BY <1>8 DEF vars, SearchQueue, Known, Carried, At
<1>9. CASE AppendToQueue
  <2> DEFINE line == [url |-> enqueue, mark |-> "none"]
  <2>1. queuefile' = Append(queuefile, line) /\ line \in Line /\ UNCHANGED <<downloads, view>>
    BY <1>9 DEF AppendToQueue, TypeInv, TypeOK, Line, Marks
  <2> HIDE DEF line
  <2>2. UrlsIn(queuefile) \subseteq UrlsIn(queuefile')
    BY <1>0, <2>1, UrlsOfAppend
  <2>3. Carried' = Carried
    BY <2>1 DEF Carried, At
  <2>. QED
    BY <2>1, <2>2, <2>3 DEF Known
<1>10. CASE Crash
  <2>1. view'.pc = "off" /\ UrlsIn(downloads') = {} /\ queuefile' = queuefile
    BY <1>10, EmptyUrls DEF Crash, Off
  <2>2. CASE At("write")
    BY <2>1, <2>2 DEF MayLeave
  <2>3. CASE ~At("write")
    <3>1. Carried \subseteq UrlsIn(queuefile)
      <4>1. CASE At("swap")
        <5>1. UrlsIn(view.temp) \subseteq UrlsIn(queuefile)
          BY <1>0, <4>1 DEF ReloadInv, Written, UrlsIn
        <5>. QED
          BY <4>1, <5>1 DEF Carried, At
      <4>2. CASE At("reload")
        BY <4>2, CarriedOnDisk
      <4>3. CASE view.pc \in {"read", "open"}
        BY <4>3 DEF Carried, QueueInv, At
      <4>4. CASE view.pc \notin ReloadPlaces
        BY <4>4 DEF Carried, ReloadInv, OnDisk, ReloadPlaces, At
      <4>. QED
        BY <2>3, <4>1, <4>2, <4>3, <4>4 DEF ReloadPlaces, At
    <3>. QED
      BY <2>1, <3>1 DEF Known
  <2>. QED
    BY <2>2, <2>3
<1>. QED
  BY <1>1, <1>2, <1>3, <1>4, <1>5, <1>6, <1>7, <1>8, <1>9, <1>10, Steps

\* However the reloads, the downloads and newsbeuter interleave, an URL leaves the
\* queue only when the user has deleted it or purges it after it was played, or
\* when it is lost in one of two ways: it was appended after the reload has read
\* the file's end, or podbeuter is killed while it writes the file
\* (queueloader.cpp:104-118, controller.cpp:1236).
THEOREM QueueIsKept == Spec => KeepsQueue
<1>1. TypeInv /\ ReloadInv /\ QueueInv /\ [Next]_vars =>
        [\A u \in Known \ Known' :
           \/ \E i \in DOMAIN downloads :
                /\ downloads[i].url = u
                /\ \/ Status(i) = "DELETED"
                   \/ view.purge /\ Status(i) \in {"PLAYED", "FINISHED"}
           \/ u \in Late
           \/ At("write") /\ view'.pc = "off"]_vars
  BY StepKeeps DEF MayLeave, Dropped
<1>2. TypeInv /\ ReloadInv /\ QueueInv /\ [Next]_vars => QueueInv'
  BY QueueNext
<1>. QED
  BY <1>1, <1>2, QueueInit, ReloadInit, ReloadNext, TypesHold, PTL DEF Spec, KeepsQueue

-----------------------------------------------------------------------------
(* The threads that a reload waits for.                                      *)

\* A thread that had opened its file before a reload is on an element that says
\* so, and that the reload has yet to look at.
SeenByReload ==
  \A t \in Threads : thread[t].shown =>
    /\ thread[t].pc \in {"transfer", "failed", "again"}
    /\ thread[t].slot \in DOMAIN downloads /\ Status(thread[t].slot) = "DOWNLOADING"
    /\ view.pc \notin {"off", "read", "open", "write", "swap"}
    /\ At("reload") => thread[t].slot > view.i
EndedWhenOff == At("off") => \A t \in Threads : thread[t].pc = "none"

ShownInv == SeenByReload /\ EndedWhenOff

LEMMA ShownInit == Init => ShownInv
BY DEF Init, ShownInv, SeenByReload, EndedWhenOff, NoThread

LEMMA ShownEnded ==
  ASSUME thread' = [t \in Threads |-> NoThread]
  PROVE  ShownInv'
BY DEF ShownInv, SeenByReload, EndedWhenOff, NoThread

\* A step that goes on elsewhere, with the same vector and threads.
LEMMA ShownMoves ==
  ASSUME ShownInv, UNCHANGED <<downloads, thread>>, view'.pc # "off",
         view'.pc \in ReloadPlaces => \A t \in Threads : thread[t].shown =>
           view'.pc = "reload" /\ thread[t].slot > view'.i
  PROVE  ShownInv'
BY DEF ShownInv, SeenByReload, EndedWhenOff, ReloadPlaces, Status, At

LEMMA ShownOrdinary == TypeInv /\ ShownInv /\ Ordinary => ShownInv'
<1>. SUFFICES ASSUME TypeInv, ShownInv, Ordinary PROVE ShownInv'
  OBVIOUS
<1>1. /\ view'.pc \in ViewPlaces \ {"off", "read", "open", "write", "swap"}
      /\ view'.pc = "reload" => view'.i = 0
  BY OrdinaryView
<1>2. /\ thread \in [Threads -> ThreadStates] /\ downloads \in Seq(Entry)
      /\ \A t \in Threads : thread[t] \in ThreadStates
  BY DEF TypeInv, TypeOK
<1>3. \A t \in Threads : thread[t].shown => thread[t].slot > 0
  <2>. SUFFICES ASSUME NEW t \in Threads, thread[t].shown PROVE thread[t].slot > 0
    OBVIOUS
  <2>1. thread[t].slot \in 1 .. Len(downloads)
    BY <1>2 DEF ShownInv, SeenByReload
  <2>. QED
    BY <1>2, <2>1
<1>4. CASE thread' = thread /\ downloads' = downloads
  BY <1>1, <1>3, <1>4, ShownMoves DEF ReloadPlaces
<1>5. CASE downloads' = downloads /\ \E i : Spawn(i)
  <2>1. \A t \in Threads : \/ thread'[t] = thread[t]
                           \/ \E i : thread'[t] = [NoThread EXCEPT !.pc = "spawned", !.slot = i]
    BY <1>2, <1>5 DEF Spawn
  <2>2. \A i : [NoThread EXCEPT !.pc = "spawned", !.slot = i].shown = FALSE
    BY DEF NoThread
  <2>3. \A t \in Threads : thread'[t].shown => thread'[t] = thread[t]
    BY <2>1, <2>2
  <2>. QED
    BY <1>1, <1>3, <1>5, <2>3 DEF ShownInv, SeenByReload, EndedWhenOff, At, Status
<1>6. CASE SetNewStatus
  <2>1. /\ view.i \in Nat /\ view.st \in Statuses
        /\ SetStatus(view.i, view.st)
        /\ thread' = [t \in Threads |-> Overwritten(thread[t], view.i)]
        /\ view'.pc = "loop"
    BY <1>6, Fresh DEF SetNewStatus, TypeInv, TypeOK, Views, Goto
  <2>2. /\ DOMAIN downloads' = DOMAIN downloads
        /\ \A j \in DOMAIN downloads : j # view.i => downloads'[j].st = downloads[j].st
    BY <1>2, <2>1, StatusSet
  <2>3. \A t \in Threads : /\ thread'[t].pc = thread[t].pc /\ thread'[t].slot = thread[t].slot
                           /\ thread'[t].shown => thread[t].shown /\ thread[t].slot # view.i
    BY <1>2, <2>1, OverwrittenThread
  <2>. QED
    BY <2>1, <2>2, <2>3 DEF ShownInv, SeenByReload, EndedWhenOff, At, Status
<1>7. \/ thread' = thread /\ downloads' = downloads
      \/ downloads' = downloads /\ \E i : Spawn(i)
      \/ SetNewStatus
  BY DEF Ordinary, Start, CountDownloads, SetBudget, StartDownload, NoKey, Toggle, More, Less,
         Purge, Quit, Download, LookAtStatus
<1>. QED
  BY <1>4, <1>5, <1>6, <1>7

LEMMA ShownReload ==
  TypeInv /\ ShownInv /\ (Scan \/ ReadLine \/ OpenForWriting \/ WriteLine \/ Swap) => ShownInv'
<1>. SUFFICES ASSUME TypeInv, ShownInv, Scan \/ ReadLine \/ OpenForWriting \/ WriteLine \/ Swap
              PROVE  ShownInv'
  OBVIOUS
<1>1. view \in Views /\ downloads \in Seq(Entry) /\ \A t \in Threads : thread[t] \in ThreadStates
  BY DEF TypeInv, TypeOK
<1>2. CASE Scan
  <2> DEFINE i == view.i + 1
  <2>0. view.pc = "reload" /\ view.i \in Nat /\ Len(downloads) \in Nat
        /\ \A t \in Threads : thread[t].slot \in Nat
    BY <1>1, <1>2 DEF Scan, At, Views, ThreadStates
  <2>1. CASE LeaveReload /\ (view.next = "loop" => UNCHANGED <<downloads, capacity, thread>>)
    <3>1. CASE view.next = "off"
      BY <2>1, <3>1, ShownEnded DEF LeaveReload
    <3>2. CASE view.next # "off"
      <4>1. UNCHANGED <<downloads, thread>> /\ view'.pc = "loop"
        BY <1>1, <2>1, <3>2, Fresh DEF LeaveReload, Goto, Views
      <4>. QED
        BY <4>1, ShownMoves DEF ReloadPlaces
    <3>. QED
      BY <3>1, <3>2
  <2>2. CASE /\ view' = Looked(i) /\ UNCHANGED <<downloads, capacity, thread>>
             /\ ~(i \in DOMAIN downloads /\ Status(i) = "DOWNLOADING")
    <3>1. \/ view'.pc = "reload" /\ view'.i = i
          \/ view'.pc = "read" /\ i >= Len(downloads)
      BY <1>1, <2>0, <2>2 DEF Looked, Views
    <3>2. ASSUME NEW t \in Threads, thread[t].shown
          PROVE  thread[t].slot > i /\ thread[t].slot \in 1 .. Len(downloads)
      <4>1. /\ thread[t].slot \in 1 .. Len(downloads) /\ thread[t].slot > view.i
            /\ Status(thread[t].slot) = "DOWNLOADING"
        BY <1>1, <2>0, <3>2 DEF ShownInv, SeenByReload, At
      <4>2. thread[t].slot # i
        BY <1>1, <2>2, <4>1
      <4>. QED
        BY <2>0, <4>1, <4>2
    <3>3. ASSUME NEW t \in Threads, thread[t].shown
          PROVE  view'.pc = "reload" /\ thread[t].slot > view'.i
      BY <2>0, <3>1, <3>2, <3>3
    <3>4. view'.pc # "off"
      BY <3>1
    <3>. QED
      BY <2>2, <3>3, <3>4, ShownMoves
  <2>. QED
    BY <1>2, <2>1, <2>2 DEF Scan
<1>3. CASE ReadLine \/ OpenForWriting \/ WriteLine
  <2>1. /\ view.pc \in {"read", "open", "write"} /\ view'.pc \in {"read", "open", "write", "swap"}
        /\ UNCHANGED <<downloads, thread>>
    BY <1>1, <1>3 DEF ReadLine, OpenForWriting, WriteLine, At, Views
  <2>2. \A t \in Threads : ~thread[t].shown
    BY <2>1 DEF ShownInv, SeenByReload
  <2>. QED
    BY <2>1, <2>2, ShownMoves
<1>4. CASE Swap
  <2>1. view.pc = "swap" /\ \A t \in Threads : ~thread[t].shown
    BY <1>4 DEF Swap, At, ShownInv, SeenByReload
  <2>2. CASE view.next = "off"
    BY <1>4, <2>2, ShownEnded DEF Swap, LeaveReload
  <2>3. CASE view.next # "off"
    <3>1. /\ view'.pc = "loop"
          /\ \A t \in Threads : \/ thread'[t] = thread[t]
                               \/ thread'[t] = [thread[t] EXCEPT !.slot = 0]
      BY <1>4, <2>3, Fresh DEF Swap, Goto
    <3>2. \A th \in ThreadStates : [th EXCEPT !.slot = 0].shown = th.shown
      BY DEF ThreadStates
    <3>3. \A t \in Threads : ~thread'[t].shown
      BY <1>1, <2>1, <3>1, <3>2
    <3>. QED
      BY <3>1, <3>3 DEF ShownInv, SeenByReload, EndedWhenOff, At
  <2>. QED
    BY <2>2, <2>3
<1>. QED
  BY <1>2, <1>3, <1>4

\* What a step of thread t does to another one.
LEMMA OtherThread ==
  ASSUME TypeInv, NEW t \in Threads, Thread(t), NEW s \in Threads, s # t
  PROVE  /\ thread'[s].pc = thread[s].pc /\ thread'[s].slot = thread[s].slot
         /\ thread'[s].shown => /\ thread[s].shown
                                /\ thread[s].slot # thread[t].slot \/ downloads' = downloads \/ OpenFile(t)
<1>1. thread[s] \in ThreadStates /\ thread \in [Threads -> ThreadStates]
  BY DEF TypeInv, TypeOK
<1>2. CASE OpenFile(t)
  <2>1. thread'[s] = thread[s] \/ thread'[s] = [thread[s] EXCEPT !.alone = FALSE]
    BY <1>2 DEF OpenFile
  <2>2. /\ [thread[s] EXCEPT !.alone = FALSE].pc = thread[s].pc
        /\ [thread[s] EXCEPT !.alone = FALSE].slot = thread[s].slot
        /\ [thread[s] EXCEPT !.alone = FALSE].shown = thread[s].shown
    BY <1>1 DEF ThreadStates
  <2>. QED
    BY <1>2, <2>1, <2>2
<1>3. CASE \E st \in Statuses : EndsWith(t, st)
  <2>1. thread'[s] = Overwritten(thread[s], thread[t].slot)
    BY <1>3 DEF EndsWith
  <2>. QED
    BY <1>1, <2>1, OverwrittenThread
<1>4. CASE downloads' = downloads /\ thread'[s] = thread[s]
  BY <1>4
<1>5. \/ OpenFile(t) \/ \E st \in Statuses : EndsWith(t, st)
      \/ downloads' = downloads /\ thread'[s] = thread[s]
  BY <1>1 DEF Thread, OpenFails, TransferDone, TransferFails, AfterFailure, UseDangling, Ends, Statuses
<1>. QED
  BY <1>2, <1>3, <1>4, <1>5

LEMMA ShownThread == ASSUME TypeInv, ShownInv, NEW t \in Threads, Thread(t) PROVE ShownInv'
<1> DEFINE i == thread[t].slot
<1>1. /\ downloads \in Seq(Entry) /\ i \in Nat /\ thread \in [Threads -> ThreadStates]
      /\ \A st \in {"READY", "FAILED", "DOWNLOADING"} : st \in Statuses
  BY DEF TypeInv, TypeOK, ThreadStates, Statuses
<1>2. view' = view /\ thread[t].pc # "none" /\ view.pc # "off"
  BY DEF Thread, OpenFile, OpenFails, TransferDone, TransferFails, AfterFailure, UseDangling, Has,
         ShownInv, EndedWhenOff, At
<1>3. /\ DOMAIN downloads' = DOMAIN downloads
      /\ \A j \in DOMAIN downloads :
            /\ j # i \/ downloads' = downloads \/ OpenFile(t)
            /\ downloads[j].st = "DOWNLOADING"
            => downloads'[j].st = "DOWNLOADING"
  <2>1. CASE downloads' = downloads
    BY <2>1
  <2>2. CASE OpenFile(t)
    BY <1>1, <2>2, StatusSet DEF OpenFile
  <2>3. CASE downloads' # downloads /\ ~OpenFile(t)
    <3>1. PICK st \in {"DOWNLOADING", "READY", "FAILED"} : SetStatus(i, st)
      BY <2>3, ThreadSets
    <3>2. st \in Statuses
      BY <1>1
    <3>. QED
      BY <1>1, <2>3, <3>1, <3>2, StatusSet
  <2>. QED
    BY <2>1, <2>2, <2>3
<1>4. ASSUME NEW s \in Threads, s # t, thread'[s].shown
      PROVE  /\ thread'[s].pc \in {"transfer", "failed", "again"}
             /\ thread'[s].slot \in DOMAIN downloads' /\ downloads'[thread'[s].slot].st = "DOWNLOADING"
             /\ view.pc \notin {"off", "read", "open", "write", "swap"}
             /\ view.pc = "reload" => thread'[s].slot > view.i
  <2>1. /\ thread'[s].pc = thread[s].pc /\ thread'[s].slot = thread[s].slot /\ thread[s].shown
        /\ thread[s].slot # i \/ downloads' = downloads \/ OpenFile(t)
    BY <1>4, OtherThread
  <2>. QED
    BY <1>3, <2>1 DEF ShownInv, SeenByReload, Status, At
<1>5. ASSUME thread'[t].shown
      PROVE  /\ thread'[t].pc \in {"transfer", "failed", "again"}
             /\ thread'[t].slot \in DOMAIN downloads' /\ downloads'[thread'[t].slot].st = "DOWNLOADING"
             /\ view.pc \notin {"off", "read", "open", "write", "swap"}
             /\ view.pc = "reload" => thread'[t].slot > view.i
  <2>1. CASE OpenFile(t)
    <3>1. /\ thread'[t].pc = "transfer" /\ thread'[t].slot = i /\ i # 0
          /\ thread[t].shown \/ ~Reloading
          /\ SetStatus(i, "DOWNLOADING")
      BY <1>5, <2>1 DEF OpenFile, Has
    <3>2. i \in DOMAIN downloads
      BY <1>1, <3>1 DEF TypeInv, SlotsThere
    <3>3. downloads'[i].st = "DOWNLOADING" /\ DOMAIN downloads' = DOMAIN downloads
      BY <1>1, <3>1, <3>2, StatusSet
    <3>4. /\ view.pc \notin {"off", "read", "open", "write", "swap"}
          /\ view.pc = "reload" => i > view.i
      BY <1>2, <3>1 DEF ShownInv, SeenByReload, Reloading, At
    <3>. QED
      BY <3>1, <3>2, <3>3, <3>4
  <2>2. CASE thread'[t] = NoThread
    BY <1>5, <2>2 DEF NoThread
  <2>3. ASSUME NEW pc \in {"failed", "again"}, thread' = [thread EXCEPT ![t].pc = pc], downloads' = downloads
        PROVE  /\ thread'[t].pc \in {"transfer", "failed", "again"}
               /\ thread'[t].slot \in DOMAIN downloads' /\ downloads'[thread'[t].slot].st = "DOWNLOADING"
               /\ view.pc \notin {"off", "read", "open", "write", "swap"}
               /\ view.pc = "reload" => thread'[t].slot > view.i
    <3>1. thread'[t] = [thread[t] EXCEPT !.pc = pc] /\ thread[t] \in ThreadStates
      BY <1>1, <2>3
    <3>2. thread'[t].pc = pc /\ thread'[t].slot = thread[t].slot /\ thread'[t].shown = thread[t].shown
      BY <3>1 DEF ThreadStates
    <3>. QED
      BY <1>5, <2>3, <3>2 DEF ShownInv, SeenByReload, Status, At
  <2>4. CASE thread' = thread /\ downloads' = downloads
    BY <1>5, <2>4 DEF ShownInv, SeenByReload, Status, At
  <2>5. \/ OpenFile(t) \/ thread'[t] = NoThread
        \/ \E pc \in {"failed", "again"} : thread' = [thread EXCEPT ![t].pc = pc] /\ downloads' = downloads
        \/ thread' = thread /\ downloads' = downloads
    BY <1>1 DEF Thread, OpenFails, TransferDone, TransferFails, AfterFailure, UseDangling, Ends, EndsWith
  <2>. QED
    BY <2>1, <2>2, <2>3, <2>4, <2>5
<1>. QED
  BY <1>2, <1>4, <1>5 DEF ShownInv, SeenByReload, EndedWhenOff, Status, At

LEMMA ShownNext == TypeInv /\ ShownInv /\ [Next]_vars => ShownInv'
<1>. SUFFICES ASSUME TypeInv, ShownInv, [Next]_vars PROVE ShownInv'
  OBVIOUS
<1>1. CASE (\E u \in Urls : SearchQueue(u)) \/ AppendToQueue \/ UNCHANGED vars
  <2>1. UNCHANGED <<downloads, view, thread>>
    BY <1>1 DEF SearchQueue, AppendToQueue, vars
  <2>. QED
    BY <2>1 DEF ShownInv, SeenByReload, EndedWhenOff, Status, At
<1>2. CASE Crash
  BY <1>2, ShownEnded DEF Crash
<1>. QED
  BY <1>1, <1>2, Steps, ShownOrdinary, ShownReload, ShownThread

\* Whatever the keys and however late the threads run, a thread that had opened
\* its file when the reload began, and whose element has kept the status it set,
\* does not live to see the vector reassigned: the check that
\* queueloader.cpp:27-31 makes is enough for these, and only for these.
THEOREM ShownAreSpared == Spec => []ShownIsSpared
<1>1. ShownInv => ShownIsSpared
  BY DEF ShownInv, SeenByReload, ShownIsSpared, At
<1>. QED
  BY <1>1, ShownInit, ShownNext, TypesHold, PTL DEF Spec
=============================================================================
