------------------------------ MODULE PodQueue ------------------------------
(***************************************************************************)
(* podbeuter: the queue file, which newsbeuter appends to, the vector of   *)
(* downloads the main thread shows, and the detached poddlthreads, each of *)
(* which holds the address of its element of that vector. No mutex guards  *)
(* any of it: a reload of the queue reassigns the vector under the feet of *)
(* the threads, and every status is read and written as it comes.          *)
(*                                                                         *)
(* Each URL has a file of its own. What the server answers is left open.   *)
(***************************************************************************)
EXTENDS Integers, Sequences, FiniteSets

CONSTANTS
  Urls,            \* the enclosures there may be
  InitialQueue,    \* the lines of the queue file at first
  Ops,             \* what the users and the system do: see Operations
  PromptThreads,   \* a thread has opened its file before the next key
  MaxThreads,      \* bound on the threads that live at once
  MaxDownloads,    \* "max-downloads"
  MaxParallel,     \* bound on what the user increases it to
  MaxLines         \* bound on the lines newsbeuter appends to

Operations == {"toggle", "more", "less", "download", "play", "finished",
               "cancel", "delete", "purge", "quit", "enqueue", "crash"}

Marks == {"none", "downloaded", "played"}
Line == [url : Urls, mark : Marks]

ASSUME PodQueueAssumption ==
  /\ InitialQueue \in Seq(Line)
  /\ Ops \subseteq Operations
  /\ PromptThreads \in BOOLEAN
  /\ {MaxThreads, MaxDownloads} \subseteq Nat \ {0}
  /\ {MaxParallel, MaxLines} \subseteq Nat

\* enum class dlstatus
Statuses == {"QUEUED", "DOWNLOADING", "CANCELLED", "DELETED", "FINISHED",
             "FAILED", "ALREADY_DOWNLOADED", "READY", "PLAYED"}

VARIABLES
  queuefile,  \* the queue file's lines
  disk,       \* per URL: what is in its file
  downloads,  \* the vector: the URL and status of each element
  capacity,   \* the capacity of that vector
  view,       \* the main thread: where it is, and its locals
  auto,       \* auto_download
  max_dls,    \* the current "max-downloads"
  thread,     \* the poddlthreads: where each is, the element it points at
              \* (0: one that is no longer there) and the URL it loads; ghost
              \* (shown): it opened its file when no reload was under way, and
              \* its element still has the status it set
  enqueue,    \* newsbeuter's enqueue_url(): the URL it has not found, or "none"
  dangling    \* a thread has used the address of an element that is gone

vars == <<queuefile, disk, downloads, capacity, view, auto, max_dls, thread,
          enqueue, dangling>>

Threads == 1 .. MaxThreads

Off == [pc |-> "off", i |-> 0, budget |-> 0, purge |-> FALSE, next |-> "loop",
        temp |-> <<>>, st |-> "QUEUED"]
NoThread == [pc |-> "none", slot |-> 0, url |-> "none", resumed |-> FALSE,
             alone |-> TRUE, shown |-> FALSE]

Init ==
  /\ queuefile = InitialQueue
  /\ disk = [u \in Urls |-> "absent"]
  /\ downloads = <<>> /\ capacity = 0
  /\ view = Off
  /\ auto = FALSE /\ max_dls = MaxDownloads
  /\ thread = [t \in Threads |-> NoThread]
  /\ enqueue = "none"
  /\ dangling = FALSE

-----------------------------------------------------------------------------
(* Helpers *)

UrlsIn(s) == {s[i].url : i \in DOMAIN s}
Status(i) == downloads[i].st
SetStatus(i, st) == downloads' = [downloads EXCEPT ![i].st = st]
InProgress == Cardinality({i \in DOMAIN downloads : Status(i) = "DOWNLOADING"})

At(pc) == view.pc = pc
Reloading == view.pc \in {"reload", "read", "open", "write", "swap"}
Goto(pc) == view' = [Off EXCEPT !.pc = pc]

\* The iteration of pb_view::run() that has come back from form.run(): with
\* automatic download and room for more, start_downloads() comes first.
MayStartMore == auto /\ max_dls > InProgress
Waiting == \E t \in Threads : thread[t].pc = "spawned"
KeyRead ==
  /\ At("key") \/ (At("loop") /\ ~MayStartMore)
  /\ ~(PromptThreads /\ Waiting)

\* std::thread, detached, with the address of element i. The bound: there is
\* always a free number for it.
Spawn(i) ==
  \E t \in Threads :
    /\ thread[t].pc = "none"
    /\ \A s \in Threads : s < t => thread[s].pc # "none"
    /\ thread' = [thread EXCEPT ![t] = [NoThread EXCEPT !.pc = "spawned",
                                                        !.slot = i]]

\* Element i has got another status than that of the threads working on it.
Overwritten(th, i) == IF th.slot = i THEN [th EXCEPT !.shown = FALSE] ELSE th

-----------------------------------------------------------------------------
(* pb_controller::run() and queueloader::reload() *)

\* The lock file keeps a second podbeuter out; automatic_dl is the option -a.
Start ==
  /\ At("off")
  /\ view' = [Off EXCEPT !.pc = "reload"]
  /\ auto' \in (IF "toggle" \in Ops THEN BOOLEAN ELSE {FALSE})
  /\ max_dls' = MaxDownloads
  /\ UNCHANGED <<queuefile, disk, downloads, capacity, thread, enqueue, dangling>>

\* Mutant: a failed download is not kept.
Kept_NotFailed(purge) ==
  {"QUEUED", "CANCELLED", "ALREADY_DOWNLOADED", "READY"}
    \cup (IF purge THEN {} ELSE {"PLAYED", "FINISHED"})
\* What a reload keeps of the vector.
Kept(purge) ==
  {"QUEUED", "CANCELLED", "FAILED", "ALREADY_DOWNLOADED", "READY"}
    \cup (IF purge THEN {} ELSE {"PLAYED", "FINISHED"})

\* After the reload the program goes on with its loop, or ends and takes the
\* threads with it.
LeaveReload ==
  IF view.next = "off"
  THEN /\ view' = Off /\ downloads' = <<>> /\ capacity' = 0
       /\ thread' = [t \in Threads |-> NoThread]
  ELSE Goto("loop")

\* The elements to keep are copied, each with the status it has by then, ...
Looked(i) ==
  [view EXCEPT !.temp = IF i \in DOMAIN downloads /\ Status(i) \in Kept(view.purge)
                        THEN Append(@, downloads[i]) ELSE @,
               !.i = IF i < Len(downloads) THEN i ELSE 0,
               !.pc = IF i < Len(downloads) THEN "reload" ELSE "read"]
\* ... and a download in progress ends the reload.
Scan ==
  LET i == view.i + 1
  IN /\ At("reload")
     /\ IF i \in DOMAIN downloads /\ Status(i) = "DOWNLOADING"
        THEN /\ LeaveReload
             /\ view.next = "loop" => UNCHANGED <<downloads, capacity, thread>>
        ELSE view' = Looked(i) /\ UNCHANGED <<downloads, capacity, thread>>
     /\ UNCHANGED <<queuefile, disk, auto, max_dls, enqueue, dangling>>

\* Mutant: what is there has been downloaded.
Loaded_ReadyIfPresent(line) ==
  [url |-> line.url, st |-> IF disk[line.url] = "absent" THEN "QUEUED" ELSE "READY"]
\* The mark only counts if the file is there.
Loaded(line) ==
  [url |-> line.url,
   st |-> IF disk[line.url] = "absent" THEN "QUEUED"
          ELSE CASE line.mark = "none" -> "ALREADY_DOWNLOADED"
                 [] line.mark = "downloaded" -> "READY"
                 [] line.mark = "played" -> "PLAYED"]

\* Mutants: a line is only compared with the elements that were kept; with the
\* vector, but not with the lines before it.
AddLine_KeptOnly(temp, line) ==
  IF line.url \in UrlsIn(temp) THEN temp ELSE Append(temp, Loaded(line))

\* Lines whose URL is neither kept nor in the old vector are added.
AddLine(temp, line) ==
  IF line.url \in UrlsIn(temp) \cup UrlsIn(downloads) THEN temp
  ELSE Append(temp, Loaded(line))
ReadLine ==
  LET i == view.i + 1
  IN /\ At("read")
     /\ view' = [view EXCEPT !.temp = IF i \in DOMAIN queuefile THEN AddLine(@, queuefile[i]) ELSE @,
                             !.i = IF i < Len(queuefile) THEN i ELSE Len(queuefile),
                             !.pc = IF i < Len(queuefile) THEN "read" ELSE "open"]
     /\ UNCHANGED <<queuefile, disk, downloads, capacity, auto, max_dls, thread,
                    enqueue, dangling>>

\* The file is opened for writing, which empties it.
OpenForWriting ==
  /\ At("open")
  /\ queuefile' = <<>>
  /\ view' = [view EXCEPT !.pc = IF view.temp = <<>> THEN "swap" ELSE "write", !.i = 1]
  /\ UNCHANGED <<disk, downloads, capacity, auto, max_dls, thread, enqueue, dangling>>

Saved(d) ==
  [url |-> d.url, mark |-> CASE d.st = "READY" -> "downloaded"
                             [] d.st = "PLAYED" -> "played"
                             [] OTHER -> "none"]

\* Mutant: the last element is not written.
WriteLine_NotLast ==
  /\ At("write")
  /\ queuefile' = IF view.i = Len(view.temp) THEN queuefile
                  ELSE Append(queuefile, Saved(view.temp[view.i]))
  /\ view' = [view EXCEPT !.i = @ + 1,
                          !.pc = IF view.i = Len(view.temp) THEN "swap" ELSE "write"]
  /\ UNCHANGED <<disk, downloads, capacity, auto, max_dls, thread, enqueue, dangling>>

\* One line at a time, each flushed, at the place after the one before: what
\* newsbeuter has appended there in the meantime is overwritten.
WriteLine ==
  LET i == view.i
  IN /\ At("write")
     /\ queuefile' = [k \in 1 .. (IF i > Len(queuefile) THEN i ELSE Len(queuefile)) |->
                        IF k = i THEN Saved(view.temp[i]) ELSE queuefile[k]]
     /\ view' = [view EXCEPT !.i = @ + 1,
                             !.pc = IF i = Len(view.temp) THEN "swap" ELSE "write"]
     /\ UNCHANGED <<disk, downloads, capacity, auto, max_dls, thread, enqueue, dangling>>

\* downloads = dltemp: element-wise if the capacity suffices, else into a new
\* buffer. What a thread points at is another element then, or none.
Swap ==
  LET n == Len(view.temp)
      Moved(th) == IF th.slot > n \/ n > capacity THEN [th EXCEPT !.slot = 0] ELSE th
  IN /\ At("swap")
     /\ IF view.next = "off" THEN LeaveReload
        ELSE /\ downloads' = view.temp
             /\ capacity' = IF n > capacity THEN n ELSE capacity
             /\ thread' = [t \in Threads |-> Moved(thread[t])]
             /\ Goto("loop")
     /\ UNCHANGED <<queuefile, disk, auto, max_dls, enqueue, dangling>>

-----------------------------------------------------------------------------
(* pb_view::run() *)

\* start_downloads(): the downloads in progress are counted once more.
CountDownloads ==
  /\ At("loop") /\ MayStartMore
  /\ ~(PromptThreads /\ Waiting)
  /\ Goto("count")
  /\ UNCHANGED <<queuefile, disk, downloads, capacity, auto, max_dls, thread,
                 enqueue, dangling>>
SetBudget ==
  /\ At("count")
  /\ view' = [view EXCEPT !.pc = "start", !.budget = max_dls - InProgress, !.i = 1]
  /\ UNCHANGED <<queuefile, disk, downloads, capacity, auto, max_dls, thread,
                 enqueue, dangling>>

\* One round of its loop. The element stays QUEUED until its thread runs. (A
\* negative budget is never used up.)
StartDownload ==
  /\ At("start")
  /\ IF view.budget = 0 \/ view.i > Len(downloads)
     THEN Goto("key") /\ UNCHANGED thread
     ELSE IF Status(view.i) = "QUEUED"
          THEN /\ Spawn(view.i)
               /\ view' = [view EXCEPT !.i = @ + 1, !.budget = @ - 1]
          ELSE /\ view' = [view EXCEPT !.i = @ + 1]
               /\ UNCHANGED thread
  /\ UNCHANGED <<queuefile, disk, downloads, capacity, auto, max_dls, enqueue, dangling>>

\* form.run() has timed out, or the key does nothing but report an error.
NoKey ==
  /\ At("key") /\ KeyRead /\ Goto("loop")
  /\ UNCHANGED <<queuefile, disk, downloads, capacity, auto, max_dls, thread,
                 enqueue, dangling>>

Toggle ==
  /\ "toggle" \in Ops /\ KeyRead /\ auto' = ~auto /\ Goto("loop")
  /\ UNCHANGED <<queuefile, disk, downloads, capacity, max_dls, thread, enqueue, dangling>>
More ==
  /\ "more" \in Ops /\ KeyRead /\ max_dls < MaxParallel
  /\ max_dls' = max_dls + 1 /\ Goto("loop")
  /\ UNCHANGED <<queuefile, disk, downloads, capacity, auto, thread, enqueue, dangling>>
Less ==
  /\ "less" \in Ops /\ KeyRead /\ max_dls > 1
  /\ max_dls' = max_dls - 1 /\ Goto("loop")
  /\ UNCHANGED <<queuefile, disk, downloads, capacity, auto, thread, enqueue, dangling>>

Download(i) ==
  /\ "download" \in Ops /\ KeyRead
  /\ Status(i) # "DOWNLOADING"
  /\ Spawn(i) /\ Goto("loop")
  /\ UNCHANGED <<queuefile, disk, downloads, capacity, auto, max_dls, enqueue, dangling>>

\* The keys that look at a status and then set another. The threads may change
\* the status in between.
Change(op, i) ==
  CASE op = "play" /\ Status(i) \in {"FINISHED", "PLAYED", "READY"} -> "PLAYED"
    [] op = "finished" /\ Status(i) = "PLAYED" -> "FINISHED"
    [] op = "cancel" /\ Status(i) = "DOWNLOADING" -> "CANCELLED"
    [] op = "delete" /\ Status(i) # "DOWNLOADING" -> "DELETED"
    [] OTHER -> Status(i)
LookAtStatus(op, i) ==
  /\ op \in Ops /\ KeyRead
  /\ Change(op, i) # Status(i)
  /\ view' = [view EXCEPT !.pc = "set", !.i = i, !.st = Change(op, i)]
  /\ UNCHANGED <<queuefile, disk, downloads, capacity, auto, max_dls, thread,
                 enqueue, dangling>>
SetNewStatus ==
  /\ At("set")
  /\ SetStatus(view.i, view.st)
  /\ thread' = [t \in Threads |-> Overwritten(thread[t], view.i)]
  /\ Goto("loop")
  /\ UNCHANGED <<queuefile, disk, capacity, auto, max_dls, enqueue, dangling>>

\* Purge and quit are refused while a download is in progress.
Purge ==
  /\ "purge" \in Ops /\ KeyRead /\ InProgress = 0
  /\ view' = [Off EXCEPT !.pc = "reload", !.purge = TRUE]
  /\ UNCHANGED <<queuefile, disk, downloads, capacity, auto, max_dls, thread,
                 enqueue, dangling>>
Quit ==
  /\ "quit" \in Ops /\ KeyRead /\ InProgress = 0
  /\ view' = [Off EXCEPT !.pc = "reload", !.next = "off"]
  /\ UNCHANGED <<queuefile, disk, downloads, capacity, auto, max_dls, thread,
                 enqueue, dangling>>

View ==
  \/ Start \/ Scan \/ ReadLine \/ OpenForWriting \/ WriteLine \/ Swap
  \/ CountDownloads \/ SetBudget \/ StartDownload
  \/ NoKey \/ Toggle \/ More \/ Less \/ SetNewStatus \/ Purge \/ Quit
  \/ \E i \in DOMAIN downloads :
       \/ Download(i)
       \/ \E op \in {"play", "finished", "cancel", "delete"} : LookAtStatus(op, i)

-----------------------------------------------------------------------------
(* poddlthread::run() *)

Has(t, pc) == thread[t].pc = pc /\ thread[t].slot # 0
Loading(t) == thread[t].pc \in {"transfer", "failed"}
Ends(t) == thread' = [thread EXCEPT ![t] = NoThread]
\* ... with a status, which is then that of every thread at work on its element.
EndsWith(t, st) ==
  LET i == thread[t].slot
  IN /\ SetStatus(i, st)
     /\ thread' = [s \in Threads |-> IF s = t THEN NoThread ELSE Overwritten(thread[s], i)]

\* Mutant: the new status is not set.
OpenFile_NotShown(t) ==
  LET u == downloads[thread[t].slot].url
      shared == {s \in Threads : Loading(s) /\ thread[s].url = u}
  IN /\ Has(t, "spawned") \/ Has(t, "again")
     /\ disk' = [disk EXCEPT ![u] = IF @ = "absent" THEN "partial" ELSE @]
     /\ thread' = [s \in Threads |->
          IF s = t THEN [pc |-> "transfer", slot |-> thread[t].slot, url |-> u,
                         resumed |-> disk[u] # "absent", alone |-> shared = {},
                         shown |-> thread[t].shown \/ ~Reloading]
          ELSE IF s \in shared THEN [thread[s] EXCEPT !.alone = FALSE]
          ELSE thread[s]]
     /\ UNCHANGED <<queuefile, downloads, capacity, view, auto, max_dls, enqueue, dangling>>
\* stat, open and set_status(DOWNLOADING). An existing file is appended to.
OpenFile(t) ==
  LET u == downloads[thread[t].slot].url
      shared == {s \in Threads : Loading(s) /\ thread[s].url = u}
  IN /\ Has(t, "spawned") \/ Has(t, "again")
     /\ SetStatus(thread[t].slot, "DOWNLOADING")
     /\ disk' = [disk EXCEPT ![u] = IF @ = "absent" THEN "partial" ELSE @]
     /\ thread' = [s \in Threads |->
          IF s = t THEN [pc |-> "transfer", slot |-> thread[t].slot, url |-> u,
                         resumed |-> disk[u] # "absent", alone |-> shared = {},
                         shown |-> thread[t].shown \/ ~Reloading]
          ELSE IF s \in shared THEN [thread[s] EXCEPT !.alone = FALSE]
          ELSE thread[s]]
     /\ UNCHANGED <<queuefile, capacity, view, auto, max_dls, enqueue, dangling>>
OpenFails(t) ==
  /\ Has(t, "spawned") \/ Has(t, "again")
  /\ EndsWith(t, "FAILED")
  /\ UNCHANGED <<queuefile, disk, capacity, view, auto, max_dls, enqueue, dangling>>

\* curl has everything. With two writers, or a file that was not this download's
\* own part before, anything may be in the file.
TransferDone(t) ==
  LET u == thread[t].url
  IN /\ Has(t, "transfer")
     /\ EndsWith(t, "READY")
     /\ \E content \in IF thread[t].alone THEN {IF disk[u] = "garbled" THEN "garbled"
                                                ELSE "complete"}
                       ELSE {disk[u], "garbled"} :
          disk' = [disk EXCEPT ![u] = content]
     /\ UNCHANGED <<queuefile, capacity, view, auto, max_dls, enqueue, dangling>>

\* curl gives up: the server, the network, the disk, or CANCELLED seen in one
\* of the callbacks.
TransferFails(t) ==
  /\ Has(t, "transfer")
  /\ thread' = [thread EXCEPT ![t].pc = "failed"]
  /\ UNCHANGED <<queuefile, disk, downloads, capacity, view, auto, max_dls,
                 enqueue, dangling>>

\* Mutant: after a failed first attempt the status stays DOWNLOADING.
AfterFailure_KeepsStatus(t) ==
  LET th == thread[t]
  IN /\ Has(t, "failed")
     /\ IF Status(th.slot) = "CANCELLED"
        THEN Ends(t) /\ UNCHANGED <<disk, downloads>>
        ELSE /\ disk' = [disk EXCEPT ![th.url] = "absent"]
             /\ UNCHANGED downloads
             /\ IF th.resumed
                THEN thread' = [thread EXCEPT ![t].pc = "again"]
                ELSE Ends(t)
     /\ UNCHANGED <<queuefile, capacity, view, auto, max_dls, enqueue, dangling>>
\* A cancelled download keeps its part of the file. A resumed one starts again
\* with an empty file, any other has failed.
AfterFailure(t) ==
  LET th == thread[t]
  IN /\ Has(t, "failed")
     /\ IF Status(th.slot) = "CANCELLED"
        THEN Ends(t) /\ UNCHANGED <<disk, downloads>>
        ELSE /\ disk' = [disk EXCEPT ![th.url] = "absent"]
             /\ IF th.resumed
                THEN /\ thread' = [thread EXCEPT ![t].pc = "again"]
                     /\ UNCHANGED downloads
                ELSE EndsWith(t, "FAILED")
     /\ UNCHANGED <<queuefile, capacity, view, auto, max_dls, enqueue, dangling>>

\* Every step of a thread uses its element.
UseDangling(t) ==
  /\ thread[t].pc # "none" /\ thread[t].slot = 0
  /\ dangling' = TRUE
  /\ UNCHANGED <<queuefile, disk, downloads, capacity, view, auto, max_dls,
                 thread, enqueue>>

Thread(t) ==
  \/ OpenFile(t) \/ OpenFails(t) \/ TransferDone(t) \/ TransferFails(t)
  \/ AfterFailure(t) \/ UseDangling(t)

-----------------------------------------------------------------------------
(* newsbeuter, and the end of podbeuter by a signal or a power cut *)

\* enqueue_url(): the file is searched for the URL, ...
SearchQueue(u) ==
  /\ "enqueue" \in Ops /\ enqueue = "none"
  /\ u \notin UrlsIn(queuefile) /\ Len(queuefile) < MaxLines
  /\ enqueue' = u
  /\ UNCHANGED <<queuefile, disk, downloads, capacity, view, auto, max_dls,
                 thread, dangling>>
\* ... and then opened once more, to append to it.
AppendToQueue ==
  /\ enqueue # "none"
  /\ queuefile' = Append(queuefile, [url |-> enqueue, mark |-> "none"])
  /\ enqueue' = "none"
  /\ UNCHANGED <<disk, downloads, capacity, view, auto, max_dls, thread, dangling>>

Crash ==
  /\ "crash" \in Ops /\ ~At("off")
  /\ view' = Off /\ downloads' = <<>> /\ capacity' = 0
  /\ thread' = [t \in Threads |-> NoThread]
  /\ UNCHANGED <<queuefile, disk, auto, max_dls, enqueue, dangling>>

Next ==
  /\ ~dangling
  /\ \/ View
     \/ \E t \in Threads : Thread(t)
     \/ \E u \in Urls : SearchQueue(u)
     \/ AppendToQueue
     \/ Crash

Spec == Init /\ [][Next]_vars

\* form.run() returns at the latest after its timeout, and a thread runs on.
\* That a transfer ends is an assumption about the network: CURLOPT_TIMEOUT is
\* 0. The user need not press a key.
MainLoop ==
  \/ Scan \/ ReadLine \/ OpenForWriting \/ WriteLine \/ Swap
  \/ CountDownloads \/ SetBudget \/ StartDownload \/ NoKey \/ SetNewStatus
LiveSpec ==
  /\ Spec
  /\ WF_vars(~dangling /\ MainLoop)
  /\ \A t \in Threads : WF_vars(~dangling /\ Thread(t))

-----------------------------------------------------------------------------
(* Properties *)

\* A download shown as in progress has a thread that will end it: purge and quit
\* are not refused for ever.
DownloadingHasThread ==
  \A i \in DOMAIN downloads : Status(i) = "DOWNLOADING" =>
    \E t \in Threads : thread[t].pc # "none" /\ thread[t].slot = i

\* Whatever is in the vector is in the queue file, but for the moments in which
\* reload() rewrites it: a crash loses no download at any other time.
QueueOnDisk ==
  /\ ~At("write") /\ ~At("swap") => UrlsIn(downloads) \subseteq UrlsIn(queuefile)
  /\ At("swap") => UrlsIn(view.temp) \subseteq UrlsIn(queuefile)

\* An entry the user has deleted is not listed again by the reload that drops
\* it, although its line is still in the file this reload reads.
DeletedIsForgotten ==
  At("swap") => \A i \in DOMAIN downloads : Status(i) = "DELETED" =>
                  downloads[i].url \notin UrlsIn(view.temp)

\* What the queue holds: the entries, or those a reload carries over and those it
\* has yet to look at, and the lines newsbeuter has added since.
Carried ==
  CASE At("reload") -> UrlsIn(view.temp) \cup {downloads[i].url : i \in view.i + 1 .. Len(downloads)}
    [] view.pc \in {"read", "open", "write", "swap"} -> UrlsIn(view.temp)
    [] OTHER -> UrlsIn(downloads)
Known == Carried \cup (UrlsIn(queuefile) \ UrlsIn(downloads))

\* The lines that newsbeuter has appended since a reload has read the file's end:
\* those it has not read, or those behind what it has written so far.
IsLate(k) == (At("open") /\ k > view.i) \/ (At("write") /\ k >= view.i)
Late == {queuefile[k].url : k \in {n \in DOMAIN queuefile : IsLate(n)}}

\* An URL only leaves the queue when the user has deleted it, or purges it after
\* it was played: "load URLs that were newly added to the queue". It is lost in two
\* more ways: newsbeuter has appended it too late; podbeuter is killed while it
\* writes the file.
KeepsQueue ==
  [][\A u \in Known \ Known' :
       \/ \E i \in DOMAIN downloads :
            /\ downloads[i].url = u
            /\ \/ Status(i) = "DELETED"
               \/ view.purge /\ Status(i) \in {"PLAYED", "FINISHED"}
       \/ u \in Late
       \/ At("write") /\ view'.pc = "off"]_vars

\* A download shown as complete is: its file has been written by one transfer,
\* from its beginning to its end.
ReadyIsComplete ==
  \A i \in DOMAIN downloads :
    Status(i) \in {"READY", "PLAYED", "FINISHED"} =>
      disk[downloads[i].url] = "complete"

\* "we are not allowed to reload if a download is in progress!": the vector is
\* not reassigned while a thread points into it.
NoReloadWhileDownloading ==
  At("swap") => \A t \in Threads : thread[t].pc = "none"

\* What the check in the reload does see: a thread that had opened its file when
\* the reload began, and whose element nobody has given another status since, is
\* not under way when the vector is reassigned, however late it runs.
ShownIsSpared ==
  At("swap") => \A t \in Threads : ~thread[t].shown

\* With automatic download on, every queued download is started some day.
QueuedIsStarted ==
  \A u \in Urls :
    LET Queued == auto /\ [url |-> u, st |-> "QUEUED"] \in {downloads[i] : i \in DOMAIN downloads}
    IN Queued ~> ~Queued
=============================================================================
