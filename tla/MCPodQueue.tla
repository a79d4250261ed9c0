----------------------------- MODULE MCPodQueue -----------------------------
(* Two enclosures, in two parts:                                             *)
(*   orderly  automatic download, with crashes, restarts and what newsbeuter *)
(*            appends; nothing is cancelled, and a new thread has opened its *)
(*            file before the next key;                                      *)
(*   any      downloads started, cancelled, deleted and purged, with threads *)
(*            that run as late as they like.                                 *)
EXTENDS PodQueue

CONSTANTS u1, u2

TwoUrls == {u1, u2}
New(u) == [url |-> u, mark |-> "none"]
TwoQueued == <<New(u1), New(u2)>>

Keys == {"download", "cancel", "delete", "purge"}
Orderly == {"more", "less", "toggle", "play", "finished", "delete", "purge", "quit", "enqueue", "crash"}
NoCancel == {"download", "purge"}

MaxStarted == 3  \* bound on the downloads started by key, in "any"

VARIABLES part, started

Any == INSTANCE PodQueue
         WITH Ops <- Keys, PromptThreads <- FALSE, MaxParallel <- 1, MaxLines <- 2
Spawned == \E t \in Threads : thread[t].pc = "none" /\ thread'[t].pc = "spawned"

mcvars == <<part, started, vars>>
Unchanging == UNCHANGED <<part, started>>

\* Where the program's behaviour is no longer defined, it stops.
Stopped == dangling /\ UNCHANGED mcvars

MCInit == part \in {"orderly", "any"} /\ started = 0 /\ Init
MCNext == \/ part = "orderly" /\ Next /\ Unchanging
          \/ /\ part = "any" /\ Any!Next /\ UNCHANGED part
             /\ started' = IF Spawned THEN started + 1 ELSE started
             /\ started' <= MaxStarted
          \/ Stopped
MCSpec ==
  /\ MCInit /\ [][MCNext]_mcvars
  /\ WF_mcvars(part = "orderly" /\ ~dangling /\ MainLoop /\ Unchanging)
  /\ \A t \in Threads :
       WF_mcvars(part = "orderly" /\ ~dangling /\ Thread(t) /\ Unchanging)

\* A download shown as complete is, when no second thread is started for the same
\* entry and nothing is cancelled.
ReadyInOrder == part = "orderly" => ReadyIsComplete
=============================================================================
