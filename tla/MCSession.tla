----------------------------- MODULE MCSession -----------------------------
(* What newsbeuter shares, and locks, in three parts:                         *)
(*   processes  three processes with one home directory: one that holds the  *)
(*              lock, one that removes its file, and one that comes then;    *)
(*   services   an account with two articles on two pages; two threads call  *)
(*              the service, or three with Tiny Tiny RSS (FeedHQ's calls are *)
(*              The Old Reader's);                                           *)
(*   locks      the threads of one process and their mutexes: two threads    *)
(*              that may reload in the background, one range of theirs.      *)
EXTENDS Session, Services, Locks, MCServices

CONSTANTS p1, p2, p3, m1, d1, d2, Parts

VARIABLE part

ProcsAlike == Permutations({p1, p2, p3})

MCInit ==
  /\ part \in Parts
  /\ Init /\ (part = "processes" \/ mode = [p \in Procs |-> "view"])
  /\ ServicesInit /\ (part = "services" \/ service = "ocnews")
  /\ LocksInit /\ (part = "locks" \/ (screen = "feeds" /\ ~filter))
MCNext ==
  \/ part = "processes" /\ Next /\ UNCHANGED <<part, serviceVars, lockVars>>
  \/ part = "services" /\ ServicesNext /\ UNCHANGED <<part, vars, lockVars>>
  \/ part = "locks" /\ LocksNext /\ UNCHANGED <<part, vars, serviceVars>>
MCSpec == MCInit /\ [][MCNext]_<<part, vars, serviceVars, lockVars>>
MCLiveSpec == MCSpec /\ Fairness
=============================================================================
