---------------------------- MODULE Subscriptions ----------------------------
(***************************************************************************)
(* What the feed list promises, whatever threads work on it: it holds each *)
(* subscribed feed once; a reload gives one feed a newer version and       *)
(* leaves it and all others where they are; sorting moves feeds and        *)
(* changes none; a new urls file keeps the version of every feed that      *)
(* stays.                                                                  *)
(***************************************************************************)
EXTENDS Integers, Sequences

VARIABLE list     \* per line of the list: the feed's URL and its version

Newer(v) == \A i \in DOMAIN list : list[i].version < v
EachFeedOnce == \A i, j \in DOMAIN list : list[i].url = list[j].url => i = j

Init == EachFeedOnce

\* A feed has been downloaded.
Refresh ==
  \E i \in DOMAIN list :
    /\ DOMAIN list' = DOMAIN list
    /\ list' = [list EXCEPT ![i].version = list'[i].version]
    /\ Newer(list'[i].version)

\* The list has been sorted.
Reorder ==
  /\ DOMAIN list' = DOMAIN list
  /\ \A i \in DOMAIN list : \E j \in DOMAIN list : list'[j] = list[i]
  /\ EachFeedOnce'

\* The urls file has been reread.
Resubscribe ==
  /\ EachFeedOnce'
  /\ \A i \in DOMAIN list' :
       \/ \E j \in DOMAIN list : list'[i] = list[j]
       \/ /\ \A j \in DOMAIN list : list'[i].url # list[j].url
          /\ Newer(list'[i].version)

Next == Refresh \/ Reorder \/ Resubscribe
Spec == Init /\ [][Next]_list
=============================================================================
