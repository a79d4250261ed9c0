------------------------------ MODULE MCLists ------------------------------
(* Values for the constants of Lists: three feeds with a tag on two of them, *)
(* so that positions among all feeds and among the visible ones differ.      *)
Tags == <<"a", "b", "a">>
Counts == <<2, 1, 0>>
Most == <<2, 1, 1>>
\* Everything goes on by itself, or only to the next feed, or nothing does and
\* the cursor marks read.
Everything == [next_feed |-> TRUE, first_unread |-> TRUE, hover |-> FALSE, jump |-> TRUE]
OnlyHover == [next_feed |-> FALSE, first_unread |-> FALSE, hover |-> TRUE, jump |-> FALSE]
OnlyNextFeed == [next_feed |-> TRUE, first_unread |-> FALSE, hover |-> FALSE, jump |-> FALSE]
ThreeConfigs == {Everything, OnlyNextFeed, OnlyHover}
=============================================================================
