---------------------------- MODULE MCFeedReload ----------------------------
(* Small instances of FeedReload: three feeds, the main thread, one or two  *)
(* downloadthreads and one reloadrangethread besides.                       *)
EXTENDS FeedReload

CONSTANTS u1, u2, u3

AllUrls == {u1, u2, u3}
ThreeUrls == <<u1, u2, u3>>
TwoUrls == <<u1, u2>>
NoFiles == {}
=============================================================================
