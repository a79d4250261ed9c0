---------------------------- MODULE MCUrlSources ----------------------------
(* Values for the constants of UrlSources: a urls file with tags, a comment, *)
(* a query and a program; folders in OPML; subscriptions of which two have   *)
(* the same title.                                                           *)

AllSources == {"local", "opml", "ttrss", "newsblur", "ocnews", "oldreader", "feedhq"}
Str(words) == [quoted |-> FALSE, words |-> words]
Quoted(words) == [quoted |-> TRUE, words |-> words]
PlainFile == <<<<Str(<<"a">>), Str(<<"x">>), Quoted(<<"y", "z">>)>>, <<Str(<<"#", "b">>)>>, <<Str(<<"c">>)>>>>
OtherFile == <<<<Str(<<"a">>)>>, <<Str(<<"a">>), Str(<<"x", "#", "w">>)>>, <<Quoted(<<"query:q", "r">>), Str(<<"x">>)>>>>
Files == {PlainFile, OtherFile}

Outline(url, text, parent) ==
  [xmlUrl |-> url, url |-> <<>>, pipe |-> FALSE, filtercmd |-> <<>>, rss |-> url # <<>>,
   text |-> text, title |-> text, parent |-> parent]
Folders == <<Outline(<<"a">>, <<"f">>, 0), Outline(<<>>, <<"News">>, 0), Outline(<<"b">>, <<"f">>, 2),
             Outline(<<>>, <<"Europe">>, 2), Outline(<<"c">>, <<>>, 4)>>
Programs == <<[Outline(<<"b">>, <<>>, 0) EXCEPT !.filtercmd = <<"tr">>],
              [Outline(<<>>, <<>>, 0) EXCEPT !.url = <<"d">>, !.pipe = TRUE]>>
Docs == {Folders, Programs}

Sub(id, title, link, folders, special) == [id |-> id, title |-> title, link |-> link, folders |-> folders, special |-> special]
Titles == <<"A", "B">>
First == Sub("1", "A", "l1", <<"F", "G">>, FALSE)
Second == Sub("2", "A", "l2", <<"G">>, FALSE)
Third == Sub("3", "B", "", <<"F">>, TRUE)
Lists == {<<>>, <<First, Third>>, <<Third, Second, First>>}
=============================================================================
