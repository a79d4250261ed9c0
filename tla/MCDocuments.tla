---------------------------- MODULE MCDocuments ----------------------------
(* Values for the constants of Documents: one document of every kind, with   *)
(* entries that have one part twice over: two dates, two authors, two texts, *)
(* two links; one has two enclosures.                                        *)
EXTENDS TLC

None == <<>>

Uri == <<"http:", "feed">>
Root(name, version, ns) == [name |-> name, version |-> version, ns |-> ns, lang |-> <<"he">>]
El(name, ns, text) == [name |-> name, ns |-> ns, text |-> text, attr |-> <<>>, inner |-> <<>>]
WithAttr(e, name, value) == [e EXCEPT !.attr = @ @@ (name :> value)]
Inside(e, x) == [e EXCEPT !.inner = <<x>>]
Entry(elements) == [base |-> None, about |-> None, elements |-> elements]
Document(root, about, entries) == [root |-> root, base |-> <<"http:", "base">>, about |-> about, entries |-> entries]

FeedOf(ns) == {El("title", ns, <<"T">>), El("link", ns, <<"l">>), El("language", ns, <<"ar">>), El("managingEditor", ns, <<"E">>)}
RssEntry(ns) ==
  Entry({El("title", ns, <<"t">>), El("author", ns, <<"a@b", "name", ")">>), El("creator", "dc", <<"c">>),
         El("pubDate", ns, <<"rfc822", "1">>), El("date", "dc", <<"w3c", "2">>)})
RssTexts(ns) ==
  Entry({El("description", ns, <<"d">>), El("encoded", "content", <<"e">>), El("summary", "itunes", <<"s">>),
         WithAttr(El("guid", ns, <<"g">>), "isPermaLink", <<"false">>),
         Inside(El("group", "media", None), WithAttr(El("content", "media", None), "url", <<"u">>))})
TwoEnclosures(ns) ==
  Entry({El("guid", ns, <<"g">>), WithAttr(El("enclosure", ns, None), "url", <<"u">>), WithAttr(El("content", "media", None), "url", <<"v">>)})
Rss(version, ns) == Document(Root("rss", version, ns), FeedOf(IF version = "2.0" THEN ns ELSE "none"), <<RssEntry(ns), RssTexts(ns)>>)

Rdf == Document(Root("RDF", "", "rdf"), {El("title", "rss10", <<"T">>), El("date", "dc", <<"w3c", "1">>), El("creator", "dc", <<"c">>)},
                <<[Entry({El("title", "rss10", <<"t">>), El("link", "rss10", <<"l">>), El("description", "rss10", <<"d">>),
                          El("date", "dc", <<"bad">>), El("creator", "dc", <<"c">>)}) EXCEPT !.about = <<"g">>]>>)

AtomLink(ns, rel, href) == WithAttr(WithAttr(El("link", ns, None), "rel", rel), "href", href)
AtomOne(ns) ==
  Entry({WithAttr(El("title", ns, <<"t">>), "type", <<"html">>), Inside(El("author", ns, None), El("name", ns, <<"a">>)),
         El("updated", ns, <<"w3c", "2">>), El("published", ns, <<"w3c", "1">>),
         AtomLink(ns, <<"alternate">>, <<"l">>)})
AtomTwo(ns) ==
  Entry({El("id", ns, <<"g">>), El("summary", ns, <<"s">>), WithAttr(El("content", ns, <<"c">>), "mode", <<"escaped">>),
         WithAttr(WithAttr(El("category", ns, None), "scheme", <<"google">>), "label", <<"read">>),
         WithAttr(WithAttr(El("category", ns, None), "scheme", <<"google">>), "label", <<"fresh">>)})
Atom(rootNs, ns) ==
  Document(Root("feed", "0.3", rootNs), {El("title", ns, <<"T">>), El("subtitle", ns, <<"d">>), El("updated", ns, <<"w3c", "3">>),
                                         AtomLink(ns, <<"alternate">>, <<"l">>)}, <<AtomOne(ns), AtomTwo(ns)>>)

Docs == {Rss("0.92", "none"), Rss("2.0", "userland"), Rss("9", "none"), Rdf, Atom("atom03", "atom03"), Atom("atom10", "atom10"),
         Atom("other", "none"), Atom("none", "none"), Document(Root("html", "", "none"), {}, <<>>),
         Document(Root("rss", "2.0", "none"), FeedOf("none"), <<TwoEnclosures("none")>>)}
=============================================================================
