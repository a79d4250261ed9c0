----------------------------- MODULE Documents -----------------------------
(* From the XML of a feed to articles: rsspp chooses a parser by the root    *)
(* element and walks the elements in the order in which they come;           *)
(* rss_parser then fills the articles. An element has a name, a namespace, a *)
(* text, attributes and, for the containers, elements inside; a text is a    *)
(* sequence, <<>> if there is none. Left out: bytes, encodings, an empty     *)
(* <author> of RSS.                                                          *)
EXTENDS Integers, Sequences, SequencesExt, FiniteSetsExt, Functions, TLC

CONSTANTS
  Documents,    \* root, base, about (the feed's elements), entries; unordered
  MyUri         \* the url of the feed

VARIABLES
  doc,          \* the document
  sent,         \* its elements in the order in which they were sent
  stored        \* what parsing it gives

docVars == <<doc, sent, stored>>
None == <<>>

-----------------------------------------------------------------------------
(* Elements.                                                                 *)
Attr(e, name) == IF name \in DOMAIN e.attr THEN e.attr[name] ELSE None
NodeIs(e, name, ns) == e.name = name /\ e.ns = ns
OrElse(a, b) == IF a # None THEN a ELSE b
\* A feed or an entry says everything once; only enclosures and categories may
\* be there more often, and links of Atom for different uses.
Rel(e) == OrElse(Attr(e, "rel"), <<"alternate">>)
MayRepeat(root, e, x) ==
  \/ e.name \in {"enclosure", "group", "category"} \/ e.ns = "media"
  \/ root.name = "feed" /\ e.name = "link" /\ Rel(e) # Rel(x)
SaysOnce(root, elements) ==
  /\ IsFiniteSet(elements)
  /\ \A e, x \in elements : e # x /\ e.name = x.name /\ e.ns = x.ns => MayRepeat(root, e, x)
ASSUME DocumentsAssumption ==
  \A d \in Documents :
    SaysOnce(d.root, d.about) /\ \A i \in DOMAIN d.entries : SaysOnce(d.root, d.entries[i].elements)

\* utils::absolute_url, __w3cdtf_to_rfc822
AbsoluteUrl(base, url) == IF url # None /\ url[1] = "http:" THEN url ELSE base \o url
Rfc822(date) == IF date # None /\ date[1] = "w3c" THEN <<"rfc822">> \o Tail(date) ELSE None

NoItem == [title |-> None, title_type |-> None, link |-> None, description |-> None, author |-> None,
           pubDate |-> None, guid |-> None, permalink |-> FALSE, enclosure |-> None, encoded |-> None,
           summary |-> None, base |-> None, labels |-> {},
           creator |-> None, dc_date |-> None, atom_summary |-> None, updated |-> None]
NoChannel == [title |-> None, title_type |-> None, link |-> None, description |-> None, language |-> None,
           editor |-> None, creator |-> None, pubDate |-> None]

-----------------------------------------------------------------------------
(* parse_xmlnode and rss_parser_factory: the version, or "throws".           *)
VersionOf(root) ==
  CASE root.name = "rss" ->
         (CASE root.version \in {"0.91", "0.92", "0.94", "1.0"} -> "RSS_0_9x"
            [] root.version \in {"2.0", "2"} -> "RSS_2_0"
            [] OTHER -> "throws")
    [] root.name = "RDF" -> "RSS_1_0"
    [] root.name = "feed" ->
         (CASE root.ns = "atom03" -> "ATOM_0_3"
            [] root.ns = "atom10" -> "ATOM_1_0"
            [] root.ns \notin {"none", "atom03", "atom10"} /\ root.version = "0.3" -> "ATOM_0_3_NONS"
            [] OTHER -> "throws")
    [] OTHER -> "throws"
\* the namespace of the parser's elements
NsOf(root) ==
  CASE VersionOf(root) = "RSS_2_0" -> IF root.ns = "userland" THEN "userland" ELSE "none"
    [] VersionOf(root) = "RSS_1_0" -> "rss10"
    [] VersionOf(root) \in {"ATOM_0_3", "ATOM_1_0"} -> root.ns
    [] OTHER -> "none"

(* rss_09x_parser::parse_item                                                *)
\* the creator is kept apart: it counts only if there is no author
\* mutant: the creator is an author like another
Creator_AsAuthor(it, text) == [it EXCEPT !.author = text]
Creator(it, text) == [it EXCEPT !.creator = text]
RssAuthor(text) == IF Last(text) = ")" THEN SubSeq(text, 2, Len(text) - 1) ELSE text
InGroup(e) == FoldLeft(LAMBDA u, x : IF NodeIs(x, "content", "media") THEN Attr(x, "url") ELSE u, None, e.inner)
RssStep(it, e, ns, base) ==
  CASE NodeIs(e, "title", ns) -> [it EXCEPT !.title = e.text, !.title_type = <<"text">>]
    [] NodeIs(e, "link", ns) -> [it EXCEPT !.link = AbsoluteUrl(base, e.text)]
    [] NodeIs(e, "description", ns) -> [it EXCEPT !.base = OrElse(Attr(e, "base"), base), !.description = e.text]
    [] NodeIs(e, "encoded", "content") -> [it EXCEPT !.encoded = e.text]
    [] NodeIs(e, "summary", "itunes") -> [it EXCEPT !.summary = e.text]
    [] NodeIs(e, "guid", ns) ->
         IF Attr(e, "isPermaLink") = <<"false">> THEN [it EXCEPT !.guid = e.text, !.permalink = FALSE]
         ELSE [it EXCEPT !.guid = AbsoluteUrl(base, e.text), !.permalink = TRUE]
    [] NodeIs(e, "pubDate", ns) -> [it EXCEPT !.pubDate = e.text]
    [] NodeIs(e, "date", "dc") -> [it EXCEPT !.dc_date = Rfc822(e.text)]
    [] NodeIs(e, "author", ns) -> [it EXCEPT !.author = RssAuthor(e.text)]
    [] NodeIs(e, "creator", "dc") -> Creator(it, e.text)
    [] NodeIs(e, "enclosure", ns) \/ NodeIs(e, "content", "media") -> [it EXCEPT !.enclosure = Attr(e, "url")]
    [] NodeIs(e, "group", "media") -> [it EXCEPT !.enclosure = OrElse(InGroup(e), @)]
    [] OTHER -> it
RssItem(elements, ns, base) ==
  LET it == FoldLeft(LAMBDA acc, e : RssStep(acc, e, ns, base), NoItem, elements)
  IN  [it EXCEPT !.author = OrElse(@, it.creator), !.pubDate = OrElse(@, it.dc_date)]

(* rss_10_parser                                                             *)
RdfStep(it, e) ==
  CASE NodeIs(e, "title", "rss10") -> [it EXCEPT !.title = e.text, !.title_type = <<"text">>]
    [] NodeIs(e, "link", "rss10") -> [it EXCEPT !.link = e.text]
    [] NodeIs(e, "description", "rss10") -> [it EXCEPT !.description = e.text]
    [] NodeIs(e, "date", "dc") -> [it EXCEPT !.pubDate = Rfc822(e.text)]
    [] NodeIs(e, "encoded", "content") -> [it EXCEPT !.encoded = e.text]
    [] NodeIs(e, "summary", "itunes") -> [it EXCEPT !.summary = e.text]
    [] NodeIs(e, "creator", "dc") -> [it EXCEPT !.author = e.text]
    [] OTHER -> it
RdfItem(about, elements) == FoldLeft(RdfStep, [NoItem EXCEPT !.guid = about], elements)

(* atom_parser::parse_entry. A text whose mode is none of the three is       *)
(* skipped.                                                                  *)
AtomText(e, old) == IF Attr(e, "mode") \in {None, <<"xml">>, <<"escaped">>} THEN e.text ELSE old
AtomAuthor(e) == FoldLeft(LAMBDA a, x : IF x.name = "name" THEN x.text ELSE a, None, e.inner)
AtomStep(it, e, ns, base) ==
  CASE NodeIs(e, "author", ns) -> [it EXCEPT !.author = OrElse(AtomAuthor(e), @)]
    [] NodeIs(e, "title", ns) -> [it EXCEPT !.title = e.text, !.title_type = OrElse(Attr(e, "type"), <<"text">>)]
    [] NodeIs(e, "content", ns) -> [it EXCEPT !.description = AtomText(e, @), !.base = OrElse(Attr(e, "base"), base)]
    [] NodeIs(e, "id", ns) -> [it EXCEPT !.guid = e.text]
    [] NodeIs(e, "published", ns) -> [it EXCEPT !.pubDate = Rfc822(e.text)]
    [] NodeIs(e, "updated", ns) -> [it EXCEPT !.updated = Rfc822(e.text)]
    [] NodeIs(e, "link", ns) ->
         (CASE Attr(e, "rel") \in {None, <<"alternate">>} -> [it EXCEPT !.link = AbsoluteUrl(base, Attr(e, "href"))]
            [] Attr(e, "rel") = <<"enclosure">> -> [it EXCEPT !.enclosure = Attr(e, "href")]
            [] OTHER -> it)
    [] NodeIs(e, "summary", ns) -> [it EXCEPT !.atom_summary = AtomText(e, @)]
    [] NodeIs(e, "category", ns) /\ Attr(e, "scheme") = <<"google">> -> [it EXCEPT !.labels = @ \cup {Attr(e, "label")}]
    [] OTHER -> it
AtomEntry(elements, ns, base) ==
  LET it == FoldLeft(LAMBDA acc, e : AtomStep(acc, e, ns, base), NoItem, elements)
  IN  [it EXCEPT !.description = OrElse(@, it.atom_summary), !.pubDate = OrElse(@, it.updated)]

(* The feed's own elements, in parse_feed of the parsers.                    *)
RssFeedStep(f, e, ns, base) ==
  CASE NodeIs(e, "title", ns) -> [f EXCEPT !.title = e.text, !.title_type = <<"text">>]
    [] NodeIs(e, "link", ns) -> [f EXCEPT !.link = IF ns = "rss10" THEN e.text ELSE AbsoluteUrl(base, e.text)]
    [] NodeIs(e, "description", ns) -> [f EXCEPT !.description = e.text]
    [] NodeIs(e, "language", ns) /\ ns # "rss10" -> [f EXCEPT !.language = e.text]
    [] NodeIs(e, "managingEditor", ns) /\ ns # "rss10" -> [f EXCEPT !.editor = e.text]
    [] NodeIs(e, "date", "dc") /\ ns = "rss10" -> [f EXCEPT !.pubDate = Rfc822(e.text)]
    [] NodeIs(e, "creator", "dc") /\ ns = "rss10" -> [f EXCEPT !.creator = e.text]
    [] OTHER -> f
AtomFeedStep(f, e, ns, base) ==
  CASE NodeIs(e, "title", ns) -> [f EXCEPT !.title = e.text, !.title_type = OrElse(Attr(e, "type"), <<"text">>)]
    [] NodeIs(e, "subtitle", ns) -> [f EXCEPT !.description = e.text]
    [] NodeIs(e, "link", ns) /\ Attr(e, "rel") = <<"alternate">> -> [f EXCEPT !.link = AbsoluteUrl(base, Attr(e, "href"))]
    [] NodeIs(e, "updated", ns) -> [f EXCEPT !.pubDate = Rfc822(e.text)]
    [] OTHER -> f

IsAtom(version) == version \in {"ATOM_0_3", "ATOM_1_0", "ATOM_0_3_NONS"}
ParsedItem(version, ns, base, entry) ==
  CASE IsAtom(version) -> AtomEntry(entry.elements, ns, OrElse(entry.base, base))
    [] version = "RSS_1_0" -> RdfItem(entry.about, entry.elements)
    [] OTHER -> RssItem(entry.elements, ns, OrElse(entry.base, base))
ParsedFeed(root, base, elements) ==
  FoldLeft(LAMBDA acc, e : IF IsAtom(VersionOf(root)) THEN AtomFeedStep(acc, e, NsOf(root), base)
                           ELSE RssFeedStep(acc, e, NsOf(root), base),
           [NoChannel EXCEPT !.language = IF IsAtom(VersionOf(root)) THEN root.lang ELSE None], elements)

-----------------------------------------------------------------------------
(* rss_parser::fill_feed_fields and fill_feed_items.                         *)
IsHtmlType(type) == type \in {<<"html">>, <<"xhtml">>, <<"application/xhtml+xml">>}
TitleFor(type, title) == IF IsHtmlType(type) /\ title # None THEN <<"rendered">> \o title ELSE title
MakeTitle(link) == IF link = None THEN None ELSE <<"made">> \o link
ParseDate(date) == CASE date # None /\ date[1] = "rfc822" -> date
                     [] date # None /\ date[1] = "w3c" -> Rfc822(date) [] OTHER -> <<"now">>
Rtl == {<<"ar">>, <<"fa">>, <<"ur">>, <<"ps">>, <<"syr">>, <<"dv">>, <<"he">>, <<"yi">>}

GetGuid(it) ==
  CASE it.guid # None -> it.guid
    [] it.guid = None /\ it.link # None -> it.link \o it.pubDate
    [] OTHER -> it.title
Content(it) ==
  LET itunes == IF it.summary = None THEN None ELSE <<"ituneshack">> \o it.summary
  IN  OrElse(OrElse(it.encoded, itunes), it.description)
\* The labels of Google Reader; the last of them that is there counts.
UnreadBy(version, labels) ==
  IF version # "ATOM_1_0" THEN "unread"
  ELSE IF <<"read">> \in labels THEN "read, says the service"
  ELSE IF {<<"fresh">>, <<"kept-unread">>} \cap labels # {} THEN "unread, says the service" ELSE "unread"

Article(version, f, link, it) ==
  [title |-> TitleFor(it.title_type, OrElse(it.title, MakeTitle(it.link))),
   link |-> IF it.link # None THEN AbsoluteUrl(link, it.link) ELSE IF it.permalink THEN it.guid ELSE None,
   author |-> OrElse(it.author, OrElse(f.editor, f.creator)), unread |-> UnreadBy(version, it.labels),
   content |-> Content(it), pubDate |-> ParseDate(it.pubDate), guid |-> GetGuid(it), base |-> it.base,
   enclosure |-> it.enclosure]

Filled(root, base, about, entries) ==
  LET version == VersionOf(root)
      f == ParsedFeed(root, base, about)
      link == AbsoluteUrl(MyUri, f.link)
  IN  IF version = "throws" THEN [ok |-> FALSE]
      ELSE [ok |-> TRUE, title |-> TitleFor(f.title_type, f.title), link |-> link, description |-> f.description,
            pubDate |-> ParseDate(f.pubDate), rtl |-> f.language \in Rtl,
            items |-> [i \in DOMAIN entries |-> Article(version, f, link, ParsedItem(version, NsOf(root), base, entries[i]))]]
Parse(d, order) ==
  Filled(d.root, d.base, order.about,
         [i \in DOMAIN d.entries |-> [base |-> d.entries[i].base, about |-> d.entries[i].about, elements |-> order.entries[i]]])

-----------------------------------------------------------------------------
NotParsed == [ok |-> FALSE]
DocumentsInit == doc \in Documents /\ sent = None /\ stored = NotParsed

\* A server sends the elements of one part of the document in some order, and
\* newsbeuter parses it. One entry is varied at a time.
FirstOrder(d) == [about |-> SetToSeq(d.about), entries |-> [i \in DOMAIN d.entries |-> SetToSeq(d.entries[i].elements)]]
Orders(d) ==
  {[FirstOrder(d) EXCEPT !.about = s] : s \in SetToSeqs(d.about)}
  \cup UNION {{[FirstOrder(d) EXCEPT !.entries[i] = s] : s \in SetToSeqs(d.entries[i].elements)} : i \in DOMAIN d.entries}
Fetch(order) ==
  /\ sent' = order /\ stored' = Parse(doc, order)
  /\ UNCHANGED doc
DocumentsNext == sent = None /\ \E order \in Orders(doc) : Fetch(order)
DocumentsSpec == DocumentsInit /\ [][DocumentsNext]_docVars

-----------------------------------------------------------------------------
(* The order in which a server sends the elements of a feed, or of one of    *)
(* its entries, makes no difference: what replaces something that is missing *)
(* (the creator, the other date, the summary) does so after the last         *)
(* element. Only of two enclosures the last one wins.                        *)
IsEnclosure(e) == e.name \in {"enclosure", "group"} \/ e.ns = "media" \/ Attr(e, "rel") = <<"enclosure">>
AtMostOne(entry) == Cardinality({e \in entry.elements : IsEnclosure(e)}) <= 1
OrderMakesNoDifference ==
  sent # None /\ (\A i \in DOMAIN doc.entries : AtMostOne(doc.entries[i])) => stored = Parse(doc, FirstOrder(doc))
=============================================================================
