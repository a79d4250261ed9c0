----------------------------- MODULE UrlSources -----------------------------
(* Where the list of feeds comes from: the urls file and its reader, OPML    *)
(* files, the five services, and the import and export of OPML. A string is  *)
(* its words, and whether it has quotes around it that belong to it; a line  *)
(* of the urls file is a sequence of such strings, the quotes being syntax   *)
(* then. Left out: escapes, bytes, and NewsBlur without an answer.           *)
EXTENDS Integers, Sequences, SequencesExt, FiniteSetsExt, Functions

CONSTANTS
  Sources,        \* urls-source: "local", "opml", or a service
  UrlsFiles,      \* what the user may write into the urls file
  Opmls,          \* OPML documents: their outlines in the order of the document
  Answers,        \* what a service may answer: sequences of subscriptions
  TitleOrder,     \* the titles in alphabetical order
  MaxNames,       \* bound on the names that ocnews_api remembers
  MaxChanges      \* bound on what the user, imports and the service change

\* Files are sequences of lines, lines of strings, and strings of words; so are
\* the attributes of outlines, and the parent of one comes before it. A service
\* numbers its feeds from 1, each number for one of them; TitleOrder has each
\* title once.
IsList(s) == Len(s) \in Nat /\ s = [k \in 1 .. Len(s) |-> s[k]]
IsText(str) == str.quoted \in BOOLEAN /\ IsList(str.words)
IsLine(line) == IsList(line) /\ \A k \in DOMAIN line : IsText(line[k])
IsFile(lines) == IsList(lines) /\ \A i \in DOMAIN lines : IsLine(lines[i])
IsOutline(o, i) ==
  o.parent \in 0 .. i - 1 /\ \A s \in {o.xmlUrl, o.url, o.filtercmd, o.text, o.title} : IsList(s)
IsDocument(doc) == IsList(doc) /\ \A i \in DOMAIN doc : IsOutline(doc[i], i)
ASSUME UrlsAssumption ==
  /\ \A lines \in UrlsFiles : IsFile(lines)
  /\ \A doc \in Opmls : IsDocument(doc)
  /\ DOMAIN TitleOrder = 1 .. Len(TitleOrder) /\ Len(TitleOrder) \in Nat
  /\ \A i, j \in DOMAIN TitleOrder : TitleOrder[i] = TitleOrder[j] => i = j
  /\ \A s \in Answers :
       /\ DOMAIN s = 1 .. Len(s) /\ Len(s) \in Nat
       /\ \A i \in DOMAIN s : s[i].id # "0" /\ s[i].title \in Range(TitleOrder)
       /\ \A i, j \in DOMAIN s : s[i].id = s[j].id => i = j

VARIABLES
  source, file, opml, answer,
  known,          \* ocnews_api::known_feeds: names, with the number of the feed
  reader,         \* the urlreader: urls, tags, alltags
  changes

urlVars == <<source, file, opml, answer, known, reader, changes>>

Str(words) == [quoted |-> FALSE, words |-> words]
Empty == [urls |-> <<>>, tags |-> <<>>, alltags |-> {}]
Begins(url, scheme) ==
  ~url.quoted /\ Len(url.words[1]) >= Len(scheme) /\ SubSeq(url.words[1], 1, Len(scheme)) = scheme
IsQuery(url) == Begins(url, "query:")
IsSpecial(url) == \E scheme \in {"query:", "filter:", "exec:"} : Begins(url, scheme)

\* get_tags(), and the pushing of a url with the tags it then has
TagsOf(r, url) == IF url \in DOMAIN r.tags THEN r.tags[url] ELSE <<>>
Put(f, k, v) == [x \in DOMAIN f \cup {k} |-> IF x = k THEN v ELSE f[x]]
Tagged(r, url, tags) == [r EXCEPT !.urls = Append(@, url), !.tags = Put(@, url, tags), !.alltags = @ \cup Range(tags)]
Untagged(r, url) == [r EXCEPT !.urls = Append(@, url)]

-----------------------------------------------------------------------------
(* file_urlreader. tokenize_quoted() splits what is not in quotes, up to "#",*)
(* which begins a comment if it is not in quotes.                            *)
Pieces(str) ==
  IF str.quoted THEN <<str>> ELSE [k \in DOMAIN str.words |-> Str(<<str.words[k]>>)]
Tokenized(line) ==
  LET pieces == FoldLeft(LAMBDA acc, str : acc \o Pieces(str), <<>>, line)
      comments == {i \in DOMAIN pieces : pieces[i] = Str(<<"#">>)}
      end == IF comments = {} THEN Len(pieces) ELSE Min(comments) - 1
  IN  [i \in 1 .. end |-> Str(pieces[i].words)]

AddLine(r, line) ==
  LET tokens == Tokenized(line)
  IN  IF tokens = <<>> THEN r
      ELSE IF Len(tokens) = 1 THEN Untagged(r, tokens[1]) ELSE Tagged(r, tokens[1], Tail(tokens))
LoadedUrls(lines) == FoldLeft(AddLine, Empty, lines)

\* write_config(): the tags in quotes, the url as it is
Written(r) == [i \in DOMAIN r.urls |->
  <<r.urls[i]>> \o [k \in DOMAIN TagsOf(r, r.urls[i]) |-> [TagsOf(r, r.urls[i])[k] EXCEPT !.quoted = TRUE]]]

-----------------------------------------------------------------------------
(* OPML. An outline has attributes, <<>> when it lacks one, and a parent, 0  *)
(* if it is in no other; a url with a pipe in front is a program. Both       *)
(* recursions visit the outlines in the order of the document, with the      *)
(* names of the folders above as a tag.                                      *)
Under(tag, text) == IF text = <<>> THEN tag ELSE IF tag = <<>> THEN text ELSE tag \o <<"/">> \o text
Glued(a, b) == Front(a) \o <<Last(a) \o b[1]>> \o Tail(b)
QuoteIfNecessary(words) == [quoted |-> Len(words) > 1, words |-> words]

ImportedUrl(o) ==
  LET named == IF o.xmlUrl # <<>> THEN o.xmlUrl ELSE o.url
      program == IF o.pipe THEN Glued(<<"exec:">>, named) ELSE named
  IN  QuoteIfNecessary(IF o.filtercmd = <<>> THEN program ELSE Glued(Glued(<<"filter:">>, Glued(o.filtercmd, <<":">>)), program))

\* mutant: every url is added
ImportUrl_Always(r, url, tag) == IF tag = <<>> THEN Untagged(r, url) ELSE Tagged(r, url, Append(TagsOf(r, url), Str(tag)))
\* One url of controller::rec_find_rss_outlines: added unless it is there
ImportUrl(r, url, tag) ==
  IF Contains(r.urls, url) THEN r
  ELSE IF tag = <<>> THEN Untagged(r, url)
  ELSE [Untagged(r, url) EXCEPT !.tags = Put(@, url, Append(TagsOf(r, url), Str(tag)))]

\* Per outline the tag of what is in it, if the outlines themselves add names.
TagsBelow(doc, names) ==
  LET below[i \in 0 .. Len(doc)] == IF i = 0 THEN <<>> ELSE Under(below[doc[i].parent], names[i])
  IN  below
IsFeed(o) == o.xmlUrl # <<>> \/ o.url # <<>>
FolderText(o) == IF IsFeed(o) THEN <<>> ELSE IF o.text # <<>> THEN o.text ELSE o.title
ImportOutlines(r, doc) ==
  LET tags == TagsBelow(doc, [i \in DOMAIN doc |-> FolderText(doc[i])])
  IN  FoldLeft(LAMBDA acc, o : IF IsFeed(o) THEN ImportUrl(acc, ImportedUrl(o), tags[o.parent]) ELSE acc, r, doc)

\* opml_urlreader: what is of type rss and has an xmlUrl
FolderTitle(o) == IF o.rss THEN <<>> ELSE o.title
ReadOutline(r, o, tag) ==
  IF ~o.rss \/ o.xmlUrl = <<>> THEN r
  ELSE IF tag = <<>> THEN Untagged(r, Str(o.xmlUrl)) ELSE Tagged(r, Str(o.xmlUrl), <<Str(tag)>>)
ReadOutlines(doc) ==
  LET tags == TagsBelow(doc, [i \in DOMAIN doc |-> FolderTitle(doc[i])])
  IN  FoldLeft(LAMBDA acc, o : ReadOutline(acc, o, tags[o.parent]), Empty, doc)

\* controller::export_opml: every feed of the list but the special ones
ExportedUrl(url) == [xmlUrl |-> url.words, url |-> <<>>, pipe |-> FALSE, filtercmd |-> <<>>,
                     rss |-> TRUE, text |-> <<>>, title |-> <<"t">>, parent |-> 0]
Exported(r) ==
  FoldLeft(LAMBDA outlines, url : IF IsSpecial(url) THEN outlines ELSE Append(outlines, ExportedUrl(url)), <<>>, r.urls)

-----------------------------------------------------------------------------
(* get_subscribed_urls() of the services: urls with their tags. A            *)
(* subscription: id, title, link, folders; special: a special category of    *)
(* Tiny Tiny RSS, a sponsored feed of The Old Reader.                        *)
Entry(url, tags) == [url |-> Str(url), tags |-> [i \in DOMAIN tags |-> Str(<<tags[i]>>)]]
Name(title) == "~" \o title
OfTtrss(s) == [i \in DOMAIN s |-> Entry(<<s[i].link \o "#" \o s[i].id>>, <<Name(s[i].title), s[i].folders[1]>>)]
OfOldReader(s) == [i \in DOMAIN s |-> Entry(<<"oldreader:" \o s[i].id>>, <<Name(s[i].title)>> \o s[i].folders)]
OfFeedHq(s) == [i \in DOMAIN s |-> Entry(<<"feedhq:" \o s[i].id>>, <<Name(s[i].title)>>)]
OfNewsblur(s) == [i \in DOMAIN s |-> Entry(<<s[i].id>>, s[i].folders)]

\* ownCloud News: a name is a title with as many "*" as it takes to be new.
WithStars(title, n) == <<title>> \o [i \in 1 .. n |-> "*"]
\* mutant: the title as it is
FreeName_Title(names, title) == <<title>>
FreeName(names, title) ==
  WithStars(title, Min({n \in 0 .. Cardinality(names) : WithStars(title, n) \notin names}))
NameGiven(acc, sub) ==
  LET name == FreeName(DOMAIN acc.known, sub.title)
  IN  [known |-> Put(acc.known, name, sub.id), list |-> Append(acc.list, Entry(name, SubSeq(sub.folders, 1, 1)))]
Named(k, s) == FoldLeft(NameGiven, [known |-> Put(k, <<"Starred">>, "0"), list |-> <<>>], s)
Position(title) == CHOOSE i \in DOMAIN TitleOrder : TitleOrder[i] = title
Before(x, y) ==
  LET a == x.url.words
      b == y.url.words
  IN  Position(a[1]) < Position(b[1]) \/ (a[1] = b[1] /\ Len(a) < Len(b))
Ahead(list, i) ==
  {j \in DOMAIN list : Before(list[j], list[i]) \/ (j < i /\ ~Before(list[i], list[j]))}
SortedByName(list) ==
  [r \in DOMAIN list |-> list[CHOOSE i \in DOMAIN list : Cardinality(Ahead(list, i)) = r - 1]]
OfOcnews(k, s) == <<Entry(<<"Starred">>, <<>>)>> \o SortedByName(Named(k, s).list)

PlainFeeds(s) == SelectSeq(s, LAMBDA sub : ~sub.special)
Linked(s) == SelectSeq(s, LAMBDA sub : sub.link # "")
Subscribed(src, k, s) ==
  CASE src = "ttrss" -> OfTtrss(PlainFeeds(s))
    [] src = "oldreader" -> OfOldReader(PlainFeeds(s))
    [] src = "feedhq" -> OfFeedHq(s)
    [] src = "newsblur" -> OfNewsblur(Linked(s))
    [] src = "ocnews" -> OfOcnews(k, s)

-----------------------------------------------------------------------------
(* reload() of the readers. Those of the services keep the query feeds of    *)
(* the urls file, two of them without their tags.                            *)
KeepsQueryTags == {"ttrss", "oldreader", "feedhq"}
HasSpecialFeeds == {"oldreader", "feedhq"}
SpecialFeeds == <<Entry(<<"friends">>, <<"~People you follow">>), Entry(<<"starred">>, <<"~Starred items">>),
                  Entry(<<"shared">>, <<"~Shared items">>)>>
SpecialAdded(r, e) == [r EXCEPT !.urls = Append(@, e.url), !.tags = Put(@, e.url, e.tags)]
EntryAdded(r, e) == Tagged(r, e.url, e.tags)
QueryAdded(src, r, fromFile, url) ==
  IF ~IsQuery(url) THEN r
  ELSE IF src \in KeepsQueryTags THEN Tagged(r, url, TagsOf(fromFile, url)) ELSE Untagged(r, url)
QueriesAdded(src, r, fromFile) == FoldLeft(LAMBDA acc, url : QueryAdded(src, acc, fromFile, url), r, fromFile.urls)
Reread(src, lines, docs, k, s) ==
  CASE src = "local" -> LoadedUrls(lines)
    [] src = "opml" -> ReadOutlines(docs)
    [] src \notin {"local", "opml"} ->
         LET special == IF src \in HasSpecialFeeds THEN FoldLeft(SpecialAdded, Empty, SpecialFeeds) ELSE Empty
         IN  FoldLeft(EntryAdded, QueriesAdded(src, special, LoadedUrls(lines)), Subscribed(src, k, s))

-----------------------------------------------------------------------------
UrlsInit ==
  /\ source \in Sources /\ file \in UrlsFiles /\ opml \in Opmls /\ answer \in Answers
  /\ known = <<>> /\ reader = Empty /\ changes = 0

\* The start, and reload-urls later: the same urlreader, the same remote_api.
Reload ==
  /\ reader' = Reread(source, file, opml, known, answer)
  /\ known' = IF source = "ocnews" THEN Named(known, answer).known ELSE known
  /\ Cardinality(DOMAIN known') <= MaxNames /\ <<reader', known'>> # <<reader, known>>
  /\ UNCHANGED <<source, file, opml, answer, changes>>
\* A start of newsbeuter with what there is.
Restart ==
  /\ reader # Empty /\ known # <<>>
  /\ reader' = Empty /\ known' = <<>>
  /\ UNCHANGED <<source, file, opml, answer, changes>>

Change == changes < MaxChanges /\ changes' = changes + 1 /\ UNCHANGED <<source, known, reader>>
EditUrls == Change /\ file' \in UrlsFiles \ {file} /\ UNCHANGED <<opml, answer>>
ServiceChanges == Change /\ answer' \in Answers \ {answer} /\ UNCHANGED <<opml, file>>

\* newsbeuter -i: another process, whatever the source is
Import(doc) ==
  /\ Change
  /\ file' = Written(ImportOutlines(LoadedUrls(file), doc))
  /\ UNCHANGED <<opml, answer>>
\* newsbeuter -e, and the import of what it wrote
ImportOwnExport == source = "local" /\ reader # Empty /\ Import(Exported(reader))

UrlsNext == Reload \/ Restart \/ EditUrls \/ ServiceChanges \/ Import(opml) \/ ImportOwnExport
UrlsSpec == UrlsInit /\ [][UrlsNext]_urlVars

-----------------------------------------------------------------------------
(* "newsbeuter won't destroy your existing configuration, or add             *)
(* subscriptions more than once" (doc/newsbeuter.txt:231): an import keeps   *)
(* every subscription with its tags, in its place, and the same import again *)
(* adds nothing, as long as no url has a blank in it (an argument of a       *)
(* program or a filter, or a query) or begins with "#": write_config() leaves*)
(* the quotes out that the url had, and puts quotes around none but those    *)
(* that are imported.                                                        *)
Kept(r, s) == IsPrefix(r.urls, s.urls) /\ \A u \in Range(r.urls) : TagsOf(s, u) = TagsOf(r, u)
OneWord(r) ==
  \A u \in Range(r.urls) : Len(u.words) = 1 /\ u = Str(<<u.words[1]>>) /\ u.words[1] # "#"
ImportKeepsPlainSubscriptions ==
  [][file' # file /\ Import(opml) /\ OneWord(LoadedUrls(file)) /\ OneWord(ImportOutlines(LoadedUrls(file), opml)) =>
       LET new == LoadedUrls(file')
       IN  /\ Kept(LoadedUrls(file), new)
           /\ LoadedUrls(Written(ImportOutlines(new, opml))) = new]_urlVars

(* With ownCloud News the url of a feed is its name: whatever changed at the *)
(* service before, each name on the list leads to one feed, and two names to *)
(* two feeds, also if they have the same title (ocnews_api::known_feeds).    *)
NameLeadsToFeed ==
  source = "ocnews" =>
    \A i, j \in DOMAIN reader.urls :
      LET a == reader.urls[i]
          b == reader.urls[j]
      IN  ~IsQuery(a) /\ ~IsQuery(b) /\ i # j =>
            a.words \in DOMAIN known /\ b.words \in DOMAIN known /\ known[a.words] # known[b.words]
=============================================================================
