---------------------------- MODULE MCMainThread ----------------------------
(* What the main thread does by itself: the stack of forms, going through    *)
(* the lists, questions and their histories, the configuration, filters, the *)
(* sources of urls, and documents. These parts share no state, so that a run *)
(* takes one of them at a time, each with its own small instance; the        *)
(* variables of the others keep some first value.                            *)
EXTENDS Lists, MCLists, FormStack, Questions, UrlSources, Documents

CONSTANTS
  Parts     \* the parts a run looks at

VARIABLES
  part,
  settings, commands, saved,
  gen, written, valid

listVars == vars
settingsVars == <<settings, commands, saved>>
filterVars == <<gen, written, valid>>
mainVars == <<part, formVars, listVars, settingsVars, questionVars, filterVars, urlVars, docVars>>

SettingsValues == INSTANCE MCSettings
FilterValues == INSTANCE MCFilters
UrlValues == INSTANCE MCUrlSources
DocumentValues == INSTANCE MCDocuments

S == INSTANCE Settings WITH ConfigFiles <- SettingsValues!Files, SetValues <- SettingsValues!Values, MaxCommands <- 2
F == INSTANCE Filters WITH Exprs <- FilterValues!TwoBlocks, Matchables <- FilterValues!Some
\* Values for the constants of the others
SomeUrlsFiles == UrlValues!Files
SomeOpmls == UrlValues!Docs
SomeAnswers == UrlValues!Lists
EverySource == UrlValues!AllSources
SomeTitles == UrlValues!Titles
SomeDocuments == DocumentValues!Docs
SomeUri == DocumentValues!Uri

-----------------------------------------------------------------------------
\* The variables of a part have any first values in the runs of the part, and
\* the given ones in the others.
Else(p, idle) == part = p \/ idle

MainInit ==
  /\ part \in Parts
  /\ FormsInit
  /\ Init /\ Else("lists", cfg = OnlyHover /\ unread = {} /\ ui.show_feeds /\ ui.show_items)
  /\ S!SettingsInit /\ Else("settings", settings = S!Started(SettingsValues!Files, "no file").s)
  /\ QuestionsInit /\ Else("questions", top = "feeds")
  /\ F!FiltersInit
  /\ UrlsInit /\ Else("urls", /\ source = "local" /\ file = UrlValues!PlainFile /\ opml = UrlValues!Folders
                              /\ answer = <<>>)
  /\ DocumentsInit /\ Else("documents", doc = DocumentValues!Rdf)

MainNext ==
  \/ part = "forms" /\ FormsNext
       /\ UNCHANGED <<part, listVars, settingsVars, questionVars, filterVars, urlVars, docVars>>
  \/ part = "lists" /\ Next
       /\ UNCHANGED <<part, formVars, settingsVars, questionVars, filterVars, urlVars, docVars>>
  \/ part = "settings" /\ S!SettingsNext
       /\ UNCHANGED <<part, formVars, listVars, questionVars, filterVars, urlVars, docVars>>
  \/ part = "questions" /\ QuestionsNext
       /\ UNCHANGED <<part, formVars, listVars, settingsVars, filterVars, urlVars, docVars>>
  \/ part = "filters" /\ F!FiltersNext
       /\ UNCHANGED <<part, formVars, listVars, settingsVars, questionVars, urlVars, docVars>>
  \/ part = "urls" /\ UrlsNext
       /\ UNCHANGED <<part, formVars, listVars, settingsVars, questionVars, filterVars, docVars>>
  \/ part = "documents" /\ DocumentsNext
       /\ UNCHANGED <<part, formVars, listVars, settingsVars, questionVars, filterVars, urlVars>>
MainSpec == MainInit /\ [][MainNext]_mainVars

-----------------------------------------------------------------------------
(* The properties of Settings and Filters; those of the other parts are in   *)
(* their modules.                                                            *)
\* A dumped configuration is the same when it is read again, but for what has
\* no line of its own (Settings: controller::dump_config).
OrdinaryDumpIsReusable == part = "settings" => S!OrdinaryDumpIsReusable
\* A filter in which no inner block begins with a block means what is written
\* (Filters: FilterParser::open_block, close_block).
GroupedAsWritten == part = "filters" => F!GroupedAsWritten
\* "these comparisons and be logically AND'ed, OR'ed and grouped"
\* (doc/newsbeuter.txt:327, of every filter).
MeansWhatIsWritten == part = "filters" => F!MeansWhatIsWritten
=============================================================================
