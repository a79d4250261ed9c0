------------------------------ MODULE Settings ------------------------------
(* The configuration while newsbeuter runs: options (configcontainer), keys  *)
(* and macros (keymap), filters, ignore rules, colours and highlighting; how *)
(* config files change it (configparser), the command line (formaction), and *)
(* how dumpconfig writes it down. A line of a config file is the sequence of *)
(* its tokens, a value the sequence of its words; one option stands for each *)
(* type, one key for each class of operations. Left out: backticks.          *)
EXTENDS Integers, Sequences, SequencesExt, Functions

CONSTANTS
  ConfigFiles,  \* contents of the files, by name: sequences of lines
  SetValues,    \* what :set is given: pairs of a name and a value
  MaxCommands   \* bound on the commands given in a session

VARIABLES
  settings,     \* the objects that are config_action_handlers, a record
  commands,     \* how many commands were given
  saved         \* the file written by dumpconfig, or NoFile

settingsVars == <<settings, commands, saved>>
NoFile == <<>>

\* configcontainer: the table of options. A value is a sequence of words.
Option(type, default, multi) == [type |-> type, default |-> default, multi |-> multi]
Options == [
  reload   |-> Option("BOOL", <<"no">>, FALSE),
  retries  |-> Option("INT", <<"1">>, FALSE),
  browser  |-> Option("PATH", <<"lynx">>, FALSE),
  proxy    |-> Option("ENUM", <<"http">>, FALSE),
  opml_url |-> Option("STR", <<>>, TRUE)]
Bools == {"yes", "no", "true", "false"}
Numbers == {"", "0", "1", "2"}
EnumValues == {"http", "socks5"}
Is(type, word) ==
  CASE type = "BOOL" -> word \in Bools [] type = "INT" -> word \in Numbers
    [] type = "ENUM" -> word \in EnumValues [] OTHER -> TRUE

\* keymap: the keys in the order of std::map, the operations and their classes.
Keys == <<"1", "DOWN", "j", "q">>
Dialogs == {"articlelist", "feedlist"}
Contexts == Dialogs \cup {"all"}
NoOp == "<none>"
Class == [quit |-> "plain", open |-> "plain", down |-> "cursor", one |-> "late"]
DefaultKeys == [c \in Contexts |->
  [k \in Range(Keys) |->
    IF c = "all" THEN NoOp
    ELSE CASE k = "1" -> "one" [] k = "DOWN" -> "down" [] k = "q" -> "quit" [] OTHER -> NoOp]]
Opcode(word) == IF word \in DOMAIN Class THEN word ELSE NoOp

\* regexmanager, colormanager; what cannot be parsed is "(".
Locations == <<"article", "articlelist", "feedlist">>
Elements == {"background", "info"}
Colors == {"default", "red"}
Attributes == {"default", "bold"}
Parses(expr) == expr # "("

Fresh == [opts |-> [o \in DOMAIN Options |-> [typed |-> TRUE, value |-> Options[o].default]],
          keys |-> DefaultKeys, macros |-> <<>>, filters |-> <<>>, ignores |-> <<>>,
          always |-> <<>>, resets |-> <<>>, colors |-> <<>>,
          marks |-> [l \in Range(Locations) |-> <<>>], matchers |-> <<>>, cheat_store |-> <<>>,
          included |-> {}]

-----------------------------------------------------------------------------
(* keymap::handle_action.                                                    *)
With(c) == IF c = "all" THEN Contexts ELSE {c}
SetKey(keys, k, op, c) == [d \in Contexts |-> IF d \in With(c) THEN [keys[d] EXCEPT ![k] = op] ELSE keys[d]]

\* getkey(): the first key in the first context that has one, or "<none>"
KeysFor(keys, op, c) == SelectSeq(Keys, LAMBDA k : keys[c][k] = op)
GetKey(keys, op, c) ==
  LET inOrder == IF c = "all" THEN <<"all", "feedlist", "articlelist">> ELSE <<c>>
      found == SelectSeq(inOrder, LAMBDA d : KeysFor(keys, op, d) # <<>>)
  IN  IF found = <<>> THEN NoOp ELSE Head(KeysFor(keys, op, Head(found)))
UnsetKey(keys, k, c) == IF k = NoOp THEN keys ELSE SetKey(keys, k, NoOp, c)

ContextOf(params, i) == IF Len(params) >= i THEN params[i] ELSE "all"
BindKey(keys, p) ==
  LET op == Opcode(p[2])
      c == ContextOf(p, 3)
      left == IF op # NoOp /\ Class[op] = "cursor" THEN UnsetKey(keys, GetKey(keys, op, c), c) ELSE keys
  IN  SetKey(left, p[1], op, c)

\* macro: commands with their arguments, separated by ";"
NoCmd == [op |-> NoOp, args |-> <<>>]
Pushed(m) == IF m.cmd.op = NoOp THEN m.cmds ELSE Append(m.cmds, m.cmd)
MacroWord(m, w) ==
  IF w = ";" THEN [m EXCEPT !.cmds = Pushed(m), !.cmd = NoCmd, !.first = TRUE]
  ELSE IF m.first THEN [m EXCEPT !.cmd = [NoCmd EXCEPT !.op = Opcode(w)], !.first = FALSE,
                                 !.ok = @ /\ Opcode(w) # NoOp]
  ELSE [m EXCEPT !.cmd.args = Append(@, w)]
Macro(words) == FoldLeft(MacroWord, [cmds |-> <<>>, cmd |-> NoCmd, first |-> TRUE, ok |-> TRUE], words)

-----------------------------------------------------------------------------
(* A line: whether its handler accepts it, and what it does then.            *)
Styled(p, i) == \A k \in i .. Len(p) : p[k] \in (IF k < i + 2 THEN Colors ELSE Attributes)

OptionAccepts(cmd, p) == Len(p) >= 1 /\ Is(Options[cmd].type, p[1])
KeymapAccepts(cmd, p) ==
  CASE cmd = "bind-key" -> Len(p) >= 2 /\ ContextOf(p, 3) \in Contexts
    [] cmd = "unbind-key" -> Len(p) >= 1
    [] cmd = "macro" -> Len(p) >= 1 /\ Macro(Tail(p)).ok
IgnoreAccepts(cmd, p) == cmd = "ignore-article" => Len(p) >= 2 /\ Parses(p[2])
FilterAccepts(p) == Len(p) >= 2 /\ Parses(p[2])
ColorAccepts(p) == Len(p) >= 3 /\ p[1] \in Elements /\ Styled(p, 2)
RegexAccepts(cmd, p) ==
  CASE cmd = "highlight" -> Len(p) >= 3 /\ p[1] \in Range(Locations) \cup {"all"} /\ Parses(p[2]) /\ Styled(p, 3)
    [] cmd = "highlight-article" -> Len(p) >= 3 /\ Parses(p[1]) /\ Styled(p, 2)

Marked(s, p) ==
  [s EXCEPT !.marks = [l \in DOMAIN @ |-> IF p[1] \in {l, "all"}
                         THEN Append(@[l], [rx |-> p[2], style |-> SubSeq(p, 3, Len(p))]) ELSE @[l]],
            !.cheat_store = Append(@, <<"highlight">> \o p)]
Matched(s, p) ==
  [s EXCEPT !.matchers = Append(@, <<p[1], Len(s.marks["articlelist"])>>),
            !.marks["articlelist"] = Append(@, [rx |-> "", style |-> SubSeq(p, 2, Len(p))])]
Put(f, k, v) == [x \in DOMAIN f \cup {k} |-> IF x = k THEN v ELSE f[x]]

OptionEffect(s, cmd, p) ==
  [s EXCEPT !.opts[cmd] = [typed |-> TRUE, value |-> IF Options[cmd].multi THEN p ELSE <<p[1]>>]]
KeymapEffect(s, cmd, p) ==
  CASE cmd = "bind-key" -> [s EXCEPT !.keys = BindKey(@, p)]
    [] cmd = "unbind-key" -> [s EXCEPT !.keys = UnsetKey(@, p[1], ContextOf(p, 2))]
    [] cmd = "macro" -> [s EXCEPT !.macros = Put(@, p[1], Pushed(Macro(Tail(p))))]
IgnoreEffect(s, cmd, p) ==
  CASE cmd = "ignore-article" -> [s EXCEPT !.ignores = Append(@, <<p[1], p[2]>>)]
    [] cmd = "always-download" -> [s EXCEPT !.always = @ \o p]
    [] cmd = "reset-unread-on-update" -> [s EXCEPT !.resets = @ \o p]
FilterEffect(s, p) == [s EXCEPT !.filters = Append(@, <<p[1], p[2]>>)]
ColorEffect(s, p) == [s EXCEPT !.colors = Put(@, p[1], Tail(p))]

\* action_handlers: which object handles which command
KeymapCommands == {"bind-key", "unbind-key", "macro"}
IgnoreCommands == {"ignore-article", "always-download", "reset-unread-on-update"}
Accepts(cmd, p) ==
  \/ cmd \in DOMAIN Options /\ OptionAccepts(cmd, p)
  \/ cmd \in KeymapCommands /\ KeymapAccepts(cmd, p)
  \/ cmd \in IgnoreCommands /\ IgnoreAccepts(cmd, p)
  \/ cmd = "define-filter" /\ FilterAccepts(p)
  \/ cmd = "color" /\ ColorAccepts(p)
  \/ cmd \in {"highlight", "highlight-article"} /\ RegexAccepts(cmd, p)
Effect(s, cmd, p) ==
  CASE cmd \in DOMAIN Options -> OptionEffect(s, cmd, p)
    [] cmd \in KeymapCommands -> KeymapEffect(s, cmd, p)
    [] cmd \in IgnoreCommands -> IgnoreEffect(s, cmd, p)
    [] cmd = "define-filter" -> FilterEffect(s, p)
    [] cmd = "color" -> ColorEffect(s, p)
    [] cmd = "highlight" -> Marked(s, p)
    [] cmd = "highlight-article" -> Matched(s, p)

(* configparser::parse: line by line until one fails; a file is included     *)
(* once. ok: no exception; found: the file could be opened.                  *)
RECURSIVE Parse(_, _, _)
ParseLine(files, r, line) ==
  LET cmd == line[1]
      p == Tail(line)
      inner == Parse(files, r.s, p[1])
  IN  CASE ~r.ok \/ line = <<>> -> r
        [] r.ok /\ line # <<>> /\ cmd = "include" ->
             IF p = <<>> THEN [r EXCEPT !.ok = FALSE]
             ELSE IF p[1] \in r.s.included THEN r
             ELSE [inner EXCEPT !.ok = @ /\ inner.found, !.found = TRUE]
        [] r.ok /\ line # <<>> /\ cmd # "include" ->
             IF Accepts(cmd, p) THEN [r EXCEPT !.s = Effect(@, cmd, p)] ELSE [r EXCEPT !.ok = FALSE]
Parse(files, s, name) ==
  LET r == [s |-> [s EXCEPT !.included = @ \cup {name}], ok |-> TRUE, found |-> name \in DOMAIN files]
  IN  IF ~r.found THEN r ELSE FoldLeft(LAMBDA acc, line : ParseLine(files, acc, line), r, files[name])

-----------------------------------------------------------------------------
(* controller::dump_config: one line after the other.                        *)
RECURSIVE Lines(_, _)
Lines(Line(_), xs) == IF xs = <<>> THEN <<>> ELSE Line(Head(xs)) \o Lines(Line, Tail(xs))
InOrder(set) == SetToSeq(set)

\* An empty word is written as "" but where the value is not quoted.
Unquoted(words) == SelectSeq(words, LAMBDA w : w # "")
OptionLine(s, o) ==
  <<<<o>> \o (IF Options[o].type \in {"BOOL", "INT"} \/ Options[o].multi
              THEN Unquoted(s.opts[o].value) ELSE s.opts[o].value)>>

\* mutant: only the keys that are bound
KeyLines_OnlyBound(s, c) ==
  Lines(LAMBDA k : IF s.keys[c][k] # NoOp /\ Class[s.keys[c][k]] # "late"
                   THEN <<<<"bind-key", k, s.keys[c][k], c>>>> ELSE <<>>, Keys)
\* Operations above OP_INT_MIN are left out.
KeyLines(s, c) ==
  Lines(LAMBDA k : IF s.keys[c][k] = NoOp \/ Class[s.keys[c][k]] # "late"
                   THEN <<<<"bind-key", k, s.keys[c][k], c>>>> ELSE <<>>, Keys)
\* With two commands or more there is a ";" after each, the last one too.
MacroLine(s, k) ==
  LET cmds == s.macros[k]
  IN  <<<<"macro", k>> \o Lines(LAMBDA c : <<c.op>> \o c.args \o (IF Len(cmds) > 1 THEN <<";">> ELSE <<>>), cmds)>>

IgnoreLines(s) ==
  Lines(LAMBDA x : <<<<"ignore-article">> \o x>>, s.ignores)
  \o Lines(LAMBDA u : <<<<"always-download", u>>>>, s.always)
  \o Lines(LAMBDA u : <<<<"reset-unread-on-update", u>>>>, s.resets)
FilterLines(s) == Lines(LAMBDA x : <<<<"define-filter">> \o x>>, s.filters)
ColorLines(s) == Lines(LAMBDA e : <<<<"color", e>> \o s.colors[e]>>, InOrder(DOMAIN s.colors))

Dump(s) ==
  Lines(LAMBDA o : OptionLine(s, o), InOrder(DOMAIN Options))
  \o Lines(LAMBDA c : KeyLines(s, c), InOrder(Dialogs))
  \o Lines(LAMBDA k : MacroLine(s, k), InOrder(DOMAIN s.macros))
  \o IgnoreLines(s) \o FilterLines(s) \o ColorLines(s) \o s.cheat_store

-----------------------------------------------------------------------------
(* Starting with a config file; what the user does then.                     *)
Started(files, name) == Parse(files, Fresh, name)

SettingsInit ==
  /\ \E f \in DOMAIN ConfigFiles \cup {"no file"} :
       Started(ConfigFiles, f).ok /\ settings = Started(ConfigFiles, f).s
  /\ commands = 0 /\ saved = NoFile

Given == commands < MaxCommands /\ commands' = commands + 1 /\ UNCHANGED saved

\* :source, controller::load_configfile. The lines before an error have had
\* their effect.
Source(f) == Given /\ settings' = Parse(ConfigFiles, settings, f).s

\* :set name=value, without a look at the type
SetValue == /\ Given /\ \E v \in SetValues :
                 settings' = [settings EXCEPT !.opts[v[1]] = [typed |-> Is(Options[v[1]].type, v[2]), value |-> <<v[2]>>]]
\* :set name!
Toggle ==
  /\ Given /\ \E o \in DOMAIN Options :
       settings' = IF Options[o].type # "BOOL" THEN settings
                   ELSE LET on == settings.opts[o].value[1] \in {"true", "yes"}
                        IN  [settings EXCEPT !.opts[o] = [typed |-> TRUE, value |-> <<IF on THEN "false" ELSE "true">>]]
\* :set name&
ResetToDefault ==
  /\ Given /\ \E o \in DOMAIN Options :
       settings' = [settings EXCEPT !.opts[o] = [typed |-> TRUE, value |-> Options[o].default]]

DumpConfig == saved # Dump(settings) /\ saved' = Dump(settings) /\ UNCHANGED <<settings, commands>>

\* A new process with what was saved as its config file; an error ends it.
Restart ==
  /\ saved # NoFile /\ Started([saved |-> saved], "saved").ok
  /\ settings' = Started([saved |-> saved], "saved").s /\ settings' # settings
  /\ UNCHANGED <<commands, saved>>

SettingsNext ==
  \/ \E f \in DOMAIN ConfigFiles : Source(f)
  \/ SetValue \/ Toggle \/ ResetToDefault \/ DumpConfig \/ Restart
SettingsSpec == SettingsInit /\ [][SettingsNext]_settingsVars

-----------------------------------------------------------------------------
(* "Save current internal state of configuration to file, so that it can be  *)
(* instantly reused as configuration file" (doc/newsbeuter.txt:314).         *)
Works(s) == [s EXCEPT !.keys = [d \in Dialogs |-> s.keys[d]], !.cheat_store = <<>>, !.included = {}]
Reread(s) == Started([saved |-> Dump(s)], "saved")
DumpIsReusable == Reread(settings).ok /\ Works(Reread(settings).s) = Works(settings)

(* The same, but for what dump_config() has no line for, or none that can be *)
(* read: a list option or a number that is empty, a value that :set gave the *)
(* wrong type, highlight-article, the operations beyond OP_INT_MIN, and two  *)
(* keys of one dialog for an operation that moves the cursor.                *)
Dumpable(s) ==
  /\ \A o \in DOMAIN Options :
       s.opts[o].typed /\ (Options[o].multi \/ Options[o].type = "INT" => Unquoted(s.opts[o].value) # <<>>)
  /\ s.matchers = <<>>
  /\ \A d \in Dialogs : /\ \A k \in Range(Keys) : (s.keys[d][k] = "one") <=> (k = "1")
                        /\ Len(KeysFor(s.keys, "down", d)) <= 1
OrdinaryDumpIsReusable == Dumpable(settings) => DumpIsReusable
=============================================================================
