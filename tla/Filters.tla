------------------------------ MODULE Filters ------------------------------
(* The filter language: the recursive descent of filter/Parser, the tree     *)
(* that FilterParser builds from its calls with parent pointers, and the     *)
(* matcher that walks it for an article or a feed. One FilterParser is used  *)
(* for one filter after the other; not all of its state is reset. A token is *)
(* a record; characters are left out, and so is the recovery from an error:  *)
(* one error is enough to drop the tree.                                     *)
EXTENDS Integers, Sequences, SequencesExt, FiniteSetsExt, Functions, TLC

CONSTANTS
  Exprs,        \* the filters that are entered
  Matchables    \* articles and feeds: kind, has_feed, attrs

VARIABLES
  gen,      \* the FilterParser: nodes, root, curpos, next_must_descend_right
  written,  \* what its text means; Unwritten if it is not an expression
  valid     \* what parse_string() returned

filterVars == <<gen, written, valid>>
Null == 0
Unwritten == <<>>

-----------------------------------------------------------------------------
(* FilterParser. A node: op, the operands, the parent, and the comparison.   *)
Compare(name, op, lit) == [name |-> name, op |-> op, lit |-> lit]
Node(op, test) == [op |-> op, l |-> Null, r |-> Null, parent |-> Null, test |-> test]
NoTest == [name |-> "", op |-> "", lit |-> ""]

Added(g, node) == [g EXCEPT !.node = Append(@, node)]
New(g) == Len(g.node) + 1

\* An operator goes above curpos, and there it takes the place of curpos.
AddLogop(g, op) ==
  LET e == New(g)
      h == Added(g, [Node(op, NoTest) EXCEPT !.l = g.curpos])
      above == g.node[g.curpos].parent
  IN  IF g.root = Null THEN g
      ELSE IF g.curpos = g.root THEN [h EXCEPT !.root = e, !.curpos = e]
      ELSE [h EXCEPT !.node[above].r = e, !.node[e].parent = above, !.curpos = e]

AddMatchexpr(g, test) ==
  LET e == New(g)
      h == [Added(g, [Node(test.op, test) EXCEPT !.parent = g.curpos]) EXCEPT !.descend = FALSE]
  IN  IF g.curpos = Null THEN [h EXCEPT !.root = e, !.curpos = e]
      ELSE [h EXCEPT !.node[g.curpos].r = e, !.curpos = IF g.descend THEN e ELSE @]

OpenBlock(g) == [g EXCEPT !.descend = TRUE]
\* mutant: curpos stays where the block ended
CloseBlock_Stays(g) == g
CloseBlock(g) == IF g.curpos = g.root THEN g ELSE [g EXCEPT !.curpos = g.node[g.curpos].parent]
\* cleanup() leaves next_must_descend_right as it is.
Cleanup(g) == [g EXCEPT !.node = <<>>, !.root = Null, !.curpos = Null]

-----------------------------------------------------------------------------
(* Scanner and Parser: the state of a run is p: the tokens not yet read, the *)
(* FilterParser, and whether there was an error.                             *)
Token(kind, val) == [kind |-> kind, val |-> val]
La(p) == IF p.toks = <<>> THEN "eof" ELSE Head(p.toks).kind
Val(p) == Head(p.toks).val
Get(p) == [p EXCEPT !.toks = Tail(@)]
SynErr(p) == [p EXCEPT !.ok = FALSE]
Expect(p, kind) == IF La(p) = kind THEN Get(p) ELSE SynErr(p)

Matchexpr(p) ==
  IF Len(p.toks) >= 3 /\ [i \in 1 .. 3 |-> p.toks[i].kind] = <<"ident", "matchop", "literal">>
  THEN [Get(Get(Get(p))) EXCEPT !.gen = AddMatchexpr(@, Compare(p.toks[1].val, p.toks[2].val, p.toks[3].val))]
  ELSE SynErr(p)

RECURSIVE Expr(_), MoreTerms(_)
Term(p) ==
  CASE La(p) = "ident" -> Matchexpr(p)
    [] La(p) = "openblock" ->
         LET inner == Expr([Get(p) EXCEPT !.gen = OpenBlock(@)])
             closed == Expect(inner, "closeblock")
         IN  IF closed.ok THEN [closed EXCEPT !.gen = CloseBlock(@)] ELSE closed
    [] OTHER -> SynErr(p)
MoreTerms(p) ==
  IF p.ok /\ La(p) = "logop"
  THEN MoreTerms(Term([Get(p) EXCEPT !.gen = AddLogop(@, Val(p))]))
  ELSE p
Expr(p) == MoreTerms(Term(p))

\* parse_string
Parsed(g, toks) ==
  LET p == Expr([toks |-> toks, gen |-> Cleanup(g), ok |-> TRUE])
      end == Expect(p, "eof")
      ok == p.ok /\ La(p) = "eof"
  IN  [gen |-> IF ok THEN p.gen ELSE Cleanup(p.gen), ok |-> ok]

-----------------------------------------------------------------------------
(* The matcher. Its exceptions are the result "throws". A text is a record:  *)
(* its words, the number that operator>> reads from it, and the numbers      *)
(* between its colons.                                                       *)
Truth(b) == IF b THEN "yes" ELSE "no"
ItemAttributes == {"title", "link", "author", "content", "date", "guid", "unread", "enclosure_url",
                   "enclosure_type", "flags", "age", "articleindex"}
FeedAttributes == {"feedtitle", "description", "feedlink", "feeddate", "rssurl", "unread_count",
                   "total_count", "tags", "feedindex"}

\* rss_item asks its feed, as long as there is one.
HasAttribute(m, name) ==
  \/ m.kind = "article" /\ name \in ItemAttributes
  \/ (m.kind = "feed" \/ m.has_feed) /\ name \in FeedAttributes
\* feedlink is the feed's title.
GetAttribute(m, name) == m.attrs[IF name = "feedlink" THEN "feedtitle" ELSE name]

IsRegex(lit) == lit.words # <<"(">>
RegexMatches(rx, text) == Range(rx.words) \cap Range(text.words) # {}
Between(lit, n) ==
  Len(lit.parts) >= 2 /\ Min({lit.parts[1], lit.parts[2]}) <= n /\ n <= Max({lit.parts[1], lit.parts[2]})
Holds(op, value, lit) ==
  CASE op = "=" -> value.words = lit.words
    [] op = "<" -> value.number < lit.number
    [] op = ">" -> value.number > lit.number
    [] op = "=~" -> RegexMatches(lit, value)
    [] op = "#" -> \E w \in Range(value.words) : <<w>> = lit.words
    [] op = "between" -> Between(lit, value.number)
Negated == ("!=" :> "=") @@ ("<=" :> ">") @@ (">=" :> "<") @@ ("!~" :> "=~") @@ ("!#" :> "#")
MatchOp(test, m) ==
  LET negates == test.op \in DOMAIN Negated
      op == IF negates THEN Negated[test.op] ELSE test.op
  IN  IF ~HasAttribute(m, test.name) \/ (op = "=~" /\ ~IsRegex(test.lit)) THEN "throws"
      ELSE Truth(Holds(op, GetAttribute(m, test.name), test.lit) # negates)

\* "and" and "or" look at the second operand only if the first leaves it open.
Decides(op) == IF op = "or" THEN "yes" ELSE "no"
Both(op, x, y) == IF x \in {Decides(op), "throws"} THEN x ELSE y
RECURSIVE MatchesR(_, _, _)
MatchesR(g, e, m) ==
  IF e = Null THEN "yes"
  ELSE IF g.node[e].op \in {"and", "or"}
  THEN Both(g.node[e].op, MatchesR(g, g.node[e].l, m), MatchesR(g, g.node[e].r, m))
  ELSE MatchOp(g.node[e].test, m)
Matches(g, m) == MatchesR(g, g.root, m)

-----------------------------------------------------------------------------
(* What is written: a sequence of terms with the operator before each; a     *)
(* term is a comparison or a block around an expression.                     *)
Atom(test) == [block |-> <<>>, test |-> test]
Block(e) == [block |-> e, test |-> NoTest]
IsBlock(t) == t.block # <<>>

RECURSIVE Tokens(_)
Tokens(e) ==
  FlattenSeq([i \in DOMAIN e |->
    (IF i = 1 THEN <<>> ELSE <<Token("logop", e[i].op)>>)
    \o (LET t == e[i].term
        IN  IF IsBlock(t) THEN <<Token("openblock", "(")>> \o Tokens(t.block) \o <<Token("closeblock", ")")>>
            ELSE <<Token("ident", t.test.name), Token("matchop", t.test.op), Token("literal", t.test.lit)>>)])

\* From left to right, "and" and "or" alike; a block by itself.
RECURSIVE Meaning(_, _)
Meaning(e, m) ==
  LET value(t) == IF IsBlock(t) THEN Meaning(t.block, m) ELSE MatchOp(t.test, m)
  IN  FoldLeft(LAMBDA acc, x : Both(x.op, acc, value(x.term)), value(e[1].term), Tail(e))

-----------------------------------------------------------------------------
FiltersInit ==
  /\ gen = [node |-> <<>>, root |-> Null, curpos |-> Null, descend |-> FALSE]
  /\ written = Unwritten /\ valid = FALSE

\* matcher::parse, of an expression or of the beginning of one
ParseString(e, k) ==
  LET toks == Tokens(e)
      p == Parsed(gen, SubSeq(toks, 1, k))
  IN  /\ gen' = p.gen /\ valid' = p.ok
      /\ written' = IF k = Len(toks) THEN e ELSE Unwritten
FiltersNext == \E e \in Exprs : \E k \in 0 .. Len(Tokens(e)) : ParseString(e, k)
FiltersSpec == FiltersInit /\ [][FiltersNext]_filterVars

-----------------------------------------------------------------------------
(* "these comparisons and be logically AND'ed, OR'ed and grouped": a filter  *)
(* that is an expression is accepted and means what is written, for every    *)
(* article and feed, exceptions included (doc/newsbeuter.txt:325-328).       *)
MeansWhatIsWritten ==
  written # Unwritten => valid /\ \A m \in Matchables : Matches(gen, m) = Meaning(written, m)

(* The same for the filters in which no block begins with another one, but   *)
(* for those that the filter begins with: open_block() remembers one block,  *)
(* close_block() goes up once for each.                                      *)
RECURSIVE FlatStarts(_, _)
FlatStarts(e, atStart) ==
  \A i \in DOMAIN e :
    LET t == e[i].term
        first == atStart /\ i = 1
    IN  IsBlock(t) => (first \/ ~IsBlock(t.block[1].term)) /\ FlatStarts(t.block, first)
GroupedAsWritten == written # Unwritten /\ FlatStarts(written, TRUE) => MeansWhatIsWritten
=============================================================================
