----------------------------- MODULE MCFilters -----------------------------
(* Values for the constants of Filters: filters of three comparisons, each    *)
(* another one, with up to two blocks, one in the other too; articles and     *)
(* feeds that tell the comparisons apart.                                     *)
EXTENDS Integers, Sequences, FiniteSets

Text(words, number, parts) == [words |-> words, number |-> number, parts |-> parts]
Compare(name, op, lit) == [name |-> name, op |-> op, lit |-> lit]
NoTest == Compare("", "", "")
Atom(test) == [block |-> <<>>, test |-> test]
Block(e) == [block |-> e, test |-> NoTest]
Tests == <<Compare("unread", "=", Text(<<"yes">>, 0, <<0>>)),
           Compare("age", "between", Text(<<"3:1">>, 3, <<3, 1>>)),
           Compare("tags", "!#", Text(<<"fun">>, 0, <<0>>)),
           Compare("title", "=~", Text(<<"(">>, 0, <<0>>))>>

RECURSIVE Shapes(_, _, _)
ShapeTerms(lo, hi, depth) ==
  (IF lo = hi THEN {Atom(Tests[lo])} ELSE {})
  \cup (IF depth = 0 THEN {} ELSE {Block(e) : e \in Shapes(lo, hi, depth - 1)})
Shapes(lo, hi, depth) ==
  {<<[op |-> "", term |-> t]>> : t \in ShapeTerms(lo, hi, depth)}
  \cup UNION {{<<[op |-> "", term |-> t]>> \o [rest EXCEPT ![1].op = op] :
                 t \in ShapeTerms(lo, m, depth), rest \in Shapes(m + 1, hi, depth), op \in {"and", "or"}} : m \in lo .. hi - 1}

RECURSIVE Blocks(_, _)
Blocks(e, i) ==
  IF i > Len(e) THEN 0
  ELSE (IF e[i].term.block = <<>> THEN 0 ELSE 1 + Blocks(e[i].term.block, 1)) + Blocks(e, i + 1)
TwoBlocks == {e \in Shapes(1, 3, 2) : Blocks(e, 1) <= 2}

Article(hasFeed, unread, age, tags) ==
  [kind |-> "article", has_feed |-> hasFeed,
   attrs |-> [unread |-> Text(<<unread>>, 0, <<0>>), age |-> Text(<<"n">>, age, <<age>>),
              tags |-> Text(tags, 0, <<0>>), title |-> Text(<<"t">>, 0, <<0>>)]]
Some == {Article(f, u, a, t) : f \in BOOLEAN, u \in {"yes", "no"}, a \in {1, 4}, t \in {<<>>, <<"no", "fun">>}}
        \cup {[kind |-> "feed", has_feed |-> FALSE, attrs |-> [tags |-> Text(<<"fun">>, 0, <<0>>)]]}
=============================================================================
