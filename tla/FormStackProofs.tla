---------------------------- MODULE FormStackProofs ----------------------------
(* Proofs about FormStack for any forms: the stack implements the tree of    *)
(* open dialogs.                                                             *)
EXTENDS FormStack, SequenceTheorems, FiniteSetTheorems, TLAPS

-----------------------------------------------------------------------------
(* The inductive invariant                                                   *)

Pointers == Forms \cup {NoForm}
Views == [stack : Seq(Pointers), current : Int, parent : [Forms -> Pointers]]

Distinct(s) == \A i, j \in DOMAIN s : s[i] = s[j] => i = j
\* All but the form at the bottom have another one of the stack as parent.
Parents(v) == \A i \in DOMAIN v.stack : i > 1 /\ v.stack[i] # NoForm =>
                v.parent[v.stack[i]] \in InStack(v.stack) \ {NoForm, v.stack[i]}
\* The stack and its positions are sound.
Sound(v) == /\ v \in Views /\ Distinct(v.stack) /\ Parents(v)
            /\ v.stack # <<>> => v.current \in 0 .. Len(v.stack) - 1

Special == DialogLists \cup Modal

TypeOK ==
  /\ View \in Views
  /\ rows \in [DialogLists -> Seq(Pointers)]
  /\ loops \in Seq([size : Nat, form : Modal])
  /\ asking \in [form : Pointers, what : {"nothing", "quit", "overwrite", "other"}]
  /\ quitting \in BOOLEAN /\ crashed \in BOOLEAN
  /\ astray \subseteq Special \cap InStack(stack) /\ shifted \subseteq DialogLists \cap astray

\* The empty pointer is in the stack only while a question is asked, and on top.
AskInv ==
  /\ asking = Nobody => NoForm \notin InStack(stack)
  /\ asking # Nobody => /\ ~quitting
                        /\ current = Len(stack) - 1 /\ stack[Len(stack)] = NoForm
                        /\ asking.form \in InStack(stack) \cap (Forms \ DialogLists)
                        /\ asking.what = "overwrite" => asking.form \in Modal
\* A list of dialogs or a modal form that is not astray is on top, and on screen or
\* asking.
TopInv ==
  ~quitting => \A i \in DOMAIN stack : stack[i] \in Special \ astray =>
    /\ asking = Nobody => i = Len(stack) /\ current = i - 1
    /\ asking # Nobody => i = Len(stack) - 1 /\ stack[i] = asking.form
\* A list of dialogs that is not shifted was drawn before it went astray; if it is the
\* only one, its lines are the stack below it.
IsBelow(lines, p) == Len(lines) = p - 1 /\ \A i \in 1 .. p - 1 : lines[i] = stack[i]
LinesInv ==
  ~quitting => \A p \in DOMAIN stack : stack[p] \in DialogLists \ shifted =>
    /\ rows[stack[p]] = <<>> => stack[p] \notin astray
    /\ rows[stack[p]] # <<>> /\ DialogLists \cap InStack(stack) \subseteq {stack[p]} => IsBelow(rows[stack[p]], p)

FormsInv ==
  /\ TypeOK /\ Sound(View) /\ AskInv /\ TopInv /\ LinesInv
  /\ ~crashed
  /\ ~quitting => stack # <<>> /\ stack[1] = FeedList

\* A line of a list of dialogs that is out of step may lead beyond the stack: then
\* nothing else happens.
Inv == TypeOK /\ (crashed \/ FormsInv)

-----------------------------------------------------------------------------
(* Stacks                                                                    *)

\* A sequence without one of its elements.
LEMMA RemovedElements ==
  ASSUME NEW S, NEW s \in Seq(S), NEW p \in 1 .. Len(s)
  PROVE  /\ RemoveAt(s, p) \in Seq(S) /\ Len(RemoveAt(s, p)) = Len(s) - 1
         /\ \A i \in 1 .. Len(s) - 1 : RemoveAt(s, p)[i] = IF i < p THEN s[i] ELSE s[i + 1]
<1>1. SubSeq(s, 1, p - 1) \in Seq(S) /\ SubSeq(s, p + 1, Len(s)) \in Seq(S)
  OBVIOUS
<1>2. Len(SubSeq(s, 1, p - 1)) = p - 1 /\ Len(SubSeq(s, p + 1, Len(s))) = Len(s) - p
  OBVIOUS
<1>3. \A i \in 1 .. p - 1 : SubSeq(s, 1, p - 1)[i] = s[i]
  OBVIOUS
<1>4. \A i \in 1 .. Len(s) - p : SubSeq(s, p + 1, Len(s))[i] = s[i + p]
  OBVIOUS
<1> DEFINE a == SubSeq(s, 1, p - 1)
           b == SubSeq(s, p + 1, Len(s))
<1>5. RemoveAt(s, p) = a \o b
  BY DEF RemoveAt
<1> HIDE DEF a, b
<1>6. a \in Seq(S) /\ b \in Seq(S) /\ Len(a) = p - 1 /\ Len(b) = Len(s) - p
  BY <1>1, <1>2 DEF a, b
<1>7. (a \o b) \in Seq(S) /\ Len(a \o b) = Len(s) - 1
  BY <1>6
<1>8. ASSUME NEW i \in 1 .. Len(s) - 1
      PROVE  (a \o b)[i] = IF i < p THEN s[i] ELSE s[i + 1]
  <2>1. CASE i < p
    <3>1. (a \o b)[i] = a[i] /\ i \in 1 .. p - 1
      BY <1>6, <2>1
    <3>. QED
      BY <1>3, <2>1, <3>1 DEF a
  <2>2. CASE ~(i < p)
    <3>1. (a \o b)[i] = b[i - Len(a)]
      BY <1>6, <2>2
    <3>2. i - Len(a) = i - p + 1 /\ i - p + 1 \in 1 .. Len(s) - p /\ (i - p + 1) + p = i + 1
      BY <1>6, <2>2
    <3>. QED
      BY <1>4, <2>2, <3>1, <3>2 DEF b
  <2>. QED
    BY <2>1, <2>2
<1>. QED
  BY <1>5, <1>7, <1>8

LEMMA RemovedFromStack ==
  ASSUME NEW s \in Seq(Pointers), Distinct(s), NEW p \in 1 .. Len(s)
  PROVE  /\ RemoveAt(s, p) \in Seq(Pointers) /\ Len(RemoveAt(s, p)) = Len(s) - 1
         /\ Distinct(RemoveAt(s, p)) /\ InStack(RemoveAt(s, p)) = InStack(s) \ {s[p]}
<1> DEFINE t == RemoveAt(s, p)
<1>1. /\ t \in Seq(Pointers) /\ Len(t) = Len(s) - 1
      /\ \A i \in 1 .. Len(s) - 1 : t[i] = IF i < p THEN s[i] ELSE s[i + 1]
  BY RemovedElements
<1> HIDE DEF t
<1>2. DOMAIN s = 1 .. Len(s) /\ DOMAIN t = 1 .. Len(s) - 1 /\ Len(s) \in Nat
  BY <1>1
<1>3. Distinct(t)
  <2>. SUFFICES ASSUME NEW i \in 1 .. Len(s) - 1, NEW j \in 1 .. Len(s) - 1, t[i] = t[j]
                PROVE  i = j
    BY <1>2 DEF Distinct
  <2> DEFINE old(k) == IF k < p THEN k ELSE k + 1
  <2>1. old(i) \in 1 .. Len(s) /\ old(j) \in 1 .. Len(s) /\ (old(i) = old(j) => i = j)
    BY <1>2
  <2>2. t[i] = s[old(i)] /\ t[j] = s[old(j)]
    BY <1>1
  <2>. QED
    BY <1>2, <2>1, <2>2 DEF Distinct
<1>4. InStack(t) \subseteq InStack(s) \ {s[p]}
  <2>. SUFFICES ASSUME NEW i \in 1 .. Len(s) - 1
                PROVE  t[i] \in InStack(s) \ {s[p]}
    BY <1>2 DEF InStack
  <2> DEFINE k == IF i < p THEN i ELSE i + 1
  <2>1. k \in 1 .. Len(s) /\ k # p /\ t[i] = s[k]
    BY <1>1, <1>2
  <2> HIDE DEF k
  <2>. QED
    BY <1>2, <2>1 DEF Distinct, InStack
<1>5. InStack(s) \ {s[p]} \subseteq InStack(t)
  <2>. SUFFICES ASSUME NEW k \in 1 .. Len(s), s[k] # s[p]
                PROVE  s[k] \in InStack(t)
    BY <1>2 DEF InStack
  <2> DEFINE i == IF k < p THEN k ELSE k - 1
  <2>1. i \in 1 .. Len(s) - 1 /\ k = IF i < p THEN i ELSE i + 1
    <3>1. k # p
      OBVIOUS
    <3>. QED
      BY <1>2, <3>1
  <2>2. t[i] = s[k]
    BY <1>1, <2>1
  <2> HIDE DEF i
  <2>. QED
    BY <1>2, <2>1, <2>2 DEF InStack
<1>. QED
  BY <1>1, <1>3, <1>4, <1>5 DEF t

LEMMA AppendedToStack ==
  ASSUME NEW s \in Seq(Pointers), Distinct(s), NEW f \in Pointers \ InStack(s)
  PROVE  /\ Append(s, f) \in Seq(Pointers) /\ Len(Append(s, f)) = Len(s) + 1
         /\ Distinct(Append(s, f)) /\ InStack(Append(s, f)) = InStack(s) \cup {f}
         /\ Append(s, f)[Len(s) + 1] = f /\ \A i \in DOMAIN s : Append(s, f)[i] = s[i]
<1> DEFINE t == Append(s, f)
<1>1. /\ t \in Seq(Pointers) /\ Len(t) = Len(s) + 1 /\ t[Len(s) + 1] = f
      /\ \A i \in 1 .. Len(s) : t[i] = s[i]
  OBVIOUS
<1> HIDE DEF t
<1>2. DOMAIN s = 1 .. Len(s) /\ DOMAIN t = 1 .. Len(s) + 1 /\ Len(s) \in Nat
  BY <1>1
<1>3. \A i \in 1 .. Len(s) : s[i] # f
  BY <1>2 DEF InStack
<1>4. \A i \in 1 .. Len(s) + 1 : i \in 1 .. Len(s) \/ i = Len(s) + 1
  BY <1>2
<1>5. Distinct(t)
  BY <1>1, <1>2, <1>3, <1>4 DEF Distinct
<1>6. InStack(t) = InStack(s) \cup {f}
  BY <1>1, <1>2, <1>4 DEF InStack
<1>. QED
  BY <1>1, <1>2, <1>5, <1>6 DEF t

-----------------------------------------------------------------------------
(* The functions of view                                                     *)

\* Taking out one of the forms keeps the rest in order, and a form above the
\* bottom still has another one of the stack as parent.
LEMMA TakenOutView ==
  ASSUME NEW v, Sound(v), NEW pos \in 0 .. Len(v.stack) - 1,
         v.stack[pos + 1] = NoForm \/ NoForm \notin InStack(v.stack)
  PROVE  /\ TakenOut(v, pos) \in Views /\ Distinct(TakenOut(v, pos).stack) /\ Parents(TakenOut(v, pos))
         /\ TakenOut(v, pos).stack = RemoveAt(v.stack, pos + 1)
         /\ TakenOut(v, pos).current = v.current
         /\ \A g \in Forms \ {v.stack[pos + 1]} : TakenOut(v, pos).parent[g] =
              IF v.stack[pos + 1] # NoForm /\ v.parent[g] = v.stack[pos + 1]
                THEN IF RemoveAt(v.stack, pos + 1) = <<>> THEN NoForm ELSE RemoveAt(v.stack, pos + 1)[1]
                ELSE v.parent[g]
<1> DEFINE f == v.stack[pos + 1]
           s == RemoveAt(v.stack, pos + 1)
           heir == IF s = <<>> THEN NoForm ELSE s[1]
           par == [g \in Forms |-> CASE g = f -> NoForm
                                     [] g # f /\ f # NoForm /\ v.parent[g] = f -> heir
                                     [] OTHER -> v.parent[g]]
           t == [v EXCEPT !.stack = s, !.parent = par]
<1>1. v \in Views /\ Distinct(v.stack) /\ Parents(v)
  BY DEF Sound
<1>2. v.stack \in Seq(Pointers) /\ v.current \in Int /\ v.parent \in [Forms -> Pointers] /\ Len(v.stack) \in Nat
  BY <1>1 DEF Views
<1>3. pos + 1 \in 1 .. Len(v.stack)
  BY <1>2
<1>4. /\ s \in Seq(Pointers) /\ Len(s) = Len(v.stack) - 1
      /\ Distinct(s) /\ InStack(s) = InStack(v.stack) \ {f}
  BY <1>1, <1>2, <1>3, RemovedFromStack
<1>5. \A i \in 1 .. Len(v.stack) - 1 : s[i] = IF i < pos + 1 THEN v.stack[i] ELSE v.stack[i + 1]
  BY <1>2, <1>3, RemovedElements
<1>6. TakenOut(v, pos) = t
  BY DEF TakenOut
<1> HIDE DEF s
<1>7. NoForm \notin InStack(s)
  BY <1>4
<1>8. heir \in Pointers /\ f \in Pointers
  <2>1. f \in Pointers
    BY <1>2, <1>3
  <2>2. s # <<>> => s[1] \in Pointers
    BY <1>4
  <2>3. NoForm \in Pointers
    BY DEF Pointers
  <2>. QED
    BY <2>1, <2>2, <2>3
<1> HIDE DEF heir, f
<1>9. par \in [Forms -> Pointers]
  <2>. SUFFICES ASSUME NEW g \in Forms
                PROVE  (CASE g = f -> NoForm
                          [] g # f /\ f # NoForm /\ v.parent[g] = f -> heir
                          [] OTHER -> v.parent[g]) \in Pointers
    OBVIOUS
  <2>1. v.parent[g] \in Pointers /\ NoForm \in Pointers
    BY <1>2 DEF Pointers
  <2>2. CASE g = f
    BY <2>1, <2>2
  <2>3. CASE g # f /\ f # NoForm /\ v.parent[g] = f
    BY <1>8, <2>3
  <2>4. CASE g # f /\ ~(f # NoForm /\ v.parent[g] = f)
    BY <2>1, <2>4
  <2>. QED
    BY <2>2, <2>3, <2>4
<1>10. \A g \in Forms \ {f} : par[g] = IF f # NoForm /\ v.parent[g] = f THEN heir ELSE v.parent[g]
  OBVIOUS
<1> HIDE DEF par
<1>11. t \in Views /\ t.stack = s /\ t.parent = par /\ t.current = v.current
  BY <1>1, <1>4, <1>9 DEF Views
<1>12. Parents(t)
  <2>. SUFFICES ASSUME NEW i \in 1 .. Len(s), i > 1, s[i] # NoForm
                PROVE  par[s[i]] \in InStack(s) \ {NoForm, s[i]}
    BY <1>4, <1>11 DEF Parents
  <2> DEFINE g == s[i]
  <2>1. PICK k \in 1 .. Len(v.stack) : k > 1 /\ s[i] = v.stack[k]
    <3> DEFINE k == IF i < pos + 1 THEN i ELSE i + 1
    <3>1. k \in 1 .. Len(v.stack) /\ k > 1
      BY <1>2, <1>4
    <3>2. s[i] = v.stack[k]
      BY <1>4, <1>5
    <3>. QED
      BY <3>1, <3>2
  <2>2. DOMAIN v.stack = 1 .. Len(v.stack) /\ DOMAIN s = 1 .. Len(s)
    BY <1>2, <1>4
  <2>3. v.parent[g] \in InStack(v.stack) \ {NoForm, g}
    BY <1>1, <2>1, <2>2 DEF Parents
  <2>4. g \in InStack(s) /\ g # f /\ g \in Forms
    <3>1. g \in InStack(s)
      BY <2>2 DEF InStack
    <3>2. g \in Pointers
      BY <1>4
    <3>. QED
      BY <1>4, <3>1, <3>2 DEF Pointers
  <2>5. CASE f # NoForm /\ v.parent[g] = f
    <3>1. s[1] \in InStack(s) /\ s[1] # g /\ s # <<>>
      <4>1. 1 \in DOMAIN s /\ i \in DOMAIN s /\ 1 # i
        BY <1>4, <2>2
      <4>2. s[1] # s[i]
        BY <1>4, <4>1 DEF Distinct
      <4>. QED
        BY <4>1, <4>2 DEF InStack
    <3>2. heir = s[1] /\ par[g] = heir
      BY <1>10, <2>4, <2>5, <3>1 DEF heir
    <3>. QED
      BY <1>7, <3>1, <3>2
  <2>6. CASE ~(f # NoForm /\ v.parent[g] = f)
    <3>1. par[g] = v.parent[g]
      BY <1>10, <2>4, <2>6
    <3>. QED
      BY <1>4, <2>3, <2>6, <3>1
  <2>. QED
    BY <2>5, <2>6
<1>. QED
  BY <1>4, <1>6, <1>10, <1>11, <1>12 DEF heir, f, s

\* A form that is pushed is on top and on screen, below the one that was.
LEMMA PushedView ==
  ASSUME NEW v, Sound(v), v.stack # <<>>, v.stack[v.current + 1] # NoForm,
         NEW f \in Forms \ InStack(v.stack)
  PROVE  /\ Sound(Pushed(v, f))
         /\ Pushed(v, f).stack = Append(v.stack, f) /\ Pushed(v, f).current = Len(v.stack)
         /\ Pushed(v, f).parent = [v.parent EXCEPT ![f] = v.stack[v.current + 1]]
         /\ Pushed(v, f).parent[f] = v.stack[v.current + 1]
         /\ \A g \in Forms \ {f} : Pushed(v, f).parent[g] = v.parent[g]
<1> DEFINE on == v.stack[v.current + 1]
           s == Append(v.stack, f)
           par == [v.parent EXCEPT ![f] = on]
<1>1. v \in Views /\ Distinct(v.stack) /\ Parents(v) /\ v.current \in 0 .. Len(v.stack) - 1
  BY DEF Sound
<1>2. v.stack \in Seq(Pointers) /\ v.parent \in [Forms -> Pointers] /\ Len(v.stack) \in Nat
  BY <1>1 DEF Views
<1>3. v.current + 1 \in 1 .. Len(v.stack)
  BY <1>1, <1>2
<1>4. on \in Pointers /\ on \in InStack(v.stack) /\ on # f
  BY <1>2, <1>3 DEF InStack
<1>5. f \in Pointers \ InStack(v.stack)
  BY DEF Pointers
<1>6. /\ s \in Seq(Pointers) /\ Len(s) = Len(v.stack) + 1
      /\ Distinct(s) /\ InStack(s) = InStack(v.stack) \cup {f}
      /\ s[Len(v.stack) + 1] = f /\ \A i \in DOMAIN v.stack : s[i] = v.stack[i]
  BY <1>1, <1>2, <1>5, AppendedToStack
<1> HIDE DEF s, on
<1>7. par \in [Forms -> Pointers] /\ par[f] = on /\ \A g \in Forms \ {f} : par[g] = v.parent[g]
  BY <1>2, <1>4
<1> HIDE DEF par
<1>8. Pushed(v, f) = [stack |-> s, current |-> Len(v.stack), parent |-> par]
  BY DEF Pushed, s, par, on
<1>9. Parents([stack |-> s, current |-> Len(v.stack), parent |-> par])
  <2>. SUFFICES ASSUME NEW i \in 1 .. Len(s), i > 1, s[i] # NoForm
                PROVE  par[s[i]] \in InStack(s) \ {NoForm, s[i]}
    BY <1>6 DEF Parents
  <2>1. CASE i = Len(v.stack) + 1
    BY <1>4, <1>6, <1>7, <2>1 DEF on
  <2>2. CASE i # Len(v.stack) + 1
    <3>1. i \in DOMAIN v.stack /\ s[i] = v.stack[i]
      BY <1>2, <1>6, <2>2
    <3>2. v.parent[s[i]] \in InStack(v.stack) \ {NoForm, s[i]}
      BY <1>1, <3>1 DEF Parents
    <3>3. s[i] \in Forms /\ s[i] # f
      <4>1. s[i] \in Pointers /\ s[i] \in InStack(v.stack)
        BY <1>2, <3>1 DEF InStack
      <4>. QED
        BY <4>1 DEF Pointers
    <3>. QED
      BY <1>6, <1>7, <3>2, <3>3
  <2>. QED
    BY <2>1, <2>2
<1>10. Sound([stack |-> s, current |-> Len(v.stack), parent |-> par])
  BY <1>2, <1>6, <1>7, <1>9 DEF Sound, Views
<1>. QED
  BY <1>7, <1>8, <1>10 DEF s, par, on

\* The same for an empty pointer.
LEMMA PushedEmptyView ==
  ASSUME NEW v, Sound(v), NoForm \notin InStack(v.stack)
  PROVE  /\ Sound(PushedEmpty(v))
         /\ PushedEmpty(v).stack = Append(v.stack, NoForm) /\ PushedEmpty(v).current = Len(v.stack)
         /\ PushedEmpty(v).parent = v.parent
<1> DEFINE s == Append(v.stack, NoForm)
<1>1. v \in Views /\ Distinct(v.stack) /\ Parents(v)
  BY DEF Sound
<1>2. v.stack \in Seq(Pointers) /\ v.parent \in [Forms -> Pointers] /\ Len(v.stack) \in Nat
  BY <1>1 DEF Views
<1>3. NoForm \in Pointers \ InStack(v.stack)
  BY DEF Pointers
<1>4. /\ s \in Seq(Pointers) /\ Len(s) = Len(v.stack) + 1
      /\ Distinct(s) /\ InStack(s) = InStack(v.stack) \cup {NoForm}
      /\ s[Len(v.stack) + 1] = NoForm /\ \A i \in DOMAIN v.stack : s[i] = v.stack[i]
  BY <1>1, <1>2, <1>3, AppendedToStack
<1> HIDE DEF s
<1> DEFINE w == [stack |-> s, current |-> Len(v.stack), parent |-> v.parent]
<1>5. PushedEmpty(v) = w
  BY DEF PushedEmpty, s
<1>6. Parents(w)
  <2>. SUFFICES ASSUME NEW i \in 1 .. Len(s), i > 1, s[i] # NoForm
                PROVE  v.parent[s[i]] \in InStack(s) \ {NoForm, s[i]}
    BY <1>4 DEF Parents
  <2>1. i \in DOMAIN v.stack /\ s[i] = v.stack[i]
    BY <1>2, <1>4
  <2>. QED
    BY <1>1, <1>4, <2>1 DEF Parents
<1>7. w \in Views /\ Distinct(w.stack) /\ w.current \in 0 .. Len(w.stack) - 1
  BY <1>2, <1>4 DEF Views
<1>. QED
  BY <1>5, <1>6, <1>7 DEF Sound, s

\* After the form on screen is popped, a form of the stack that is left is on screen:
\* the parent of the one that went, or the one on top if it was an empty pointer.
LEMMA PoppedView ==
  ASSUME NEW v, Sound(v), v.stack # <<>>,
         v.stack[v.current + 1] = NoForm \/ NoForm \notin InStack(v.stack)
  PROVE  /\ Sound(Popped(v))
         /\ Popped(v).stack = TakenOut(v, v.current).stack
         /\ Popped(v).parent = TakenOut(v, v.current).parent
         /\ v.stack[v.current + 1] = NoForm => Popped(v).current = Len(Popped(v).stack) - 1
         /\ v.current > 0 /\ v.stack[v.current + 1] # NoForm =>
              /\ Popped(v).current \in 0 .. Len(v.stack) - 2
              /\ Popped(v).stack[Popped(v).current + 1] = v.parent[v.stack[v.current + 1]]
<1> DEFINE f == v.stack[v.current + 1]
           rest == TakenOut(v, v.current)
           above == {i \in DOMAIN rest.stack : f # NoForm /\ rest.stack[i] = v.parent[f]}
           cur == IF f = NoForm THEN Len(rest.stack) - 1
                  ELSE IF above = {} THEN rest.current
                  ELSE (CHOOSE i \in above : \A j \in above : i <= j) - 1
           w == [rest EXCEPT !.current = cur]
<1>1. v \in Views /\ Distinct(v.stack) /\ Parents(v) /\ v.current \in 0 .. Len(v.stack) - 1
  BY DEF Sound
<1>2. v.stack \in Seq(Pointers) /\ v.parent \in [Forms -> Pointers] /\ Len(v.stack) \in Nat
  BY <1>1 DEF Views
<1>3. v.current + 1 \in 1 .. Len(v.stack)
  BY <1>1, <1>2
<1>4. /\ rest \in Views /\ Distinct(rest.stack) /\ Parents(rest)
      /\ rest.stack = RemoveAt(v.stack, v.current + 1) /\ rest.current = v.current
  BY <1>1, TakenOutView
<1>5. /\ Len(rest.stack) = Len(v.stack) - 1 /\ InStack(rest.stack) = InStack(v.stack) \ {f}
      /\ rest.stack \in Seq(Pointers)
  BY <1>1, <1>2, <1>3, <1>4, RemovedFromStack
<1>6. Popped(v) = w
  BY <1>4 DEF Popped
<1> HIDE DEF rest
<1>7. DOMAIN rest.stack = 1 .. Len(v.stack) - 1
  BY <1>5
<1>8. \A i, j \in above : i = j
  BY <1>4 DEF Distinct
<1>9. above # {} => /\ cur + 1 \in above \/ f = NoForm
                    /\ f # NoForm
  <2>. SUFFICES ASSUME above # {}
                PROVE  f # NoForm /\ cur + 1 \in above
    OBVIOUS
  <2>1. f # NoForm
    OBVIOUS
  <2>2. PICK k \in above : TRUE
    OBVIOUS
  <2>3. k \in Nat
    BY <1>7, <2>2
  <2>4. \A j \in above : k <= j
    <3>. SUFFICES ASSUME NEW j \in above
                  PROVE  k <= j
      OBVIOUS
    <3>1. k = j
      BY <1>8, <2>2
    <3>. QED
      BY <2>3, <3>1
  <2> DEFINE c == CHOOSE i \in above : \A j \in above : i <= j
  <2>5. c \in above
    BY <2>2, <2>4
  <2>6. cur = c - 1
    BY <2>1
  <2> HIDE DEF c, cur
  <2>7. c \in Int
    BY <1>7, <2>5
  <2>8. cur + 1 = c
    BY <2>6, <2>7
  <2>. QED
    BY <2>1, <2>5, <2>8
<1>10. f # NoForm /\ v.current > 0 => above # {}
  <2>. SUFFICES ASSUME f # NoForm, v.current > 0
                PROVE  above # {}
    OBVIOUS
  <2>1. v.parent[f] \in InStack(v.stack) \ {NoForm, f}
    <3>1. v.current + 1 \in DOMAIN v.stack /\ v.current + 1 > 1
      BY <1>1, <1>2
    <3>. QED
      BY <1>1, <3>1 DEF Parents
  <2>2. v.parent[f] \in InStack(rest.stack)
    BY <1>5, <2>1
  <2>. QED
    BY <2>2 DEF InStack
<1>11. cur \in Int /\ (rest.stack # <<>> => cur \in 0 .. Len(rest.stack) - 1)
  <2>1. CASE f = NoForm
    <3>1. cur = Len(rest.stack) - 1
      BY <2>1
    <3>2. Len(rest.stack) \in Nat /\ (rest.stack # <<>> => Len(rest.stack) > 0)
      BY <1>5
    <3> HIDE DEF cur
    <3>. QED
      BY <3>1, <3>2
  <2>2. CASE f # NoForm /\ above = {}
    <3>1. cur = v.current /\ v.current = 0
      BY <1>1, <1>2, <1>4, <1>10, <2>2
    <3>2. Len(rest.stack) \in Nat /\ (rest.stack # <<>> => Len(rest.stack) > 0)
      BY <1>5
    <3> HIDE DEF cur
    <3>. QED
      BY <3>1, <3>2
  <2>3. CASE above # {}
    <3>1. cur + 1 \in 1 .. Len(v.stack) - 1
      BY <1>7, <1>9, <2>3
    <3>2. cur \in Int
      <4>1. above \subseteq Int
        BY <1>7
      <4> DEFINE c == CHOOSE i \in above : \A j \in above : i <= j
      <4>2. \E i \in above : \A j \in above : i <= j
        <5>1. PICK k \in above : TRUE
          BY <2>3
        <5>2. \A j \in above : j = k
          BY <1>8, <5>1
        <5>. QED
          BY <1>7, <5>1, <5>2
      <4>3. c \in above
        BY <4>2
      <4>4. cur = c - 1
        BY <1>9, <2>3
      <4> HIDE DEF c, cur
      <4>. QED
        BY <4>1, <4>3, <4>4
    <3> HIDE DEF cur
    <3>. QED
      BY <1>2, <1>5, <3>1, <3>2
  <2>. QED
    BY <2>1, <2>2, <2>3
<1>12. f # NoForm /\ v.current > 0 => /\ cur + 1 \in 1 .. Len(v.stack) - 1
                                     /\ rest.stack[cur + 1] = v.parent[f]
  BY <1>7, <1>9, <1>10
<1>13. f = NoForm => cur = Len(rest.stack) - 1
  OBVIOUS
<1> HIDE DEF cur, above
<1>14. /\ w \in Views /\ w.stack = rest.stack /\ w.parent = rest.parent /\ w.current = cur
  BY <1>4, <1>11 DEF Views
<1>15. Parents(w) /\ Distinct(w.stack)
  BY <1>4, <1>14 DEF Parents
<1>16. Sound(w)
  BY <1>11, <1>14, <1>15 DEF Sound
<1>17. f # NoForm /\ v.current > 0 => cur \in 0 .. Len(v.stack) - 2
  BY <1>2, <1>11, <1>12
<1>. QED
  BY <1>6, <1>12, <1>13, <1>14, <1>16, <1>17 DEF rest

-----------------------------------------------------------------------------
(* The states of the invariant                                               *)

\* While the main thread reads keys, the form on screen is one of the stack, and
\* the bottom is the feed list.
LEMMA OnScreen ==
  ASSUME FormsInv, ~quitting, asking = Nobody
  PROVE  /\ stack \in Seq(Pointers) /\ Len(stack) \in Nat \ {0} /\ DOMAIN stack = 1 .. Len(stack)
         /\ current \in 0 .. Len(stack) - 1 /\ current + 1 \in 1 .. Len(stack) /\ parent \in [Forms -> Pointers]
         /\ NoForm \notin InStack(stack) /\ InStack(stack) \subseteq Forms
         /\ Current = stack[current + 1] /\ Current \in InStack(stack) /\ Current \in Forms
         /\ FeedList \in InStack(stack) /\ (Current = FeedList <=> current = 0)
         /\ Focus = Current /\ OpenForms = InStack(stack)
<1>1. View \in Views /\ Distinct(stack) /\ stack # <<>> /\ stack[1] = FeedList
  BY DEF FormsInv, Sound, View
<1>2. stack \in Seq(Pointers) /\ current \in Int /\ parent \in [Forms -> Pointers] /\ Len(stack) \in Nat
  BY <1>1 DEF Views, View
<1>3. Len(stack) \in Nat \ {0} /\ DOMAIN stack = 1 .. Len(stack)
  BY <1>1, <1>2
<1>4. current \in 0 .. Len(stack) - 1
  BY <1>1 DEF FormsInv, Sound, View
<1>5. current + 1 \in 1 .. Len(stack) /\ InRange(current)
  BY <1>2, <1>3, <1>4 DEF InRange
<1>6. NoForm \notin InStack(stack)
  BY DEF FormsInv, AskInv
<1>7. InStack(stack) \subseteq Forms
  BY <1>2, <1>3, <1>6 DEF InStack, Pointers
<1>8. Current = stack[current + 1] /\ Current \in InStack(stack)
  BY <1>3, <1>5 DEF Current, InStack
<1>9. FeedList \in InStack(stack)
  BY <1>1, <1>3 DEF InStack
<1>10. Current = FeedList <=> current = 0
  <2>1. current = 0 => Current = FeedList
    BY <1>1, <1>8
  <2>2. Current = FeedList => current + 1 = 1
    <3>1. 1 \in DOMAIN stack /\ current + 1 \in DOMAIN stack
      BY <1>3, <1>5
    <3>2. stack[current + 1] = stack[1] => current + 1 = 1
      BY <1>1, <3>1 DEF Distinct
    <3>. QED
      BY <1>1, <1>8, <3>2
  <2>. QED
    BY <1>2, <2>1, <2>2
<1>11. ~crashed
  BY DEF FormsInv
<1>12. Focus = Current /\ OpenForms = InStack(stack)
  BY <1>6, <1>11 DEF Focus, OpenForms, Nobody
<1>. QED
  BY <1>2, <1>3, <1>4, <1>5, <1>6, <1>7, <1>8, <1>9, <1>10, <1>12

\* A list of dialogs or a modal form that is not astray is on screen, and on top.
LEMMA OthersAstray ==
  ASSUME FormsInv, ~quitting, asking = Nobody, NEW i \in DOMAIN stack, stack[i] \in Special \ astray
  PROVE  stack[i] = Current /\ i = Len(stack) /\ i = current + 1 /\ current = Len(stack) - 1
<1>1. i = Len(stack) /\ current = i - 1
  BY DEF FormsInv, TopInv
<1>2. Current = stack[current + 1] /\ Len(stack) \in Nat
  BY OnScreen
<1>. QED
  BY <1>1, <1>2

\* A list of dialogs that is not shifted has been drawn, when keys are read or a
\* question is asked.
LEMMA RowsDrawn ==
  ASSUME FormsInv, ~quitting, Waits \/ asking # Nobody,
         NEW p \in DOMAIN stack, stack[p] \in DialogLists \ shifted
  PROVE  rows[stack[p]] # <<>>
<1>. SUFFICES ASSUME rows[stack[p]] = <<>>
              PROVE  FALSE
  OBVIOUS
<1>1. stack[p] \in Special \ astray
  BY DEF FormsInv, LinesInv, Special
<1>2. CASE asking = Nobody
  <2>1. stack[p] = Current
    BY <1>1, <1>2, OthersAstray
  <2>2. Waits
    BY <1>2
  <2>. QED
    BY <2>1, <2>2 DEF Waits, Unread
<1>3. CASE asking # Nobody
  <2>1. stack[p] = asking.form
    BY <1>1, <1>3 DEF FormsInv, TopInv
  <2>2. asking.form \notin DialogLists
    BY <1>3 DEF FormsInv, AskInv
  <2>. QED
    BY <2>1, <2>2
<1>. QED
  BY <1>2, <1>3

-----------------------------------------------------------------------------
(* The ghosts                                                                *)

\* What is astray stays so while it is in the stack.
LEMMA GhostTypes ==
  ASSUME TypeOK, astray' = Lost, shifted' = Shifted
  PROVE  /\ astray' \subseteq Special \cap InStack(stack') /\ shifted' \subseteq DialogLists \cap astray'
         /\ astray \cap InStack(stack') \subseteq astray' /\ shifted \cap InStack(stack') \subseteq shifted'
<1>1. astray \subseteq Special /\ shifted \subseteq DialogLists \cap astray
  BY DEF TypeOK
<1>2. astray' \subseteq Special \cap InStack(stack') /\ astray \cap InStack(stack') \subseteq astray'
  BY <1>1 DEF Lost, Special
<1>3. shifted' \subseteq DialogLists \cap InStack(stack') /\ shifted' \subseteq astray
  BY <1>1 DEF Shifted
<1>4. shifted \cap InStack(stack') \subseteq shifted'
  BY <1>1 DEF Shifted
<1>. QED
  BY <1>2, <1>3, <1>4

\* Nothing goes astray when the form on screen stays there, asks a question, or is
\* closed; nor is anything shifted unless a form is closed.
LEMMA NothingLost ==
  ASSUME astray' = Lost, Current' = Current \/ asking' # Nobody \/ Current \notin InStack(stack')
  PROVE  astray' \subseteq astray
BY DEF Lost

LEMMA NothingShifted ==
  ASSUME shifted' = Shifted, InStack(stack) \ {NoForm} \subseteq InStack(stack')
  PROVE  shifted' \subseteq shifted
BY DEF Shifted

LEMMA SameGhosts ==
  ASSUME TypeOK, astray' = Lost, shifted' = Shifted, InStack(stack) \ {NoForm} \subseteq InStack(stack'),
         Current' = Current \/ asking' # Nobody
  PROVE  astray' = astray /\ shifted' = shifted
<1>1. astray' \subseteq astray /\ shifted' \subseteq shifted
  BY NothingLost, NothingShifted
<1>2. astray \subseteq InStack(stack') /\ shifted \subseteq InStack(stack')
  <2>1. NoForm \notin Special
    BY FormsAssumption DEF Special, Forms
  <2>. QED
    BY <2>1 DEF TypeOK
<1>. QED
  BY <1>1, <1>2, GhostTypes

\* When a form is closed, a list of dialogs that is astray is shifted.
LEMMA ShiftedIfClosed ==
  ASSUME shifted' = Shifted, NEW f \in InStack(stack) \ {NoForm}, f \notin InStack(stack'),
         NEW d \in DialogLists \cap astray, d \in InStack(stack')
  PROVE  d \in shifted'
BY DEF Shifted

\* A sound view is a sound state.
LEMMA Becoming ==
  ASSUME NEW w, Sound(w), Becomes(w)
  PROVE  Sound(View)' /\ (View \in Views)' /\ stack' = w.stack /\ current' = w.current /\ parent' = w.parent
<1>1. w \in Views /\ Distinct(w.stack) /\ Parents(w)
  BY DEF Sound
<1>2. stack' = w.stack /\ current' = w.current /\ parent' = w.parent
  BY DEF Becomes
<1>3. (View \in Views)'
  BY <1>1, <1>2 DEF Views, View
<1>4. Parents(View)'
  BY <1>1, <1>2 DEF Parents, View
<1>5. Distinct(View.stack)'
  BY <1>1, <1>2 DEF View
<1>6. (View.stack # <<>> => View.current \in 0 .. Len(View.stack) - 1)'
  BY <1>2 DEF View, Sound
<1>. QED
  BY <1>2, <1>3, <1>4, <1>5, <1>6 DEF Sound

\* The lines of a list of dialogs stay the stack below it when that part of the stack,
\* and the lines, stay as they are.
LEMMA LinesKept ==
  ASSUME FormsInv, ~quitting, Waits \/ asking # Nobody, astray' = Lost, shifted' = Shifted,
         NEW p \in DOMAIN stack, \A i \in 1 .. p : stack'[i] = stack[i], p \in DOMAIN stack',
         DialogLists \cap InStack(stack) \subseteq InStack(stack'),
         stack'[p] \in DialogLists \ shifted', rows'[stack[p]] = rows[stack[p]]
  PROVE  /\ rows'[stack'[p]] # <<>>
         /\ DialogLists \cap InStack(stack') \subseteq {stack'[p]} =>
              Len(rows'[stack'[p]]) = p - 1 /\ \A i \in 1 .. p - 1 : rows'[stack'[p]][i] = stack'[i]
<1>1. stack \in Seq(Pointers) /\ TypeOK /\ LinesInv
  BY DEF FormsInv, TypeOK, Views, View
<1>2. p \in Nat /\ p >= 1
  BY <1>1
<1>3. stack'[p] = stack[p] /\ \A i \in 1 .. p - 1 : stack'[i] = stack[i]
  BY <1>2
<1>4. stack[p] \in DialogLists \ shifted
  <2>1. stack'[p] \in InStack(stack')
    BY DEF InStack
  <2>. QED
    BY <1>1, <1>3, <2>1, GhostTypes
<1>5. rows[stack[p]] # <<>>
  BY <1>4, RowsDrawn
<1>6. DialogLists \cap InStack(stack) \subseteq {stack[p]} => IsBelow(rows[stack[p]], p)
  BY <1>1, <1>4, <1>5 DEF LinesInv
<1>7. rows'[stack'[p]] = rows[stack[p]]
  BY <1>3
<1>. QED
  BY <1>3, <1>5, <1>6, <1>7 DEF IsBelow

-----------------------------------------------------------------------------
(* Opening a form                                                            *)

\* What the three kinds of opened forms have in common. A form that is to be answered
\* first, and loses the screen to a list of dialogs, is astray.
LEMMA OpenedStep ==
  ASSUME FormsInv, Waits, NEW f \in Forms, Unused(f),
         Becomes(Pushed(View, f)), UNCHANGED <<asking, quitting, crashed>>,
         astray' = Lost, shifted' = Shifted,
         f \in DialogLists => rows'[f] = <<>>, \A d \in DialogLists \ {f} : rows'[d] = rows[d]
  PROVE  /\ Sound(View)' /\ (View \in Views)' /\ AskInv' /\ TopInv' /\ LinesInv' /\ ~crashed'
         /\ (~quitting => stack # <<>> /\ stack[1] = FeedList)'
         /\ (astray \subseteq Special \cap InStack(stack) /\ shifted \subseteq DialogLists \cap astray)'
         /\ Abstract!Next
<1>1. ~quitting /\ ~crashed /\ asking = Nobody
  BY DEF Waits
<1>2. /\ stack \in Seq(Pointers) /\ Len(stack) \in Nat \ {0} /\ DOMAIN stack = 1 .. Len(stack)
      /\ current \in 0 .. Len(stack) - 1 /\ parent \in [Forms -> Pointers]
      /\ NoForm \notin InStack(stack) /\ InStack(stack) \subseteq Forms
      /\ Current = stack[current + 1] /\ Current \in InStack(stack)
      /\ FeedList \in InStack(stack) /\ Focus = Current /\ OpenForms = InStack(stack)
  BY <1>1, OnScreen
<1>4. Sound(View) /\ Distinct(stack) /\ stack[1] = FeedList /\ TypeOK
  BY <1>1 DEF FormsInv, Sound, View
<1>5. f \in Forms \ InStack(stack) /\ f # NoForm /\ f \in Pointers \ InStack(stack)
  BY FormsAssumption DEF Unused, Pointers
<1>6. View.stack = stack /\ View.current = current /\ View.parent = parent
  BY DEF View
<1>7. /\ View.stack # <<>> /\ View.stack[View.current + 1] # NoForm
      /\ f \in Forms \ InStack(View.stack)
  <2>1. stack # <<>> /\ stack[current + 1] # NoForm
    BY <1>2
  <2>. QED
    BY <1>5, <1>6, <2>1
<1>8. /\ Sound(Pushed(View, f))
      /\ Pushed(View, f).stack = Append(stack, f) /\ Pushed(View, f).current = Len(stack)
      /\ Pushed(View, f).parent[f] = Current
      /\ \A g \in Forms \ {f} : Pushed(View, f).parent[g] = parent[g]
  <2>1. /\ Sound(Pushed(View, f))
        /\ Pushed(View, f).stack = Append(View.stack, f) /\ Pushed(View, f).current = Len(View.stack)
        /\ Pushed(View, f).parent[f] = View.stack[View.current + 1]
        /\ \A g \in Forms \ {f} : Pushed(View, f).parent[g] = View.parent[g]
    BY <1>4, <1>7, PushedView
  <2>. QED
    BY <1>2, <1>6, <2>1
<1>9. /\ Sound(View)' /\ (View \in Views)' /\ stack' = Append(stack, f) /\ current' = Len(stack)
      /\ parent'[f] = Current /\ \A g \in Forms \ {f} : parent'[g] = parent[g]
  BY <1>8, Becoming
<1>10. /\ Append(stack, f) \in Seq(Pointers) /\ Len(Append(stack, f)) = Len(stack) + 1
       /\ InStack(Append(stack, f)) = InStack(stack) \cup {f}
       /\ Append(stack, f)[Len(stack) + 1] = f
       /\ \A i \in DOMAIN stack : Append(stack, f)[i] = stack[i]
  BY <1>2, <1>4, <1>5, AppendedToStack
<1>11. asking' = Nobody /\ ~quitting' /\ ~crashed'
  BY <1>1
<1>12. /\ stack' \in Seq(Pointers) /\ Len(stack') = Len(stack) + 1 /\ InStack(stack') = InStack(stack) \cup {f}
       /\ stack'[Len(stack) + 1] = f /\ \A i \in DOMAIN stack : stack'[i] = stack[i]
  BY <1>9, <1>10
<1>13. DOMAIN stack' = 1 .. Len(stack) + 1 /\ \A i \in DOMAIN stack' : i \in DOMAIN stack \/ i = Len(stack) + 1
  BY <1>2, <1>12
<1>14. AskInv'
  BY <1>2, <1>5, <1>11, <1>12 DEF AskInv
<1>15. Current' = f
  <2>1. InRange(current)'
    BY <1>2, <1>9, <1>12 DEF InRange
  <2>. QED
    BY <1>9, <1>12, <2>1 DEF Current
<1>16. /\ astray' \subseteq Special \cap InStack(stack') /\ shifted' \subseteq DialogLists \cap astray'
       /\ astray \cap InStack(stack') \subseteq astray' /\ f \notin astray'
  <2>1. f \notin astray /\ f # Current
    BY <1>2, <1>4, <1>5 DEF TypeOK
  <2>2. f \notin Lost
    BY <2>1 DEF Lost
  <2>. QED
    BY <1>4, <2>2, GhostTypes
<1>17. TopInv'
  <2>. SUFFICES ASSUME NEW i \in DOMAIN stack', stack'[i] \in Special \ astray'
                PROVE  i = Len(stack') /\ current' = i - 1
    BY <1>11 DEF TopInv
  <2>1. CASE i = Len(stack) + 1
    BY <1>2, <1>9, <1>12, <2>1
  <2>2. CASE i \in DOMAIN stack
    <3>1. stack'[i] = stack[i] /\ stack[i] \in InStack(stack')
      BY <1>12, <2>2 DEF InStack
    <3>2. stack[i] \in Special \ astray
      BY <1>16, <3>1
    <3>3. stack[i] = Current
      BY <1>1, <2>2, <3>2, OthersAstray
    <3>4. Current \in Lost
      BY <1>2, <1>5, <1>11, <1>15, <3>1, <3>2, <3>3 DEF Lost, Special
    <3>. QED
      BY <3>1, <3>3, <3>4
  <2>. QED
    BY <1>13, <2>1, <2>2
<1>18. LinesInv'
  <2>. SUFFICES ASSUME NEW p \in DOMAIN stack', stack'[p] \in DialogLists \ shifted'
                PROVE  /\ rows'[stack'[p]] = <<>> => stack'[p] \notin astray'
                       /\ rows'[stack'[p]] # <<>> /\ DialogLists \cap InStack(stack') \subseteq {stack'[p]} =>
                            Len(rows'[stack'[p]]) = p - 1 /\ \A i \in 1 .. p - 1 : rows'[stack'[p]][i] = stack'[i]
    BY DEF LinesInv, IsBelow
  <2>1. CASE p = Len(stack) + 1
    BY <1>12, <1>16, <2>1
  <2>2. CASE p \in DOMAIN stack
    <3>1. stack'[p] = stack[p] /\ stack[p] # f
      BY <1>5, <1>12, <2>2 DEF InStack
    <3>2. \A i \in 1 .. p : stack'[i] = stack[i]
      BY <1>2, <1>12, <2>2
    <3>3. rows'[stack[p]] = rows[stack[p]]
      BY <3>1
    <3>4. DialogLists \cap InStack(stack) \subseteq InStack(stack')
      BY <1>12
    <3>. QED
      BY <1>1, <2>2, <3>2, <3>3, <3>4, LinesKept
  <2>. QED
    BY <1>13, <2>1, <2>2
<1>19. stack' # <<>> /\ stack'[1] = FeedList
  BY <1>2, <1>4, <1>12
<1>20. Abstract!Next
  <2>1. Current' = f /\ Focus' = f
    BY <1>11, <1>15 DEF Focus, Nobody
  <2>2. OpenForms' = OpenForms \cup {f}
    BY <1>2, <1>5, <1>11, <1>12 DEF OpenForms
  <2>3. [e \in OpenForms |-> parent[e]]' =
          [e \in OpenForms \cup {f} |-> IF e = f THEN Focus ELSE [e_1 \in OpenForms |-> parent[e_1]][e]]
    <3>1. \A e \in OpenForms \cup {f} : parent'[e] = IF e = f THEN Focus ELSE [e_1 \in OpenForms |-> parent[e_1]][e]
      <4>. SUFFICES ASSUME NEW e \in OpenForms \cup {f}
                    PROVE  parent'[e] = IF e = f THEN Focus ELSE [e_1 \in OpenForms |-> parent[e_1]][e]
        OBVIOUS
      <4>1. CASE e = f
        BY <1>2, <1>9, <4>1
      <4>2. CASE e # f
        <5>1. e \in OpenForms /\ e \in Forms \ {f}
          BY <1>2, <4>2
        <5>. QED
          BY <1>9, <4>2, <5>1
      <4>. QED
        BY <4>1, <4>2
    <3>. QED
      BY <2>2, <3>1
  <2>4. f \in Forms \ OpenForms
    BY <1>2, <1>5
  <2>5. Abstract!Open
    BY <2>1, <2>2, <2>3, <2>4 DEF Abstract!Open
  <2>6. Focus # NoForm
    BY <1>2
  <2>. QED
    BY <2>5, <2>6 DEF Abstract!Next
<1>. QED
  BY <1>9, <1>11, <1>14, <1>16, <1>17, <1>18, <1>19, <1>20

\* Open a list of articles, an article, help or a list of URLs.
LEMMA OpenStep ==
  ASSUME FormsInv, NEW f \in Plain, Open(f), astray' = Lost, shifted' = Shifted
  PROVE  FormsInv' /\ Abstract!Next
<1>1. f \in Forms /\ f \notin DialogLists
  BY FormsAssumption DEF Forms
<1>2. rows' = rows
  BY DEF Open
<1>3. /\ Sound(View)' /\ (View \in Views)' /\ AskInv' /\ TopInv' /\ LinesInv' /\ ~crashed'
      /\ (~quitting => stack # <<>> /\ stack[1] = FeedList)'
      /\ (astray \subseteq Special \cap InStack(stack) /\ shifted \subseteq DialogLists \cap astray)'
      /\ Abstract!Next
  BY <1>1, <1>2, OpenedStep DEF Open
<1>4. TypeOK'
  BY <1>3 DEF Open, FormsInv, TypeOK
<1>. QED
  BY <1>3, <1>4 DEF FormsInv

\* Open a list of dialogs, to be drawn.
LEMMA ViewDialogsStep ==
  ASSUME FormsInv, NEW d \in DialogLists, ViewDialogs(d), astray' = Lost, shifted' = Shifted
  PROVE  FormsInv' /\ Abstract!Next
<1>1. d \in Forms
  BY DEF Forms
<1>2. rows' = [rows EXCEPT ![d] = <<>>] /\ rows \in [DialogLists -> Seq(Pointers)]
  BY DEF ViewDialogs, FormsInv, TypeOK
<1>3. /\ rows' \in [DialogLists -> Seq(Pointers)] /\ rows'[d] = <<>>
      /\ \A e \in DialogLists \ {d} : rows'[e] = rows[e]
  <2>1. <<>> \in Seq(Pointers)
    OBVIOUS
  <2>. QED
    BY <1>2, <2>1
<1>4. /\ Sound(View)' /\ (View \in Views)' /\ AskInv' /\ TopInv' /\ LinesInv' /\ ~crashed'
      /\ (~quitting => stack # <<>> /\ stack[1] = FeedList)'
      /\ (astray \subseteq Special \cap InStack(stack) /\ shifted \subseteq DialogLists \cap astray)'
      /\ Abstract!Next
  BY <1>1, <1>3, OpenedStep DEF ViewDialogs
<1>5. TypeOK'
  BY <1>3, <1>4 DEF ViewDialogs, FormsInv, TypeOK
<1>. QED
  BY <1>4, <1>5 DEF FormsInv

\* A modal form opens, and reads the keys.
LEMMA RunModalStep ==
  ASSUME FormsInv, NEW f \in Modal, RunModal(f), astray' = Lost, shifted' = Shifted
  PROVE  FormsInv' /\ Abstract!Next
<1>1. f \in Forms /\ f \notin DialogLists
  BY FormsAssumption DEF Forms
<1>2. rows' = rows
  BY DEF RunModal
<1>3. /\ Sound(View)' /\ (View \in Views)' /\ AskInv' /\ TopInv' /\ LinesInv' /\ ~crashed'
      /\ (~quitting => stack # <<>> /\ stack[1] = FeedList)'
      /\ (astray \subseteq Special \cap InStack(stack) /\ shifted \subseteq DialogLists \cap astray)'
      /\ Abstract!Next
  BY <1>1, <1>2, OpenedStep DEF RunModal
<1>4. Len(stack) \in Nat
  BY OnScreen DEF RunModal, Waits
<1>5. loops' = Append(loops, [size |-> Len(stack), form |-> f])
  BY DEF RunModal
<1>6. loops' \in Seq([size : Nat, form : Modal])
  <2>1. [size |-> Len(stack), form |-> f] \in [size : Nat, form : Modal]
    BY <1>4
  <2>2. loops \in Seq([size : Nat, form : Modal])
    BY DEF FormsInv, TypeOK
  <2>. QED
    BY <1>5, <2>1, <2>2
<1>7. TypeOK'
  BY <1>3, <1>6 DEF RunModal, FormsInv, TypeOK
<1>. QED
  BY <1>3, <1>7 DEF FormsInv

-----------------------------------------------------------------------------
(* Closing a form                                                            *)

\* A form above the feed list is taken out: the others keep their order, and its
\* children become those of the feed list.
LEMMA TakenOutForm ==
  ASSUME NEW v, Sound(v), v.stack # <<>>, v.stack[1] = FeedList, NoForm \notin InStack(v.stack),
         NEW pos \in 1 .. Len(v.stack) - 1
  PROVE  /\ TakenOut(v, pos) \in Views /\ Distinct(TakenOut(v, pos).stack) /\ Parents(TakenOut(v, pos))
         /\ TakenOut(v, pos).current = v.current
         /\ Len(TakenOut(v, pos).stack) = Len(v.stack) - 1
         /\ InStack(TakenOut(v, pos).stack) = InStack(v.stack) \ {v.stack[pos + 1]}
         /\ TakenOut(v, pos).stack # <<>> /\ TakenOut(v, pos).stack[1] = FeedList
         /\ \A i \in 1 .. Len(v.stack) - 1 :
              TakenOut(v, pos).stack[i] = IF i < pos + 1 THEN v.stack[i] ELSE v.stack[i + 1]
         /\ \A g \in InStack(v.stack) \ {v.stack[pos + 1]} :
              TakenOut(v, pos).parent[g] =
                IF v.parent[g] = v.stack[pos + 1] THEN FeedList ELSE v.parent[g]
<1> DEFINE f == v.stack[pos + 1]
           s == RemoveAt(v.stack, pos + 1)
<1>1. v \in Views /\ Distinct(v.stack)
  BY DEF Sound
<1>2. v.stack \in Seq(Pointers) /\ Len(v.stack) \in Nat /\ DOMAIN v.stack = 1 .. Len(v.stack)
  BY <1>1 DEF Views
<1>3. pos + 1 \in 1 .. Len(v.stack) /\ pos \in 0 .. Len(v.stack) - 1
  BY <1>2
<1>4. /\ TakenOut(v, pos) \in Views /\ Distinct(TakenOut(v, pos).stack) /\ Parents(TakenOut(v, pos))
      /\ TakenOut(v, pos).stack = s /\ TakenOut(v, pos).current = v.current
      /\ \A g \in Forms \ {f} : TakenOut(v, pos).parent[g] =
           IF f # NoForm /\ v.parent[g] = f
             THEN IF s = <<>> THEN NoForm ELSE s[1]
             ELSE v.parent[g]
  BY <1>3, TakenOutView
<1>5. /\ s \in Seq(Pointers) /\ Len(s) = Len(v.stack) - 1 /\ InStack(s) = InStack(v.stack) \ {f}
  BY <1>1, <1>2, <1>3, RemovedFromStack
<1>6. \A i \in 1 .. Len(v.stack) - 1 : s[i] = IF i < pos + 1 THEN v.stack[i] ELSE v.stack[i + 1]
  BY <1>2, <1>3, RemovedElements
<1> HIDE DEF s
<1>7. s # <<>> /\ s[1] = FeedList
  <2>1. 1 \in 1 .. Len(v.stack) - 1 /\ 1 < pos + 1
    BY <1>2
  <2>2. s[1] = v.stack[1]
    BY <1>6, <2>1
  <2>. QED
    BY <1>5, <2>1, <2>2
<1>8. f # NoForm
  BY <1>2, <1>3 DEF InStack
<1>9. InStack(v.stack) \subseteq Forms
  BY <1>2 DEF InStack, Pointers
<1> HIDE DEF f
<1>10. \A g \in InStack(v.stack) \ {f} : TakenOut(v, pos).parent[g] = IF v.parent[g] = f THEN FeedList ELSE v.parent[g]
  BY <1>4, <1>7, <1>8, <1>9
<1>. QED
  BY <1>4, <1>5, <1>6, <1>7, <1>10 DEF f

\* The form on screen is closed: its parent is on screen.
LEMMA ClosedForm ==
  ASSUME NEW v, Sound(v), v.stack # <<>>, v.stack[1] = FeedList, NoForm \notin InStack(v.stack),
         v.current > 0
  PROVE  /\ Sound(Popped(v)) /\ Popped(v).stack # <<>> /\ Popped(v).stack[1] = FeedList
         /\ Len(Popped(v).stack) = Len(v.stack) - 1
         /\ InStack(Popped(v).stack) = InStack(v.stack) \ {v.stack[v.current + 1]}
         /\ Popped(v).current \in 0 .. Len(Popped(v).stack) - 1
         /\ Popped(v).stack[Popped(v).current + 1] = v.parent[v.stack[v.current + 1]]
         /\ \A g \in InStack(v.stack) \ {v.stack[v.current + 1]} :
              Popped(v).parent[g] =
                IF v.parent[g] = v.stack[v.current + 1] THEN FeedList ELSE v.parent[g]
<1>1. v.current \in 0 .. Len(v.stack) - 1 /\ v \in Views
  BY DEF Sound
<1>2. v.stack \in Seq(Pointers) /\ Len(v.stack) \in Nat /\ DOMAIN v.stack = 1 .. Len(v.stack)
  BY <1>1 DEF Views
<1>3. v.current \in 1 .. Len(v.stack) - 1 /\ v.current + 1 \in 1 .. Len(v.stack)
  BY <1>1, <1>2
<1>4. v.stack[v.current + 1] # NoForm
  BY <1>2, <1>3 DEF InStack
<1>5. /\ Sound(Popped(v))
      /\ Popped(v).stack = TakenOut(v, v.current).stack
      /\ Popped(v).parent = TakenOut(v, v.current).parent
      /\ Popped(v).current \in 0 .. Len(v.stack) - 2
      /\ Popped(v).stack[Popped(v).current + 1] = v.parent[v.stack[v.current + 1]]
  BY <1>4, PoppedView
<1>6. /\ Len(TakenOut(v, v.current).stack) = Len(v.stack) - 1
      /\ InStack(TakenOut(v, v.current).stack) = InStack(v.stack) \ {v.stack[v.current + 1]}
      /\ TakenOut(v, v.current).stack # <<>> /\ TakenOut(v, v.current).stack[1] = FeedList
      /\ \A g \in InStack(v.stack) \ {v.stack[v.current + 1]} :
           TakenOut(v, v.current).parent[g] =
             IF v.parent[g] = v.stack[v.current + 1] THEN FeedList ELSE v.parent[g]
  BY <1>3, TakenOutForm
<1>7. Popped(v).current \in 0 .. Len(Popped(v).stack) - 1
  BY <1>2, <1>5, <1>6
<1>. QED
  BY <1>5, <1>6, <1>7

\* What remains of the tree below the feed list.
LEMMA ParentsWithout ==
  ASSUME NEW f, OpenForms' = OpenForms \ {f},
         \A g \in OpenForms \ {f} : parent'[g] = IF parent[g] = f THEN FeedList ELSE parent[g]
  PROVE  [g \in OpenForms |-> parent[g]]' = Abstract!Without(f)
<1>1. \A g \in OpenForms \ {f} : parent'[g] =
        IF [h \in OpenForms |-> parent[h]][g] = f THEN FeedList ELSE [h \in OpenForms |-> parent[h]][g]
  OBVIOUS
<1>2. Abstract!Without(f) = [g \in OpenForms \ {f} |->
        IF [h \in OpenForms |-> parent[h]][g] = f THEN FeedList ELSE [h \in OpenForms |-> parent[h]][g]]
  BY DEF Abstract!Without
<1>. QED
  BY <1>1, <1>2

\* A form goes, when it is not the feed list: the one that has the focus, unless some
\* form is astray.
LEMMA ClosedStep ==
  ASSUME FormsInv, ~quitting,
         NEW v, Sound(v), v.stack # <<>>, v.stack[1] = FeedList, NoForm \notin InStack(v.stack), v.current > 0,
         \A i \in DOMAIN v.stack : v.stack[i] \in Special \ astray => i = v.current + 1,
         v.parent = parent, InStack(v.stack) = OpenForms, Focus \in OpenForms,
         v.stack[v.current + 1] = Focus \/ astray # {},
         Current = v.stack[v.current + 1] \/ Current \notin InStack(v.stack),
         Becomes(Popped(v)), asking' = Nobody, ~quitting', ~crashed', astray' = Lost, shifted' = Shifted
  PROVE  /\ Sound(View)' /\ (View \in Views)' /\ AskInv' /\ TopInv' /\ LinesInv'
         /\ (~quitting => stack # <<>> /\ stack[1] = FeedList)'
         /\ (astray \subseteq Special \cap InStack(stack) /\ shifted \subseteq DialogLists \cap astray)'
         /\ Abstract!Next
<1> DEFINE f == v.stack[v.current + 1]
<1>1. v \in Views /\ Distinct(v.stack) /\ v.current \in 0 .. Len(v.stack) - 1 /\ Parents(v)
  BY DEF Sound
<1>2. /\ v.stack \in Seq(Pointers) /\ Len(v.stack) \in Nat /\ DOMAIN v.stack = 1 .. Len(v.stack)
      /\ v.current \in Int
  BY <1>1 DEF Views
<1>3. v.current + 1 \in DOMAIN v.stack /\ v.current + 1 # 1
  BY <1>1, <1>2
<1>4. f \in InStack(v.stack) /\ f # FeedList /\ f # NoForm
  <2>1. 1 \in DOMAIN v.stack
    BY <1>2
  <2>2. v.stack[v.current + 1] # v.stack[1]
    BY <1>1, <1>3, <2>1 DEF Distinct
  <2>3. f \in InStack(v.stack)
    BY <1>3 DEF InStack
  <2>. QED
    BY <2>2, <2>3
<1>5. /\ Sound(Popped(v)) /\ Popped(v).stack # <<>> /\ Popped(v).stack[1] = FeedList
      /\ InStack(Popped(v).stack) = InStack(v.stack) \ {v.stack[v.current + 1]}
      /\ Popped(v).current \in 0 .. Len(Popped(v).stack) - 1
      /\ Popped(v).stack[Popped(v).current + 1] = v.parent[v.stack[v.current + 1]]
      /\ \A g \in InStack(v.stack) \ {v.stack[v.current + 1]} :
           Popped(v).parent[g] = IF v.parent[g] = v.stack[v.current + 1] THEN FeedList ELSE v.parent[g]
  BY ClosedForm
<1>6. /\ Sound(Popped(v)) /\ Popped(v).stack # <<>> /\ Popped(v).stack[1] = FeedList
      /\ InStack(Popped(v).stack) = OpenForms \ {f}
      /\ Popped(v).current \in 0 .. Len(Popped(v).stack) - 1
      /\ Popped(v).stack[Popped(v).current + 1] = parent[f]
      /\ \A g \in OpenForms \ {f} :
           Popped(v).parent[g] = IF parent[g] = f THEN FeedList ELSE parent[g]
  BY <1>5
<1>7. Sound(View)' /\ (View \in Views)' /\ stack' = Popped(v).stack /\ current' = Popped(v).current
      /\ parent' = Popped(v).parent
  BY <1>6, Becoming
<1>8. /\ stack' # <<>> /\ stack'[1] = FeedList /\ InStack(stack') = OpenForms \ {f}
      /\ current' \in 0 .. Len(stack') - 1 /\ stack'[current' + 1] = parent[f]
  BY <1>6, <1>7
<1>9. OpenForms = InStack(stack) \ {NoForm} /\ TypeOK
  BY DEF OpenForms, FormsInv
<1>10. AskInv'
  BY <1>8, <1>9 DEF AskInv
<1>11. /\ astray' \subseteq Special \cap InStack(stack') /\ shifted' \subseteq DialogLists \cap astray'
       /\ astray \cap InStack(stack') \subseteq astray' /\ astray' \subseteq astray
  <2>1. Current \notin InStack(stack')
    BY <1>8
  <2>. QED
    BY <1>9, <2>1, GhostTypes, NothingLost
<1>12. InStack(stack') \cap Special \subseteq astray
  <2>. SUFFICES ASSUME NEW g \in InStack(v.stack), g # f, g \in Special \ astray
                PROVE  FALSE
    BY <1>8
  <2>1. PICK i \in DOMAIN v.stack : v.stack[i] = g
    BY DEF InStack
  <2>2. i = v.current + 1
    BY <2>1
  <2>. QED
    BY <2>1, <2>2
<1>13. TopInv'
  BY <1>11, <1>12 DEF TopInv, InStack
<1>14. LinesInv'
  <2>. SUFFICES ASSUME NEW p \in DOMAIN stack', stack'[p] \in DialogLists \ shifted'
                PROVE  FALSE
    BY DEF LinesInv
  <2>1. stack'[p] \in InStack(stack') /\ stack'[p] \in Special
    BY DEF InStack, Special
  <2>2. stack'[p] \in DialogLists \cap astray
    BY <1>12, <2>1
  <2>3. f \in InStack(stack) \ {NoForm} /\ f \notin InStack(stack')
    BY <1>4, <1>8, <1>9
  <2>. QED
    BY <2>1, <2>2, <2>3, ShiftedIfClosed
<1> HIDE DEF f
<1>15. Abstract!Next
  <2>1. OpenForms' = OpenForms \ {f}
    BY <1>8, <1>10 DEF OpenForms, AskInv
  <2>2. [g \in OpenForms |-> parent[g]]' = Abstract!Without(f)
    <3>1. \A g \in OpenForms \ {f} : parent'[g] = IF parent[g] = f THEN FeedList ELSE parent[g]
      BY <1>6, <1>7
    <3>. QED
      BY <2>1, <3>1, ParentsWithout
  <2>3. Focus' = parent[f] /\ Focus' \in OpenForms'
    <3>1. Len(stack') \in Nat /\ DOMAIN stack' = 1 .. Len(stack')
      BY <1>7 DEF View, Views
    <3>2. InRange(current)' /\ current' + 1 \in DOMAIN stack'
      BY <1>8, <3>1 DEF InRange
    <3>3. Current' = parent[f] /\ Current' \in InStack(stack')
      BY <1>8, <3>2 DEF Current, InStack
    <3>4. Focus' = Current'
      BY DEF Focus, Nobody
    <3>. QED
      BY <1>8, <2>1, <3>3, <3>4
  <2>4. parent[f] = [g \in OpenForms |-> parent[g]][f] /\ f \in OpenForms
    BY <1>4
  <2>5. Focus # NoForm
    BY <1>9
  <2>6. Straying' => Straying
    BY <1>11 DEF Straying
  <2>7. CASE f = Focus
    <3>1. Abstract!Close
      BY <1>4, <2>1, <2>2, <2>3, <2>4, <2>5, <2>7 DEF Abstract!Close
    <3>. QED
      BY <2>5, <2>6, <3>1 DEF Abstract!Next
  <2>8. CASE astray # {}
    <3>1. Straying
      BY <2>8 DEF Straying
    <3>2. f \in OpenForms \ {FeedList}
      BY <1>4, <2>4
    <3>3. Abstract!Muddle
      BY <2>1, <2>2, <2>3, <3>1, <3>2 DEF Abstract!Muddle
    <3>. QED
      BY <2>5, <2>6, <3>3 DEF Abstract!Next
  <2>. QED
    BY <2>7, <2>8 DEF f
<1>. QED
  BY <1>7, <1>8, <1>10, <1>11, <1>13, <1>14, <1>15

\* Quit a form that is not the feed list.
LEMMA CloseStep ==
  ASSUME FormsInv, Close, astray' = Lost, shifted' = Shifted
  PROVE  FormsInv' /\ Abstract!Next
<1>1. ~quitting /\ ~crashed /\ asking = Nobody /\ Current # FeedList
  BY DEF Close, Waits
<1>2. /\ current \in 0 .. Len(stack) - 1 /\ NoForm \notin InStack(stack)
      /\ stack \in Seq(Pointers) /\ Len(stack) \in Nat \ {0}
      /\ Current = stack[current + 1] /\ current # 0 /\ Focus = Current /\ OpenForms = InStack(stack)
      /\ DOMAIN stack = 1 .. Len(stack) /\ Current \in InStack(stack)
  BY <1>1, OnScreen
<1>3. View.stack = stack /\ View.current = current /\ View.parent = parent
  BY DEF View
<1>4. Sound(View) /\ stack[1] = FeedList
  BY <1>1 DEF FormsInv
<1>5. \A i \in DOMAIN stack : stack[i] \in Special \ astray => i = current + 1
  BY <1>1, OthersAstray
<1>6. /\ View.stack # <<>> /\ View.stack[1] = FeedList /\ NoForm \notin InStack(View.stack) /\ View.current > 0
      /\ \A i \in DOMAIN View.stack : View.stack[i] \in Special \ astray => i = View.current + 1
      /\ View.parent = parent /\ InStack(View.stack) = OpenForms /\ View.stack[View.current + 1] = Focus
      /\ Focus \in OpenForms /\ Current = View.stack[View.current + 1]
  BY <1>2, <1>3, <1>4, <1>5
<1>7. Becomes(Popped(View)) /\ asking' = Nobody /\ ~quitting' /\ ~crashed'
  BY <1>1 DEF Close
<1>8. /\ Sound(View)' /\ (View \in Views)' /\ AskInv' /\ TopInv' /\ LinesInv'
      /\ (~quitting => stack # <<>> /\ stack[1] = FeedList)'
      /\ (astray \subseteq Special \cap InStack(stack) /\ shifted \subseteq DialogLists \cap astray)'
      /\ Abstract!Next
  BY <1>1, <1>4, <1>6, <1>7, ClosedStep
<1>9. TypeOK'
  BY <1>8 DEF Close, FormsInv, TypeOK
<1>. QED
  BY <1>7, <1>8, <1>9 DEF FormsInv

-----------------------------------------------------------------------------
(* The other steps                                                           *)

\* Another dialog gets the focus: the forms stay as they are.
LEMMA SwitchStep ==
  ASSUME FormsInv, Waits, current' \in 0 .. Len(stack) - 1, astray' = Lost, shifted' = Shifted,
         UNCHANGED <<stack, parent, rows, loops, asking, quitting, crashed>>
  PROVE  FormsInv' /\ Abstract!Next
<1>1. ~quitting /\ ~crashed /\ asking = Nobody
  BY DEF Waits
<1>2. /\ stack \in Seq(Pointers) /\ Len(stack) \in Nat \ {0} /\ DOMAIN stack = 1 .. Len(stack)
      /\ parent \in [Forms -> Pointers] /\ NoForm \notin InStack(stack) /\ current \in 0 .. Len(stack) - 1
      /\ Current \in InStack(stack) /\ Focus = Current /\ OpenForms = InStack(stack)
  BY <1>1, OnScreen
<1>3. /\ stack' = stack /\ parent' = parent /\ rows' = rows /\ loops' = loops
      /\ asking' = Nobody /\ ~quitting' /\ ~crashed'
  BY <1>1
<1>4. InRange(current)' /\ current' + 1 \in DOMAIN stack /\ Current' = stack[current' + 1]
  <2>1. \A n \in Nat \ {0} : \A c \in 0 .. n - 1 : c + 1 \in 1 .. n /\ c < n
    OBVIOUS
  <2>2. current' + 1 \in 1 .. Len(stack) /\ current' < Len(stack)
    BY <1>2, <2>1
  <2>3. InRange(current)' /\ current' + 1 \in DOMAIN stack
    BY <1>2, <1>3, <2>2 DEF InRange
  <2>. QED
    BY <1>3, <2>3 DEF Current
<1>5. Sound(View) /\ stack[1] = FeedList /\ stack # <<>> /\ TypeOK
  BY <1>1 DEF FormsInv
<1>6. (View \in Views)'
  BY <1>2, <1>3 DEF View, Views
<1>7. Parents(View)' /\ Distinct(View.stack)'
  BY <1>3, <1>5 DEF Sound, Parents, View
<1>8. Sound(View)'
  BY <1>3, <1>6, <1>7 DEF Sound, View
<1>9. /\ astray' \subseteq Special \cap InStack(stack') /\ shifted' \subseteq DialogLists \cap astray'
      /\ astray \subseteq astray'
  BY <1>3, <1>5, GhostTypes DEF TypeOK
<1>10. TypeOK' /\ AskInv' /\ TopInv' /\ LinesInv'
  <2>1. TypeOK'
    BY <1>3, <1>5, <1>6, <1>9 DEF TypeOK
  <2>2. AskInv'
    BY <1>2, <1>3 DEF AskInv
  <2>3. TopInv'
    <3>. SUFFICES ASSUME NEW i \in DOMAIN stack, stack[i] \in Special \ astray'
                  PROVE  i = Len(stack) /\ current' = i - 1
      BY <1>3 DEF TopInv
    <3>1. stack[i] \in Special \ astray
      BY <1>9
    <3>2. stack[i] = Current /\ i = Len(stack)
      BY <1>1, <3>1, OthersAstray
    <3>3. Current' = Current
      <4>. SUFFICES ASSUME Current' # Current
                    PROVE  Current \in Lost
        BY <3>2
      <4>. QED
        BY <1>2, <1>3, <3>1, <3>2 DEF Lost, Special
    <3>4. current' + 1 = i
      BY <1>4, <1>5, <3>2, <3>3 DEF Sound, Distinct, View
    <3>. QED
      BY <1>2, <3>2, <3>4
  <2>4. LinesInv'
    <3>. SUFFICES ASSUME NEW p \in DOMAIN stack, stack[p] \in DialogLists \ shifted'
                  PROVE  /\ rows[stack[p]] # <<>>
                         /\ DialogLists \cap InStack(stack) \subseteq {stack[p]} =>
                              Len(rows[stack[p]]) = p - 1 /\ \A i \in 1 .. p - 1 : rows[stack[p]][i] = stack[i]
      BY <1>3 DEF LinesInv, IsBelow
    <3>1. \A i \in 1 .. p : stack'[i] = stack[i]
      BY <1>3
    <3>2. p \in DOMAIN stack' /\ DialogLists \cap InStack(stack) \subseteq InStack(stack')
      BY <1>3
    <3>3. stack'[p] \in DialogLists \ shifted' /\ rows'[stack[p]] = rows[stack[p]]
      BY <1>3
    <3>4. /\ rows'[stack'[p]] # <<>>
          /\ DialogLists \cap InStack(stack') \subseteq {stack'[p]} =>
               Len(rows'[stack'[p]]) = p - 1 /\ \A i \in 1 .. p - 1 : rows'[stack'[p]][i] = stack'[i]
      BY <1>1, <3>1, <3>2, <3>3, LinesKept
    <3>. QED
      BY <1>3, <3>4
  <2>. QED
    BY <2>1, <2>2, <2>3, <2>4
<1>11. FormsInv'
  BY <1>3, <1>5, <1>8, <1>10 DEF FormsInv
<1>12. Focus' \in OpenForms
  <2>1. Focus' = Current'
    BY <1>3 DEF Focus
  <2>. QED
    BY <1>2, <1>4, <2>1 DEF InStack
<1>13. OpenForms' = OpenForms
  BY <1>1, <1>3 DEF OpenForms
<1>14. [g \in OpenForms |-> parent[g]]' = [g \in OpenForms |-> parent[g]]
  BY <1>3, <1>13
<1>15. Abstract!Switch
  BY <1>12, <1>13, <1>14 DEF Abstract!Switch
<1>16. Focus # NoForm
  BY <1>2
<1>. QED
  BY <1>11, <1>15, <1>16 DEF Abstract!Next

LEMMA NextDialogStep ==
  ASSUME FormsInv, NextDialog, astray' = Lost, shifted' = Shifted
  PROVE  FormsInv' /\ Abstract!Next
<1>1. Waits /\ current' = IF current + 1 >= Len(stack) THEN 0 ELSE current + 1
  BY DEF NextDialog
<1>2. current \in 0 .. Len(stack) - 1 /\ Len(stack) \in Nat \ {0}
  BY <1>1, OnScreen DEF Waits
<1>3. current' \in 0 .. Len(stack) - 1
  BY <1>1, <1>2
<1>. QED
  BY <1>1, <1>3, SwitchStep DEF NextDialog

LEMMA PrevDialogStep ==
  ASSUME FormsInv, PrevDialog, astray' = Lost, shifted' = Shifted
  PROVE  FormsInv' /\ Abstract!Next
<1>1. Waits /\ current' = IF current > 0 THEN current - 1 ELSE Len(stack) - 1
  BY DEF PrevDialog
<1>2. current \in 0 .. Len(stack) - 1 /\ Len(stack) \in Nat \ {0}
  BY <1>1, OnScreen DEF Waits
<1>3. current' \in 0 .. Len(stack) - 1
  BY <1>1, <1>2
<1>. QED
  BY <1>1, <1>3, SwitchStep DEF PrevDialog

\* A modal form's loop of keys ends: nothing that the user sees.
LEMMA ModalReturnsStep ==
  ASSUME FormsInv, ModalReturns, astray' = Lost, shifted' = Shifted
  PROVE  FormsInv' /\ UNCHANGED Abstract!vars
<1>1. UNCHANGED <<stack, current, parent, rows, asking, quitting, crashed>> /\ loops' = Front(loops) /\ loops # <<>>
  BY DEF ModalReturns, ModalEnded
<1>2. loops \in Seq([size : Nat, form : Modal])
  BY DEF FormsInv, TypeOK
<1>3. loops' \in Seq([size : Nat, form : Modal])
  <2> DEFINE S == [size : Nat, form : Modal]
  <2> HIDE DEF S
  <2>1. loops \in Seq(S)
    BY <1>2 DEF S
  <2>2. SubSeq(loops, 1, Len(loops) - 1) \in Seq(S)
    BY <2>1
  <2>. QED
    BY <1>1, <2>2 DEF Front, S
<1>4. View' = View /\ Current' = Current
  BY <1>1 DEF View, Current, InRange
<1>5. astray' = astray /\ shifted' = shifted
  <2>1. InStack(stack) \ {NoForm} \subseteq InStack(stack')
    BY <1>1
  <2>. QED
    BY <1>4, <2>1, SameGhosts DEF FormsInv
<1>6. TypeOK'
  BY <1>1, <1>3, <1>4, <1>5 DEF FormsInv, TypeOK
<1>7. Sound(View)'
  BY <1>4 DEF FormsInv
<1>8. AskInv' /\ TopInv' /\ LinesInv'
  BY <1>1, <1>5 DEF FormsInv, AskInv, TopInv, LinesInv, IsBelow
<1>9. FormsInv'
  BY <1>1, <1>6, <1>7, <1>8 DEF FormsInv
<1>10. OpenForms' = OpenForms /\ Focus' = Focus /\ Straying' = Straying
  BY <1>1, <1>4, <1>5 DEF OpenForms, Focus, Straying
<1>11. [g \in OpenForms |-> parent[g]]' = [g \in OpenForms |-> parent[g]]
  BY <1>1, <1>10
<1>. QED
  BY <1>9, <1>10, <1>11 DEF Abstract!vars

\* The program is to end.
LEMMA QuitStep ==
  ASSUME FormsInv, Quit, astray' = Lost, shifted' = Shifted
  PROVE  FormsInv' /\ Abstract!Next
<1>1. /\ UNCHANGED <<stack, current, parent, rows, loops, asking, crashed>>
      /\ quitting' = TRUE /\ ~quitting /\ ~crashed /\ asking = Nobody
  BY DEF Quit, Waits
<1>2. View' = View
  BY <1>1 DEF View
<1>3. TypeOK'
  BY <1>1, <1>2, GhostTypes DEF FormsInv, TypeOK
<1>4. Sound(View)'
  BY <1>2 DEF FormsInv
<1>5. AskInv'
  BY <1>1 DEF FormsInv, AskInv
<1>6. TopInv' /\ LinesInv'
  BY <1>1 DEF TopInv, LinesInv
<1>7. FormsInv'
  BY <1>1, <1>3, <1>4, <1>5, <1>6 DEF FormsInv
<1>8. Focus # NoForm
  BY <1>1, OnScreen
<1>9. OpenForms' = {} /\ Focus' = NoForm
  BY <1>1 DEF OpenForms, Focus
<1>10. [g \in OpenForms |-> parent[g]]' = [g \in {} |-> NoForm]
  BY <1>9
<1>11. Abstract!Quit
  BY <1>9, <1>10 DEF Abstract!Quit
<1>12. ~Straying'
  BY <1>1 DEF Straying
<1>. QED
  BY <1>7, <1>8, <1>11, <1>12 DEF Abstract!Next

\* All forms are popped: the one on screen always is in the stack.
LEMMA PopAllStep ==
  ASSUME FormsInv, PopAll, astray' = Lost, shifted' = Shifted
  PROVE  FormsInv' /\ UNCHANGED Abstract!vars
<1>1. quitting /\ ~crashed /\ stack # <<>> /\ UNCHANGED <<rows, loops, asking, quitting>>
  BY DEF PopAll
<1>2. asking = Nobody /\ NoForm \notin InStack(stack)
  BY <1>1 DEF FormsInv, AskInv
<1>3. /\ Sound(View) /\ View \in Views /\ View.stack = stack /\ View.current = current
      /\ current \in 0 .. Len(stack) - 1
  BY <1>1 DEF FormsInv, Sound, View
<1>4. stack \in Seq(Pointers) /\ Len(stack) \in Nat /\ Distinct(stack)
  BY <1>3 DEF Views, View, Sound
<1>5. InRange(current)
  BY <1>3, <1>4 DEF InRange
<1>6. Becomes(Popped(View)) /\ crashed' = crashed
  BY <1>5 DEF PopAll
<1>7. Sound(Popped(View)) /\ Popped(View).stack = TakenOut(View, current).stack
  BY <1>1, <1>2, <1>3, PoppedView
<1>8. Sound(View)' /\ (View \in Views)' /\ stack' = Popped(View).stack
  BY <1>6, <1>7, Becoming
<1>9. NoForm \notin InStack(stack')
  <2>1. TakenOut(View, current).stack = RemoveAt(stack, current + 1)
    <3>1. View.stack[View.current + 1] = NoForm \/ NoForm \notin InStack(View.stack)
      BY <1>2, <1>3
    <3>2. View.current \in 0 .. Len(View.stack) - 1
      BY <1>3
    <3>3. TakenOut(View, View.current).stack = RemoveAt(View.stack, View.current + 1)
      BY <1>3, <3>1, <3>2, TakenOutView
    <3>. QED
      BY <1>3, <3>3
  <2>2. current + 1 \in 1 .. Len(stack)
    BY <1>3, <1>4
  <2>3. InStack(RemoveAt(stack, current + 1)) = InStack(stack) \ {stack[current + 1]}
    BY <1>4, <2>2, RemovedFromStack
  <2>. QED
    BY <1>2, <1>7, <1>8, <2>1, <2>3
<1>10. TypeOK'
  BY <1>1, <1>6, <1>8, GhostTypes DEF FormsInv, TypeOK
<1>11. AskInv' /\ TopInv' /\ LinesInv'
  BY <1>1, <1>2, <1>9 DEF AskInv, TopInv, LinesInv
<1>12. FormsInv'
  BY <1>1, <1>6, <1>8, <1>10, <1>11 DEF FormsInv
<1>13. OpenForms = {} /\ OpenForms' = {} /\ Focus = NoForm /\ Focus' = NoForm /\ ~Straying /\ ~Straying'
  BY <1>1, <1>6 DEF OpenForms, Focus, Straying
<1>14. [g \in OpenForms |-> parent[g]]' = [g \in OpenForms |-> parent[g]]
  BY <1>13
<1>15. Straying' = Straying
  BY <1>13 DEF Straying
<1>. QED
  BY <1>12, <1>13, <1>14, <1>15 DEF Abstract!vars

-----------------------------------------------------------------------------
(* Questions                                                                 *)

\* A question, or a program in the foreground, puts an empty pointer on top. For
\* the user, the form that asks keeps the focus.
LEMMA AskStep ==
  ASSUME FormsInv, NEW what \in {"quit", "overwrite", "other"}, Ask(what), astray' = Lost, shifted' = Shifted
  PROVE  FormsInv' /\ UNCHANGED Abstract!vars
<1>1. /\ ~quitting /\ ~crashed /\ asking = Nobody /\ Current \notin DialogLists
      /\ what = "overwrite" => Current \in Modal
      /\ asking' = [form |-> Current, what |-> what]
      /\ Becomes(PushedEmpty(View)) /\ UNCHANGED <<rows, loops, quitting, crashed>>
  BY DEF Ask, Waits
<1>2. /\ stack \in Seq(Pointers) /\ Len(stack) \in Nat \ {0} /\ DOMAIN stack = 1 .. Len(stack)
      /\ current \in 0 .. Len(stack) - 1 /\ parent \in [Forms -> Pointers]
      /\ NoForm \notin InStack(stack)
      /\ Current = stack[current + 1] /\ Current \in InStack(stack) /\ Current \in Forms
      /\ Focus = Current /\ OpenForms = InStack(stack)
  BY <1>1, OnScreen
<1>3. Sound(View) /\ Distinct(stack) /\ stack[1] = FeedList /\ TypeOK /\ TopInv
  BY <1>1 DEF FormsInv, Sound, View
<1>4. View.stack = stack /\ View.parent = parent
  BY DEF View
<1>5. /\ Sound(PushedEmpty(View))
      /\ PushedEmpty(View).stack = Append(stack, NoForm) /\ PushedEmpty(View).current = Len(stack)
      /\ PushedEmpty(View).parent = parent
  BY <1>2, <1>3, <1>4, PushedEmptyView
<1>6. /\ Sound(View)' /\ (View \in Views)' /\ stack' = Append(stack, NoForm) /\ current' = Len(stack)
      /\ parent' = parent
  BY <1>1, <1>5, Becoming
<1>7. NoForm \in Pointers \ InStack(stack)
  BY <1>2 DEF Pointers
<1>8. /\ stack' \in Seq(Pointers) /\ Len(stack') = Len(stack) + 1
      /\ InStack(stack') = InStack(stack) \cup {NoForm}
      /\ stack'[Len(stack) + 1] = NoForm
      /\ \A i \in DOMAIN stack : stack'[i] = stack[i]
  BY <1>2, <1>3, <1>6, <1>7, AppendedToStack
<1>9. DOMAIN stack' = 1 .. Len(stack) + 1 /\ \A i \in DOMAIN stack' : i \in DOMAIN stack \/ i = Len(stack) + 1
  BY <1>2, <1>8
<1>10. Current # NoForm /\ asking' # Nobody /\ asking'.form = Current /\ asking'.what = what
  BY <1>1, <1>2 DEF Nobody
<1>11. AskInv'
  <2>1. current' = Len(stack') - 1 /\ stack'[Len(stack')] = NoForm
    BY <1>2, <1>6, <1>8
  <2>2. Current \in InStack(stack') \cap (Forms \ DialogLists)
    BY <1>1, <1>2, <1>8
  <2>. QED
    BY <1>1, <1>10, <2>1, <2>2 DEF AskInv
<1>12. /\ astray' = astray /\ shifted' = shifted
       /\ astray' \subseteq Special \cap InStack(stack') /\ shifted' \subseteq DialogLists \cap astray'
  <2>1. InStack(stack) \ {NoForm} \subseteq InStack(stack')
    BY <1>8
  <2>. QED
    BY <1>3, <1>10, <2>1, SameGhosts, GhostTypes
<1>13. TopInv'
  <2>. SUFFICES ASSUME NEW i \in DOMAIN stack', stack'[i] \in Special \ astray
                PROVE  i = Len(stack') - 1 /\ stack'[i] = Current
    BY <1>10, <1>12 DEF TopInv
  <2>1. i # Len(stack) + 1
    <3>1. NoForm \notin Special
      BY FormsAssumption DEF Forms, Special
    <3>. QED
      BY <1>8, <3>1
  <2>2. i \in DOMAIN stack /\ stack'[i] = stack[i]
    BY <1>8, <1>9, <2>1
  <2>3. stack[i] = Current /\ i = Len(stack)
    BY <1>1, <2>2, OthersAstray
  <2>4. i = Len(stack') - 1
    BY <1>2, <1>8, <2>3
  <2>. QED
    BY <2>2, <2>3, <2>4
<1>14. LinesInv'
  <2>. SUFFICES ASSUME NEW p \in DOMAIN stack', stack'[p] \in DialogLists \ shifted'
                PROVE  /\ rows'[stack'[p]] # <<>>
                       /\ DialogLists \cap InStack(stack') \subseteq {stack'[p]} =>
                            Len(rows'[stack'[p]]) = p - 1 /\ \A i \in 1 .. p - 1 : rows'[stack'[p]][i] = stack'[i]
    BY DEF LinesInv, IsBelow
  <2>1. p # Len(stack) + 1
    <3>1. NoForm \notin DialogLists
      BY FormsAssumption DEF Forms
    <3>. QED
      BY <1>8, <3>1
  <2>2. p \in DOMAIN stack
    BY <1>9, <2>1
  <2>3. \A i \in 1 .. p : stack'[i] = stack[i]
    BY <1>2, <1>8, <2>2
  <2>4. DialogLists \cap InStack(stack) \subseteq InStack(stack') /\ rows'[stack[p]] = rows[stack[p]]
    BY <1>1, <1>8
  <2>5. Waits
    BY DEF Ask
  <2>. QED
    BY <1>1, <2>2, <2>3, <2>4, <2>5, LinesKept
<1>15. TypeOK'
  <2>1. asking' \in [form : Pointers, what : {"nothing", "quit", "overwrite", "other"}]
    BY <1>1, <1>2 DEF Pointers
  <2>. QED
    BY <1>1, <1>3, <1>6, <1>12, <2>1 DEF TypeOK
<1>16. stack' # <<>> /\ stack'[1] = FeedList
  BY <1>2, <1>3, <1>8
<1>17. FormsInv'
  BY <1>1, <1>6, <1>11, <1>13, <1>14, <1>15, <1>16 DEF FormsInv
<1>18. Focus' = Focus /\ Straying' = Straying
  BY <1>1, <1>2, <1>10, <1>12 DEF Focus, Straying
<1>19. OpenForms' = OpenForms
  BY <1>1, <1>2, <1>8 DEF OpenForms
<1>20. [g \in OpenForms |-> parent[g]]' = [g \in OpenForms |-> parent[g]]
  BY <1>6, <1>19
<1>. QED
  BY <1>17, <1>18, <1>19, <1>20 DEF Abstract!vars

\* What is on top while a question is asked: the empty pointer, and below it the
\* stack as it was.
LEMMA Asked ==
  ASSUME FormsInv, asking # Nobody
  PROVE  LET back == Popped(View)
         IN  /\ Sound(back) /\ back.stack # <<>> /\ back.stack[1] = FeedList /\ back.parent = parent
             /\ NoForm \notin InStack(back.stack) /\ InStack(back.stack) = OpenForms
             /\ Len(back.stack) = Len(stack) - 1 /\ back.current = Len(back.stack) - 1
             /\ Len(stack) \in Nat /\ Len(stack) > 1
             /\ \A i \in 1 .. Len(stack) - 1 : back.stack[i] = stack[i]
             /\ asking.form \in InStack(back.stack) /\ Focus = asking.form
             /\ \A i \in 1 .. Len(stack) - 1 :
                  stack[i] \in Special \ astray => i = Len(stack) - 1 /\ stack[i] = asking.form
             /\ Current = NoForm /\ ~quitting
<1> DEFINE back == Popped(View)
           s == RemoveAt(stack, current + 1)
<1>1. /\ ~quitting /\ ~crashed /\ current = Len(stack) - 1 /\ stack[Len(stack)] = NoForm
      /\ asking.form \in InStack(stack) \cap (Forms \ DialogLists)
  BY DEF FormsInv, AskInv
<1>2. /\ Sound(View) /\ View \in Views /\ Distinct(stack) /\ stack # <<>> /\ stack[1] = FeedList
      /\ View.stack = stack /\ View.current = current /\ View.parent = parent
      /\ current \in 0 .. Len(stack) - 1
  BY <1>1 DEF FormsInv, Sound, View
<1>3. /\ stack \in Seq(Pointers) /\ Len(stack) \in Nat /\ parent \in [Forms -> Pointers]
      /\ DOMAIN stack = 1 .. Len(stack)
  BY <1>2 DEF Views
<1>4. FeedList # NoForm /\ NoForm \notin Forms
  BY FormsAssumption DEF Forms
<1>5. Len(stack) > 1
  <2>1. Len(stack) # 1
    BY <1>1, <1>2, <1>4
  <2>2. Len(stack) # 0
    BY <1>2, <1>3
  <2>. QED
    BY <1>3, <2>1, <2>2
<1>6. current + 1 = Len(stack) /\ current + 1 \in 1 .. Len(stack) /\ stack[current + 1] = NoForm
  BY <1>1, <1>3, <1>5
<1>7. /\ Sound(back) /\ back.stack = TakenOut(View, View.current).stack
      /\ back.parent = TakenOut(View, View.current).parent
      /\ back.current = Len(back.stack) - 1
  <2>1. View.stack # <<>> /\ View.stack[View.current + 1] = NoForm
    BY <1>2, <1>6
  <2>. QED
    BY <1>2, <2>1, PoppedView
<1>8. /\ TakenOut(View, View.current) \in Views
      /\ TakenOut(View, View.current).stack = RemoveAt(View.stack, View.current + 1)
      /\ \A g \in Forms \ {View.stack[View.current + 1]} : TakenOut(View, View.current).parent[g] =
              IF View.stack[View.current + 1] # NoForm /\ View.parent[g] = View.stack[View.current + 1]
                THEN IF RemoveAt(View.stack, View.current + 1) = <<>> THEN NoForm
                     ELSE RemoveAt(View.stack, View.current + 1)[1]
                ELSE View.parent[g]
  <2>1. View.current \in 0 .. Len(View.stack) - 1 /\ View.stack[View.current + 1] = NoForm
    BY <1>2, <1>6
  <2>. QED
    BY <1>2, <2>1, TakenOutView
<1> HIDE DEF back, s
<1>9. back.stack = s
  BY <1>2, <1>7, <1>8 DEF s
<1>10. back.parent = parent
  <2>1. back.parent \in [Forms -> Pointers]
    BY <1>7, <1>8 DEF Views
  <2>2. \A g \in Forms : g \in Forms \ {View.stack[View.current + 1]} /\ View.stack[View.current + 1] = NoForm
    BY <1>2, <1>4, <1>6
  <2>3. \A g \in Forms : back.parent[g] = parent[g]
    BY <1>2, <1>7, <1>8, <2>2
  <2>. QED
    BY <1>3, <2>1, <2>3
<1>11. /\ s \in Seq(Pointers) /\ Len(s) = Len(stack) - 1 /\ InStack(s) = InStack(stack) \ {NoForm}
  BY <1>2, <1>3, <1>6, RemovedFromStack DEF s
<1>12. \A i \in 1 .. Len(stack) - 1 : s[i] = stack[i]
  <2>1. \A i \in 1 .. Len(stack) - 1 : s[i] = IF i < current + 1 THEN stack[i] ELSE stack[i + 1]
    BY <1>3, <1>6, RemovedElements DEF s
  <2>2. \A i \in 1 .. Len(stack) - 1 : i < current + 1
    BY <1>3, <1>6
  <2>. QED
    BY <2>1, <2>2
<1>13. s # <<>> /\ s[1] = FeedList
  <2>1. 1 \in 1 .. Len(stack) - 1
    BY <1>3, <1>5
  <2>2. s # <<>>
    BY <1>3, <1>5, <1>11
  <2>. QED
    BY <1>2, <1>12, <2>1, <2>2
<1>14. Focus = asking.form /\ OpenForms = InStack(s)
  BY <1>1, <1>11 DEF Focus, OpenForms
<1>15. asking.form \in InStack(s)
  BY <1>1, <1>4, <1>11
<1>16. \A i \in 1 .. Len(stack) - 1 :
         stack[i] \in Special \ astray => i = Len(stack) - 1 /\ stack[i] = asking.form
  <2>. SUFFICES ASSUME NEW i \in 1 .. Len(stack) - 1, stack[i] \in Special \ astray
                PROVE  i = Len(stack) - 1 /\ stack[i] = asking.form
    OBVIOUS
  <2>1. i \in DOMAIN stack
    BY <1>3
  <2>. QED
    BY <1>1, <2>1 DEF FormsInv, TopInv
<1>17. Current = NoForm
  BY <1>3, <1>6 DEF Current
<1>. QED
  BY <1>1, <1>3, <1>5, <1>7, <1>9, <1>10, <1>11, <1>12, <1>13, <1>14, <1>15, <1>16, <1>17 DEF back

\* The answer: the form on top is on screen again, which is the one that asked if it
\* was not astray, or the program ends, or the file browser that asked is closed.
LEMMA AnswerStep ==
  ASSUME FormsInv, NEW answer \in {"yes", "no", "cancel"}, Answer(answer), astray' = Lost, shifted' = Shifted
  PROVE  FormsInv' /\ Abstract!Next
<1> DEFINE back == Popped(View)
           over == asking.what = "overwrite" /\ answer # "no"
<1>1. /\ ~crashed /\ asking # Nobody /\ asking' = Nobody /\ UNCHANGED <<rows, loops, crashed>>
      /\ quitting' = (asking.what = "quit" /\ answer = "yes")
      /\ Becomes(IF over THEN Popped(back) ELSE back)
  BY DEF Answer
<1>2. /\ Sound(back) /\ back.stack # <<>> /\ back.stack[1] = FeedList /\ back.parent = parent
      /\ NoForm \notin InStack(back.stack) /\ InStack(back.stack) = OpenForms
      /\ Len(back.stack) = Len(stack) - 1 /\ back.current = Len(back.stack) - 1
      /\ Len(stack) \in Nat /\ Len(stack) > 1
      /\ \A i \in 1 .. Len(stack) - 1 : back.stack[i] = stack[i]
      /\ asking.form \in InStack(back.stack) /\ Focus = asking.form
      /\ \A i \in 1 .. Len(stack) - 1 :
           stack[i] \in Special \ astray => i = Len(stack) - 1 /\ stack[i] = asking.form
      /\ Current = NoForm /\ ~quitting
  BY <1>1, Asked
<1> HIDE DEF back
<1>3. /\ back \in Views /\ back.stack \in Seq(Pointers) /\ DOMAIN back.stack = 1 .. Len(stack) - 1
      /\ TypeOK
  <2>1. back \in Views
    BY <1>2 DEF Sound
  <2>2. back.stack \in Seq(Pointers)
    BY <2>1 DEF Views
  <2>. QED
    BY <1>2, <2>1, <2>2 DEF FormsInv
<1>4. ~crashed' /\ (asking' = Nobody) /\ quitting' \in BOOLEAN
  BY <1>1
<1>5. asking' \in [form : Pointers, what : {"nothing", "quit", "overwrite", "other"}]
  BY <1>1 DEF Nobody, Pointers
<1>6. CASE over
  <2>1. ~quitting' /\ Becomes(Popped(back))
    BY <1>1, <1>6
  <2>2. asking.form \in Modal
    BY <1>1, <1>6 DEF FormsInv, AskInv
  <2>3. PICK i \in DOMAIN back.stack : back.stack[i] = asking.form
    BY <1>2 DEF InStack
  <2>4. i # 1
    BY <1>2, <2>2, <2>3, FormsAssumption
  <2>5. back.current > 0 /\ back.current + 1 = Len(stack) - 1
    <3> DEFINE n == Len(stack)
               c == back.current
    <3>1. n \in Nat /\ n > 1 /\ c = (n - 1) - 1
      BY <1>2
    <3>2. i \in 1 .. n - 1 /\ i # 1
      BY <1>3, <2>4
    <3> HIDE DEF n, c
    <3>3. c > 0 /\ c + 1 = n - 1
      BY <3>1, <3>2
    <3>. QED
      BY <3>3 DEF n, c
  <2>6. back.stack[back.current + 1] = Focus \/ astray # {}
    <3>. SUFFICES ASSUME astray = {}
                  PROVE  back.stack[back.current + 1] = Focus
      OBVIOUS
    <3>1. i \in 1 .. Len(stack) - 1 /\ stack[i] \in Special \ astray
      BY <1>2, <1>3, <2>2, <2>3 DEF Special
    <3>2. i = Len(stack) - 1
      BY <1>2, <3>1
    <3>. QED
      BY <1>2, <2>3, <2>5, <3>2
  <2>7. \A j \in DOMAIN back.stack : back.stack[j] \in Special \ astray => j = back.current + 1
    BY <1>2, <1>3, <2>5
  <2>8. Focus \in OpenForms /\ Current \notin InStack(back.stack)
    BY <1>2
  <2>9. /\ Sound(View)' /\ (View \in Views)' /\ AskInv' /\ TopInv' /\ LinesInv'
        /\ (~quitting => stack # <<>> /\ stack[1] = FeedList)'
        /\ (astray \subseteq Special \cap InStack(stack) /\ shifted \subseteq DialogLists \cap astray)'
        /\ Abstract!Next
    BY <1>2, <1>4, <2>1, <2>5, <2>6, <2>7, <2>8, ClosedStep
  <2>10. TypeOK'
    BY <1>1, <1>3, <1>4, <1>5, <2>9 DEF TypeOK
  <2>. QED
    BY <1>4, <2>9, <2>10 DEF FormsInv
<1>7. CASE ~over
  <2>1. Becomes(back)
    BY <1>1, <1>7
  <2>2. Sound(View)' /\ (View \in Views)' /\ stack' = back.stack /\ current' = back.current /\ parent' = parent
    BY <1>2, <2>1, Becoming
  <2>3. TypeOK'
    BY <1>1, <1>3, <1>4, <1>5, <2>2, GhostTypes DEF TypeOK
  <2>4. AskInv'
    BY <1>2, <1>4, <2>2 DEF AskInv
  <2>5. TopInv'
    <3>. SUFFICES ASSUME NEW i \in DOMAIN back.stack, back.stack[i] \in Special \ astray'
                  PROVE  i = Len(back.stack) /\ back.current = i - 1
      BY <1>4, <2>2 DEF TopInv
    <3>1. back.stack[i] \in Special \ astray
      <4>1. back.stack[i] \in InStack(stack')
        BY <2>2 DEF InStack
      <4>. QED
        BY <1>3, <4>1, GhostTypes
    <3>2. i = Len(stack) - 1
      BY <1>2, <1>3, <3>1
    <3>. QED
      BY <1>2, <3>2
  <2>6. LinesInv'
    <3>. SUFFICES ASSUME NEW p \in DOMAIN stack', stack'[p] \in DialogLists \ shifted'
                  PROVE  /\ rows'[stack'[p]] # <<>>
                         /\ DialogLists \cap InStack(stack') \subseteq {stack'[p]} =>
                              Len(rows'[stack'[p]]) = p - 1 /\ \A i \in 1 .. p - 1 : rows'[stack'[p]][i] = stack'[i]
      BY DEF LinesInv, IsBelow
    <3>1. p \in 1 .. Len(stack) - 1 /\ p \in DOMAIN stack
      <4>1. stack \in Seq(Pointers)
        BY DEF FormsInv, TypeOK, View, Views
      <4>2. DOMAIN stack = 1 .. Len(stack)
        BY <4>1
      <4>3. DOMAIN stack' = 1 .. Len(stack) - 1 /\ Len(stack) \in Nat
        BY <1>2, <1>3, <2>2
      <4>. QED
        BY <4>2, <4>3
    <3>2. \A i \in 1 .. p : stack'[i] = stack[i]
      BY <1>2, <2>2, <3>1
    <3>3. rows'[stack[p]] = rows[stack[p]] /\ DialogLists \cap InStack(stack) \subseteq InStack(stack')
      <4>1. OpenForms = InStack(stack) \ {NoForm} /\ NoForm \notin DialogLists
        BY <1>2, FormsAssumption DEF OpenForms, Forms
      <4>. QED
        BY <1>1, <1>2, <2>2, <4>1
    <3>. QED
      BY <1>1, <1>2, <3>1, <3>2, <3>3, LinesKept
  <2>7. FormsInv'
    BY <1>2, <1>4, <2>2, <2>3, <2>4, <2>5, <2>6 DEF FormsInv
  <2>8. Focus # NoForm
    BY <1>2
  <2>9. CASE quitting'
    <3>1. OpenForms' = {} /\ Focus' = NoForm
      BY <1>4, <2>9 DEF OpenForms, Focus
    <3>2. [g \in OpenForms |-> parent[g]]' = [g \in {} |-> NoForm]
      BY <3>1
    <3>3. Abstract!Quit
      BY <3>1, <3>2 DEF Abstract!Quit
    <3>4. ~Straying'
      BY <2>9 DEF Straying
    <3>. QED
      BY <2>7, <2>8, <3>3, <3>4 DEF Abstract!Next
  <2>10. CASE ~quitting'
    <3>1. OpenForms' = OpenForms
      BY <1>2, <2>2, <2>10 DEF OpenForms
    <3>2. [g \in OpenForms |-> parent[g]]' = [g \in OpenForms |-> parent[g]]
      BY <2>2, <3>1
    <3>3. Focus' \in OpenForms
      <4>1. current' + 1 \in DOMAIN back.stack /\ InRange(current)'
        BY <1>2, <1>3, <2>2 DEF InRange
      <4>2. Current' = back.stack[current' + 1]
        BY <2>2, <4>1 DEF Current
      <4>3. Focus' = Current'
        BY <1>4, <2>10 DEF Focus
      <4>. QED
        BY <1>2, <4>1, <4>2, <4>3 DEF InStack
    <3>4. Abstract!Switch
      BY <3>1, <3>2, <3>3 DEF Abstract!Switch
    <3>. QED
      BY <2>7, <2>8, <3>4 DEF Abstract!Next
  <2>. QED
    BY <2>9, <2>10
<1>. QED
  BY <1>6, <1>7

-----------------------------------------------------------------------------
(* The list of dialogs                                                       *)

\* The lines are forms of the stack, whatever is in it: as many positions are titled
\* as there are lines, and no two of them have the same number of titled ones up to
\* them, so that there is one for each line.
LEMMA LinesTyped ==
  ASSUME stack \in Seq(Pointers)
  PROVE  Lines \in Seq(Pointers)
<1> DEFINE N == Cardinality(Titled)
           upto(i) == {j \in Titled : j <= i}
           count == [i \in Titled |-> Cardinality(upto(i))]
<1>1. DOMAIN stack = 1 .. Len(stack) /\ Len(stack) \in Nat
  OBVIOUS
<1>2. Titled \subseteq 1 .. Len(stack) /\ IsFiniteSet(Titled)
  <2>1. Titled \in SUBSET (1 .. Len(stack))
    BY <1>1 DEF Titled
  <2>2. IsFiniteSet(1 .. Len(stack))
    BY <1>1, FS_Interval
  <2>. QED
    BY <2>1, <2>2, FS_Subset
<1>3. N \in Nat
  BY <1>2, FS_CardinalityType
<1>4. \A i \in Titled : IsFiniteSet(upto(i)) /\ Cardinality(upto(i)) \in 1 .. N
  <2>. SUFFICES ASSUME NEW i \in Titled
                PROVE  IsFiniteSet(upto(i)) /\ Cardinality(upto(i)) \in 1 .. N
    OBVIOUS
  <2>1. upto(i) \in SUBSET Titled /\ i \in upto(i)
    BY <1>1, <1>2
  <2> HIDE DEF upto
  <2>2. IsFiniteSet(upto(i)) /\ Cardinality(upto(i)) <= N
    BY <1>2, <2>1, FS_Subset
  <2>3. Cardinality(upto(i)) \in Nat /\ Cardinality(upto(i)) # 0
    BY <2>1, <2>2, FS_CardinalityType, FS_EmptySet
  <2> HIDE DEF N
  <2>. QED
    BY <1>3, <2>2, <2>3
<1>5. ASSUME NEW i \in Titled, NEW k \in Titled, i < k
      PROVE  Cardinality(upto(i)) # Cardinality(upto(k))
  <2>1. upto(i) \in SUBSET upto(k) /\ k \in upto(k) /\ k \notin upto(i)
    <3>1. Titled \subseteq Int /\ i \in Int /\ k \in Int
      BY <1>2
    <3>2. \A j \in Titled : j <= i => j <= k
      BY <1>5, <3>1
    <3>3. upto(i) \subseteq upto(k)
      BY <3>2
    <3>4. k <= k /\ ~(k <= i)
      BY <1>5, <3>1
    <3>5. k \in upto(k) /\ k \notin upto(i)
      BY <3>4
    <3>. QED
      BY <3>3, <3>5
  <2> HIDE DEF upto
  <2>2. IsFiniteSet(upto(k))
    BY <1>4
  <2>3. Cardinality(upto(k)) = Cardinality(upto(i)) => upto(k) = upto(i)
    BY <2>1, <2>2, FS_Subset
  <2>. QED
    BY <2>1, <2>3
<1> HIDE DEF upto
<1>6. \A i, k \in Titled : count[i] = count[k] => i = k
  <2>. SUFFICES ASSUME NEW i \in Titled, NEW k \in Titled, i # k
                PROVE  count[i] # count[k]
    OBVIOUS
  <2>1. i < k \/ k < i
    BY <1>1, <1>2
  <2>. QED
    BY <1>5, <2>1
<1>7. count \in [Titled -> 1 .. N]
  BY <1>4
<1>8. count \in Surjection(Titled, 1 .. N)
  <2>1. IsFiniteSet(1 .. N) /\ Cardinality(1 .. N) = N
    <3> HIDE DEF N
    <3>. QED
      BY <1>3, FS_Interval
  <2>2. count \in Injection(Titled, 1 .. N)
    <3> HIDE DEF count
    <3>. QED
      BY <1>6, <1>7 DEF Injection, IsInjective
  <2> HIDE DEF count
  <2>. QED
    BY <2>1, <2>2, FS_Injection
<1>9. \A n \in 1 .. N : TitledAt(n) \in Titled
  <2>. SUFFICES ASSUME NEW n \in 1 .. N
                PROVE  TitledAt(n) \in Titled
    OBVIOUS
  <2>1. PICK i \in Titled : count[i] = n
    <3> HIDE DEF count
    <3>. QED
      BY <1>8 DEF Surjection
  <2>2. \E k \in Titled : Cardinality({j \in Titled : j <= k}) = n
    BY <2>1 DEF upto
  <2>. QED
    BY <2>2 DEF TitledAt
<1>10. \A n \in 1 .. N : stack[TitledAt(n)] \in Pointers
  <2>1. \A i \in 1 .. Len(stack) : stack[i] \in Pointers
    OBVIOUS
  <2> HIDE DEF N
  <2>. QED
    BY <1>2, <1>9, <2>1
<1> HIDE DEF N
<1>11. [n \in 1 .. N |-> stack[TitledAt(n)]] \in Seq(Pointers)
  BY <1>3, <1>10
<1>. QED
  BY <1>11 DEF Lines, N

\* When the only list of dialogs is on top, they are the stack below it, line by line.
LEMMA LinesBelow ==
  ASSUME FormsInv, ~quitting, asking = Nobody, current = Len(stack) - 1,
         Current \in DialogLists, DialogLists \cap InStack(stack) \subseteq {Current}
  PROVE  IsBelow(Lines, Len(stack))
<1>1. /\ stack \in Seq(Pointers) /\ Len(stack) \in Nat \ {0} /\ DOMAIN stack = 1 .. Len(stack)
      /\ Current = stack[current + 1] /\ NoForm \notin InStack(stack) /\ Distinct(stack)
  BY OnScreen DEF FormsInv, Sound, View
<1> DEFINE n == Len(stack) - 1
<1>2. n \in Nat /\ current + 1 = n + 1 /\ Len(stack) = n + 1
  BY <1>1
<1> HIDE DEF n
<1>3. Titled = 1 .. n
  <2>1. \A i \in 1 .. n : i \in DOMAIN stack /\ stack[i] \notin DialogLists \cup {NoForm}
    <3>. SUFFICES ASSUME NEW i \in 1 .. n
                  PROVE  i \in DOMAIN stack /\ stack[i] \notin DialogLists \cup {NoForm}
      OBVIOUS
    <3>1. i \in DOMAIN stack /\ n + 1 \in DOMAIN stack /\ i # n + 1
      BY <1>1, <1>2
    <3>2. stack[i] # Current /\ stack[i] \in InStack(stack)
      BY <1>1, <1>2, <3>1 DEF Distinct, InStack
    <3>. QED
      BY <1>1, <3>1, <3>2
  <2>2. \A i \in DOMAIN stack : stack[i] \notin DialogLists \cup {NoForm} => i \in 1 .. n
    BY <1>1, <1>2
  <2>. QED
    BY <2>1, <2>2 DEF Titled
<1>4. \A k \in 0 .. n : Cardinality(1 .. k) = k
  <2>. SUFFICES ASSUME NEW k \in 0 .. n
                PROVE  Cardinality(1 .. k) = k
    OBVIOUS
  <2>1. k \in Nat
    BY <1>2
  <2>. QED
    BY <2>1, FS_Interval
<1>5. Cardinality(Titled) = n
  BY <1>2, <1>3, <1>4
<1>6. \A i \in 1 .. n : Cardinality({j \in Titled : j <= i}) = i
  <2>. SUFFICES ASSUME NEW i \in 1 .. n
                PROVE  Cardinality({j \in Titled : j <= i}) = i
    OBVIOUS
  <2>1. {j \in Titled : j <= i} = 1 .. i
    BY <1>2, <1>3
  <2>2. i \in 0 .. n
    BY <1>2
  <2>. QED
    BY <1>4, <2>1, <2>2
<1>7. \A i \in 1 .. n : TitledAt(i) = i
  <2>. SUFFICES ASSUME NEW i \in 1 .. n
                PROVE  TitledAt(i) = i
    OBVIOUS
  <2> DEFINE P(k) == Cardinality({j \in Titled : j <= k}) = i
  <2>1. P(i) /\ i \in Titled /\ \A k \in Titled : P(k) => k = i
    BY <1>3, <1>6
  <2> HIDE DEF P
  <2>2. (CHOOSE k \in Titled : P(k)) = i
    BY <2>1
  <2>. QED
    BY <2>2 DEF TitledAt, P
<1>8. Lines = [i \in 1 .. n |-> stack[TitledAt(i)]]
  BY <1>5 DEF Lines
<1>9. \A i \in 1 .. n : stack[TitledAt(i)] = stack[i] /\ stack[i] \in Pointers
  BY <1>1, <1>2, <1>7
<1>10. Len(Lines) = n /\ \A i \in 1 .. n : Lines[i] = stack[i]
  BY <1>2, <1>8, <1>9
<1>. QED
  BY <1>10 DEF n, IsBelow

\* Drawing the list changes what it shows, and nothing else.
LEMMA DrawStep ==
  ASSUME FormsInv, Draw, astray' = Lost, shifted' = Shifted
  PROVE  FormsInv' /\ UNCHANGED Abstract!vars
<1>1. /\ ~crashed /\ ~quitting /\ asking = Nobody /\ Current \in DialogLists /\ rows[Current] = <<>>
      /\ rows' = [rows EXCEPT ![Current] = Lines]
      /\ UNCHANGED <<stack, current, parent, loops, asking, quitting, crashed>>
  BY DEF Draw, Unread
<1>2. rows \in [DialogLists -> Seq(Pointers)] /\ LinesInv /\ TypeOK /\ Lines \in Seq(Pointers)
  <2>1. stack \in Seq(Pointers)
    BY <1>1, OnScreen
  <2>. QED
    BY <2>1, LinesTyped DEF FormsInv, TypeOK
<1>3. View' = View /\ Current' = Current
  BY <1>1 DEF View, Current, InRange
<1>4. astray' = astray /\ shifted' = shifted
  <2>1. InStack(stack) \ {NoForm} \subseteq InStack(stack')
    BY <1>1
  <2>. QED
    BY <1>2, <1>3, <2>1, SameGhosts
<1> DEFINE c == Current
           l == Lines
<1>5. c \in DialogLists /\ l \in Seq(Pointers) /\ rows' = [rows EXCEPT ![c] = l]
  BY <1>1, <1>2
<1>6. ASSUME NEW p \in DOMAIN stack, stack[p] \in DialogLists \ shifted, stack[p] = c
      PROVE  stack[p] \notin astray /\ (DialogLists \cap InStack(stack) \subseteq {stack[p]} => IsBelow(l, p))
  <2>1. stack[p] \notin astray
    BY <1>1, <1>2, <1>6 DEF LinesInv
  <2>2. p = Len(stack) /\ current = Len(stack) - 1
    BY <1>1, <1>6, <2>1, OthersAstray DEF Special
  <2>3. DialogLists \cap InStack(stack) \subseteq {stack[p]} => IsBelow(Lines, Len(stack))
    BY <1>1, <1>6, <2>2, LinesBelow
  <2>. QED
    BY <2>1, <2>2, <2>3
<1> HIDE DEF c, l
<1>7. rows' \in [DialogLists -> Seq(Pointers)] /\ rows'[c] = l /\ \A d \in DialogLists \ {c} : rows'[d] = rows[d]
  BY <1>2, <1>5
<1>8. LinesInv'
  <2>. SUFFICES ASSUME NEW p \in DOMAIN stack, stack[p] \in DialogLists \ shifted
                PROVE  /\ rows'[stack[p]] = <<>> => stack[p] \notin astray
                       /\ rows'[stack[p]] # <<>> /\ DialogLists \cap InStack(stack) \subseteq {stack[p]} =>
                            IsBelow(rows'[stack[p]], p)
    BY <1>1, <1>4 DEF LinesInv, IsBelow
  <2>1. CASE stack[p] = c
    BY <1>6, <1>7, <2>1
  <2>2. CASE stack[p] # c
    <3>1. rows'[stack[p]] = rows[stack[p]]
      BY <1>7, <2>2
    <3>. QED
      BY <1>1, <1>2, <3>1 DEF LinesInv
  <2>. QED
    BY <2>1, <2>2
<1>9. TypeOK'
  BY <1>1, <1>2, <1>3, <1>4, <1>7 DEF TypeOK
<1>10. Sound(View)'
  BY <1>3 DEF FormsInv
<1>11. AskInv' /\ TopInv'
  BY <1>1, <1>4 DEF FormsInv, AskInv, TopInv
<1>12. FormsInv'
  BY <1>1, <1>8, <1>9, <1>10, <1>11 DEF FormsInv
<1>13. OpenForms' = OpenForms /\ Focus' = Focus /\ Straying' = Straying
  BY <1>1, <1>3, <1>4 DEF OpenForms, Focus, Straying
<1>14. [g \in OpenForms |-> parent[g]]' = [g \in OpenForms |-> parent[g]]
  BY <1>1, <1>13
<1>. QED
  BY <1>12, <1>13, <1>14 DEF Abstract!vars

\* A list of dialogs on screen that is in step shows the stack below it.
LEMMA RowsBelow ==
  ASSUME FormsInv, Waits, Current \in DialogLists, InStep
  PROVE  Len(rows[Current]) = current /\ \A i \in 1 .. current : rows[Current][i] = stack[i]
<1>1. ~quitting /\ asking = Nobody
  BY DEF Waits
<1>2. current + 1 \in DOMAIN stack /\ stack[current + 1] = Current /\ current \in Nat
  BY <1>1, OnScreen
<1>3. Current \in DialogLists \ shifted /\ DialogLists \cap InStack(stack) \subseteq {Current}
  BY DEF InStep
<1>4. rows[Current] # <<>>
  BY DEF Waits, Unread
<1>5. IsBelow(rows[Current], current + 1)
  BY <1>1, <1>2, <1>3, <1>4 DEF FormsInv, LinesInv
<1>6. (current + 1) - 1 = current
  BY <1>2
<1>. QED
  BY <1>5, <1>6 DEF IsBelow

\* Only when some form is astray can it be out of step.
LEMMA AstrayIfNotInStep ==
  ASSUME FormsInv, Waits, Current \in DialogLists, ~InStep
  PROVE  Straying /\ astray # {}
<1>1. ~quitting /\ asking = Nobody
  BY DEF Waits
<1>2. astray # {}
  <2>. SUFFICES ASSUME astray = {}
                PROVE  InStep
    OBVIOUS
  <2>1. shifted = {}
    BY DEF FormsInv, TypeOK
  <2>2. Current \in DialogLists \cap InStack(stack)
    BY <1>1, OnScreen
  <2>3. \A d \in DialogLists \cap InStack(stack) : d = Current
    BY <1>1, OthersAstray DEF InStack, Special
  <2>. QED
    BY <2>1, <2>2, <2>3 DEF InStep
<1>. QED
  BY <1>1, <1>2 DEF Straying

\* A row is chosen: the list of dialogs is taken out, and its number is the position.
LEMMA SelectedView ==
  ASSUME FormsInv, NEW row, SelectRow(row)
  PROVE  /\ ~quitting /\ asking = Nobody /\ Waits /\ Current \in DialogLists
         /\ row \in Nat /\ row < Len(rows[Current]) /\ current \in 1 .. Len(stack) - 1 /\ Len(stack) \in Nat
         /\ (View \in Views)' /\ Parents(View)' /\ Distinct(stack') /\ Len(stack') = Len(stack) - 1
         /\ InStack(stack') = InStack(stack) \ {Current} /\ stack' # <<>> /\ stack'[1] = FeedList
         /\ \A i \in 1 .. Len(stack) - 1 : stack'[i] = IF i < current + 1 THEN stack[i] ELSE stack[i + 1]
         /\ \A g \in InStack(stack) \ {Current} :
              parent'[g] = IF parent[g] = Current THEN FeedList ELSE parent[g]
         /\ current' = row /\ crashed' \in BOOLEAN
         /\ crashed' => row >= Len(stack')
         /\ ~crashed' => row < Len(stack')
<1>1. /\ ~quitting /\ asking = Nobody /\ Waits /\ Current \in DialogLists
      /\ row \in 0 .. Len(rows[Current]) - 1
      /\ Becomes([Removed(View, current) EXCEPT !.current = row])
      /\ crashed' = (row >= Len(stack'))
  BY DEF SelectRow, Waits
<1>2. /\ stack \in Seq(Pointers) /\ Len(stack) \in Nat \ {0} /\ DOMAIN stack = 1 .. Len(stack)
      /\ NoForm \notin InStack(stack) /\ Current = stack[current + 1] /\ current \in 0 .. Len(stack) - 1
      /\ (Current = FeedList <=> current = 0)
  BY <1>1, OnScreen
<1>3. /\ Sound(View) /\ stack # <<>> /\ stack[1] = FeedList
      /\ View.stack = stack /\ View.current = current /\ View.parent = parent
  BY <1>1 DEF FormsInv, View
<1>4. current \in 1 .. Len(stack) - 1
  <2>1. current # 0
    BY <1>1, <1>2, FormsAssumption
  <2>. QED
    BY <1>2, <2>1
<1>5. row \in Nat /\ row < Len(rows[Current])
  <2>1. rows[Current] \in Seq(Pointers)
    BY <1>1 DEF FormsInv, TypeOK
  <2>2. Len(rows[Current]) \in Nat
    BY <2>1
  <2>. QED
    BY <1>1, <2>2
<1> DEFINE t == TakenOut(View, current)
<1>6. /\ t \in Views /\ Distinct(t.stack) /\ Parents(t) /\ t.current = current
      /\ Len(t.stack) = Len(stack) - 1
      /\ InStack(t.stack) = InStack(stack) \ {Current}
      /\ t.stack # <<>> /\ t.stack[1] = FeedList
      /\ \A i \in 1 .. Len(stack) - 1 : t.stack[i] = IF i < current + 1 THEN stack[i] ELSE stack[i + 1]
      /\ \A g \in InStack(stack) \ {Current} :
           t.parent[g] = IF parent[g] = Current THEN FeedList ELSE parent[g]
  <2>1. View.stack # <<>> /\ View.stack[1] = FeedList /\ NoForm \notin InStack(View.stack)
        /\ current \in 1 .. Len(View.stack) - 1 /\ View.stack[current + 1] = Current
    BY <1>2, <1>3, <1>4
  <2>2. /\ TakenOut(View, current) \in Views /\ Distinct(TakenOut(View, current).stack) /\ Parents(TakenOut(View, current))
        /\ TakenOut(View, current).current = View.current
        /\ Len(TakenOut(View, current).stack) = Len(View.stack) - 1
        /\ InStack(TakenOut(View, current).stack) = InStack(View.stack) \ {View.stack[current + 1]}
        /\ TakenOut(View, current).stack # <<>> /\ TakenOut(View, current).stack[1] = FeedList
        /\ \A i \in 1 .. Len(View.stack) - 1 :
             TakenOut(View, current).stack[i] = IF i < current + 1 THEN View.stack[i] ELSE View.stack[i + 1]
        /\ \A g \in InStack(View.stack) \ {View.stack[current + 1]} :
             TakenOut(View, current).parent[g] =
               IF View.parent[g] = View.stack[current + 1] THEN FeedList ELSE View.parent[g]
    BY <1>3, <2>1, TakenOutForm
  <2>. QED
    BY <1>3, <2>1, <2>2
<1>7. Removed(View, current) = [t EXCEPT !.current = t.current - 1]
  BY <1>6 DEF Removed
<1> HIDE DEF t
<1>8. /\ [Removed(View, current) EXCEPT !.current = row].stack = t.stack
      /\ [Removed(View, current) EXCEPT !.current = row].current = row
      /\ [Removed(View, current) EXCEPT !.current = row].parent = t.parent
  BY <1>6, <1>7 DEF Views
<1>9. stack' = t.stack /\ current' = row /\ parent' = t.parent
  BY <1>1, <1>8 DEF Becomes
<1>10. (View \in Views)'
  <2>1. t.stack \in Seq(Pointers) /\ t.parent \in [Forms -> Pointers]
    BY <1>6 DEF Views
  <2>2. row \in Int
    BY <1>5
  <2>. QED
    BY <1>9, <2>1, <2>2 DEF View, Views
<1>11. Parents(View)'
  BY <1>6, <1>9 DEF Parents, View
<1>12. /\ crashed' \in BOOLEAN
       /\ crashed' => row >= Len(stack')
       /\ ~crashed' => row < Len(stack')
  <2> DEFINE beyond == row >= Len(stack')
  <2>1. beyond \in BOOLEAN /\ (~beyond => row < Len(stack'))
    <3>1. t.stack \in Seq(Pointers)
      BY <1>6 DEF Views
    <3>2. Len(t.stack) \in Nat
      BY <3>1
    <3>3. Len(stack') \in Nat
      BY <1>9, <3>2
    <3>. QED
      BY <1>5, <3>3
  <2>2. crashed' = beyond
    BY <1>1
  <2>3. beyond => row >= Len(stack')
    OBVIOUS
  <2> HIDE DEF beyond
  <2>4. (crashed' => beyond) /\ (~crashed' => ~beyond) /\ crashed' \in BOOLEAN
    BY <2>1, <2>2
  <2>. QED
    BY <2>1, <2>3, <2>4
<1>. QED
  BY <1>1, <1>2, <1>4, <1>5, <1>6, <1>9, <1>10, <1>11, <1>12

\* The list is closed, and another dialog of the stack is on screen, unless the position
\* is none of the stack.
LEMMA SelectRowStep ==
  ASSUME FormsInv, NEW row, SelectRow(row), astray' = Lost, shifted' = Shifted
  PROVE  Inv' /\ Abstract!Next
<1>1. /\ ~quitting /\ asking = Nobody /\ Waits /\ Current \in DialogLists
      /\ row \in Nat /\ row < Len(rows[Current]) /\ current \in 1 .. Len(stack) - 1 /\ Len(stack) \in Nat
      /\ (View \in Views)' /\ Parents(View)' /\ Distinct(stack') /\ Len(stack') = Len(stack) - 1
      /\ InStack(stack') = InStack(stack) \ {Current} /\ stack' # <<>> /\ stack'[1] = FeedList
      /\ \A g \in InStack(stack) \ {Current} :
           parent'[g] = IF parent[g] = Current THEN FeedList ELSE parent[g]
      /\ current' = row /\ crashed' \in BOOLEAN
      /\ crashed' => row >= Len(stack')
      /\ ~crashed' => row < Len(stack')
  BY SelectedView
<1>2. /\ NoForm \notin InStack(stack) /\ Current \in InStack(stack)
      /\ Focus = Current /\ OpenForms = InStack(stack)
  BY <1>1, OnScreen
<1>3. UNCHANGED <<rows, loops, asking, quitting>> /\ TypeOK
  BY DEF SelectRow, FormsInv
<1>4. /\ astray' \subseteq Special \cap InStack(stack') /\ shifted' \subseteq DialogLists \cap astray'
      /\ astray \cap InStack(stack') \subseteq astray' /\ astray' \subseteq astray
  <2>1. Current \notin InStack(stack')
    BY <1>1
  <2>. QED
    BY <1>3, <2>1, GhostTypes, NothingLost
<1>5. crashed' \in BOOLEAN
  BY <1>1
<1>6. TypeOK'
  BY <1>1, <1>3, <1>4, <1>5 DEF TypeOK
<1>7. InStack(stack') \cap Special \subseteq astray
  <2>. SUFFICES ASSUME NEW i \in DOMAIN stack, stack[i] # Current, stack[i] \in Special \ astray
                PROVE  FALSE
    BY <1>1 DEF InStack
  <2>. QED
    BY <1>1, OthersAstray
<1>8. ASSUME ~crashed'
      PROVE  FormsInv'
  <2>1. row \in 0 .. Len(stack') - 1
    <3>1. row < Len(stack') /\ row \in Nat /\ Len(stack') = Len(stack) - 1 /\ Len(stack) \in Nat
      BY <1>1, <1>8
    <3>. QED
      BY <3>1
  <2>2. Sound(View)'
    BY <1>1, <2>1 DEF Sound, View
  <2>3. AskInv'
    BY <1>1, <1>2, <1>3 DEF AskInv
  <2>4. TopInv'
    BY <1>4, <1>7 DEF TopInv, InStack
  <2>5. LinesInv'
    <3>. SUFFICES ASSUME NEW p \in DOMAIN stack', stack'[p] \in DialogLists \ shifted'
                  PROVE  FALSE
      BY DEF LinesInv
    <3>1. stack'[p] \in InStack(stack') /\ stack'[p] \in DialogLists \cap astray
      BY <1>7 DEF InStack, Special
    <3>2. Current \in InStack(stack) \ {NoForm} /\ Current \notin InStack(stack')
      BY <1>1, <1>2
    <3>. QED
      BY <3>1, <3>2, ShiftedIfClosed
  <2>. QED
    BY <1>1, <1>6, <1>8, <2>2, <2>3, <2>4, <2>5 DEF FormsInv
<1>9. Inv'
  BY <1>6, <1>8 DEF Inv
<1>10. Focus # FeedList /\ Focus # NoForm
  BY <1>1, <1>2, FormsAssumption
<1>11. OpenForms' = OpenForms \ {Focus}
  BY <1>1, <1>2, <1>3 DEF OpenForms
<1>12. [g \in OpenForms |-> parent[g]]' = Abstract!Without(Focus)
  <2>1. \A g \in OpenForms \ {Focus} : parent'[g] = IF parent[g] = Focus THEN FeedList ELSE parent[g]
    BY <1>1, <1>2
  <2>. QED
    BY <1>11, <2>1, ParentsWithout
<1>13. Straying' => Straying
  BY <1>1, <1>4 DEF Straying
<1>14. ASSUME ~crashed'
       PROVE  Abstract!Next
  <2>1. row < Len(stack')
    BY <1>1, <1>14
  <2>2. Current' = stack'[row + 1] /\ row + 1 \in DOMAIN stack'
    <3>1. DOMAIN stack' = 1 .. Len(stack')
      BY <1>1 DEF View, Views
    <3>2. row + 1 \in 1 .. Len(stack')
      BY <1>1, <2>1
    <3>. QED
      BY <1>1, <2>1, <3>1, <3>2 DEF Current, InRange
  <2>3. Focus' = Current'
    BY <1>1, <1>3, <1>14 DEF Focus
  <2>4. OpenForms' = InStack(stack')
    BY <1>1, <1>2, <1>11
  <2>5. Focus' \in OpenForms'
    BY <2>2, <2>3, <2>4 DEF InStack
  <2>6. Abstract!Choose
    BY <1>10, <1>11, <1>12, <2>5 DEF Abstract!Choose
  <2>. QED
    BY <1>10, <1>13, <2>6 DEF Abstract!Next
<1>15. ASSUME crashed'
       PROVE  Abstract!Next
  <2>1. ~InStep
    <3>. SUFFICES ASSUME InStep
                  PROVE  FALSE
      OBVIOUS
    <3>1. Len(rows[Current]) = current
      BY <1>1, RowsBelow
    <3>. QED
      BY <1>1, <1>15, <3>1
  <2>2. Straying
    BY <1>1, <2>1, AstrayIfNotInStep
  <2>3. Focus' = NoForm
    BY <1>15 DEF Focus
  <2>4. Focus \in OpenForms \ {FeedList}
    BY <1>2, <1>10
  <2>5. Abstract!Muddle
    BY <1>11, <1>12, <2>2, <2>3, <2>4 DEF Abstract!Muddle
  <2>. QED
    BY <1>10, <1>13, <2>5 DEF Abstract!Next
<1>. QED
  BY <1>9, <1>14, <1>15

\* If it is in step, the dialog on screen is the one whose title the row shows.
LEMMA SelectsItsDialog ==
  ASSUME FormsInv, NEW row, SelectRow(row), InStep
  PROVE  row < Len(rows[Current]) /\ Current' = rows[Current][row + 1]
<1>1. /\ Waits /\ Current \in DialogLists
      /\ row \in Nat /\ row < Len(rows[Current]) /\ current \in 1 .. Len(stack) - 1 /\ Len(stack) \in Nat
      /\ Len(stack') = Len(stack) - 1
      /\ \A i \in 1 .. Len(stack) - 1 : stack'[i] = IF i < current + 1 THEN stack[i] ELSE stack[i + 1]
      /\ current' = row
  BY SelectedView
<1>2. Len(rows[Current]) = current /\ \A i \in 1 .. current : rows[Current][i] = stack[i]
  BY <1>1, RowsBelow
<1>3. row + 1 \in 1 .. current /\ row + 1 \in 1 .. Len(stack) - 1 /\ row + 1 < current + 1 /\ row < Len(stack')
  BY <1>1, <1>2
<1>4. stack'[row + 1] = rows[Current][row + 1]
  BY <1>1, <1>2, <1>3
<1>5. Current' = stack'[row + 1]
  BY <1>1, <1>3 DEF Current, InRange
<1>. QED
  BY <1>1, <1>4, <1>5

\* A row is closed: the form with its number as position is taken out.
LEMMA ClosedRowView ==
  ASSUME FormsInv, NEW row, CloseRow(row), InRange(row)
  PROVE  /\ row \in 1 .. Len(stack) - 1 /\ current \in 1 .. Len(stack) - 1 /\ Len(stack) \in Nat
         /\ Sound(View)' /\ (View \in Views)' /\ Len(stack') = Len(stack) - 1
         /\ stack[row + 1] \in InStack(stack) \ {FeedList}
         /\ InStack(stack') = InStack(stack) \ {stack[row + 1]} /\ stack' # <<>> /\ stack'[1] = FeedList
         /\ \A i \in 1 .. Len(stack) - 1 : stack'[i] = IF i < row + 1 THEN stack[i] ELSE stack[i + 1]
         /\ \A g \in InStack(stack) \ {stack[row + 1]} :
              parent'[g] = IF parent[g] = stack[row + 1] THEN FeedList ELSE parent[g]
         /\ current' = current - 1 /\ ~crashed'
<1>1. /\ ~quitting /\ ~crashed /\ asking = Nobody /\ Current \in DialogLists
      /\ row \in 1 .. Len(rows[Current]) - 1
      /\ Becomes(Removed(View, row)) /\ crashed' = crashed
  BY DEF CloseRow, Waits
<1>2. /\ stack \in Seq(Pointers) /\ Len(stack) \in Nat \ {0} /\ DOMAIN stack = 1 .. Len(stack)
      /\ NoForm \notin InStack(stack) /\ Current = stack[current + 1] /\ current \in 0 .. Len(stack) - 1
      /\ (Current = FeedList <=> current = 0)
  BY <1>1, OnScreen
<1>3. /\ Sound(View) /\ stack # <<>> /\ stack[1] = FeedList /\ Distinct(stack)
      /\ View.stack = stack /\ View.current = current /\ View.parent = parent
  BY <1>1 DEF FormsInv, View, Sound
<1>4. current \in 1 .. Len(stack) - 1
  <2>1. current # 0
    BY <1>1, <1>2, FormsAssumption
  <2>. QED
    BY <1>2, <2>1
<1>5. row \in 1 .. Len(stack) - 1
  <2>1. rows[Current] \in Seq(Pointers)
    BY <1>1 DEF FormsInv, TypeOK
  <2>2. Len(rows[Current]) \in Nat
    BY <2>1
  <2>3. row \in Nat /\ row >= 1
    BY <1>1, <2>2
  <2>. QED
    BY <1>2, <2>3 DEF InRange
<1> DEFINE f == stack[row + 1]
           t == TakenOut(View, row)
           w == [stack |-> t.stack, current |-> current - 1, parent |-> t.parent]
<1>6. f \in InStack(stack) \ {FeedList}
  <2>1. row + 1 \in DOMAIN stack /\ row + 1 # 1 /\ 1 \in DOMAIN stack
    BY <1>2, <1>5
  <2>2. stack[row + 1] # stack[1]
    BY <1>3, <2>1 DEF Distinct
  <2>. QED
    BY <1>3, <2>1, <2>2 DEF InStack
<1>7. /\ t \in Views /\ Distinct(t.stack) /\ Parents(t) /\ t.current = current
      /\ Len(t.stack) = Len(stack) - 1
      /\ InStack(t.stack) = InStack(stack) \ {f}
      /\ t.stack # <<>> /\ t.stack[1] = FeedList
      /\ \A i \in 1 .. Len(stack) - 1 : t.stack[i] = IF i < row + 1 THEN stack[i] ELSE stack[i + 1]
      /\ \A g \in InStack(stack) \ {f} : t.parent[g] = IF parent[g] = f THEN FeedList ELSE parent[g]
  <2>1. View.stack # <<>> /\ View.stack[1] = FeedList /\ NoForm \notin InStack(View.stack)
        /\ row \in 1 .. Len(View.stack) - 1 /\ View.stack[row + 1] = f
    BY <1>2, <1>3, <1>5
  <2>2. /\ TakenOut(View, row) \in Views /\ Distinct(TakenOut(View, row).stack) /\ Parents(TakenOut(View, row))
        /\ TakenOut(View, row).current = View.current
        /\ Len(TakenOut(View, row).stack) = Len(View.stack) - 1
        /\ InStack(TakenOut(View, row).stack) = InStack(View.stack) \ {View.stack[row + 1]}
        /\ TakenOut(View, row).stack # <<>> /\ TakenOut(View, row).stack[1] = FeedList
        /\ \A i \in 1 .. Len(View.stack) - 1 :
             TakenOut(View, row).stack[i] = IF i < row + 1 THEN View.stack[i] ELSE View.stack[i + 1]
        /\ \A g \in InStack(View.stack) \ {View.stack[row + 1]} :
             TakenOut(View, row).parent[g] =
               IF View.parent[g] = View.stack[row + 1] THEN FeedList ELSE View.parent[g]
    BY <1>3, <2>1, TakenOutForm
  <2>. QED
    BY <1>3, <2>1, <2>2
<1>8. Removed(View, row) = [t EXCEPT !.current = t.current - 1]
  BY <1>7 DEF Removed
<1> HIDE DEF t
<1>9. Removed(View, row).stack = t.stack /\ Removed(View, row).current = current - 1 /\ Removed(View, row).parent = t.parent
  BY <1>7, <1>8 DEF Views
<1>10. Becomes(w)
  BY <1>1, <1>9 DEF Becomes
<1>11. Sound(w) /\ w.stack = t.stack /\ w.current = current - 1 /\ w.parent = t.parent
  <2>1. t.stack \in Seq(Pointers) /\ t.parent \in [Forms -> Pointers]
    BY <1>7 DEF Views
  <2>2. current - 1 \in 0 .. Len(t.stack) - 1 /\ current - 1 \in Int
    <3> DEFINE n == Len(stack)
               m == Len(t.stack)
    <3>1. m = n - 1 /\ n \in Nat /\ current \in 1 .. n - 1
      BY <1>2, <1>4, <1>7
    <3> HIDE DEF n, m
    <3>2. current - 1 \in 0 .. m - 1 /\ current - 1 \in Int
      BY <3>1
    <3>. QED
      BY <3>2 DEF m
  <2>3. w \in Views
    BY <2>1, <2>2 DEF Views
  <2>4. Parents(w)
    BY <1>7 DEF Parents
  <2>. QED
    BY <1>7, <2>2, <2>3, <2>4 DEF Sound
<1> HIDE DEF w
<1>12. Sound(View)' /\ (View \in Views)' /\ stack' = t.stack /\ current' = current - 1 /\ parent' = t.parent
  BY <1>10, <1>11, Becoming
<1>13. ~crashed'
  BY <1>1
<1>. QED
  BY <1>2, <1>4, <1>5, <1>6, <1>7, <1>12, <1>13

\* A dialog is closed, the one on screen among them if the list is out of step; there
\* may be none with that position.
LEMMA CloseRowStep ==
  ASSUME FormsInv, NEW row, CloseRow(row), astray' = Lost, shifted' = Shifted
  PROVE  Inv' /\ Abstract!Next
<1>1. /\ ~quitting /\ ~crashed /\ asking = Nobody /\ Waits /\ Current \in DialogLists
      /\ row \in 1 .. Len(rows[Current]) - 1
      /\ rows' = [rows EXCEPT ![Current] = <<>>]
      /\ UNCHANGED <<loops, asking, quitting>>
  BY DEF CloseRow, Waits
<1>2. /\ stack \in Seq(Pointers) /\ Len(stack) \in Nat \ {0} /\ DOMAIN stack = 1 .. Len(stack)
      /\ NoForm \notin InStack(stack) /\ Current = stack[current + 1]
      /\ Focus = Current /\ OpenForms = InStack(stack) /\ Current \in InStack(stack)
  BY <1>1, OnScreen
<1>3. Distinct(stack) /\ TypeOK
  BY DEF FormsInv, Sound, View
<1>4. rows' \in [DialogLists -> Seq(Pointers)] /\ rows'[Current] = <<>>
  <2> DEFINE c == Current
  <2>1. rows \in [DialogLists -> Seq(Pointers)]
    BY DEF FormsInv, TypeOK
  <2>2. c \in DialogLists /\ rows' = [rows EXCEPT ![c] = <<>>] /\ <<>> \in Seq(Pointers)
    BY <1>1
  <2> HIDE DEF c
  <2>3. rows' \in [DialogLists -> Seq(Pointers)] /\ rows'[c] = <<>>
    BY <2>1, <2>2
  <2>. QED
    BY <2>3 DEF c
<1>5. /\ astray' \subseteq Special \cap InStack(stack') /\ shifted' \subseteq DialogLists \cap astray'
      /\ astray \cap InStack(stack') \subseteq astray'
  BY <1>3, GhostTypes
<1>6. Focus # FeedList /\ Focus # NoForm
  BY <1>1, <1>2, FormsAssumption
<1>7. CASE ~InRange(row)
  <2>1. UNCHANGED <<stack, current, parent>> /\ crashed' = TRUE
    BY <1>7 DEF CloseRow
  <2>2. View' = View
    BY <2>1 DEF View
  <2>3. TypeOK'
    BY <1>1, <1>3, <1>4, <1>5, <2>1, <2>2 DEF TypeOK
  <2>4. Inv'
    BY <2>1, <2>3 DEF Inv
  <2>5. ~InStep
    <3>. SUFFICES ASSUME InStep
                  PROVE  FALSE
      OBVIOUS
    <3>1. Len(rows[Current]) = current /\ current \in 0 .. Len(stack) - 1
      BY <1>1, RowsBelow, OnScreen
    <3>2. row < Len(stack)
      BY <1>1, <1>2, <3>1
    <3>. QED
      BY <1>7, <3>2 DEF InRange
  <2>6. Straying
    BY <1>1, <2>5, AstrayIfNotInStep
  <2>7. OpenForms' = OpenForms /\ Focus' = NoForm
    BY <1>1, <2>1 DEF OpenForms, Focus
  <2>8. [g \in OpenForms |-> parent[g]]' = [g \in OpenForms |-> parent[g]]
    BY <2>1, <2>7
  <2>9. Abstract!Muddle
    BY <2>6, <2>7, <2>8 DEF Abstract!Muddle
  <2>. QED
    BY <1>6, <2>4, <2>6, <2>9 DEF Abstract!Next
<1>8. CASE InRange(row)
  <2> DEFINE f == stack[row + 1]
  <2>1. /\ row \in 1 .. Len(stack) - 1 /\ current \in 1 .. Len(stack) - 1 /\ Len(stack) \in Nat
        /\ Sound(View)' /\ (View \in Views)' /\ Len(stack') = Len(stack) - 1
        /\ f \in InStack(stack) \ {FeedList}
        /\ InStack(stack') = InStack(stack) \ {f} /\ stack' # <<>> /\ stack'[1] = FeedList
        /\ \A i \in 1 .. Len(stack) - 1 : stack'[i] = IF i < row + 1 THEN stack[i] ELSE stack[i + 1]
        /\ \A g \in InStack(stack) \ {f} : parent'[g] = IF parent[g] = f THEN FeedList ELSE parent[g]
        /\ current' = current - 1 /\ ~crashed'
    BY <1>8, ClosedRowView
  <2>2. DOMAIN stack' = 1 .. Len(stack) - 1 /\ InRange(current)' /\ current' + 1 = current
        /\ Current' = stack'[current] /\ current \in DOMAIN stack'
    <3>1. stack' \in Seq(Pointers)
      BY <2>1 DEF View, Views
    <3>2. DOMAIN stack' = 1 .. Len(stack) - 1
      BY <2>1, <3>1
    <3>3. current' + 1 = current /\ current' < Len(stack')
      BY <2>1
    <3>4. InRange(current)'
      BY <3>3 DEF InRange
    <3>5. Current' = stack'[current]
      BY <3>3, <3>4 DEF Current
    <3>. QED
      BY <2>1, <3>2, <3>3, <3>4, <3>5
  <2>3. row < current => Current' = Current
    BY <1>2, <2>1, <2>2
  <2>4. row = current <=> f = Current
    <3>1. row + 1 \in DOMAIN stack /\ current + 1 \in DOMAIN stack
      BY <1>2, <2>1
    <3>2. f = Current => row + 1 = current + 1
      BY <1>2, <1>3, <3>1 DEF Distinct
    <3>3. row = current => f = Current
      BY <1>2
    <3>4. row + 1 = current + 1 => row = current
      BY <2>1
    <3>. QED
      BY <3>2, <3>3, <3>4
  <2> HIDE DEF f
  <2>5. TypeOK'
    <3>1. crashed' \in BOOLEAN
      BY <1>3, <1>8 DEF CloseRow, TypeOK
    <3>2. (View \in Views)'
      BY <2>1
    <3>3. loops' \in Seq([size : Nat, form : Modal]) /\ quitting' \in BOOLEAN
      BY <1>1, <1>3 DEF TypeOK
    <3>4. asking' \in [form : Pointers, what : {"nothing", "quit", "overwrite", "other"}]
      BY <1>1, <1>3 DEF TypeOK
    <3>. QED
      BY <1>4, <1>5, <3>1, <3>2, <3>3, <3>4 DEF TypeOK
  <2>6. AskInv'
    BY <1>1, <1>2, <2>1 DEF AskInv
  <2>7. ASSUME NEW i \in DOMAIN stack', stack'[i] \in Special \ astray'
        PROVE  i = Len(stack') /\ current' = i - 1 /\ stack'[i] = Current
    <3>1. stack'[i] \in InStack(stack')
      BY DEF InStack
    <3>2. stack'[i] \in Special \ astray /\ stack'[i] \in InStack(stack)
      BY <1>5, <2>1, <2>7, <3>1
    <3>3. stack'[i] = Current /\ current = Len(stack) - 1
      <4>1. PICK j \in DOMAIN stack : stack[j] = stack'[i]
        BY <3>2 DEF InStack
      <4>. QED
        BY <1>1, <3>2, <4>1, OthersAstray
    <3>4. f # Current
      BY <2>1, <3>1, <3>3
    <3>5. row < current
      <4>1. row # current
        BY <2>4, <3>4
      <4>. QED
        BY <2>1, <3>3, <4>1
    <3>6. Current' = stack'[i]
      BY <2>3, <3>3, <3>5
    <3>7. i = current
      <4>1. Distinct(stack')
        BY <2>1 DEF Sound, View
      <4>. QED
        BY <2>2, <3>6, <4>1 DEF Distinct
    <3>. QED
      BY <2>1, <3>3, <3>7
  <2>8. TopInv'
    BY <1>1, <2>7 DEF TopInv
  <2>9. LinesInv'
    <3>. SUFFICES ASSUME NEW p \in DOMAIN stack', stack'[p] \in DialogLists \ shifted'
                  PROVE  stack'[p] \notin astray' /\ rows'[stack'[p]] = <<>>
      BY DEF LinesInv
    <3>1. stack'[p] \in InStack(stack') /\ stack'[p] \in InStack(stack)
      BY <2>1 DEF InStack
    <3>2. f \in InStack(stack) \ {NoForm} /\ f \notin InStack(stack')
      BY <1>2, <2>1
    <3>3. stack'[p] \notin astray
      BY <3>1, <3>2, ShiftedIfClosed
    <3>4. PICK j \in DOMAIN stack : stack[j] = stack'[p]
      BY <3>1 DEF InStack
    <3>5. stack'[p] = Current /\ current = Len(stack) - 1
      BY <1>1, <3>3, <3>4, OthersAstray DEF Special
    <3>6. row < current
      <4>1. f # Current
        BY <2>1, <3>1, <3>5
      <4>2. row # current
        BY <2>4, <4>1
      <4>. QED
        BY <2>1, <3>5, <4>2
    <3>7. Current' = Current
      BY <2>3, <3>6
    <3>8. stack'[p] \notin Lost
      BY <3>3, <3>5, <3>7 DEF Lost
    <3>. QED
      BY <1>4, <3>5, <3>8
  <2>10. Inv'
    BY <1>1, <2>1, <2>5, <2>6, <2>8, <2>9 DEF Inv, FormsInv
  <2>11. OpenForms' = OpenForms \ {f} /\ OpenForms' = InStack(stack')
    BY <1>1, <1>2, <2>1 DEF OpenForms
  <2>12. [g \in OpenForms |-> parent[g]]' = Abstract!Without(f)
    <3>1. \A g \in OpenForms \ {f} : parent'[g] = IF parent[g] = f THEN FeedList ELSE parent[g]
      BY <1>2, <2>1
    <3>. QED
      BY <2>11, <3>1, ParentsWithout
  <2>13. Focus' = Current' /\ Focus' \in OpenForms'
    <3>1. Focus' = Current'
      BY <1>1, <2>1 DEF Focus
    <3>. QED
      BY <2>2, <2>11, <3>1 DEF InStack
  <2>14. CASE row < current
    <3>1. Focus' = Focus
      BY <1>2, <2>3, <2>13, <2>14
    <3>2. f # Focus
      <4>1. row # current
        BY <2>1, <2>14
      <4>. QED
        BY <1>2, <2>4, <4>1
    <3>3. f \in OpenForms \ {FeedList, Focus}
      BY <1>2, <2>1, <3>2
    <3>4. Abstract!CloseOther
      BY <2>11, <2>12, <3>1, <3>3 DEF Abstract!CloseOther
    <3>5. Straying' => Straying
      <4>1. astray' \subseteq astray
        BY <2>3, <2>14, NothingLost
      <4>. QED
        BY <1>1, <4>1 DEF Straying
    <3>. QED
      BY <1>6, <2>10, <3>4, <3>5 DEF Abstract!Next
  <2>15. CASE row = current
    <3>1. f = Focus
      BY <1>2, <2>4, <2>15
    <3>2. Abstract!Choose
      BY <1>6, <2>11, <2>12, <2>13, <3>1 DEF Abstract!Choose
    <3>3. Straying' => Straying
      <4>1. Current \notin InStack(stack')
        BY <1>2, <2>1, <3>1
      <4>2. astray' \subseteq astray
        BY <4>1, NothingLost
      <4>. QED
        BY <1>1, <4>2 DEF Straying
    <3>. QED
      BY <1>6, <2>10, <3>2, <3>3 DEF Abstract!Next
  <2>16. CASE row > current
    <3>1. ~InStep
      <4>. SUFFICES ASSUME InStep
                    PROVE  FALSE
        OBVIOUS
      <4>1. Len(rows[Current]) = current
        BY <1>1, RowsBelow
      <4>. QED
        BY <1>1, <2>1, <2>16, <4>1
    <3>2. Straying
      BY <1>1, <3>1, AstrayIfNotInStep
    <3>3. f \in OpenForms \ {FeedList}
      BY <1>2, <2>1
    <3>4. Abstract!Muddle
      BY <2>11, <2>12, <2>13, <3>2, <3>3 DEF Abstract!Muddle
    <3>. QED
      BY <1>6, <2>10, <3>2, <3>4 DEF Abstract!Next
  <2>. QED
    BY <2>1, <2>14, <2>15, <2>16
<1>. QED
  BY <1>7, <1>8

\* If the list is in step, the one that is closed is the one whose title the row shows.
LEMMA ClosesItsDialog ==
  ASSUME FormsInv, NEW row, CloseRow(row), InStep
  PROVE  row < Len(rows[Current]) /\ InStack(stack') = InStack(stack) \ {rows[Current][row + 1]}
<1>1. ~quitting /\ asking = Nobody /\ Waits /\ Current \in DialogLists /\ row \in 1 .. Len(rows[Current]) - 1
  BY DEF CloseRow, Waits
<1>2. Len(rows[Current]) = current /\ \A i \in 1 .. current : rows[Current][i] = stack[i]
  BY <1>1, RowsBelow
<1>3. current \in 0 .. Len(stack) - 1 /\ Len(stack) \in Nat
  BY <1>1, OnScreen
<1>4. row < Len(stack) /\ row + 1 \in 1 .. current /\ row < Len(rows[Current])
  BY <1>1, <1>2, <1>3
<1>5. InStack(stack') = InStack(stack) \ {stack[row + 1]}
  BY <1>4, ClosedRowView DEF InRange
<1>. QED
  BY <1>2, <1>4, <1>5

-----------------------------------------------------------------------------
(* The theorems                                                              *)

LEMMA FormsInitially ==
  ASSUME FormsInit
  PROVE  Inv /\ Abstract!Init
<1>1. /\ stack = <<FeedList>> /\ current = 0 /\ parent = [f \in Forms |-> NoForm]
      /\ rows = [d \in DialogLists |-> <<>>] /\ loops = <<>> /\ asking = Nobody
      /\ quitting = FALSE /\ crashed = FALSE /\ astray = {} /\ shifted = {}
  BY DEF FormsInit
<1>2. FeedList \in Forms /\ FeedList # NoForm /\ NoForm \in Pointers /\ FeedList \notin DialogLists \cup Modal
  BY FormsAssumption DEF Forms, Pointers
<1>3. /\ stack \in Seq(Pointers) /\ Len(stack) = 1 /\ DOMAIN stack = {1} /\ stack[1] = FeedList
  BY <1>1, <1>2 DEF Pointers
<1>4. InStack(stack) = {FeedList}
  BY <1>3 DEF InStack
<1>5. View \in Views
  BY <1>1, <1>2, <1>3 DEF View, Views
<1>6. Sound(View)
  <2>1. Distinct(stack)
    BY <1>3 DEF Distinct
  <2>2. Parents(View)
    BY <1>3 DEF Parents, View
  <2>. QED
    BY <1>1, <1>3, <1>5, <2>1, <2>2 DEF Sound, View
<1>7. TypeOK
  <2>1. rows \in [DialogLists -> Seq(Pointers)] /\ loops \in Seq([size : Nat, form : Modal])
    BY <1>1
  <2>2. asking \in [form : Pointers, what : {"nothing", "quit", "overwrite", "other"}]
    BY <1>1, <1>2 DEF Nobody
  <2>. QED
    BY <1>1, <1>5, <2>1, <2>2 DEF TypeOK
<1>8. AskInv /\ TopInv /\ LinesInv
  BY <1>1, <1>2, <1>3, <1>4 DEF AskInv, TopInv, LinesInv
<1>9. FormsInv
  BY <1>1, <1>3, <1>6, <1>7, <1>8 DEF FormsInv
<1>10. Focus = FeedList /\ OpenForms = {FeedList}
  <2>1. Focus = Current /\ OpenForms = InStack(stack) /\ Current = stack[current + 1]
    BY <1>1, <1>9, OnScreen
  <2>. QED
    BY <1>1, <1>3, <1>4, <2>1
<1>11. [g \in OpenForms |-> parent[g]] = [g \in {FeedList} |-> NoForm]
  BY <1>1, <1>2, <1>10
<1>12. ~Straying
  BY <1>1 DEF Straying
<1>. QED
  BY <1>7, <1>9, <1>10, <1>11, <1>12 DEF Inv, Abstract!Init

\* After a crash there is no step.
LEMMA NothingAfterCrash ==
  ASSUME Operation
  PROVE  ~crashed
BY DEF Operation, Open, ViewDialogs, NextDialog, PrevDialog, Close, RunModal, ModalReturns, Ask, Answer,
       Quit, PopAll, Draw, SelectRow, CloseRow, Waits

\* An operation keeps the invariant, and is one of the dialogs, or nothing.
LEMMA OperationStep ==
  ASSUME FormsInv, FormsNext
  PROVE  Inv' /\ [Abstract!Next]_(Abstract!vars)
<1>1. astray' = Lost /\ shifted' = Shifted
  BY DEF FormsNext
<1>2. FormsInv' => Inv'
  BY DEF Inv, FormsInv
<1>3. CASE \E f \in Plain : Open(f)
  BY <1>1, <1>2, <1>3, OpenStep
<1>4. CASE \E d \in DialogLists : ViewDialogs(d)
  BY <1>1, <1>2, <1>4, ViewDialogsStep
<1>5. CASE NextDialog
  BY <1>1, <1>2, <1>5, NextDialogStep
<1>6. CASE PrevDialog
  BY <1>1, <1>2, <1>6, PrevDialogStep
<1>7. CASE Close
  BY <1>1, <1>2, <1>7, CloseStep
<1>8. CASE \E f \in Modal : RunModal(f)
  BY <1>1, <1>2, <1>8, RunModalStep
<1>9. CASE ModalReturns
  BY <1>1, <1>2, <1>9, ModalReturnsStep
<1>10. CASE \E what \in {"quit", "overwrite", "other"} : Ask(what)
  BY <1>1, <1>2, <1>10, AskStep
<1>11. CASE \E answer \in {"yes", "no", "cancel"} : Answer(answer)
  BY <1>1, <1>2, <1>11, AnswerStep
<1>12. CASE Quit
  BY <1>1, <1>2, <1>12, QuitStep
<1>13. CASE PopAll
  BY <1>1, <1>2, <1>13, PopAllStep
<1>14. CASE Draw
  BY <1>1, <1>2, <1>14, DrawStep
<1>15. CASE \E row \in 0 .. Len(stack) + Cardinality(Plain) : SelectRow(row)
  BY <1>1, <1>15, SelectRowStep
<1>16. CASE \E row \in 0 .. Len(stack) + Cardinality(Plain) : CloseRow(row)
  BY <1>1, <1>16, CloseRowStep
<1>. QED
  BY <1>3, <1>4, <1>5, <1>6, <1>7, <1>8, <1>9, <1>10, <1>11, <1>12, <1>13, <1>14, <1>15, <1>16
     DEF FormsNext, Operation

\* So is every step.
LEMMA FormsStep ==
  ASSUME Inv, [FormsNext]_formVars
  PROVE  Inv' /\ [Abstract!Next]_(Abstract!vars)
<1>1. CASE FormsNext
  <2>1. ~crashed
    BY <1>1, NothingAfterCrash DEF FormsNext
  <2>2. FormsInv
    BY <2>1 DEF Inv
  <2>. QED
    BY <1>1, <2>2, OperationStep
<1>2. CASE UNCHANGED formVars
  <2>1. UNCHANGED <<stack, current, parent, rows, loops, asking, quitting, crashed, astray, shifted>>
    BY <1>2 DEF formVars
  <2>2. View' = View /\ Current' = Current
    BY <2>1 DEF View, Current, InRange
  <2>3. TypeOK'
    BY <2>1, <2>2 DEF Inv, TypeOK
  <2>4. ASSUME FormsInv
        PROVE  FormsInv'
    <3>1. Sound(View)'
      BY <2>2, <2>4 DEF FormsInv
    <3>2. AskInv' /\ TopInv'
      BY <2>1, <2>4 DEF FormsInv, AskInv, TopInv
    <3>3. LinesInv'
      BY <2>1, <2>4 DEF FormsInv, LinesInv, IsBelow
    <3>. QED
      BY <2>1, <2>3, <2>4, <3>1, <3>2, <3>3 DEF FormsInv
  <2>5. Inv'
    BY <2>1, <2>3, <2>4 DEF Inv
  <2>6. OpenForms' = OpenForms /\ Focus' = Focus /\ Straying' = Straying
    BY <2>1, <2>2 DEF OpenForms, Focus, Straying
  <2>7. [g \in OpenForms |-> parent[g]]' = [g \in OpenForms |-> parent[g]]
    BY <2>1, <2>6
  <2>. QED
    BY <2>5, <2>6, <2>7 DEF Abstract!vars
<1>. QED
  BY <1>1, <1>2

\* The stack of forms stays sound: every form is in it once, a form has another one
\* of the stack as parent, the position of the form on screen is one of the stack
\* (view.cpp:838-891, which use it without a check), and the empty pointer is in it
\* only while a question is asked; a list of dialogs that is the only one shows the
\* stack below it, whatever was opened since, unless a dialog was closed while it did
\* not have the screen. All that until a line of a list beyond the stack is chosen.
THEOREM FormsInvariance == FormsSpec => []Inv
<1>1. FormsInit => Inv
  BY FormsInitially
<1>2. Inv /\ [FormsNext]_formVars => Inv'
  BY FormsStep
<1>. QED
  BY <1>1, <1>2, PTL DEF FormsSpec

\* The stack and its positions implement the tree of open dialogs: every operation
\* of the view is one step of it, or none that the user sees; one that is not meant,
\* or the use of a position beyond the stack (view.cpp:147), only while a list of
\* dialogs or a modal form is astray.
THEOREM StackIsOpenDialogs == FormsSpec => IsOpenDialogs
<1>1. FormsInit => Abstract!Init
  BY FormsInitially
<1>2. Inv /\ [FormsNext]_formVars => [Abstract!Next]_(Abstract!vars)
  BY FormsStep
<1>3. FormsSpec => []Inv
  BY FormsInvariance
<1>4. FormsSpec => Abstract!Spec
  BY <1>1, <1>2, <1>3, PTL DEF FormsSpec, Abstract!Spec
<1>. QED
  BY <1>4 DEF IsOpenDialogs

\* A line of the list of dialogs stands for the dialog whose title it shows
\* (dialogs_formaction.cpp:56-90) - that one is switched to, that one is closed - if
\* it is the only list and no dialog was closed while it did not have the screen:
\* though it may have lost the screen, and dialogs may have been opened since.
THEOREM RowsAreDialogs == FormsSpec => ActsOnWhatIsShown
<1> DEFINE Step == InStep => \A row \in Rows : HitsItsDialog(row)
<1>1. Inv => Step
  <2>. SUFFICES ASSUME Inv, InStep, NEW row \in Rows
                PROVE  HitsItsDialog(row)
    OBVIOUS
  <2> DEFINE shown == IF Current \in DialogLists /\ row < Len(rows[Current]) THEN rows[Current][row + 1] ELSE NoForm
  <2>1. ASSUME SelectRow(row)
        PROVE  Current' = shown
    <3>1. ~crashed /\ Current \in DialogLists
      BY <2>1 DEF SelectRow, Waits
    <3>2. FormsInv
      BY <3>1 DEF Inv
    <3>3. row < Len(rows[Current]) /\ Current' = rows[Current][row + 1]
      BY <2>1, <3>2, SelectsItsDialog
    <3>. QED
      BY <3>1, <3>3
  <2>2. ASSUME CloseRow(row)
        PROVE  InStack(stack') = InStack(stack) \ {shown}
    <3>1. ~crashed /\ Current \in DialogLists
      BY <2>2 DEF CloseRow, Waits
    <3>2. FormsInv
      BY <3>1 DEF Inv
    <3>3. row < Len(rows[Current]) /\ InStack(stack') = InStack(stack) \ {rows[Current][row + 1]}
      BY <2>2, <3>2, ClosesItsDialog
    <3>. QED
      BY <3>1, <3>3
  <2>. QED
    BY <2>1, <2>2 DEF HitsItsDialog
<1>2. ActsOnWhatIsShown <=> [][Step]_formVars
  BY DEF ActsOnWhatIsShown
<1> HIDE DEF Step
<1>3. Inv /\ [FormsNext]_formVars => [Step]_formVars
  BY <1>1
<1>4. FormsSpec => []Inv
  BY FormsInvariance
<1>5. FormsSpec => [][Step]_formVars
  BY <1>3, <1>4, PTL DEF FormsSpec
<1>. QED
  BY <1>2, <1>5
=============================================================================
