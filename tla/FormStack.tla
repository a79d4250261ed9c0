----------------------------- MODULE FormStack -----------------------------
(* The stack of form actions of the view (view.cpp, dialogs_formaction.cpp): *)
(* forms are pushed above the rest, but the one on screen may be anywhere in *)
(* the stack, and is remembered by its position. run_modal() and confirm()   *)
(* read keys within the operation of another form.                           *)
EXTENDS Integers, Sequences, FiniteSets, SequencesExt

CONSTANTS
  FeedList,       \* the form that view::run() begins with
  Plain,          \* article lists, articles, help, lists of URLs
  DialogLists,    \* lists of dialogs
  Modal,          \* file browsers, selections of a tag or a filter
  NoForm          \* the empty pointer

Forms == {FeedList} \cup Plain \cup DialogLists \cup Modal

\* A form is of one class, and the empty pointer is none.
ASSUME FormsAssumption ==
  /\ FeedList \notin Plain \cup DialogLists \cup Modal
  /\ Plain \cap DialogLists = {} /\ Plain \cap Modal = {} /\ DialogLists \cap Modal = {}
  /\ NoForm \notin Forms

VARIABLES
  stack,       \* formaction_stack
  current,     \* current_formaction, counted from 0
  parent,      \* a form's parent_formaction
  rows,        \* what a list of dialogs shows; none when it is to be drawn anew
  loops,       \* the calls of run_modal(): stack size before, the modal form
  asking,      \* confirm(), or a program in the foreground: who asks, and what
  quitting,    \* the loop that pops all forms
  crashed,     \* a position beyond the end was used: undefined behaviour
  astray,      \* ghost: open lists of dialogs and modal forms that next-dialog
               \* and its like have led away from
  shifted      \* ghost: the lists of dialogs that were when a dialog was closed

formVars == <<stack, current, parent, rows, loops, asking, quitting, crashed, astray, shifted>>

Nobody == [form |-> NoForm, what |-> "nothing"]

InStack(s) == {s[i] : i \in DOMAIN s}
InRange(pos) == pos < Len(stack)
Current == IF InRange(current) THEN stack[current + 1] ELSE NoForm

FormsInit ==
  /\ stack = <<FeedList>> /\ current = 0 /\ parent = [f \in Forms |-> NoForm]
  /\ rows = [d \in DialogLists |-> <<>>] /\ loops = <<>> /\ asking = Nobody
  /\ quitting = FALSE /\ crashed = FALSE /\ astray = {} /\ shifted = {}

-----------------------------------------------------------------------------
(* The functions of view, on a view v: stack, current and parents.           *)
View == [stack |-> stack, current |-> current, parent |-> parent]

Becomes(v) == stack' = v.stack /\ current' = v.current /\ parent' = v.parent

\* The push_ functions: above the others, with the form on screen as parent.
Pushed(v, f) == [stack |-> Append(v.stack, f), current |-> Len(v.stack),
                 parent |-> [v.parent EXCEPT ![f] = v.stack[v.current + 1]]]

\* push_empty_formaction: an empty pointer, without a parent.
PushedEmpty(v) == [stack |-> Append(v.stack, NoForm), current |-> Len(v.stack), parent |-> v.parent]

\* mutant: the children of the form keep it as their parent
TakenOut_KeepsParent(v, pos) ==
  LET f == v.stack[pos + 1]
      s == RemoveAt(v.stack, pos + 1)
  IN  [v EXCEPT !.stack = s, !.parent = [g \in Forms |-> IF g = f THEN NoForm ELSE v.parent[g]]]
\* The form at a position is taken out. Those that have it as parent get the one
\* at the bottom.
TakenOut(v, pos) ==
  LET f == v.stack[pos + 1]
      s == RemoveAt(v.stack, pos + 1)
      heir == IF s = <<>> THEN NoForm ELSE s[1]
  IN  [v EXCEPT !.stack = s,
                !.parent = [g \in Forms |-> CASE g = f -> NoForm
                                              [] g # f /\ f # NoForm /\ v.parent[g] = f -> heir
                                              [] OTHER -> v.parent[g]]]

\* view::pop_current_formaction: on screen is then the parent of the form that
\* went, if it is in the stack; after an empty one, the form on top.
Popped(v) ==
  LET f == v.stack[v.current + 1]
      rest == TakenOut(v, v.current)
      above == {i \in DOMAIN rest.stack : f # NoForm /\ rest.stack[i] = v.parent[f]}
  IN  [rest EXCEPT !.current = IF f = NoForm THEN Len(rest.stack) - 1
                               ELSE IF above = {} THEN @
                               ELSE (CHOOSE i \in above : \A j \in above : i <= j) - 1]

\* view::remove_formaction
Removed(v, pos) == [TakenOut(v, pos) EXCEPT !.current = @ - 1]

-----------------------------------------------------------------------------
(* The main thread reads a key when nothing else is left to do: a program to *)
(* leave, a question to answer, a modal form that is gone, a list to draw.   *)
Unread == Current \in DialogLists /\ rows[Current] = <<>>
ModalEnded == loops # <<>> /\ Len(stack) <= Last(loops).size
Waits == ~crashed /\ ~quitting /\ asking = Nobody /\ ~ModalEnded /\ Current # NoForm /\ ~Unread
Ordinary == Current \in {FeedList} \cup Plain

\* A form nobody refers to any more; a list of dialogs may still show its title.
Unused(f) == f \notin InStack(stack) /\ \A d \in DialogLists : f \notin InStack(rows[d])

\* push_itemlist, push_itemview, push_searchresult, push_help, push_urlview
Open(f) ==
  /\ Waits /\ Ordinary /\ Unused(f)
  /\ Becomes(Pushed(View, f))
  /\ UNCHANGED <<rows, loops, asking, quitting, crashed>>

\* view::view_dialogs
ViewDialogs(d) ==
  /\ Waits /\ Unused(d) /\ Current \notin DialogLists
  /\ Becomes(Pushed(View, d))
  /\ rows' = [rows EXCEPT ![d] = <<>>]
  /\ UNCHANGED <<loops, asking, quitting, crashed>>

\* view::goto_next_dialog
NextDialog ==
  /\ Waits
  /\ current' = IF current + 1 >= Len(stack) THEN 0 ELSE current + 1
  /\ UNCHANGED <<stack, parent, rows, loops, asking, quitting, crashed>>

\* view::goto_prev_dialog
PrevDialog ==
  /\ Waits
  /\ current' = IF current > 0 THEN current - 1 ELSE Len(stack) - 1
  /\ UNCHANGED <<stack, parent, rows, loops, asking, quitting, crashed>>

\* OP_QUIT of any form but the feed list, and its like.
Close ==
  /\ Waits /\ Current # FeedList
  /\ Becomes(Popped(View))
  /\ UNCHANGED <<rows, loops, asking, quitting, crashed>>

\* view::run_modal: a file browser or a selection reads the keys.
RunModal(f) ==
  /\ Waits /\ Ordinary /\ Unused(f)
  /\ Becomes(Pushed(View, f))
  /\ loops' = Append(loops, [size |-> Len(stack), form |-> f])
  /\ UNCHANGED <<rows, asking, quitting, crashed>>

\* The rest of run_modal: no stack above the one it found, and it returns.
ModalReturns ==
  /\ ~crashed /\ ~quitting /\ asking = Nobody /\ ModalEnded
  /\ loops' = Front(loops)
  /\ UNCHANGED <<stack, current, parent, rows, asking, quitting, crashed>>

\* view::confirm, and push_empty_formaction() around a program in the foreground.
Ask(what) ==
  /\ Waits /\ Current \notin DialogLists
  /\ what = "quit" => Current = FeedList
  /\ what = "overwrite" <=> Current \in Modal
  /\ asking' = [form |-> Current, what |-> what]
  /\ Becomes(PushedEmpty(View))
  /\ UNCHANGED <<rows, loops, quitting, crashed>>

\* The empty pointer goes, and the operation that asked continues: the feed list
\* ends the program for a yes, the file browser is done unless it was a no.
Answer(answer) ==
  /\ ~crashed /\ asking # Nobody
  /\ LET back == Popped(View)
     IN  Becomes(IF asking.what = "overwrite" /\ answer # "no" THEN Popped(back) ELSE back)
  /\ quitting' = (asking.what = "quit" /\ answer = "yes")
  /\ asking' = Nobody
  /\ UNCHANGED <<rows, loops, crashed>>

\* OP_HARDQUIT, the command "quit", and the end of OP_QUIT in the feed list.
Quit ==
  /\ Waits
  /\ quitting' = TRUE
  /\ UNCHANGED <<stack, current, parent, rows, loops, asking, crashed>>

\* One round of the loop that pops all forms.
PopAll ==
  /\ quitting /\ ~crashed /\ stack # <<>>
  /\ IF InRange(current)
       THEN Becomes(Popped(View)) /\ UNCHANGED crashed
       ELSE crashed' = TRUE /\ UNCHANGED <<stack, current, parent>>
  /\ UNCHANGED <<rows, loops, asking, quitting>>

-----------------------------------------------------------------------------
(* The list of dialogs.                                                      *)
\* view::get_formaction_names: all of the stack but the lists of dialogs and empty
\* pointers, in order; TitledAt(n) is where the n-th of them is.
Titled == {i \in DOMAIN stack : stack[i] \notin DialogLists \cup {NoForm}}
TitledAt(n) == CHOOSE i \in Titled : Cardinality({j \in Titled : j <= i}) = n
Lines == [n \in 1 .. Cardinality(Titled) |-> stack[TitledAt(n)]]

\* dialogs_formaction::prepare
Draw ==
  /\ ~crashed /\ ~quitting /\ asking = Nobody /\ ~ModalEnded /\ Unread
  /\ rows' = [rows EXCEPT ![Current] = Lines]
  /\ UNCHANGED <<stack, current, parent, loops, asking, quitting, crashed>>

\* mutant: the lines are taken to be numbered from 1
SelectRow_OffByOne(row) ==
  /\ Waits /\ Current \in DialogLists /\ row \in 0 .. Len(rows[Current]) - 1
  /\ Becomes([Removed(View, current) EXCEPT !.current = IF row > 0 THEN row - 1 ELSE 0])
  /\ crashed' = (row > Len(stack'))
  /\ UNCHANGED <<rows, loops, asking, quitting>>
\* OP_OPEN, view::set_current_formaction: the line's number is taken for the
\* position in the stack, once the list is gone; view::run does not ask whether
\* there is a form.
SelectRow(row) ==
  /\ Waits /\ Current \in DialogLists /\ row \in 0 .. Len(rows[Current]) - 1
  /\ Becomes([Removed(View, current) EXCEPT !.current = row])
  /\ crashed' = (row >= Len(stack'))
  /\ UNCHANGED <<rows, loops, asking, quitting>>

\* OP_CLOSEDIALOG: the same number, in the stack as it is.
CloseRow(row) ==
  /\ Waits /\ Current \in DialogLists /\ row \in 1 .. Len(rows[Current]) - 1
  /\ IF InRange(row)
       THEN Becomes(Removed(View, row)) /\ UNCHANGED crashed
       ELSE crashed' = TRUE /\ UNCHANGED <<stack, current, parent>>
  /\ rows' = [rows EXCEPT ![Current] = <<>>]
  /\ UNCHANGED <<loops, asking, quitting>>

Operation ==
  \/ \E f \in Plain : Open(f)
  \/ \E d \in DialogLists : ViewDialogs(d)
  \/ NextDialog \/ PrevDialog \/ Close
  \/ \E f \in Modal : RunModal(f)
  \/ ModalReturns
  \/ \E what \in {"quit", "overwrite", "other"} : Ask(what)
  \/ \E answer \in {"yes", "no", "cancel"} : Answer(answer)
  \/ Quit \/ PopAll \/ Draw
  \/ \E row \in 0 .. Len(stack) + Cardinality(Plain) : SelectRow(row) \/ CloseRow(row)

\* The ghost: a list of dialogs or a modal form is astray from when it loses the
\* screen without being closed, or asking a question, until it is closed.
Lost == {f \in (DialogLists \cup Modal) \cap InStack(stack') :
           f \in astray \/ (f = Current /\ f # Current' /\ asking' = Nobody)}
\* A list of dialogs is shifted from when, astray, something is closed.
Shifted == {d \in DialogLists \cap InStack(stack') :
              d \in shifted \/ (d \in astray /\ ~(InStack(stack) \ {NoForm} \subseteq InStack(stack')))}
FormsNext == Operation /\ astray' = Lost /\ shifted' = Shifted

FormsSpec == FormsInit /\ [][FormsNext]_formVars

-----------------------------------------------------------------------------
(* "From there, the user can switch to another dialog by selecting the       *)
(* appropriate entry and pressing "ENTER", or can close open dialogs by      *)
(* selecting them" (doc/newsbeuter.txt:1028): a line of the list of dialogs  *)
(* stands for the dialog whose title it shows, and for no other.             *)
HitsItsDialog(row) ==
  LET shown == IF Current \in DialogLists /\ row < Len(rows[Current]) THEN rows[Current][row + 1] ELSE NoForm
  IN  /\ SelectRow(row) => Current' = shown
      /\ CloseRow(row) => InStack(stack') = InStack(stack) \ {shown}
Rows == 0 .. Len(stack) + Cardinality(Plain)
EveryLineIsItsDialog == [][\A row \in Rows : HitsItsDialog(row)]_formVars

(* That is so unless two of them are open, or a dialog was closed after the  *)
(* list was left by next-dialog or prev-dialog: what is opened meanwhile, and *)
(* coming back to the list, make no difference, though the line's number is  *)
(* taken for a position in the stack (dialogs_formaction::process_operation).*)
InStep == DialogLists \cap InStack(stack) = {Current} /\ Current \notin shifted
ActsOnWhatIsShown == [][InStep => \A row \in Rows : HitsItsDialog(row)]_formVars

\* The stack and its positions implement the tree of open dialogs, and no position
\* beyond the end of the stack is used unless a form is astray: such a state, and
\* one in which the form on screen is not in the stack, is none of OpenDialogs. The
\* form that asks a question keeps the focus.
Focus == IF quitting \/ crashed THEN NoForm ELSE IF asking # Nobody THEN asking.form ELSE Current
OpenForms == IF quitting /\ ~crashed THEN {} ELSE InStack(stack) \ {NoForm}
Straying == ~quitting /\ astray # {}
Abstract == INSTANCE OpenDialogs
              WITH Dialogs <- Forms, Root <- FeedList, None <- NoForm,
                   open <- OpenForms, parent <- [f \in OpenForms |-> parent[f]], focus <- Focus,
                   astray <- Straying
IsOpenDialogs == Abstract!Spec
=============================================================================
