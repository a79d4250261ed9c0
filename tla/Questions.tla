----------------------------- MODULE Questions -----------------------------
(* The question-and-answer line of the forms (formaction), the histories of  *)
(* what was entered (history), and what the view knows of it: whether a      *)
(* question is being answered, and whether it is the command line. A form    *)
(* asks its prompts one by one; cancelling forgets neither the prompts that  *)
(* are left nor the answers. Macros fill the answers in and finish at once.  *)
(* Another form can come on screen while a form asks.                        *)
EXTENDS Integers, Sequences, SequencesExt, Functions

CONSTANTS
  AskingForms,  \* forms: an article list and a feed list, say
  Texts,        \* what is typed
  Limit,        \* history-limit
  MaxQuestions, \* bound on the questions asked in a session
  MaxStored     \* bound on the sessions

ASSUME QuestionsAssumption == Limit \in Nat

VARIABLES
  line,       \* per form: asks (the input line is shown), prompts (left),
              \*   responses, finish (finish_operation), no (ghost: which question)
  top,        \* the form on screen
  inside,     \* view::is_inside_qna and is_inside_cmdline
  history,    \* the histories: lines, the newest first, and idx
  files,     \* the files of the histories, the oldest line first; sessions: how many
  asked,      \* how many questions were asked
  finished,   \* ghost: the last finished question: no, operation, responses
  mixed,      \* ghost: forms where a macro answered while a question was open
  unfinished, \* ghost: forms whose last question, for a bookmark, is not finished
  aborted     \* an assertion has failed

questionVars == <<line, top, inside, history, files, asked, finished, mixed, unfinished, aborted>>

\* The operations that ask, with their prompts and the history that goes with them.
Prompts == [cmdline |-> <<":">>, search |-> <<"phrase">>, flags |-> <<"flags">>,
            bookmark |-> <<"url", "title", "desc", "feed">>]
Histories == {"cmdline", "search"}
Idle == [asks |-> FALSE, prompts |-> <<>>, responses |-> <<>>, finish |-> "none", no |-> 0]
Nothing == [no |-> 0, op |-> "none", responses |-> <<>>]

QuestionsInit ==
  /\ line = [f \in AskingForms |-> Idle] /\ top \in AskingForms
  /\ inside = [qna |-> FALSE, cmdline |-> FALSE]
  /\ history = [h \in Histories |-> [lines |-> <<>>, idx |-> 0]]
  /\ files = [cmdline |-> <<>>, search |-> <<>>, sessions |-> 0]
  /\ asked = 0 /\ finished = Nothing /\ mixed = {} /\ unfinished = {} /\ aborted = FALSE

Reply(no, prompt, text) == [no |-> no, prompt |-> prompt, text |-> text]

-----------------------------------------------------------------------------
(* class history.                                                            *)
Added(h, text) == [lines |-> IF text = "" THEN h.lines ELSE <<text>> \o h.lines, idx |-> 0]
\* What prev() and next() give, and the index then.
Prev(h) ==
  IF h.idx < Len(h.lines) THEN [text |-> h.lines[h.idx + 1], idx |-> h.idx + 1]
  ELSE [text |-> IF h.lines = <<>> THEN "" ELSE h.lines[h.idx], idx |-> h.idx]
NextLine(h) == IF h.idx > 0 THEN [text |-> h.lines[h.idx], idx |-> h.idx - 1] ELSE [text |-> "", idx |-> h.idx]

\* mutant: the newest line is written first
SavedLines_NewestFirst(h, limit) == SubSeq(h.lines, 1, IF limit > Len(h.lines) THEN Len(h.lines) ELSE limit)
\* save_to_file(): from lines[limit - 1] back to lines[0]
SavedLines(h, limit) == Reverse(SubSeq(h.lines, 1, IF limit > Len(h.lines) THEN Len(h.lines) ELSE limit))
\* load_from_file(), into an empty history
Loaded(file) == FoldLeft(Added, [lines |-> <<>>, idx |-> 0], file)

-----------------------------------------------------------------------------
(* finished_qna() of form f, which has the responses r, to operation op. A   *)
(* bookmark needs every prompt answered.                                     *)
RemembersIn(op) == IF op \in Histories THEN {op} ELSE {}
Finish(f, l, op) ==
  /\ inside' = [qna |-> FALSE, cmdline |-> FALSE]
  /\ finished' = [no |-> l.no, op |-> op, responses |-> l.responses]
  /\ aborted' = (op = "bookmark" /\ (Len(l.responses) # 4 \/ l.prompts # <<>>))
  /\ history' = [h \in Histories |-> IF h \in RemembersIn(op) THEN Added(history[h], l.responses[1].text) ELSE history[h]]
  /\ line' = [line EXCEPT ![f] = l]

\* start_next_question(), on the line l of form f
NextQuestion(f, l) ==
  IF l.prompts # <<>>
  THEN /\ line' = [line EXCEPT ![f] = [l EXCEPT !.asks = TRUE, !.prompts = Tail(@)]]
       /\ UNCHANGED <<history, finished, aborted>>
  ELSE /\ Finish(f, [l EXCEPT !.asks = FALSE], l.finish)

OnScreen(f) == ~aborted /\ top = f

\* mutant: the answers of a cancelled question are kept
Start_KeepsResponses(f, op) ==
  /\ OnScreen(f) /\ ~line[f].asks /\ asked < MaxQuestions
  /\ asked' = asked + 1 /\ mixed' = mixed \ {f}
  /\ unfinished' = IF op = "bookmark" THEN unfinished \cup {f} ELSE unfinished \ {f}
  /\ NextQuestion(f, [asks |-> FALSE, prompts |-> Prompts[op], responses |-> line[f].responses, finish |-> op, no |-> asked + 1])
  /\ inside' = [qna |-> TRUE, cmdline |-> inside.cmdline \/ op = "cmdline"]
  /\ UNCHANGED <<top, files>>
\* start_qna(): from a key, or from a macro without an argument. With an input
\* line on the form, the keys are letters.
Start(f, op) ==
  /\ OnScreen(f) /\ ~line[f].asks /\ asked < MaxQuestions
  /\ asked' = asked + 1 /\ mixed' = mixed \ {f}
  /\ unfinished' = IF op = "bookmark" THEN unfinished \cup {f} ELSE unfinished \ {f}
  /\ NextQuestion(f, [asks |-> FALSE, prompts |-> Prompts[op], responses |-> <<>>, finish |-> op, no |-> asked + 1])
  /\ inside' = [qna |-> TRUE, cmdline |-> inside.cmdline \/ op = "cmdline"]
  /\ UNCHANGED <<top, files>>

\* OP_INT_END_QUESTION
EndQuestion(f, text) ==
  /\ OnScreen(f) /\ line[f].asks
  /\ LET all == Prompts[line[f].finish]
         answer == Reply(line[f].no, all[Len(all) - Len(line[f].prompts)], text)
         l == [line[f] EXCEPT !.responses = Append(@, answer)]
     IN  /\ NextQuestion(f, l)
         /\ l.prompts # <<>> => UNCHANGED inside
         /\ unfinished' = IF l.prompts = <<>> THEN unfinished \ {f} ELSE unfinished
  /\ UNCHANGED <<top, files, asked, mixed>>

\* OP_INT_CANCEL_QNA, by ESC or by cancel_input() of the view
Cancel(f) ==
  /\ OnScreen(f) /\ (line[f].asks \/ inside.qna)
  /\ line' = [line EXCEPT ![f].asks = FALSE]
  /\ inside' = [qna |-> FALSE, cmdline |-> FALSE]
  /\ UNCHANGED <<top, history, files, asked, finished, mixed, unfinished, aborted>>

\* OP_INT_QNA_PREVHIST and NEXTHIST
BrowseHistory(f) ==
  /\ OnScreen(f) /\ line[f].asks /\ line[f].finish \in Histories
  /\ LET h == line[f].finish
     IN  \/ history' = [history EXCEPT ![h].idx = Prev(history[h]).idx]
         \/ history' = [history EXCEPT ![h].idx = NextLine(history[h]).idx]
  /\ UNCHANGED <<line, top, inside, files, asked, finished, mixed, unfinished, aborted>>

\* A macro with an argument: the answers are filled in, all others forgotten.
Macro(f, op) ==
  /\ OnScreen(f) /\ op # "cmdline" /\ asked < MaxQuestions
  /\ asked' = asked + 1
  /\ mixed' = IF line[f].asks THEN mixed \cup {f} ELSE mixed
  /\ LET l == [line[f] EXCEPT !.responses = [i \in DOMAIN Prompts[op] |-> Reply(asked + 1, Prompts[op][i], "macro")]]
     IN  /\ Finish(f, [l EXCEPT !.no = asked + 1], op)
  /\ UNCHANGED <<top, files, unfinished>>

\* next-dialog and its like are not letters.
SwitchForm ==
  /\ ~aborted /\ top' \in AskingForms \ {top}
  /\ UNCHANGED <<line, inside, history, files, asked, finished, mixed, unfinished, aborted>>

\* The end of newsbeuter, and its next start (save_histories, load_histories).
RestartSession ==
  /\ ~aborted /\ files.sessions < MaxStored
  /\ files' = [cmdline |-> SavedLines(history["cmdline"], Limit), search |-> SavedLines(history["search"], Limit),
                sessions |-> files.sessions + 1]
  /\ history' = [h \in Histories |-> Loaded(files'[h])]
  /\ line' = [f \in AskingForms |-> Idle] /\ inside' = [qna |-> FALSE, cmdline |-> FALSE]
  /\ finished' = Nothing /\ mixed' = {} /\ unfinished' = {}
  /\ UNCHANGED <<top, asked, aborted>>

\* Answers that no history keeps are not told apart.
AnswersTo(f) == {t \in Texts : t = "" \/ line[f].finish \in Histories}

QuestionsNext ==
  \/ \E f \in AskingForms :
       \/ \E op \in DOMAIN Prompts : Start(f, op) \/ Macro(f, op)
       \/ \E t \in AnswersTo(f) : EndQuestion(f, t)
       \/ Cancel(f) \/ BrowseHistory(f)
  \/ SwitchForm \/ RestartSession
QuestionsSpec == QuestionsInit /\ [][QuestionsNext]_questionVars

-----------------------------------------------------------------------------
(* What is done with the answers was asked for: the responses of a finished  *)
(* question are its own answers, one for each prompt, in order, whatever was *)
(* cancelled or begun in another form before; but for a question during      *)
(* which a macro answered (formaction::finished_qna, start_next_question).   *)
(* "Everything must be answered" (the assertion of formaction.cpp:283) then: *)
(* it stops the program only after such a question, or in a form whose last  *)
(* question was for a bookmark and was not finished, at a macro with the     *)
(* answers; no answers of the user's own stop it.                            *)
OwnAnswers(q) ==
  /\ Len(q.responses) = Len(Prompts[q.op])
  /\ \A i \in DOMAIN q.responses : q.responses[i].no = q.no /\ q.responses[i].prompt = Prompts[q.op][i]
AfterMacro(f) == f \in mixed /\ line[f].asks /\ ~line'[f].asks
AnswersBelongToQuestion ==
  [][\A f \in AskingForms : finished' # finished /\ finished' # Nothing /\ top = f /\ ~AfterMacro(f) =>
       /\ OwnAnswers(finished')
       /\ aborted' => finished'.op = "bookmark" /\ Macro(f, "bookmark") /\ f \in unfinished]_questionVars

(* A session begins with the newest lines of the one before, in their order, *)
(* as many as history-limit allows, and at the newest (history::save_to_file *)
(* and load_from_file).                                                      *)
HistoryIsKept ==
  [][RestartSession => \A h \in Histories :
       /\ history'[h].idx = 0 /\ IsPrefix(history'[h].lines, history[h].lines)
       /\ Len(history'[h].lines) = (IF Len(history[h].lines) < Limit THEN Len(history[h].lines) ELSE Limit)]_questionVars
=============================================================================
