---------------------------- MODULE OpenDialogs ----------------------------
(* What the user may rely on (doc/newsbeuter.txt, "Advanced Dialog           *)
(* Management"): the open dialogs are a tree below the feed list. A new one   *)
(* opens below the one that has the focus; closing that one returns to the    *)
(* one it was opened from; any open one can get the focus, or be closed,      *)
(* from the list of dialogs; the feed list stays until the program ends. Less *)
(* is left while a list of dialogs or a form that is to be answered first has *)
(* lost the focus without being closed.                                       *)
CONSTANTS Dialogs, Root, None

VARIABLES
  open, parent, focus,
  astray  \* such a form has lost the focus

vars == <<open, parent, focus, astray>>

Init == open = {Root} /\ parent = [d \in {Root} |-> None] /\ focus = Root /\ ~astray

\* Below a dialog that is closed, its children become the feed list's.
Without(d) == [e \in open \ {d} |-> IF parent[e] = d THEN Root ELSE parent[e]]

Open == \E d \in Dialogs \ open :
               /\ open' = open \cup {d}
               /\ parent' = [e \in open \cup {d} |-> IF e = d THEN focus ELSE parent[e]]
               /\ focus' = d

Close == /\ focus \notin {Root, None}
         /\ open' = open \ {focus} /\ parent' = Without(focus)
         /\ focus' = parent[focus]

CloseOther == \E d \in open \ {Root, focus} :
                open' = open \ {d} /\ parent' = Without(d) /\ UNCHANGED focus

\* Another dialog gets the focus, and the list it was chosen from is closed.
Switch == /\ focus' \in open /\ UNCHANGED <<open, parent>>
Choose == /\ focus # Root
          /\ open' = open \ {focus} /\ parent' = Without(focus)
          /\ focus' \in open'

Quit == open' = {} /\ parent' = [d \in {} |-> None] /\ focus' = None

\* Then a dialog may close, and another one or none get the focus: not the ones
\* that were meant, but never the feed list.
Muddle == /\ astray
          /\ \/ \E d \in open \ {Root} :
                  open' = open \ {d} /\ parent' = Without(d) /\ focus' \in open' \cup {None}
             \/ focus' = None /\ UNCHANGED <<open, parent>>

Next == /\ focus # None
        /\ \/ Open \/ Switch
           \/ (astray' => astray) /\ (Close \/ CloseOther \/ Choose \/ Quit \/ Muddle)
Spec == Init /\ [][Next]_vars
=============================================================================
