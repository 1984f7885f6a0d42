------------------------------ MODULE Compare -------------------------------
(***************************************************************************)
(* The Compare page (plugins/compare/app.js): answers of several models    *)
(* read without their names, one of which the reader picks.  Opens carry   *)
(* no token, so that the answer that comes last is the one on screen.      *)
(***************************************************************************)
EXTENDS Integers, FiniteSets

CONSTANTS
  Docs,       \* the comparisons recorded; the list starts with the least
  Answers,    \* the answers of each
  MaxAsks     \* bound: comparisons asked for at once

None == 0
Unread == -1
NoAsk == <<None, None>>
First == CHOOSE c \in Docs : \A d \in Docs : c <= d

VARIABLE
  cmp         \* a record:
              \*   srv, the pick of each on the server; firsts, the first one
              \*   id, state.id; shown, the comparison on screen, with the
              \*     pick it shows
              \*   list, whether the list is out; asks, the opens: of which,
              \*     and the pick the server read
              \*   ask, the confirmation on screen; picking, the flag; post,
              \*     the pick out, and whether the server took it
              \*   over, the answer of a pick was drawn over another
              \*     comparison, or the list failed; stale, one was drawn as read before its pick

Init ==
  cmp = [srv |-> [c \in Docs |-> None], firsts |-> [c \in Docs |-> None],
         id |-> None, shown |-> <<None, None>>, list |-> TRUE, asks |-> {},
         ask |-> NoAsk, picking |-> FALSE,
         post |-> [id |-> None, label |-> None, took |-> FALSE],
         over |-> FALSE, stale |-> FALSE]

fetchComparison(s, c) == [s EXCEPT !.asks = @ \cup {<<c, Unread>>}]
renderComparison(s, c, pick) == [s EXCEPT !.shown = <<c, pick>>]

-----------------------------------------------------------------------------

\* Refresh, the view again, or the link to one comparison.
load(link) ==
  cmp' = [cmp EXCEPT !.list = TRUE, !.id = IF link = None THEN @ ELSE link]
ListRead ==
  /\ cmp.list
  /\ cmp' = fetchComparison([cmp EXCEPT !.list = FALSE],
                            IF cmp.id # None THEN cmp.id ELSE First)
ListFails == /\ cmp.list
             /\ cmp' = [cmp EXCEPT !.list = FALSE,
                                   !.over = @ \/ cmp.id # cmp.shown[1]]

Open(c) == cmp' = fetchComparison(cmp, c)
Serves(a) ==
  /\ a \in cmp.asks /\ a[2] = Unread
  /\ cmp' = [cmp EXCEPT !.asks = (@ \ {a}) \cup {<<a[1], cmp.srv[a[1]]>>}]
OpenRead(a) ==
  /\ a \in cmp.asks /\ a[2] # Unread
  /\ cmp' = [renderComparison(cmp, a[1], a[2])
               EXCEPT !.asks = @ \ {a}, !.id = a[1], !.over = FALSE,
                      !.stale = @ \/ a[2] # cmp.srv[a[1]]]
\* The error is drawn where the answers were.
OpenFails(a) == /\ a \in cmp.asks
                /\ cmp' = [renderComparison(cmp, None, None)
                             EXCEPT !.asks = @ \ {a}]

-----------------------------------------------------------------------------

\* A button of the comparison drawn; the confirmation is modal.
Choose(label) ==
  /\ cmp.ask = NoAsk /\ cmp.shown[1] # None
  /\ cmp.shown[2] = None /\ ~cmp.picking
  /\ cmp' = [cmp EXCEPT !.ask = <<cmp.shown[1], label>>]
No == cmp.ask # NoAsk /\ cmp' = [cmp EXCEPT !.ask = NoAsk]
recordPick ==
  /\ cmp.ask # NoAsk /\ ~cmp.picking
  /\ cmp' = [cmp EXCEPT !.ask = NoAsk, !.picking = TRUE,
               !.post = [id |-> cmp.ask[1], label |-> cmp.ask[2],
                         took |-> FALSE]]

\* The server writes whatever pick it is sent, and shows the names from then.
PickServed ==
  LET p == cmp.post
  IN /\ p.id # None /\ ~p.took
     /\ cmp' = [cmp EXCEPT !.post.took = TRUE, !.srv[p.id] = p.label,
                           !.firsts[p.id] = IF @ = None THEN p.label ELSE @]
PickAnswered(s) == [s EXCEPT !.picking = FALSE,
                             !.post = [id |-> None, label |-> None,
                                       took |-> FALSE]]
\* The answer is drawn over whichever comparison is on screen by then.
PickRead ==
  /\ cmp.post.id # None /\ cmp.post.took
  /\ cmp' = PickAnswered([renderComparison(cmp, cmp.post.id, cmp.post.label)
                            EXCEPT !.over = cmp.id # cmp.post.id])
PickFails == cmp.post.id # None /\ cmp' = [PickAnswered(cmp) EXCEPT
                                             !.stale = @ \/ cmp.post.took]

Next ==
  /\ \/ \E c \in Docs \cup {None} : load(c)
     \/ \E c \in Docs : Open(c)
     \/ \E a \in cmp.asks : Serves(a) \/ OpenRead(a) \/ OpenFails(a)
     \/ \E label \in Answers : Choose(label)
     \/ ListRead \/ ListFails \/ No \/ recordPick
     \/ PickServed \/ PickRead \/ PickFails
  /\ Cardinality(cmp'.asks) <= MaxAsks

-----------------------------------------------------------------------------

\* The comparison on screen is the one the address names, unless a pick's
\* answer was drawn over it or something is on its way.
Truthful ==
  cmp.list \/ cmp.asks # {} \/ cmp.over \/ cmp.shown[1] \in {None, cmp.id}

\* A pick cannot be changed, unless the page drew what was read before it or
\* was not told of it.
Kept == cmp.stale \/ cmp.srv = cmp.firsts

\* The buttons wait for no answer that will not come.
Settled == cmp.picking <=> cmp.post.id # None

=============================================================================
