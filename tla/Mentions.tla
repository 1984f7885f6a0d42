------------------------------ MODULE Mentions ------------------------------
(***************************************************************************)
(* The composer's popup (app.js 2326-2431, 5046-5255, 5701-5773): files    *)
(* for a text that ends in @..., collections for #..., commands for /...,  *)
(* in one list.  Each of the two that ask the server outdates its own      *)
(* earlier questions and not the other's.  The keys find no item: they     *)
(* look for the class palette-item, which none has, so that a row is       *)
(* picked with the pointer only.                                           *)
(***************************************************************************)
EXTENDS Integers, FiniteSets

CONSTANTS
  Names,      \* what may stand after an @ or a #
  MaxOut      \* bound: listings out at once

Words == <<"words", 0>>
Slash == <<"slash", 0>>
Texts == {Words, Slash} \cup ({"file", "kb"} \X Names)
Hidden == <<"none", 0>>
Kind(t) == t[1]

VARIABLE
  say         \* a record:
              \*   text, el.task: what it ends in; list, the text the rows on
              \*     screen are for; kb, kbMentionActive
              \*   out, the listings: for which text, and whether it holds the
              \*     last ticket of its kind
              \*   table, the commands: none, out, there or failed
              \*   files, pendingFiles; chosen, kbSelected
              \*   busy, a run is on; sent, the files it was given
              \*   strayed, rows were left under a text they are not for, or
              \*     drawn there

Init ==
  say = [text |-> Words, list |-> Hidden, kb |-> FALSE, out |-> {},
         table |-> "none", files |-> {}, chosen |-> {}, busy |-> FALSE,
         sent |-> {}, strayed |-> FALSE]

hidePromptList(s) ==
  [s EXCEPT !.list = Hidden, !.kb = FALSE, !.strayed = FALSE]
Shown(s, t) == [s EXCEPT !.list = t, !.strayed = t # s.text]

\* The request of a new listing takes the ticket of its kind.
Lists(s, t) ==
  [s EXCEPT !.out = {[o EXCEPT !.last = o.last /\ Kind(o.of) # Kind(t)] :
                       o \in @} \cup {[of |-> t, last |-> TRUE]}]

\* The commands are asked for once; a failed answer is kept for good.
renderSlashList(s) ==
  IF s.table = "there" THEN Shown(s, Slash)
  ELSE hidePromptList([s EXCEPT !.table = IF @ = "none" THEN "out" ELSE @])

\* A saved prompt is offered for a text that starts with /, which is always
\* taken for a command: that list is never drawn.
taskInputHandler(s) ==
  IF s.text = Slash THEN renderSlashList(s) ELSE hidePromptList(s)

\* A listing leaves the rows that are there until it is answered.
integratedTaskInputHandler(s) ==
  IF Kind(s.text) \in {"file", "kb"} THEN Lists(s, s.text)
  ELSE taskInputHandler([s EXCEPT !.kb = FALSE])

-----------------------------------------------------------------------------

Type(t) ==
  /\ ~say.busy /\ t # say.text
  /\ say' = integratedTaskInputHandler(
              [say EXCEPT !.text = t,
                          !.strayed = \/ @
                                       \/ /\ say.list # Hidden
                                          /\ Kind(say.list) # Kind(t)])
Blur == say.list # Hidden /\ say' = hidePromptList(say)

\* What is drawn is for the text at the time of the request.
FileRead(o, some) ==
  LET s == [say EXCEPT !.out = @ \ {o}]
  IN /\ o \in say.out /\ Kind(o.of) = "file"
     /\ say' = IF ~o.last THEN s
               ELSE IF some THEN Shown(s, o.of) ELSE hidePromptList(s)
KbRead(o, some) ==
  LET s == [say EXCEPT !.out = @ \ {o}]
  IN /\ o \in say.out /\ Kind(o.of) = "kb"
     /\ say' = IF ~o.last THEN s
               ELSE IF some THEN [Shown(s, o.of) EXCEPT !.kb = TRUE]
               ELSE hidePromptList(s)
\* A failed listing closes whichever list is open.
ListFails(o) ==
  LET s == [say EXCEPT !.out = @ \ {o}]
  IN /\ o \in say.out
     /\ say' = IF o.last THEN hidePromptList(s) ELSE s
slashReady(ok) ==
  /\ say.table = "out"
  /\ say' = LET s == [say EXCEPT !.table = IF ok THEN "there" ELSE "failed"]
            IN IF ok /\ s.text = Slash THEN renderSlashList(s) ELSE s

-----------------------------------------------------------------------------

\* A row cuts the mention it was listed for out of the text, by its place.
Cut(s) == hidePromptList([s EXCEPT !.text = Words])
PickFile == /\ Kind(say.list) = "file"
            /\ say' = Cut([say EXCEPT !.files = @ \cup {say.list[2]}])
PickKb == /\ Kind(say.list) = "kb"
          /\ say' = Cut([say EXCEPT !.chosen = @ \cup {say.list[2]}])
useSlash == /\ say.list = Slash
            /\ say' = [hidePromptList(say) EXCEPT !.text = Words]
Unfile(f) == f \in say.files /\ say' = [say EXCEPT !.files = @ \ {f}]

\* The popup stays over the composer of a run, and so do its rows.
prependPendingFiles ==
  /\ ~say.busy
  /\ say' = [say EXCEPT !.busy = TRUE, !.sent = say.files, !.files = {}]
RunEnds(ok) ==
  /\ say.busy
  /\ say' = [say EXCEPT !.busy = FALSE, !.sent = {},
               !.text = IF ok THEN Words ELSE @,
               !.strayed = @ \/ (ok /\ say.list # Hidden)]

Next ==
  /\ \/ \E t \in Texts : Type(t)
     \/ \E o \in say.out : ListFails(o)
     \/ \E o \in say.out, some \in BOOLEAN : FileRead(o, some)
                                               \/ KbRead(o, some)
     \/ \E ok \in BOOLEAN : slashReady(ok) \/ RunEnds(ok)
     \/ Blur \/ PickFile \/ PickKb \/ useSlash \/ prependPendingFiles
     \/ \E f \in Names : Unfile(f)
  /\ Cardinality(say'.out) <= MaxOut

-----------------------------------------------------------------------------

\* When no listing is out for the text, the rows are those of the text, but
\* for rows left or drawn under a text of another kind: a listing whose answer
\* comes late never replaces the rows of a later one of its kind.
InStep ==
  \/ say.list \in {Hidden, say.text} \/ say.strayed
  \/ \E o \in say.out : o.last /\ o.of = say.text

=============================================================================
