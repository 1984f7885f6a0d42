------------------------------ MODULE Searches ------------------------------
(***************************************************************************)
(* Three fields that search while they are typed in: conversations (the    *)
(* page of plugins/search/app.js, 250 ms after the last key), the messages *)
(* of a room (app.js and core/chat.js, after 200 ms) and documents         *)
(* (features/knowledge.js, when asked).  Each search outdates those before *)
(* it, by a ticket; what else does differs, and is stated field by field.  *)
(***************************************************************************)
EXTENDS Integers, FiniteSets

CONSTANTS
  Phrases,    \* texts long enough to search for
  MaxOut      \* bound: searches out at once

Short == 0    \* a text too short, or none
Off == -1

VARIABLE
  find        \* a record:
              \*   box, the field this is: "page", "room" or "docs"
              \*   input, its text; query, the text last searched for
              \*   timer, Off or the text the delay was begun for
              \*   out, the searches: the text, and whether its ticket is the
              \*     last
              \*   hits, the text that what is listed answers, Short when
              \*     nothing is; searching; error
              \*   busy, whether the page's button is disabled for a search
              \*   open, whether the panel is

Init ==
  \E b \in {"page", "room", "docs"} :
    find = [box |-> b, input |-> Short, query |-> Short, timer |-> Off,
            out |-> {}, hits |-> Short, searching |-> FALSE, error |-> FALSE,
            busy |-> FALSE, open |-> b # "room"]

Outdated(set) == {[o EXCEPT !.last = FALSE] : o \in set}
Blank(s) == [s EXCEPT !.query = Short, !.hits = Short, !.searching = FALSE,
                      !.error = FALSE, !.busy = FALSE]
Sends(s, q) ==
  [s EXCEPT !.query = q, !.hits = Short, !.searching = TRUE, !.error = FALSE,
            !.busy = s.box = "page",
            !.out = Outdated(@) \cup {[text |-> q, last |-> TRUE]}]

-----------------------------------------------------------------------------
(* Conversations.  A text that is too short, or cleared, outdates nothing.  *)

On(b) == find.box = b

runSearch(s, q) == IF q = Short THEN Blank(s) ELSE Sends(s, q)

Type(t) == On("page") /\ find' = [find EXCEPT !.input = t, !.timer = t, !.busy = FALSE]
Fires == /\ On("page") /\ find.timer # Off
         /\ find' = runSearch([find EXCEPT !.timer = Off], find.input)
\* Enter, or the button.
Search == On("page") /\ find' = runSearch(find, find.input)
Retry == /\ On("page") /\ find.error /\ ~find.searching /\ find.query # Short
         /\ find' = runSearch(find, find.query)
Clear == /\ On("page") /\ find.query # Short /\ find.hits = Short
         /\ ~find.searching /\ ~find.error
         /\ find' = [find EXCEPT !.input = Short, !.query = Short]
\* The view again; the palette may have put its text in the field.
load(t) ==
  LET s == IF t = Short THEN find ELSE [find EXCEPT !.input = t]
  IN /\ On("page")
     /\ find' = IF s.input = Short THEN [s EXCEPT !.busy = FALSE]
                ELSE runSearch(s, s.input)

Ends(s, o) == [s EXCEPT !.out = @ \ {o}]
Found(o, some) ==
  /\ On("page") /\ o \in find.out
  /\ find' = LET s == Ends(find, o)
             IN IF ~o.last THEN s
                ELSE [s EXCEPT !.hits = IF some THEN o.text ELSE Short,
                               !.error = FALSE, !.searching = FALSE,
                               !.busy = FALSE]
Fails(o) ==
  /\ On("page") /\ o \in find.out
  /\ find' = LET s == Ends(find, o)
             IN IF ~o.last THEN s
                ELSE [s EXCEPT !.hits = Short, !.error = TRUE,
                               !.searching = FALSE, !.busy = FALSE]

-----------------------------------------------------------------------------
(* Messages of a room.                                                      *)

\* chatSearch.run: a blank text only outdates.
run(s, q) == IF q = Short THEN [s EXCEPT !.query = Short, !.out = Outdated(@)]
                          ELSE Sends(s, q)

TypeInRoom(t) ==
  /\ On("room") /\ find.open
  /\ find' = IF t = Short THEN run(Blank([find EXCEPT !.input = t, !.timer = Off]), t)
                          ELSE [find EXCEPT !.input = t, !.timer = t]
FiresInRoom == /\ On("room") /\ find.timer # Off
               /\ find' = run([find EXCEPT !.timer = Off], find.timer)
\* The panel is emptied; a delay that runs goes on.
closeChatSearch ==
  /\ On("room") /\ find.open
  /\ find' = run([Blank(find) EXCEPT !.input = Short, !.open = FALSE], Short)
ToggleChatSearch ==
  /\ On("room") /\ ~find.open
  /\ find' = [find EXCEPT !.open = TRUE]
\* Try again: the field is read as if typed in.
RetryInRoom == /\ On("room") /\ find.open /\ find.error
               /\ TypeInRoom(find.input)

\* An answer, found or failed.  One that is outdated lists nothing, and empties
\* the panel all the same.
drawChatSearchState(o, some, ok) ==
  /\ On("room") /\ o \in find.out
  /\ find' = [Ends(find, o) EXCEPT
       !.hits = IF o.last /\ some /\ ok THEN o.text ELSE Short,
       !.error = o.last /\ ~ok, !.searching = FALSE]

-----------------------------------------------------------------------------
(* Documents.  Every key empties the list and outdates what is out.         *)

clearSearch(t) ==
  /\ On("docs")
  /\ find' = run(Blank([find EXCEPT !.input = t]), Short)
doSearch == On("docs") /\ find' = run(Blank(find), find.input)
DocsFound(o, some, ok) ==
  /\ On("docs") /\ o \in find.out
  /\ find' = IF ~o.last THEN Ends(find, o)
             ELSE [Ends(find, o) EXCEPT
                     !.hits = IF some /\ ok THEN o.text ELSE Short,
                     !.error = ~ok, !.searching = FALSE]

-----------------------------------------------------------------------------
Next ==
  /\ \/ \E t \in Phrases \cup {Short} :
          Type(t) \/ load(t) \/ TypeInRoom(t) \/ clearSearch(t)
     \/ Fires \/ Search \/ Retry \/ Clear
     \/ FiresInRoom \/ closeChatSearch \/ ToggleChatSearch \/ RetryInRoom \/ doSearch
     \/ \E o \in find.out :
          \/ Fails(o)
          \/ \E some, ok \in BOOLEAN :
               \/ Found(o, some)
               \/ drawChatSearchState(o, some, ok) \/ DocsFound(o, some, ok)
  /\ Cardinality(find'.out) <= MaxOut

-----------------------------------------------------------------------------

\* What is listed answers the text last searched for, also when a search was
\* cleared or shortened while it was out; and where a key outdates what is out,
\* it answers the text in the field.
Truthful ==
  /\ ~find.searching /\ ~find.error /\ find.query # Short
       => find.hits \in {Short, find.query}
  /\ On("docs") => find.hits \in {Short, find.input}

\* Whatever says it searches has the search out that will end it.
Settled == find.searching \/ find.busy
             => \E o \in find.out : o.last /\ o.text = find.query

\* What was searched for is what is typed, once the delay is over; a room that
\* was closed during one searches for what is no longer typed.
InStep ==
  /\ On("page") /\ find.timer = Off => find.query = find.input
  /\ On("room") /\ find.timer = Off /\ find.input # Short => find.query = find.input

=============================================================================
