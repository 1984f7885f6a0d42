------------------------------ MODULE Threads -------------------------------
(***************************************************************************)
(* What a row of the room's log offers (ui/app/app.js, buildChatMessage):  *)
(* a reaction, the edit and the removal of one's own message, each a       *)
(* request whose answer changes the row it was drawn for, and the thread   *)
(* of replies, kept in the browser's storage, of which every row has a     *)
(* copy of its own from when it was drawn.                                 *)
(***************************************************************************)
EXTENDS Integers, Sequences

CONSTANTS
  Rows,       \* the messages of the room; Mine is one's own
  Mine,
  Texts,      \* what a message may say, none of it 0
  MaxClicks   \* bound: what the user does

Input == 0    \* in place of a text: the field it is edited in

\* The list without its i-th element.
Without(q, i) ==
  [k \in 1..(Len(q) - 1) |-> IF k < i THEN q[k] ELSE q[k + 1]]

VARIABLE
  msg         \* a record:
              \*   srv, the message Mine on the server: its text, whether one
              \*     reacted to it, whether it is gone
              \*   drawn, the log is; snap, what the poll that draws it read
              \*   text, m.text; body, what the row shows; typed, the value
              \*     of its field, while focus; mine, gone: of the row;
              \*     bare, it was drawn as a notice of its removal only
              \*   posts: kind, text, whether the server did it, the answer's
              \*     `added`, whether its row is off screen, and whether
              \*     another of the kind was done after it
              \*   crossed, the kinds whose last answer was not the last done
              \*   kept, how many replies the storage has for each message
              \*   copy, the storage as each row has it
              \*   clicks, bound: what the user did

Blank == [text |-> Input, mine |-> FALSE, gone |-> FALSE, read |-> FALSE]

Draw(s, m) ==
  [s EXCEPT !.drawn = TRUE, !.snap = Blank, !.text = m.text, !.body = m.text,
            !.mine = m.mine, !.gone = m.gone, !.bare = m.gone,
            !.copy = [r \in Rows |-> s.kept]]

\* The threads are of an earlier version: the page of today starts none.
Init ==
  \E t \in Texts, k \in [Rows -> {0, 1}] :
    LET m == [text |-> t, mine |-> FALSE, gone |-> FALSE]
    IN msg = Draw([srv |-> m, drawn |-> FALSE, snap |-> Blank, text |-> t,
                   body |-> t, typed |-> t, focus |-> FALSE, mine |-> FALSE,
                   gone |-> FALSE, bare |-> FALSE, posts |-> <<>>, crossed |-> {},
                   kept |-> k, copy |-> [r \in Rows |-> k], clicks |-> 0], m)

Clicks(s) == /\ msg.clicks < MaxClicks
             /\ msg' = [s EXCEPT !.clicks = @ + 1]

Post(s, kind, t) ==
  [s EXCEPT !.posts = Append(@, [kind |-> kind, text |-> t, done |-> FALSE,
                                 added |-> FALSE, off |-> FALSE,
                                 late |-> FALSE])]

-----------------------------------------------------------------------------
(* The log.                                                                 *)

\* openChatRoom empties it: answers still out find rows that are nowhere.
Reopen ==
  Clicks([msg EXCEPT !.drawn = FALSE, !.snap = Blank, !.focus = FALSE,
                     !.posts = [i \in DOMAIN msg.posts |->
                                  [msg.posts[i] EXCEPT !.off = TRUE]]])
Reads == /\ ~msg.drawn /\ ~msg.snap.read
         /\ msg' = [msg EXCEPT !.snap = [text |-> msg.srv.text,
                                         mine |-> msg.srv.mine,
                                         gone |-> msg.srv.gone, read |-> TRUE],
                               !.crossed = {}]
Draws == /\ msg.snap.read
         /\ msg' = Draw(msg, msg.snap)

-----------------------------------------------------------------------------
(* The requests.                                                            *)

\* The actions of a row go with its message, the count of one's reaction
\* does not.
Actions == msg.drawn /\ ~msg.gone /\ ~msg.focus
toggleReact ==
  /\ Actions \/ (msg.drawn /\ ~msg.bare /\ msg.mine /\ ~msg.focus)
  /\ Clicks(Post(msg, "react", Input))

\* Edit: the field has the text, or nothing when it takes another's place.
Edit ==
  /\ Actions
  /\ Clicks([msg EXCEPT !.body = Input, !.typed = msg.body, !.focus = TRUE])
Type(t) == /\ msg.focus /\ t # msg.typed
           /\ msg' = [msg EXCEPT !.typed = t]

\* Enter leaves the field where it is, so that leaving it sends once more.
finishEdit(s) ==
  IF s.typed \notin {Input, s.text}
    THEN Post(s, "edit", s.typed)
    ELSE [s EXCEPT !.body = s.text, !.focus = FALSE]
Enter == msg.focus /\ Clicks(finishEdit(msg))
Leave == msg.focus /\ msg' = finishEdit([msg EXCEPT !.focus = FALSE])
\* The row shows a text in place of its field.  There are browsers that tell
\* a field it has lost the focus as it goes, and its text is sent.
Shows(s, t) ==
  LET n == [s EXCEPT !.body = t, !.focus = FALSE]
  IN {n} \cup (IF s.focus /\ s.typed \notin {Input, s.text}
               THEN {Post(n, "edit", s.typed)} ELSE {})
Escape == msg.focus /\ \E s \in Shows(msg, msg.text) : Clicks(s)

\* Delete, once confirmed.
Delete == Actions /\ Clicks(Post(msg, "delete", Input))

\* chatrooms.toggleReaction, editMessage and deleteMessage.
Does(i) ==
  LET p == msg.posts[i]
      Of(q) == [q EXCEPT !.late = q.late \/ (q.done /\ q.kind = p.kind)]
      on == ~msg.srv.mine
      s == [msg EXCEPT !.posts = [[j \in DOMAIN msg.posts |-> Of(msg.posts[j])]
                                    EXCEPT ![i].done = TRUE, ![i].added = on],
                       !.crossed = IF p.off THEN @ \cup {p.kind} ELSE @]
  IN /\ i \in DOMAIN msg.posts /\ ~p.done
     /\ msg' = CASE p.kind = "react" -> [s EXCEPT !.srv.mine = on]
                 [] p.kind = "edit" -> [s EXCEPT !.srv.text = p.text]
                 [] OTHER -> [s EXCEPT !.srv.gone = TRUE]

\* The answer changes the row it was asked from.  An edit's takes the place
\* of whatever the row shows, a field or the notice of a removal.
Answered(i) ==
  LET p == msg.posts[i]
      s == [msg EXCEPT !.posts = Without(@, i),
                       !.crossed = IF p.off THEN @
                                   ELSE IF p.late THEN @ \cup {p.kind}
                                   ELSE @ \ {p.kind}]
  IN /\ i \in DOMAIN msg.posts /\ p.done
     /\ \/ p.off /\ msg' = s
        \/ /\ ~p.off /\ p.kind = "react"
           /\ msg' = [s EXCEPT !.mine = p.added]
        \/ /\ ~p.off /\ p.kind = "edit"
           /\ msg' \in Shows([s EXCEPT !.text = p.text], p.text)
        \/ /\ ~p.off /\ p.kind = "delete"
           /\ msg' = [s EXCEPT !.gone = TRUE]
Fails(i) ==
  LET p == msg.posts[i]
      s == [msg EXCEPT !.posts = Without(@, i),
                       !.crossed = IF p.done THEN @ \cup {p.kind} ELSE @]
  IN /\ i \in DOMAIN msg.posts
     /\ IF p.kind = "edit" /\ ~p.off THEN msg' \in Shows(s, s.text)
                                       ELSE msg' = s

-----------------------------------------------------------------------------
(* The threads.                                                             *)

\* The reply is written with the row's copy of the whole storage, and what
\* other rows have written since is lost.
Reply(r) ==
  /\ msg.drawn /\ ~msg.focus /\ msg.copy[r][r] > 0 /\ (r = Mine => ~msg.bare)
  /\ LET store == [msg.copy[r] EXCEPT ![r] = @ + 1]
     IN Clicks([msg EXCEPT !.copy[r] = store, !.kept = store])

Next ==
  \/ Reopen \/ Reads \/ Draws
  \/ toggleReact \/ Edit \/ Enter \/ Leave \/ Escape \/ Delete
  \/ \E t \in Texts : Type(t)
  \/ \E i \in DOMAIN msg.posts : Does(i) \/ Answered(i) \/ Fails(i)
  \/ \E r \in Rows : Reply(r)

-----------------------------------------------------------------------------

\* With nothing out, a row says of one's reaction and of the text what the
\* server has, in whatever order the requests were served and answered, but
\* after an answer that was overtaken by another of its kind or was lost.
Truthful ==
  msg.drawn /\ msg.posts = <<>> =>
    /\ "react" \notin msg.crossed => msg.mine = msg.srv.mine
    /\ "edit" \notin msg.crossed => msg.text = msg.srv.text
    /\ "delete" \notin msg.crossed => msg.gone = msg.srv.gone

\* A row has a field only while it is edited or its edit is on the way: none
\* is left behind, whatever the order of the keys and the answers.
Settled ==
  msg.drawn /\ msg.body = Input =>
    msg.focus \/ \E i \in DOMAIN msg.posts :
                   msg.posts[i].kind = "edit" /\ ~msg.posts[i].off

\* The storage never has more of a thread than its row shows.
InStep == msg.drawn => \A r \in Rows : msg.kept[r] <= msg.copy[r][r]

=============================================================================
