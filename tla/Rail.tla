-------------------------------- MODULE Rail --------------------------------
(***************************************************************************)
(* The list of conversations (app.js 450-962, 1167-1310, 5360-5396): what  *)
(* the page knows of them, the workspace it shows, and the changes that    *)
(* are followed by a load of the list.  Loads carry no token.              *)
(***************************************************************************)
EXTENDS Integers, FiniteSets

CONSTANTS
  Chats,      \* ids of saved conversations
  MaxSaved,   \* bound: changes to what is saved
  MaxLoads    \* bound: loads of the list out at once

None == 0
Here == 0           \* the workspace of this folder, and another
Workspaces == {Here, 1}
Idle == -1
Stay == -1          \* what follows a load: nothing, a workspace, or an archive
ThenArchive == 2
Unread == {<<None, None, FALSE>>}
NoPost == [kind |-> "none", id |-> None, to |-> Stay, took |-> FALSE]

VARIABLE
  rail        \* a record:
              \*   srv, what is saved: id, workspace, whether archived; known,
              \*     what the page has of it; changes
              \*   cur, the conversation open; ws, currentWorkspace; busy, the
              \*     workspace a run was started in
              \*   pins; folded, the group of the pinned; query; archived,
              \*     the box; rows, what is drawn
              \*   loads: what the server read, and what follows
              \*   post, the change out
              \*   failed; emptied, New chat dropped the list; crossed, the
              \*     last list drawn is older than a change; strayed

Init ==
  \E s \in {{}, {<<c, Here, FALSE>> : c \in {CHOOSE c \in Chats : TRUE}}} :
    rail = [srv |-> s, known |-> {}, changes |-> 0, cur |-> None,
            ws |-> Here, busy |-> Idle, pins |-> {}, folded |-> FALSE,
            query |-> None, archived |-> FALSE, rows |-> {},
            loads |-> {[at |-> Unread, go |-> Stay]}, post |-> NoPost,
            failed |-> FALSE, emptied |-> FALSE, crossed |-> FALSE,
            strayed |-> FALSE]

currentSessionMeta(s) == {e \in s.known : e[1] = s.cur}
Saved(s, id) == {e \in s.srv : e[1] = id}
Elsewhere(s) == \E e \in currentSessionMeta(s) : e[2] # s.ws

Shown(s) == {e \in s.known :
               /\ e[2] = s.ws /\ (s.archived \/ ~e[3])
               /\ s.query \in {None, e[1]}
               /\ ~(s.folded /\ e[1] \in s.pins)}
renderSessionOptions(s) == [s EXCEPT !.rows = Shown(s)]

loadSessions(s, go) ==
  [s EXCEPT !.loads = @ \cup {[at |-> Unread, go |-> go]}]

\* The list handed over is the list itself, which is emptied before it is
\* copied: New chat forgets every conversation until the next load.
newChat(s) == renderSessionOptions(
                [s EXCEPT !.cur = None, !.known = {}, !.emptied = TRUE,
                          !.strayed = FALSE])

\* The workspace follows the conversation; a run refuses the switch.
switchSession(s, e) ==
  IF e[1] = s.cur THEN s
  ELSE IF s.busy # Idle THEN renderSessionOptions(s)
  ELSE renderSessionOptions(
         [s EXCEPT !.cur = e[1], !.ws = e[2], !.strayed = FALSE])

-----------------------------------------------------------------------------

Load == rail' = loadSessions(rail, Stay)
Reads(l) == /\ l \in rail.loads /\ l.at = Unread
            /\ rail' = [rail EXCEPT !.loads = (@ \ {l}) \cup
                                      {[at |-> rail.srv, go |-> l.go]}]

PostArchive(s) ==
  LET e == CHOOSE e \in currentSessionMeta(s) : TRUE
  IN [s EXCEPT !.post = [kind |-> "archive", id |-> s.cur,
                         to |-> IF e[3] THEN 0 ELSE 1, took |-> FALSE]]

\* What follows a load follows one that failed as well.
Followed(s, go) ==
  IF go = ThenArchive
  THEN IF currentSessionMeta(s) # {} /\ s.post = NoPost
       THEN PostArchive(s) ELSE s
  ELSE IF go \in {Stay, Here} THEN s
  ELSE renderSessionOptions([s EXCEPT !.ws = go])
Strays(s) == [s EXCEPT !.strayed = Elsewhere(s)]
ListRead(l) ==
  /\ l \in rail.loads /\ l.at # Unread
  /\ rail' = Strays(Followed(renderSessionOptions(
       [rail EXCEPT !.loads = @ \ {l}, !.known = l.at, !.failed = FALSE,
                    !.emptied = FALSE, !.crossed = l.at # rail.srv]), l.go))
ListFails(l) ==
  /\ l \in rail.loads
  /\ rail' = Strays(Followed(renderSessionOptions(
       [rail EXCEPT !.loads = @ \ {l}, !.known = {}, !.failed = TRUE]), l.go))

NewChat == rail.busy = Idle /\ rail' = newChat(rail)
railRowFor(e) == e \in rail.rows /\ rail' = switchSession(rail, e)
togglePin(id) ==
  /\ \E e \in rail.rows : e[1] = id
  /\ rail' = renderSessionOptions([rail EXCEPT
       !.pins = IF id \in @ THEN @ \ {id} ELSE @ \cup {id}])
toggleCollapsedGroup == rail' = renderSessionOptions([rail EXCEPT !.folded = ~@])
Filter(q) == q # rail.query
               /\ rail' = renderSessionOptions([rail EXCEPT !.query = q])
showArchived == rail' = renderSessionOptions([rail EXCEPT !.archived = ~@])

\* The first conversation of the workspace is opened, or a new one.
setCurrentWorkspace(w) ==
  LET s == [rail EXCEPT !.ws = w]
      next == {e \in s.known : e[2] = w /\ (s.archived \/ ~e[3])}
  IN /\ w # rail.ws
     /\ rail' = IF ~Elsewhere(s) THEN renderSessionOptions(s)
                ELSE IF next # {}
                THEN Strays(switchSession(s, CHOOSE e \in next : TRUE))
                ELSE IF s.busy # Idle THEN Strays(s) ELSE newChat(s)

-----------------------------------------------------------------------------

\* A conversation the page does not know is looked for before it is changed.
Archive ==
  /\ rail.post = NoPost
  /\ rail' = IF currentSessionMeta(rail) = {}
             THEN loadSessions(rail, ThenArchive) ELSE PostArchive(rail)
sessionMove(w) ==
  /\ rail.post = NoPost /\ currentSessionMeta(rail) # {}
  /\ rail' = [rail EXCEPT !.post = [kind |-> "move", id |-> rail.cur,
                                    to |-> w, took |-> FALSE]]
Takes ==
  LET p == rail.post
      Set(e) == IF e[1] # p.id THEN e
                ELSE IF p.kind = "move" THEN <<e[1], p.to, e[3]>>
                ELSE <<e[1], e[2], p.to = 1>>
  IN /\ p # NoPost /\ ~p.took
     /\ rail' = [rail EXCEPT !.post.took = TRUE, !.changes = @ + 1,
                             !.srv = {Set(e) : e \in @}]
\* A move shows the workspace moved to, unless that is this folder.
PostRead ==
  LET p == rail.post
  IN /\ p.took
     /\ rail' = loadSessions([rail EXCEPT !.post = NoPost],
                             IF p.kind = "move" THEN p.to ELSE Stay)
PostFails == /\ rail.post # NoPost
             /\ rail' = [rail EXCEPT !.post = NoPost,
                                     !.crossed = @ \/ rail.post.took]

\* A run keeps the workspace it was started in; its end, whatever it was,
\* loads the list.
RunStarts == rail.busy = Idle /\ rail' = [rail EXCEPT !.busy = rail.ws]
RunEnds(id) ==
  /\ rail.busy # Idle
  /\ id = None \/ (rail.cur = None /\ Saved(rail, id) = {})
  /\ rail' = loadSessions(
       [rail EXCEPT
          !.busy = Idle, !.cur = IF id = None THEN @ ELSE id,
          !.changes = IF id = None THEN @ ELSE @ + 1,
          !.srv = IF id = None THEN @
                  ELSE @ \cup {<<id, rail.busy, FALSE>>}], Stay)

Next ==
  /\ \/ Load \/ NewChat \/ toggleCollapsedGroup \/ showArchived
     \/ Archive \/ Takes \/ PostRead \/ PostFails \/ RunStarts
     \/ \E l \in rail.loads : Reads(l) \/ ListRead(l) \/ ListFails(l)
     \/ \E e \in rail.rows : railRowFor(e)
     \/ \E id \in Chats : togglePin(id)
     \/ \E q \in {None} \cup Chats : Filter(q) \/ RunEnds(q)
     \/ \E w \in Workspaces : setCurrentWorkspace(w) \/ sessionMove(w)
  /\ rail'.changes <= MaxSaved /\ Cardinality(rail'.loads) <= MaxLoads

-----------------------------------------------------------------------------

\* Once nothing is out the list is what is saved, unless the last load failed
\* or was read before a change it came after, or New chat dropped it.
Truthful ==
  \/ rail.loads # {} \/ rail.post # NoPost
  \/ rail.failed \/ rail.emptied \/ rail.crossed \/ rail.known = rail.srv

\* The rows are those of the workspace, the filter and the boxes on screen,
\* but when a run refused to leave its conversation for an empty workspace.
InStep == rail.strayed \/ rail.rows = Shown(rail)

\* The conversation open is one of the workspace on screen, unless a run
\* refused the switch or a load brought it from another.
Kept == rail.strayed \/ ~Elsewhere(rail)
=============================================================================
