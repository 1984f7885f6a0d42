------------------------------- MODULE Office -------------------------------
(***************************************************************************)
(* A room of the office (plugins/office/app.js): the messages polled from  *)
(* its log are told one by one, and an agent that changed the board walks  *)
(* to it before the cards are read again.  The user may pick the agent up. *)
(***************************************************************************)
EXTENDS Integers, FiniteSets, FiniteSetsExt

CONSTANTS
  LastSecond,  \* bound: the seconds of the log
  PerSecond    \* bound: messages of one second

Messages == (1..LastSecond) \X (1..PerSecond)

VARIABLE
  office      \* a record:
              \*   reduced, less motion
              \*   log, the messages of the room, each a second and a number;
              \*     acts, those that change the board; told, those shown
              \*   cursor, the second of the last told; polling
              \*   walk, of the agent; held, dragged or in the air
              \*   stale, an action was told and the cards are older; fetch,
              \*     whether the board is asked for, and since the last action
              \*   dropped, the walk that would have asked was, or the answer

Init ==
  \E r \in BOOLEAN :
    office = [reduced |-> r, log |-> {}, acts |-> {},
              told |-> {}, cursor |-> 0, polling |-> FALSE, walk |-> "desk",
              held |-> "no", stale |-> FALSE, fetch |-> "none",
              dropped |-> FALSE]

\* The room, on the server: a message is of this second or of a later one.
Says(m, act) ==
  /\ m \notin office.log
  /\ \A n \in office.log : n[1] < m[1] \/ (n[1] = m[1] /\ n[2] < m[2])
  /\ office' = [office EXCEPT !.log = @ \cup {m},
                              !.acts = IF act THEN @ \cup {m} ELSE @]

-----------------------------------------------------------------------------
(* The messages.                                                            *)

\* The board is asked for once the agent stands before it.
onArrive(s) == [s EXCEPT !.fetch = "asked"]
sendToBoard(s) ==
  IF s.reduced \/ s.held # "no" THEN onArrive(s)
  ELSE [s EXCEPT !.walk = "out",
                 !.fetch = IF @ = "asked" THEN "older" ELSE @]

\* The timer, an event of the stream, or the view is shown again: viewHidden
\* is never true, for no panel has the class it looks for.
poll == /\ ~office.polling
        /\ office' = [office EXCEPT !.polling = TRUE]

\* In the order of their seconds, and of each second the first that comes.
PollRead ==
  LET new == {m \in office.log : m[1] > office.cursor}
      told == {m \in new : \A n \in new : n[1] = m[1] => m[2] <= n[2]}
      s == [office EXCEPT !.polling = FALSE, !.told = @ \cup told,
                          !.cursor = Max({@} \cup {m[1] : m \in told}),
                          !.stale = @ \/ told \cap office.acts # {}]
  IN /\ office.polling
     /\ office' = IF told \cap office.acts # {} THEN sendToBoard(s) ELSE s
PollFails == office.polling /\ office' = [office EXCEPT !.polling = FALSE]

BoardRead == /\ office.fetch # "none"
             /\ office' = [office EXCEPT
                  !.fetch = "none", !.stale = @ /\ office.fetch = "older",
                  !.dropped = @ /\ office.fetch = "older"]
BoardFails == /\ office.fetch # "none"
              /\ office' = [office EXCEPT
                   !.fetch = "none",
                   !.dropped = @ \/ office.fetch = "asked"]

-----------------------------------------------------------------------------
(* The agent.                                                               *)

stepAgents ==
  /\ office.held = "no" /\ office.walk \in {"out", "back"}
  /\ office' = IF office.walk = "out"
               THEN [onArrive(office) EXCEPT !.walk = "back"]
               ELSE [office EXCEPT !.walk = "desk"]

\* An agent picked up has no walk any more, and so never arrives.
PickUp ==
  /\ office.held # "dragged"
  /\ office' = [office EXCEPT !.held = "dragged", !.walk = "desk",
                              !.dropped = @ \/ office.walk = "out"]
\* Dropped, patted, slapped, or thrown: in the air until it hits a wall or
\* two seconds are over.
endDrag(how) ==
  office.held = "dragged" /\ office' = [office EXCEPT !.held = how]
stepRagdoll ==
  office.held = "air" /\ office' = [office EXCEPT !.held = "no"]

Next ==
  \/ \E m \in Messages, act \in BOOLEAN : Says(m, act)
  \/ poll \/ PollRead \/ PollFails
  \/ BoardRead \/ BoardFails \/ stepAgents \/ PickUp
  \/ \E how \in {"no", "air"} : endDrag(how)
  \/ stepRagdoll
-----------------------------------------------------------------------------
\* Cards older than an action told are about to be read again, unless the
\* agent was picked up on its way or the board could not be read.
Settled ==
  office.stale =>
    office.walk = "out" \/ office.fetch = "asked" \/ office.dropped

\* A message the cursor has passed was told, or another of its second was.
Kept ==
  \A m \in office.log :
    m[1] <= office.cursor => \E n \in office.told : n[1] = m[1]
=============================================================================
