------------------------------- MODULE Board --------------------------------
(***************************************************************************)
(* The board and the goals: two stores the page keeps in step with         *)
(* requests of its own (ui/app/features/board.js and goals.js).  A card    *)
(* lives in the log of a chatroom and mirrors a goal; moving it tells the  *)
(* goal, and what happens to the goal moves it.  Requests and their        *)
(* answers may overtake one another, and be lost.                          *)
(***************************************************************************)
EXTENDS Integers, Sequences, FiniteSets, SequencesExt

CONSTANTS
  Goals, Rooms,
  MaxActs,    \* bound: what the user does once the board is open
  Window,     \* bound: how far from the oldest post one may be served or answered
  MaxTrouble  \* bound: the kinds of trouble met

ASSUME BoardAssumption ==
  /\ Goals # {} /\ IsFiniteSet(Goals)
  /\ MaxActs \in Nat /\ Window \in Nat \ {0} /\ MaxTrouble \in Nat

Columns == {"ready", "doing", "review", "done", "archive"}
Verdicts == {"review", "done", "archive"}
Statuses == {"none", "active", "review", "blocked", "done", "archived", "gone"}
NoGoal == {"none", "gone"}
NoCard == [column |-> "none", linked |-> FALSE]
Cards == {NoCard} \cup [column : Columns, linked : BOOLEAN]

VARIABLES
  cards,      \* the card of each goal in each room: one, cards.zig folds them
  status,     \* the goals store
  working,    \* the run registry of the server
  room,       \* the room the board's picker names
  shown,      \* board.cards, and the room they came from
  loaded,     \* boardLoaded
  list,       \* goalState
  running,    \* runningIds
  runs,       \* goalRuns, by their status
  requested,  \* goalMirrorRequested
  posts,      \* the requests in flight, oldest first
  acts, trouble \* history: what kept two answers or two acts apart

server == <<cards, status, working>>
page == <<room, shown, loaded, list, running, runs, requested>>
vars == <<server, page, posts, acts, trouble>>

Init ==
  /\ cards \in [Rooms -> [Goals -> {NoCard, [column |-> "ready", linked |-> FALSE],
                                    [column |-> "doing", linked |-> TRUE]}]]
  /\ status \in [Goals -> {"none", "active", "done"}]
  /\ \A g \in Goals, r \in Rooms : status[g] = "none" => ~cards[r][g].linked
  /\ room \in Rooms /\ working = {}
  /\ shown = [room |-> room, cards |-> [g \in Goals |-> NoCard]]
  /\ loaded = FALSE /\ list = [g \in Goals |-> "none"]
  /\ running = {} /\ runs = [g \in Goals |-> "none"] /\ requested = {}
  /\ posts = <<>> /\ acts = 0 /\ trouble = {}

-----------------------------------------------------------------------------
(* What the page sends.                                                     *)

Waiting == [is |-> "waiting"]
Request(op, g, arg, sync, then) ==
  [op |-> op, goal |-> g, arg |-> arg, sync |-> sync, then |-> then,
   room |-> room, of |-> shown.room, answer |-> Waiting]

\* A request with a goal's name and nothing else to say.
Plain(op, g) == Request(op, g, "none", FALSE, "none")
anyGoal == CHOOSE g \in Goals : TRUE

loadBoard(then) == Request("board", anyGoal, "none", FALSE, then)
loadGoals(then) == Request("goals", anyGoal, "none", FALSE, then)
postGoal(g, s, then) == Request("status", g, s, FALSE, then)
postMove(g, column, sync) == Request("move", g, column, sync, "none")

isGoalRunning(g, now, mine) == g \in now \/ mine[g] = "running"

goalPinnedColumn(s, isRunning) ==
  CASE s = "done" -> "done"
    [] s \in {"review", "blocked"} -> "review"
    [] s = "archived" -> "archive"
    [] s = "active" /\ isRunning -> "doing"
    [] OTHER -> "none"

\* A goal's move never bounces back into the goals store (goal_sync: false).
moves(board, g, column) == board[g] \notin {NoCard, [board[g] EXCEPT !.column = column]}
moveGoalCard(board, g, column) ==
  IF moves(board, g, column) THEN <<postMove(g, column, FALSE)>> ELSE <<>>

\* A run moves its goal's card, and leaves a note on it, which changes nothing
\* told apart here and is answered with the board.
logGoalRun(g) == IF shown.cards[g] = NoCard THEN <<>> ELSE <<Plain("log", g)>>
followRun(g, column) == moveGoalCard(shown.cards, g, column) \o logGoalRun(g)

\* mirrorGoalsToBoard, once the board is loaded: it links and moves the cards of
\* the goals named, and creates the missing ones.  The posts of one goal are in
\* the code's order; those of different goals touch different cards.  The posts
\* that copy a goal's tasks to the checklist (goals.js:250) are left out: they
\* change nothing told apart here, and are answered as a note is.
Mirror(board, goals, now) ==
  LET pinned(g) == goalPinnedColumn(goals[g], isGoalRunning(g, now, runs))
      known == {g \in Goals : goals[g] \notin NoGoal}
      links == {g \in known : board[g] # NoCard /\ ~board[g].linked}
      moved == {g \in known : pinned(g) # "none" /\ moves(board, g, pinned(g))}
      missing == {g \in known \ requested : board[g] = NoCard}
  IN  SetToSeq({Plain("link", g) : g \in links})
        \o SetToSeq({postMove(g, pinned(g), FALSE) : g \in moved})
        \o SetToSeq({Request("create", g, IF pinned(g) = "none" THEN "ready" ELSE pinned(g),
                             FALSE, "none") : g \in missing})
Asked(board, goals) ==
  requested \cup {g \in Goals : goals[g] \notin NoGoal /\ board[g] = NoCard}

\* syncCardsFromGoals: and an idle active goal goes back to ready.
Sync(board, goals, now) ==
  LET pinned(g) == goalPinnedColumn(goals[g], isGoalRunning(g, now, runs))
      target(g) == IF pinned(g) = "none" /\ goals[g] = "active" THEN "ready" ELSE pinned(g)
      moved == {g \in Goals : target(g) # "none" /\ moves(board, g, target(g))}
  IN  SetToSeq({postMove(g, target(g), FALSE) : g \in moved})

\* A defect of boardToGoal: work pulled back out of a verdict is not said to be
\* active again.
BugBoardToGoal(r) ==
  LET s == list[r.goal]
      verdict == CASE r.arg = "done" -> "done" [] r.arg = "review" -> "review"
                   [] r.arg = "archive" -> "archived" [] OTHER -> s
  IN  IF ~r.sync \/ s \in NoGoal \cup {verdict} THEN <<>>
      ELSE <<postGoal(r.goal, verdict, "none")>>

\* postBoard on the answer of a move of the user's: Done, Review and Archive
\* are said of the goal too, and leaving them makes it active again.
boardToGoal(r) ==
  LET s == list[r.goal]
      verdict == CASE r.arg = "done" -> "done" [] r.arg = "review" -> "review"
                   [] r.arg = "archive" -> "archived" [] OTHER -> "active"
  IN  IF ~r.sync \/ s \in NoGoal \cup {verdict} THEN <<>>
      ELSE <<postGoal(r.goal, verdict, "none")>>

-----------------------------------------------------------------------------
(* The server.  A request is applied at once, and answered with a snapshot. *)

\* Nothing in flight but runs, and nothing but runs that work.
Idle == \A i \in DOMAIN posts : posts[i].op = "run"
Quiet == Idle /\ \A i \in DOMAIN posts : posts[i].answer.is # "ended"

Applied(i) == posts[i].answer = Waiting /\ posts[i].op # "run"
Snapshot == [is |-> "ok", cards |-> cards', status |-> status',
             working |-> working']

\* A card with items of its checklist open is not moved to Done.  The items are
\* anybody's to add and to tick, at any time, so at each post they are all ticked
\* or not.
Accepts(r, ticked) ==
  CASE r.op \in {"move", "link", "unlink", "log"} ->
         /\ r.of = r.room /\ cards[r.room][r.goal] # NoCard
         /\ r.op = "move" /\ r.arg = "done" => ticked
    [] r.op \in {"status", "remove", "pause"} -> status[r.goal] \notin NoGoal
    [] OTHER -> TRUE

\* A post that goes past an older one is applied out of the order it was made.
Overtaking(i) == \E j \in 1..(i - 1) : posts[j].op # "run"
                                        /\ posts[j].answer = Waiting

\* A goal's own move of its card is refused for the checklist.
HeldBack(r, ticked) ==
  r.op = "move" /\ ~r.sync /\ Accepts(r, TRUE) /\ ~Accepts(r, ticked)

Apply(i, ticked) ==
  LET r == posts[i]
      put(card) == [cards EXCEPT ![r.room][r.goal] = card]
      old == cards[r.room][r.goal]
  IN  /\ Applied(i)
      /\ IF ~Accepts(r, ticked) THEN UNCHANGED <<cards, status>> ELSE
         /\ cards' = CASE r.op = "move" -> put([old EXCEPT !.column = r.arg])
                       [] r.op = "link" -> put([old EXCEPT !.linked = TRUE])
                       [] r.op = "unlink" -> put([old EXCEPT !.linked = FALSE])
                       [] r.op = "create" /\ ~old.linked ->
                            put([column |-> r.arg, linked |-> TRUE])
                       [] OTHER -> cards
         /\ status' = CASE r.op = "status" -> [status EXCEPT ![r.goal] = r.arg]
                        [] r.op = "new" -> [status EXCEPT ![r.goal] = "active"]
                        [] r.op = "remove" -> [status EXCEPT ![r.goal] = "gone"]
                        [] OTHER -> status
      /\ working' = working
      /\ posts' = [posts EXCEPT ![i].answer =
                     IF Accepts(r, ticked) THEN Snapshot ELSE [is |-> "refused"]]
      /\ trouble' = trouble \cup (IF Overtaking(i) THEN {"order"} ELSE {})
                             \cup (IF HeldBack(r, ticked) THEN {"checklist"} ELSE {})
      /\ UNCHANGED <<page, acts>>

Serve(i) == \E ticked \in BOOLEAN : Apply(i, ticked)

\* POST /api/run: a thread of its own, until it ends.
RunStarts(i) ==
  /\ posts[i].op = "run" /\ posts[i].answer = Waiting
  /\ posts' = [posts EXCEPT ![i].answer = [is |-> "working"]]
  /\ working' = working \cup {posts[i].goal}
  /\ UNCHANGED <<cards, status, page, acts, trouble>>

\* The goal loop ends: with a verdict of its own, or an error the stream tells
\* and then ends as ever.  A page that still follows it reads the end.
RunEnds(g) ==
  \E s \in {"review", "blocked", "active"} :
    /\ g \in working
    /\ working' = working \ {g}
    /\ status' = [status EXCEPT ![g] = IF @ = "active" THEN s ELSE @]
    /\ trouble' = trouble
                    \cup (IF status'[g] = "active" THEN {"verdict"} ELSE {})
                    \cup (IF Idle THEN {} ELSE {"overlap"})
    /\ posts' = [i \in DOMAIN posts |->
                   IF posts[i].op = "run" /\ posts[i].goal = g
                        /\ posts[i].answer.is = "working"
                     THEN [posts[i] EXCEPT !.answer = [is |-> "ended"]]
                     ELSE posts[i]]
    /\ UNCHANGED <<cards, page, acts>>

-----------------------------------------------------------------------------
(* The answers.                                                             *)

\* The posts in flight, but for the i-th.
Rest(i) == RemoveAt(posts, i)
Sends(i, more) == posts' = Rest(i) \o more
Late(i) == trouble' = IF \E j \in 1..(i - 1) : posts[j].op # "run"
                        THEN trouble \cup {"order"} ELSE trouble
Answered(i, ops) == posts[i].op \in ops /\ posts[i].answer.is = "ok"
BoardOf(r) == [room |-> r.room, cards |-> r.answer.cards[r.room]]

\* loadBoard's answer, and what waited for it: the goals, or a mirror of them.
BoardRead(i) ==
  LET r == posts[i] IN
  /\ Answered(i, {"board"})
  /\ shown' = BoardOf(r) /\ loaded' = TRUE
  /\ Late(i)
  /\ CASE r.then = "goals" -> /\ Sends(i, <<loadGoals("none")>>)
                              /\ UNCHANGED requested
       [] r.then = "mirror" ->
            /\ Sends(i, Mirror(shown'.cards, list, running))
            /\ requested' = Asked(shown'.cards, list)
       [] OTHER -> Sends(i, <<>>) /\ UNCHANGED requested
  /\ UNCHANGED <<server, room, list, running, runs, acts>>

\* loadGoals' answer: what runs, what the goals are, and the mirror.
GoalsRead(i) ==
  LET r == posts[i] IN
  /\ Answered(i, {"goals"})
  /\ list' = r.answer.status /\ running' = r.answer.working
  /\ Late(i)
  /\ IF loaded
       THEN /\ requested' = Asked(shown.cards, list')
            /\ Sends(i, Mirror(shown.cards, list', running')
                     \o (IF r.then # "sync" THEN <<>>
                         ELSE Sync(shown.cards, list', running') \o <<loadBoard("none")>>))
       ELSE /\ Sends(i, <<loadBoard("mirror")>>)
            /\ UNCHANGED requested
  /\ UNCHANGED <<server, room, shown, loaded, runs, acts>>

\* postBoard's answer: the whole board, whatever room is chosen by now.
PostRead(i) ==
  LET r == posts[i] IN
  /\ Answered(i, {"move", "link", "unlink", "log", "create"})
  /\ shown' = BoardOf(r)
  /\ Late(i)
  /\ Sends(i, IF r.op = "move" THEN boardToGoal(r) ELSE <<>>)
  /\ UNCHANGED <<server, room, loaded, list, running, runs, requested, acts>>

\* runGoal: a run of this page's is not started twice.
RunsNow(i, g, more) ==
  IF runs[g] = "running" THEN Sends(i, more) /\ UNCHANGED runs
  ELSE /\ runs' = [runs EXCEPT ![g] = "running"]
       /\ Sends(i, more \o followRun(g, "doing") \o <<Plain("run", g)>>)

\* postGoal's answer: the card follows, and a run that waited for it starts.
StatusRead(i) ==
  LET r == posts[i]
      g == r.goal
      card == shown.cards[g]
      follow == CASE r.arg = "done" -> moveGoalCard(shown.cards, g, "done")
                  [] r.arg = "review" -> moveGoalCard(shown.cards, g, "review")
                  [] r.arg = "archived" -> moveGoalCard(shown.cards, g, "archive")
                  [] card # NoCard /\ card.column \in Verdicts ->
                       <<postMove(g, "ready", FALSE)>>
                  [] OTHER -> <<>>
  IN  /\ Answered(i, {"status"})
      /\ list' = r.answer.status
      /\ Late(i)
      /\ IF r.then = "run" THEN RunsNow(i, g, follow)
                           ELSE Sends(i, follow) /\ UNCHANGED runs
      /\ UNCHANGED <<server, room, shown, loaded, running, requested, acts>>

\* A goal is made: its card is adopted or created, and a card already there is
\* moved to the lane it was written in; then it may be run.
NewRead(i) ==
  LET r == posts[i]
      g == r.goal
      only == [h \in Goals |-> IF h = g THEN list'[g] ELSE "none"]
      lane == IF r.arg = "none" THEN <<>> ELSE moveGoalCard(shown.cards, g, r.arg)
      kept == IF loaded THEN Mirror(shown.cards, only, running)
                        ELSE <<loadBoard("mirror")>>
  IN  /\ Answered(i, {"new"})
      /\ list' = r.answer.status
      /\ requested' = IF loaded THEN Asked(shown.cards, only) ELSE requested
      /\ Late(i)
      /\ IF r.then = "run" THEN RunsNow(i, g, kept)
                           ELSE Sends(i, kept \o lane) /\ UNCHANGED runs
      /\ UNCHANGED <<server, room, shown, loaded, running, acts>>

\* A goal is gone: its card stays, and claims it no more.
RemoveRead(i) ==
  LET r == posts[i] IN
  /\ Answered(i, {"remove", "pause"})
  /\ list' = r.answer.status
  /\ Late(i)
  /\ Sends(i, IF r.op = "remove" /\ shown.cards[r.goal].linked
                THEN <<Plain("unlink", r.goal)>> ELSE <<>>)
  /\ UNCHANGED <<server, room, shown, loaded, running, runs, requested, acts>>

\* A defect of Fails: the mirror's request is remembered though it failed.
BugFails(i) ==
  /\ posts[i].op # "run"
  /\ Sends(i, <<>>)
  /\ trouble' = IF posts[i].answer.is = "refused" THEN trouble
                                                 ELSE trouble \cup {"loss"}
  /\ UNCHANGED <<server, page, acts>>

\* A request that fails, on its way, on its way back, or refused: only the
\* mirror's create has something to undo.
Fails(i) ==
  LET r == posts[i] IN
  /\ r.op # "run"
  /\ Sends(i, <<>>)
  /\ requested' = IF r.op = "create" THEN requested \ {r.goal} ELSE requested
  /\ trouble' = IF r.answer.is = "refused" THEN trouble ELSE trouble \cup {"loss"}
  /\ UNCHANGED <<server, room, shown, loaded, list, running, runs, acts>>

\* The stream of a run ends, or the request fails.
RunRead(i) ==
  LET g == posts[i].goal
      ended == posts[i].answer.is = "ended"
  IN  /\ posts[i].op = "run"
      /\ runs' = [runs EXCEPT ![g] = IF ended THEN "finished" ELSE "failed"]
      /\ Sends(i, followRun(g, IF ended THEN "review" ELSE "ready")
                    \o <<loadGoals("none")>>)
      /\ trouble' = trouble \cup (IF ended THEN {} ELSE {"loss"})
                             \cup (IF Idle THEN {} ELSE {"overlap"})
      /\ UNCHANGED <<server, room, shown, loaded, list, running, requested, acts>>

-----------------------------------------------------------------------------
(* The user.                                                                *)

Act ==
  /\ loaded /\ acts < MaxActs /\ acts' = acts + 1
  /\ UNCHANGED server
Sent(more) ==
  /\ posts' = posts \o more
  /\ trouble' = IF Quiet THEN trouble ELSE trouble \cup {"overlap"}

\* viewLoaders.kanban, and the refresh of the goals.
Open ==
  /\ ~loaded /\ posts = <<>> /\ Sent(<<loadBoard("goals")>>)
  /\ UNCHANGED <<server, page, acts>>
Refresh ==
  /\ Act /\ Sent(<<loadGoals("none")>>)
  /\ UNCHANGED page

\* Re-sync from goals.
Resync ==
  /\ Act /\ Sent(<<loadGoals("sync")>>)
  /\ UNCHANGED page

\* A defect of PickRoom: the board of the room chosen is not fetched.
BugPickRoom(r) ==
  /\ Act /\ r # room
  /\ room' = r
  /\ trouble' = trouble \cup {"room"}
  /\ UNCHANGED <<shown, loaded, list, running, runs, requested, posts>>

PickRoom(r) ==
  /\ Act /\ r # room
  /\ room' = r
  /\ posts' = posts \o <<[loadBoard("none") EXCEPT !.room = r]>>
  /\ trouble' = trouble \cup {"room"}
  /\ UNCHANGED <<shown, loaded, list, running, runs, requested>>

\* A card on the board as boardColumn draws it: the lanes show what is loaded.
Drawn(g) == loaded /\ shown.cards[g] # NoCard
Lanes == <<"ready", "doing", "review", "done", "archive">>

\* A drop on a card or a choice in a card's menu, of another column.
MoveCard(g, column) ==
  /\ Act /\ Drawn(g) /\ shown.cards[g].column # column
  /\ Sent(<<postMove(g, column, TRUE)>>)
  /\ UNCHANGED page

\* A drop on the lane itself, which asks nothing of where the card was; a move
\* of every card of a lane is as many of these.
DropOnLane(g, column) ==
  /\ Act /\ Drawn(g)
  /\ Sent(<<postMove(g, column, TRUE)>>)
  /\ UNCHANGED page

\* Ctrl with an arrow key, or the arrow of the quick actions: the lane beside.
MoveBeside(g, step) ==
  /\ Act /\ Drawn(g)
  /\ \E i, j \in DOMAIN Lanes : /\ Lanes[i] = shown.cards[g].column
                               /\ j = i + step
                               /\ Sent(<<postMove(g, Lanes[j], TRUE)>>)
  /\ UNCHANGED page

\* Mark done: the board decides, if the goal has a card.  The button is disabled
\* over a checklist with open items as it was when the goals were drawn.
MarkDone(g) ==
  /\ Act /\ list[g] \notin NoGoal \cup {"done"}
  /\ Sent(IF shown.cards[g] # NoCard THEN <<postMove(g, "done", TRUE)>>
                                     ELSE <<postGoal(g, "done", "none")>>)
  /\ UNCHANGED page

\* Archive, Reactivate, Delete.
SetStatus(g, s) ==
  /\ Act /\ list[g] \notin NoGoal \cup {s}
  /\ Sent(<<postGoal(g, s, "none")>>)
  /\ UNCHANGED page
Delete(g) ==
  /\ Act /\ list[g] \notin NoGoal
  /\ Sent(<<Plain("remove", g)>>)
  /\ UNCHANGED page

\* A goal's text is posted: by the goal form, by a lane's quick add, which then
\* wants the card in its lane, or for a card that is to be worked as a goal.
NewGoal(g, lane, then) ==
  /\ Act /\ status[g] = "none" /\ list[g] = "none"
  /\ posts' = Append(posts, Request("new", g, lane, FALSE, then))
  /\ trouble' = trouble \cup (IF Quiet THEN {} ELSE {"overlap"})
                         \cup (IF shown.cards[g].column \in Verdicts THEN {"adopts"}
                                                                    ELSE {})
  /\ UNCHANGED page
SubmitGoal(g) == NewGoal(g, "none", "none")
QuickAdd(g, lane) == NewGoal(g, lane, "none")

\* A goal is run at once if it is active, and when it is active again if not.
Work(g) ==
  IF list[g] = "active"
    THEN /\ runs' = [runs EXCEPT ![g] = "running"]
         /\ Sent(followRun(g, "doing") \o <<Plain("run", g)>>)
    ELSE Sent(<<postGoal(g, "active", "run")>>) /\ UNCHANGED runs

\* Work on this, which an active goal has; Iterate, which every goal has that
\* does not run; and Work as goal, which a card has, goal or not.
workOnGoal(g) ==
  /\ Act /\ list[g] = "active" /\ ~isGoalRunning(g, running, runs)
  /\ Work(g)
  /\ UNCHANGED <<room, shown, loaded, list, running, requested>>
iterateGoal(g) ==
  /\ Act /\ list[g] \notin NoGoal /\ ~isGoalRunning(g, running, runs)
  /\ Work(g)
  /\ UNCHANGED <<room, shown, loaded, list, running, requested>>
workCardAsGoal(g) ==
  /\ Drawn(g)
  /\ IF list[g] \in NoGoal THEN NewGoal(g, "none", "run") ELSE
     /\ Act /\ runs[g] # "running" /\ Work(g)
     /\ UNCHANGED <<room, shown, loaded, list, running, requested>>

\* Stop: the stream is dropped, the thread is not.
Stop(g) ==
  LET more == followRun(g, "ready") \o <<Plain("pause", g), loadGoals("none")>>
  IN  /\ Act /\ runs[g] = "running"
      /\ runs' = [runs EXCEPT ![g] = "stopped"]
      /\ \E i \in DOMAIN posts : /\ posts[i].op = "run" /\ posts[i].goal = g
                               /\ Sends(i, more)
      /\ trouble' = IF Quiet THEN trouble ELSE trouble \cup {"overlap"}
      /\ UNCHANGED <<room, shown, loaded, list, running, requested>>

-----------------------------------------------------------------------------
Step ==
  \/ Open \/ Refresh \/ Resync
  \/ \E r \in Rooms : PickRoom(r)
  \/ \E g \in Goals :
       \/ MarkDone(g) \/ Delete(g) \/ Stop(g) \/ RunEnds(g) \/ SubmitGoal(g)
       \/ workOnGoal(g) \/ iterateGoal(g) \/ workCardAsGoal(g) \/ QuickAdd(g, "doing")
       \/ \E c \in Columns : MoveCard(g, c) \/ DropOnLane(g, c)
       \/ \E step \in {-1, 1} : MoveBeside(g, step)
       \/ \E s \in {"archived", "active"} : SetStatus(g, s)
  \/ \E i \in 1..Min({Window, Len(posts)}) :
                             \/ Serve(i) \/ RunStarts(i) \/ BoardRead(i)
                             \/ GoalsRead(i) \/ PostRead(i) \/ StatusRead(i)
                             \/ NewRead(i) \/ RemoveRead(i) \/ Fails(i)
                             \/ RunRead(i)

Next == Step /\ Cardinality(trouble') <= MaxTrouble

Spec == Init /\ [][Next]_vars

-----------------------------------------------------------------------------
Ops == {"board", "goals", "status", "new", "remove", "pause", "run",
        "move", "link", "unlink", "log", "create"}
Answers ==
  {Waiting, [is |-> "refused"], [is |-> "working"], [is |-> "ended"]}
    \cup [is : {"ok"}, cards : [Rooms -> [Goals -> Cards]],
         status : [Goals -> Statuses], working : SUBSET Goals]
Requests ==
  [op : Ops, goal : Goals, arg : Columns \cup Statuses, sync : BOOLEAN,
   then : {"none", "goals", "mirror", "sync", "run"},
   room : Rooms, of : Rooms, answer : Answers]
\* What a move, a creation, a status and a new goal say.
Posts ==
  {r \in Requests : /\ r.op \in {"move", "create"} => r.arg \in Columns
                    /\ r.op = "status" => r.arg \in Statuses
                    /\ r.op = "new" => r.arg \in Columns \cup {"none"}}

TypeOK ==
  /\ cards \in [Rooms -> [Goals -> Cards]]
  /\ status \in [Goals -> Statuses] /\ working \subseteq Goals
  /\ room \in Rooms
  /\ shown \in [room : Rooms, cards : [Goals -> Cards]]
  /\ loaded \in BOOLEAN /\ list \in [Goals -> Statuses]
  /\ running \subseteq Goals /\ requested \subseteq Goals
  /\ runs \in [Goals -> {"none", "running", "finished", "stopped", "failed"}]
  /\ posts \in Seq(Posts)
  /\ acts \in 0..MaxActs
  /\ trouble \subseteq {"order", "loss", "room", "verdict", "overlap", "adopts",
                        "checklist"}

\* Once an act has run its course, the board and the goals tell the same story:
\* a card is in Done, Review or Archive when its goal is, and only then
\* (board.js:221-224, goals.js:815-818).  It holds of acts that do not overlap,
\* of answers that do not overtake one another, in one room, while runs leave
\* verdicts; each of these is needed.  A goal that is done is out of step with
\* its card only if the board refused to follow it, for the card's checklist
\* (board.zig:430-431); every other goal still is in step.
InStep ==
  Idle /\ trouble \subseteq {"checklist"} =>
    \A g \in Goals :
      LET pinned == goalPinnedColumn(list[g], FALSE)
          followed == list[g] = "done" => "checklist" \notin trouble
      IN  list[g] \notin NoGoal /\ shown.cards[g] # NoCard /\ followed =>
            IF pinned = "none" THEN shown.cards[g].column \notin Verdicts
                               ELSE shown.cards[g].column = pinned

\* When nothing is in flight and no answer was overtaken or lost, the board on
\* screen is the board of the room the picker names, as the log has it.
ScreenTrue ==
  Idle /\ loaded /\ trouble \cap {"order", "loss"} = {} =>
    /\ shown.room = room
    /\ shown.cards = cards[room]

\* A goal is not kept off the board: one whose card was asked for either has
\* the request in flight or was given it, in this room or the one chosen then,
\* come what may (goals.js:281-286).
NeverKeptOff ==
  \A g \in requested :
    \/ \E i \in DOMAIN posts : posts[i].op = "create" /\ posts[i].goal = g
    \/ \E r \in Rooms : cards[r][g] # NoCard

\* Nothing tells one room from another.
RoomSymmetry == Permutations(Rooms)

=============================================================================
