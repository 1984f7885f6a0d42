------------------------------- MODULE Rooms -------------------------------
(***************************************************************************)
(* The Channels view of the web UI (ui/app/app.js): opening a room, the    *)
(* poll that keeps its log up to date, the live events, the pins panel and *)
(* what leaving the view or hiding the tab does to the poll.  Requests to  *)
(* the server are answered in any order; a handler runs to its end before  *)
(* the next one starts.                                                    *)
(***************************************************************************)
EXTENDS Integers, Sequences, FiniteSets, FiniteSetsExt, Functions, TLC

CONSTANTS
  RoomNames,  \* the rooms that may ever be listed
  Initial,    \* those the server lists from the start
  Messages,   \* the messages that may ever be posted
  RoomOf,     \* the room of each message
  Ts,         \* its timestamp: seconds, so two messages may share one
  PageSize,   \* messages in one answer (chatrooms.history_page_size)
  SeenCap,    \* chat_seen_cap
  Ids,        \* bound: requests of the view that are in flight at a time
  MaxActs,    \* bound: what the user does besides coming back to the view
  Pins,       \* the messages that are pinned once they are posted
  NoRoom

ASSUME RoomsAssumption ==
  /\ NoRoom \notin RoomNames
  /\ Initial \subseteq RoomNames /\ Initial # {}
  /\ RoomOf \in [Messages -> RoomNames]
  /\ Ts \in [Messages -> Nat \ {0}]
  /\ IsFiniteSet(Messages) /\ Pins \subseteq Messages
  /\ MaxActs \in Nat
  /\ PageSize \in Nat \ {0} /\ SeenCap \in Nat \ {0}
  /\ RoomNames \cap {"timer", "none", "start", "load", "sent"} = {}

VARIABLES
  view,        \* currentView: "rooms" or "other"
  hidden,      \* document.hidden
  loaded,      \* viewLoaded.rooms
  room,        \* el.chatRoom.value, the room the composer sends to
  locked,      \* the list could not be loaded: no composer, an empty log
  log,         \* the messages on screen, in the order of el.chatLog
  seen,        \* chatSeen
  seenOrder,   \* chatSeenOrder
  lastTs,      \* chatLastTs
  handle,      \* chatPoll: null, a timeout still to fire, or one that fired
  timerRoom,   \* the room in the closure of that timeout
  options,     \* the rooms of the sidebar and the picker
  panel,       \* the pins panel is open
  pinned,      \* the room whose pins it lists
  jumps,       \* those of its rows that hold their message
  pinsAsked,   \* the rooms whose pins are on their way
  pending,     \* the other requests in flight
  listed,      \* the rooms the server lists
  posted,      \* the server's messages
  aired,       \* those whose live event is gone: delivered or lost
  acts,        \* bound: how often the user acted
  mixed        \* history: this visit began with answers for other rooms due

page == <<log, seen, seenOrder, lastTs>>
poll == <<handle, timerRoom>>
pins == <<panel, pinned, jumps, pinsAsked>>
server == <<listed, posted, aired>>
tab == <<view, hidden, loaded>>
composer == <<room, locked, mixed>>
vars == <<page, poll, pins, server, tab, composer, options, pending, acts>>

\* What runs when a chain of requests ends: the poll timer's own `finally`,
\* nothing, the start of the poll after an open, the same for the view's
\* first load, the end of a send, or the opening of a room just created.
Continuations == {"timer", "none", "start", "load", "sent"} \cup RoomNames

Request == [kind : {"rooms", "join", "poll", "send", "create"},
            room : RoomNames \cup {NoRoom},
            after : Nat,
            cont : Continuations]
Idle == [kind |-> "idle"]

Rooms(c) == [kind |-> "rooms", room |-> NoRoom, after |-> 0, cont |-> c]
Poll(r, a, c) == [kind |-> "poll", room |-> r, after |-> a, cont |-> c]
Join(r, c) == [kind |-> "join", room |-> r, after |-> 0, cont |-> c]
Sending(r) == [kind |-> "send", room |-> r, after |-> 0, cont |-> "sent"]
Creating(r) == [kind |-> "create", room |-> r, after |-> 0, cont |-> r]

Init ==
  /\ view = "other" /\ hidden = FALSE /\ loaded = FALSE
  /\ room = NoRoom /\ locked = FALSE /\ mixed = FALSE
  /\ log = <<>> /\ seen = {} /\ seenOrder = <<>> /\ lastTs = 0
  /\ handle = "null" /\ timerRoom = NoRoom
  /\ options = {} /\ listed = Initial
  /\ panel = FALSE /\ pinned = NoRoom /\ jumps = {} /\ pinsAsked = {}
  /\ pending = [i \in Ids |-> Idle]
  /\ posted = {} /\ aired = {}
  /\ acts = 0

-----------------------------------------------------------------------------
(* The poll timer.                                                          *)

\* startChatPoll: one timeout, none while the tab is hidden.
StartPoll(r) ==
  IF hidden
    THEN handle' = "null" /\ timerRoom' = NoRoom
    ELSE handle' = "armed" /\ timerRoom' = r

\* stopChatPoll.
StopPoll == handle' = "null" /\ timerRoom' = NoRoom

\* The timeout fires: a poll with the cursor as it is now.
Fires(i) ==
  /\ handle = "armed" /\ pending[i] = Idle
  /\ handle' = "fired"
  /\ pending' = [pending EXCEPT ![i] = Poll(timerRoom, lastTs, "timer")]
  /\ UNCHANGED <<page, timerRoom, pins, server, tab, composer, options>>

-----------------------------------------------------------------------------
(* The log.                                                                 *)

\* GET /api/chat/messages: the last page of the room after the cursor, last in
\* the log; a peer's messages come with times of their own, in any order.
Answer(r, after) ==
  LET later == {m \in posted : RoomOf[m] = r /\ Ts[m] > after}
  IN  {S \in SUBSET later : Cardinality(S) = Min({PageSize, Cardinality(later)})}

\* rememberChatId for a batch q: the oldest ids go beyond the cap.
Remember(q) ==
  LET order == seenOrder \o q
      drop == Max({0, Len(order) - SeenCap})
  IN  /\ seenOrder' = SubSeq(order, drop + 1, Len(order))
      /\ seen' = (seen \cup Range(q)) \ Range(SubSeq(order, 1, drop))

\* Mutant: an answer is not compared with the ids seen before.
BugIngest(answer) ==
  \E q \in {p \in [1..Cardinality(answer) -> answer] : IsInjective(p)} :
    /\ log' = log \o q
    /\ Remember(q)
    /\ lastTs' = Max({lastTs} \cup {Ts[m] : m \in answer})

\* ingestChatMessages: what is not seen, by time, at the end of the log.
Ingest(answer) ==
  LET fresh == answer \ seen
      batches == {q \in [1..Cardinality(fresh) -> fresh] :
                    /\ IsInjective(q)
                    /\ \A i, j \in DOMAIN q : i < j => Ts[q[i]] <= Ts[q[j]]}
  IN  \E q \in batches :
        /\ log' = log \o q
        /\ Remember(q)
        /\ lastTs' = Max({lastTs} \cup {Ts[m] : m \in fresh})

\* Answers for other rooms that are due when r is opened with request i.
Foreign(r, i) ==
  \/ \E j \in Ids \ {i} : /\ pending[j].kind \in {"join", "poll", "send"}
                          /\ pending[j].room # r
  \/ pinsAsked \ {r} # {}

\* openChatRoom: stop, empty, reload the pins if their panel is open, then
\* join if needed, poll from the start, and run what is left of the chain.
\* The picker's value is the option for r, if there is one.  Which rooms
\* subscribedRooms holds is left open.
OpenRoom(r, value, i, c) ==
  /\ StopPoll
  /\ room' = value
  /\ log' = <<>> /\ seen' = {} /\ seenOrder' = <<>> /\ lastTs' = 0
  /\ \E first \in {Poll(r, 0, c), Join(r, c)} :
       pending' = [pending EXCEPT ![i] = first]
  /\ IF panel THEN /\ pinned' = NoRoom /\ jumps' = {}
                   /\ pinsAsked' = pinsAsked \cup {r}
              ELSE UNCHANGED <<pinned, jumps, pinsAsked>>
  /\ mixed' = Foreign(r, i)
  /\ UNCHANGED panel

\* joinIfNeeded: a refusal or a failure does not stop the chain, and the
\* cursor of the poll that follows is read now.
Joined(i) ==
  /\ pending[i].kind = "join"
  /\ pending' = [pending EXCEPT ![i] = Poll(@.room, lastTs, @.cont)]
  /\ UNCHANGED <<page, poll, pins, server, tab, composer, options>>

\* Mutant: a poll that failed does not set the timer again.
BugPolled(i, ok) ==
  LET p == pending[i] IN
  /\ p.kind = "poll" /\ p.cont \notin RoomNames
  /\ IF ok THEN \E S \in Answer(p.room, p.after) : Ingest(S)
           ELSE UNCHANGED page
  /\ IF ok /\ (p.cont \in {"start", "load"} \/ (p.cont = "timer" /\ handle # "null"))
       THEN StartPoll(p.room) ELSE UNCHANGED poll
  /\ loaded' = (loaded \/ p.cont = "load")
  /\ pending' = [pending EXCEPT ![i] = Idle]
  /\ UNCHANGED <<pins, composer, view, hidden, server, options>>

\* pollChat's answer, and what its caller does next.
Polled(i, ok) ==
  LET p == pending[i] IN
  /\ p.kind = "poll"
  /\ IF p.cont \in RoomNames
       THEN \* the log this answer is drawn into is emptied at once
            /\ OpenRoom(p.cont, p.cont, i, "start")
            /\ UNCHANGED <<tab, locked>>
       ELSE /\ IF ok THEN \E S \in Answer(p.room, p.after) : Ingest(S)
                     ELSE UNCHANGED page
            /\ IF \/ p.cont \in {"start", "load"}
                  \/ p.cont = "timer" /\ handle # "null"
                 THEN StartPoll(p.room) ELSE UNCHANGED poll
            /\ loaded' = (loaded \/ p.cont = "load")
            /\ pending' = [pending EXCEPT ![i] = Idle]
            /\ UNCHANGED <<pins, room, locked, mixed, view, hidden>>
  /\ UNCHANGED <<server, options>>

\* Mutant: an event is drawn whichever room it names.
BugLive(m) ==
  /\ m \in posted \ aired
  /\ aired' = aired \cup {m}
  /\ Ingest({m})
  /\ UNCHANGED <<poll, pins, listed, posted, tab, composer, options, pending>>

\* A message as a live event: drawn if it names the selected room.
Live(m) ==
  /\ m \in posted \ aired
  /\ aired' = aired \cup {m}
  /\ IF RoomOf[m] = room THEN Ingest({m}) ELSE UNCHANGED page
  /\ UNCHANGED <<poll, pins, listed, posted, tab, composer, options, pending>>

\* The event never comes: the subscriber was overrun or not connected.
Lost(m) ==
  /\ m \in posted \ aired
  /\ aired' = aired \cup {m}
  /\ UNCHANGED <<page, poll, pins, listed, posted, tab, composer, options, pending>>

\* A peer, or another client of this instance, writes a message.
Post(m) ==
  /\ m \notin posted
  /\ posted' = posted \cup {m}
  /\ UNCHANGED <<page, poll, pins, listed, aired, tab, composer, options, pending>>

-----------------------------------------------------------------------------
(* The list of rooms.                                                       *)

\* Refresh or Try again.
Refresh(i) ==
  /\ view = "rooms" /\ pending[i] = Idle
  /\ \A j \in Ids : pending[j].kind # "rooms"
  /\ pending' = [pending EXCEPT ![i] = Rooms("start")]
  /\ UNCHANGED <<page, poll, pins, server, tab, composer, options>>

\* renderChatRooms: the selection is kept if it is still an option.
Wanted(list) == IF room \in list THEN {room} ELSE list

\* loadChatRooms: the list arrives and the wanted room is opened (again).
RoomsListed(i) ==
  /\ pending[i].kind = "rooms"
  /\ options' = listed
  /\ locked' = FALSE
  /\ \E r \in Wanted(listed) : OpenRoom(r, r, i, pending[i].cont)
  /\ UNCHANGED <<server, tab>>

\* ... or does not: the log makes way for a notice.  The chain goes on, and a
\* room just created is opened although it may be no option to select.
RoomsFailed(i) ==
  /\ pending[i].kind = "rooms"
  /\ locked' = TRUE
  /\ IF pending[i].cont \in RoomNames
       THEN /\ LET r == pending[i].cont
               IN  OpenRoom(r, IF r \in options THEN r ELSE NoRoom, i, "start")
            /\ UNCHANGED loaded
       ELSE /\ log' = <<>>
            /\ loaded' = (loaded \/ pending[i].cont = "load")
            /\ pending' = [pending EXCEPT ![i] = Idle]
            /\ UNCHANGED <<seen, seenOrder, lastTs, poll, pins, room, mixed>>
  /\ UNCHANGED <<server, view, hidden, options>>

\* The channel dialog: subscribe to a new name, list again, then open it.
Create(r, i) ==
  /\ view = "rooms" /\ loaded /\ pending[i] = Idle
  /\ r \notin options
  /\ \A j \in Ids : pending[j].kind # "create"
  /\ pending' = [pending EXCEPT ![i] = Creating(r)]
  /\ UNCHANGED <<page, poll, pins, server, tab, composer, options>>

Created(i, ok) ==
  /\ pending[i].kind = "create"
  /\ listed' = IF ok THEN listed \cup {pending[i].room} ELSE listed
  /\ pending' = [pending EXCEPT ![i] = IF ok THEN Rooms(@.cont) ELSE Idle]
  /\ UNCHANGED <<page, poll, pins, posted, aired, tab, composer, options>>

-----------------------------------------------------------------------------
(* What the user does.                                                      *)

\* A row of the sidebar or an option of the picker.
PickRoom(r, i) ==
  /\ view = "rooms" /\ pending[i] = Idle
  /\ r \in options \ {room}
  /\ OpenRoom(r, r, i, "start")
  /\ UNCHANGED <<server, tab, locked, options>>

\* A tab of the rail: the first time, and until a load has gone through, the
\* loader runs; after that the poll is picked up.
ShowRooms(i) ==
  /\ view = "other" /\ view' = "rooms"
  /\ IF ~loaded
       THEN /\ pending[i] = Idle
            /\ pending' = [pending EXCEPT ![i] = Rooms("load")]
            /\ UNCHANGED poll
       ELSE /\ IF room # NoRoom THEN StartPoll(room) ELSE UNCHANGED poll
            /\ UNCHANGED pending
  /\ UNCHANGED <<page, pins, server, hidden, loaded, composer, options>>

ShowOther ==
  /\ view = "rooms" /\ view' = "other"
  /\ StopPoll
  /\ UNCHANGED <<page, pins, server, hidden, loaded, composer, options, pending>>

\* The visibilitychange handler.
Hide ==
  /\ ~hidden /\ hidden' = TRUE
  /\ StopPoll
  /\ UNCHANGED <<page, pins, server, view, loaded, composer, options, pending>>

Unhide ==
  /\ hidden /\ hidden' = FALSE
  /\ IF view = "rooms" /\ room # NoRoom
       THEN handle' = "armed" /\ timerRoom' = room
       ELSE UNCHANGED poll
  /\ UNCHANGED <<page, pins, server, view, loaded, composer, options, pending>>

\* From a submit until the poll that follows its answer.
chatSending == \E i \in Ids : pending[i] # Idle /\ pending[i].cont = "sent"

\* The composer's submit, and its answer: a poll of the room it went to.
Send(i) ==
  /\ view = "rooms" /\ room # NoRoom /\ ~locked /\ ~chatSending
  /\ pending[i] = Idle
  /\ pending' = [pending EXCEPT ![i] = Sending(room)]
  /\ UNCHANGED <<page, poll, pins, server, tab, composer, options>>

Sent(m, i) ==
  /\ pending[i].kind = "send"
  /\ m \notin posted /\ RoomOf[m] = pending[i].room
  /\ posted' = posted \cup {m}
  /\ pending' = [pending EXCEPT ![i] = Poll(@.room, lastTs, "sent")]
  /\ UNCHANGED <<page, poll, pins, listed, aired, tab, composer, options>>

SendFailed(i) ==
  /\ pending[i].kind = "send"
  /\ pending' = [pending EXCEPT ![i] = Idle]
  /\ UNCHANGED <<page, poll, pins, server, tab, composer, options>>

\* Pin on a message of the log: when the server has it, the selected room is
\* polled once more.
Pin(i) ==
  /\ log # <<>> /\ room # NoRoom /\ pending[i] = Idle
  /\ pending' = [pending EXCEPT ![i] = Poll(room, lastTs, "none")]
  /\ UNCHANGED <<page, poll, pins, server, tab, composer, options>>

\* The pins panel: opening it asks for the pins of the selected room.
TogglePins ==
  /\ view = "rooms" /\ room # NoRoom
  /\ panel' = ~panel
  /\ IF panel THEN UNCHANGED <<pinned, jumps, pinsAsked>>
              ELSE /\ pinned' = NoRoom /\ jumps' = {}
                   /\ pinsAsked' = pinsAsked \cup {room}
  /\ UNCHANGED <<page, poll, server, tab, composer, options,
                 pending>>

\* loadChatPins: only when a pin is not on screen are the messages fetched,
\* and only then can its row lead anywhere.
Pinned(r) ==
  /\ r \in pinsAsked
  /\ pinsAsked' = pinsAsked \ {r}
  /\ pinned' = r
  /\ LET ids == {m \in Pins \cap posted : RoomOf[m] = r}
     IN  IF ids \subseteq Range(log)
           THEN jumps' = {}
           ELSE \E S \in Answer(r, 0) : jumps' = ids \cap S
  /\ UNCHANGED <<page, poll, panel, server, tab, composer, options, pending>>

\* revealChatMessage: a message that is not on screen goes to the end.
Reveal(m) ==
  /\ panel /\ m \in jumps
  /\ panel' = FALSE
  /\ IF m \in Range(log)
       THEN UNCHANGED page
       ELSE /\ log' = Append(log, m)
            /\ Remember(<<m>>)
            /\ lastTs' = Max({lastTs, Ts[m]})
  /\ UNCHANGED <<poll, pinned, jumps, pinsAsked, server, tab, composer,
                 options, pending>>

-----------------------------------------------------------------------------
\* Answers, events and timers, in any order.
Happens ==
  \/ \E m \in Messages : Post(m) \/ Live(m) \/ Lost(m)
  \/ \E r \in RoomNames : Pinned(r)
  \/ \E i \in Ids :
       \/ Fires(i) \/ RoomsListed(i) \/ RoomsFailed(i) \/ Joined(i)
       \/ SendFailed(i) \/ \E m \in Messages : Sent(m, i)
       \/ \E ok \in BOOLEAN : Polled(i, ok) \/ Created(i, ok)

Acts ==
  \/ ShowOther \/ Hide \/ TogglePins
  \/ \E m \in Messages : Reveal(m)
  \/ \E i \in Ids :
       \/ Refresh(i) \/ Send(i) \/ Pin(i)
       \/ \E r \in RoomNames : PickRoom(r, i) \/ Create(r, i)

Returns == Unhide \/ \E i \in Ids : ShowRooms(i)

Next ==
  \/ (Happens \/ Returns) /\ UNCHANGED acts
  \/ acts < MaxActs /\ acts' = acts + 1 /\ Acts

Spec == Init /\ [][Next]_vars

-----------------------------------------------------------------------------
TypeOK ==
  /\ view \in {"rooms", "other"} /\ hidden \in BOOLEAN /\ loaded \in BOOLEAN
  /\ room \in RoomNames \cup {NoRoom}
  /\ locked \in BOOLEAN /\ mixed \in BOOLEAN
  /\ log \in Seq(Messages) /\ seenOrder \in Seq(Messages)
  /\ seen \subseteq Messages
  /\ lastTs \in Nat /\ acts \in 0..MaxActs
  /\ handle \in {"null", "armed", "fired"}
  /\ timerRoom \in RoomNames \cup {NoRoom}
  /\ listed \subseteq RoomNames /\ options \subseteq RoomNames
  /\ panel \in BOOLEAN /\ pinned \in RoomNames \cup {NoRoom}
  /\ jumps \subseteq Messages /\ pinsAsked \subseteq RoomNames
  /\ pending \in [Ids -> Request \cup {Idle}]
  /\ posted \subseteq Messages /\ aired \subseteq posted

\* A message is drawn again only after at least SeenCap others: the id check
\* of ingestChatMessages against answers that overlap, live events and the
\* messages a pin puts back (app.js:3298-3301).  A pin that puts back a
\* message whose row a failed Refresh removed registers its id twice, which
\* lasts until the room is opened again.
NoEarlyRepeat ==
  ~locked => \A i, j \in 1..Len(log) : i < j /\ log[i] = log[j] => j - i > SeenCap

\* When no answer for another room was due as the selected room was opened,
\* everything on screen and the poll are of the room the composer sends to
\* (app.js:3150-3162).
OfTheRoom ==
  ~mixed /\ room # NoRoom =>
    /\ \A m \in Range(log) : RoomOf[m] = room
    /\ handle # "null" => timerRoom = room
    /\ panel /\ pinned # NoRoom => pinned = room

\* A room on screen is polled or about to be, whatever failed or raced: the
\* poll backs off rather than giving up (app.js:3283-3286).
NeverLeftUnpolled ==
  /\ view = "rooms" /\ ~hidden /\ room # NoRoom
  /\ \A i \in Ids : pending[i].kind \notin {"rooms", "join", "poll"}
  => handle = "armed"

-----------------------------------------------------------------------------
\* A small instance for TLC, its messages numbers: all of them in one room
\* listed from the start, each written in a second of its own.
InOneRoom == LET r == CHOOSE r \in Initial : TRUE IN [m \in Messages |-> r]
ByNumber == [m \in Messages |-> m]
IdSymmetry == Permutations(Ids)

=============================================================================
