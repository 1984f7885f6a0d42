------------------------------ MODULE LiveRun -------------------------------
(***************************************************************************)
(* A run in flight, from the two ends of its stream: the page that shows   *)
(* it, steers it and answers its questions (ui/app/app.js, core/steer.js), *)
(* and the server thread that works it (cli.zig).  The stream is in order; *)
(* the requests beside it are not, and their answers may be lost.          *)
(***************************************************************************)
EXTENDS Integers, Sequences, FiniteSets, SequencesExt

CONSTANTS
  MaxRuns,    \* bound: runs started one after the other
  Messages,   \* what the user may type while one is working
  SteerCap,   \* steer_message_cap
  Asked,      \* the questions the runs may ask
  Options,    \* what may be answered
  Nobody

ASSUME LiveRunAssumption ==
  /\ MaxRuns \in Nat \ {0} /\ SteerCap \in Nat \ {0}
  /\ Nobody \notin Options /\ IsFiniteSet(Messages)

RunIds == 1..MaxRuns

VARIABLES
  current,    \* the run the page follows, 0 when none
  phase,      \* what the server thread of each run is at
  queue,      \* SteerSlot.queue
  applied,    \* history: the messages that joined the run
  stream,     \* the events on their way to the page
  ledger,     \* steerLedger, the messages in the order they were sent
  shown,      \* what the page last said of each message
  posts,      \* the POST /api/steer of each: out, answered, or over
  sentFor,    \* the run a message was typed for
  strayed,    \* history: a message was lost, met a run it was not typed for, or
              \* overtook another or the refusal of one
  slot,       \* PendingAsk of each question, its run and its answer
  card,       \* the card of each question
  picked,     \* the option clicked on it
  reply       \* the POST /api/ask of each

thread == <<phase, queue, applied>>
steering == <<ledger, shown, posts, sentFor, strayed>>
asking == <<slot, card, picked, reply>>
liveVars == <<current, stream, thread, steering, asking>>

Free == [run |-> 0, answer |-> Nobody, state |-> "unasked"]
InFlight == {r \in RunIds : phase[r] \in {"working", "asking"}}

LiveInit ==
  /\ current = 0 /\ stream = <<>> /\ ledger = <<>> /\ strayed = FALSE
  /\ phase = [r \in RunIds |-> "new"]
  /\ queue = [r \in RunIds |-> <<>>] /\ applied = [r \in RunIds |-> {}]
  /\ shown = [m \in Messages |-> "unsent"]
  /\ posts = [m \in Messages |-> "none"]
  /\ sentFor = [m \in Messages |-> 0]
  /\ slot = [q \in Asked |-> Free]
  /\ card = [q \in Asked |-> "none"] /\ picked = [q \in Asked |-> Nobody]
  /\ reply = [q \in Asked |-> "none"]

\* A thread writes to the stream, if the page still follows it.
Emits(r, event) == stream' = IF current = r THEN Append(stream, event)
                                            ELSE stream

-----------------------------------------------------------------------------
(* The run.                                                                 *)

\* The form's submit.
Begins(r) ==
  /\ current = 0 /\ phase[r] = "new"
  /\ \A s \in 1..(r - 1) : phase[s] # "new"
  /\ current' = r
  /\ phase' = [phase EXCEPT ![r] = "accepted"]
  /\ UNCHANGED <<stream, queue, applied, steering, asking>>

\* runRegister: from here on the run can be steered.
Registers(r) ==
  /\ phase[r] = "accepted"
  /\ phase' = [phase EXCEPT ![r] = "working"]
  /\ UNCHANGED <<current, stream, queue, applied, steering, asking>>

\* runRelease, and the end of the stream.
Ends(r) ==
  /\ phase[r] = "working"
  /\ phase' = [phase EXCEPT ![r] = "over"]
  /\ queue' = [queue EXCEPT ![r] = <<>>]
  /\ Emits(r, <<"end">>)
  /\ UNCHANGED <<current, applied, steering, asking>>

\* Mutant: a message whose request is still out is forgotten.
BugSteerUnapplied == {m \in Range(ledger) : shown[m] = "queued"}

\* The submit's finally: what was never applied is reported, the ledger and
\* the lock are cleared.
steerUnapplied == {m \in Range(ledger) : shown[m] \in {"sending", "queued"}}
Over ==
  /\ current' = 0 /\ stream' = <<>> /\ ledger' = <<>>
  /\ shown' = [m \in Messages |-> IF m \in steerUnapplied THEN "dropped"
                                                          ELSE shown[m]]
  /\ UNCHANGED <<thread, posts, sentFor, strayed, asking>>

\* Stop, or a connection that breaks: the thread works on.
Abort == current # 0 /\ Over

EndRead == stream # <<>> /\ Head(stream) = <<"end">> /\ Over

-----------------------------------------------------------------------------
(* Steering.                                                                *)

\* sendSteerChat.
SendSteer(m) ==
  /\ current # 0 /\ shown[m] = "unsent"
  /\ ledger' = Append(ledger, m)
  /\ shown' = [shown EXCEPT ![m] = "sending"]
  /\ posts' = [posts EXCEPT ![m] = "out"]
  /\ sentFor' = [sentFor EXCEPT ![m] = current]
  /\ UNCHANGED <<current, stream, thread, strayed, asking>>

\* steerEnqueue: every run of the conversation that has room takes it.
Takers == {r \in InFlight : Len(queue[r]) < SteerCap}
Earlier(m) == {n \in Messages : /\ posts[n] \in {"out", "refused"}
                                /\ \E i, j \in DOMAIN ledger :
                                     i < j /\ ledger[i] = n /\ ledger[j] = m}
Enqueued(m) ==
  /\ posts[m] = "out"
  /\ queue' = [r \in RunIds |-> IF r \in Takers THEN Append(queue[r], m)
                                                ELSE queue[r]]
  /\ posts' = [posts EXCEPT ![m] = IF Takers # {} THEN "ok" ELSE "refused"]
  /\ strayed' = (strayed \/ Earlier(m) # {} \/ Takers \ {sentFor[m]} # {})
  /\ UNCHANGED <<current, stream, phase, applied, ledger, shown, sentFor,
                 asking>>

\* steerPoll, between two steps of the agent loop.
Polls(r) ==
  /\ phase[r] = "working" /\ queue[r] # <<>>
  /\ queue' = [queue EXCEPT ![r] = Tail(@)]
  /\ applied' = [applied EXCEPT ![r] = @ \cup {Head(queue[r])}]
  /\ Emits(r, <<"applied">>)
  /\ UNCHANGED <<current, phase, steering, asking>>

\* steerMark on the answer: queued only if nothing was said of it since.
Marks(m, state) ==
  shown' = [shown EXCEPT ![m] = IF m \in Range(ledger) THEN state ELSE @]
SteerAnswered(m) ==
  /\ posts[m] \in {"ok", "refused"}
  /\ posts' = [posts EXCEPT ![m] = "over"]
  /\ IF posts[m] = "refused" THEN Marks(m, "failed")
     ELSE IF shown[m] = "sending" THEN Marks(m, "queued")
     ELSE UNCHANGED shown
  /\ UNCHANGED <<current, stream, thread, ledger, sentFor, strayed, asking>>

\* The request or its answer is lost.
SteerLost(m) ==
  /\ posts[m] \in {"out", "ok", "refused"}
  /\ posts' = [posts EXCEPT ![m] = "over"]
  /\ Marks(m, "failed")
  /\ strayed' = TRUE
  /\ UNCHANGED <<current, stream, thread, ledger, sentFor, asking>>

\* Mutant: the newest one is marked.
BugOldest(i) ==
  /\ ledger[i] \in steerUnapplied
  /\ \A j \in (i + 1)..Len(ledger) : ledger[j] \notin steerUnapplied

\* The oldest message of the ledger that is not yet applied.
Oldest(i) ==
  /\ ledger[i] \in steerUnapplied
  /\ \A j \in 1..(i - 1) : ledger[j] \notin steerUnapplied

\* The status event: steerApplyOldest marks the oldest one, if there is one.
AppliedRead ==
  /\ stream # <<>> /\ Head(stream) = <<"applied">>
  /\ stream' = Tail(stream)
  /\ \/ steerUnapplied = {} /\ UNCHANGED shown
     \/ \E i \in DOMAIN ledger :
          Oldest(i) /\ shown' = [shown EXCEPT ![ledger[i]] = "applied"]
  /\ UNCHANGED <<current, thread, ledger, posts, sentFor, strayed, asking>>

-----------------------------------------------------------------------------
(* Questions.                                                               *)

\* serveAsk and serveConfirm: a slot, an event, and the thread waits.
RunAsks(r, q) ==
  /\ phase[r] = "working" /\ slot[q] = Free
  /\ phase' = [phase EXCEPT ![r] = "asking"]
  /\ slot' = [slot EXCEPT ![q] = [run |-> r, answer |-> Nobody,
                                  state |-> "open"]]
  /\ Emits(r, <<"ask", q>>)
  /\ UNCHANGED <<current, queue, applied, steering, card, picked, reply>>

\* addAskEvent and addConfirmEvent.
AskRead ==
  /\ stream # <<>> /\ Head(stream)[1] = "ask"
  /\ stream' = Tail(stream)
  /\ card' = [card EXCEPT ![Head(stream)[2]] = "open"]
  /\ UNCHANGED <<current, thread, steering, slot, picked, reply>>

\* answerAsk: the buttons of the card go dead.  A card outlives its run.
Clicks(q, o) ==
  /\ card[q] = "open"
  /\ card' = [card EXCEPT ![q] = "sent"]
  /\ picked' = [picked EXCEPT ![q] = o]
  /\ reply' = [reply EXCEPT ![q] = "out"]
  /\ UNCHANGED <<current, stream, thread, steering, slot>>

\* Mutant: a question that is closed still takes an answer for granted.
BugResolvesClosed(q) ==
  /\ reply[q] = "out"
  /\ slot' = [slot EXCEPT ![q].answer = IF slot[q].state = "open"
                                          THEN picked[q] ELSE @]
  /\ reply' = [reply EXCEPT ![q] = "ok"]
  /\ UNCHANGED <<current, stream, thread, steering, card, picked>>

\* Mutant: the answer is put into a slot that was freed.
BugResolvesFreed(q) ==
  /\ reply[q] = "out"
  /\ slot' = [slot EXCEPT ![q].answer = picked[q]]
  /\ reply' = [reply EXCEPT ![q] = "ok"]
  /\ UNCHANGED <<current, stream, thread, steering, card, picked>>

\* askResolve.
Resolves(q) ==
  /\ reply[q] = "out"
  /\ IF slot[q].state = "open" /\ slot[q].answer = Nobody
       THEN /\ slot' = [slot EXCEPT ![q].answer = picked[q]]
            /\ reply' = [reply EXCEPT ![q] = "ok"]
       ELSE /\ reply' = [reply EXCEPT ![q] = "refused"]
            /\ UNCHANGED slot
  /\ UNCHANGED <<current, stream, thread, steering, card, picked>>

\* settleAsk on the answer, or when it is lost.
AskSettled(q) ==
  /\ reply[q] \in {"ok", "refused"}
  /\ \E lost \in BOOLEAN :
       card' = [card EXCEPT ![q] = IF reply[q] = "ok" /\ ~lost THEN "chosen"
                                                               ELSE "failed"]
  /\ reply' = [reply EXCEPT ![q] = "over"]
  /\ UNCHANGED <<current, stream, thread, steering, slot, picked>>

AskLost(q) ==
  /\ reply[q] = "out"
  /\ card' = [card EXCEPT ![q] = "failed"]
  /\ reply' = [reply EXCEPT ![q] = "over"]
  /\ UNCHANGED <<current, stream, thread, steering, slot, picked>>

\* askAwait returns: an answer, or the time is up.  The slot is freed.
Awaited(q) ==
  /\ slot[q].state = "open"
  /\ slot' = [slot EXCEPT ![q].state = "closed"]
  /\ phase' = [phase EXCEPT ![slot[q].run] = "working"]
  /\ UNCHANGED <<current, stream, queue, applied, steering, card, picked,
                 reply>>

-----------------------------------------------------------------------------
LiveNext ==
  \/ Abort \/ EndRead \/ AppliedRead \/ AskRead
  \/ \E r \in RunIds : \/ Begins(r) \/ Registers(r) \/ Ends(r) \/ Polls(r)
                       \/ \E q \in Asked : RunAsks(r, q)
  \/ \E m \in Messages : \/ SendSteer(m) \/ Enqueued(m)
                         \/ SteerAnswered(m) \/ SteerLost(m)
  \/ \E q \in Asked : \/ Resolves(q) \/ AskSettled(q) \/ AskLost(q)
                      \/ Awaited(q)
                      \/ \E o \in Options : Clicks(q, o)

\* A wait on a question has a budget (agent.ask_timeout_seconds).
LiveSpec ==
  /\ LiveInit /\ [][LiveNext]_liveVars
  /\ \A q \in Asked : WF_liveVars(Awaited(q))

-----------------------------------------------------------------------------
LiveTypeOK ==
  /\ current \in 0..MaxRuns
  /\ phase \in [RunIds -> {"new", "accepted", "working", "asking", "over"}]
  /\ queue \in [RunIds -> Seq(Messages)]
  /\ \A r \in RunIds : Len(queue[r]) <= SteerCap
  /\ applied \in [RunIds -> SUBSET Messages]
  /\ ledger \in Seq(Messages)
  /\ stream \in Seq({<<"end">>, <<"applied">>} \cup {<<"ask", q>> : q \in Asked})
  /\ shown \in [Messages -> {"unsent", "sending", "queued", "applied",
                             "failed", "dropped"}]
  /\ posts \in [Messages -> {"none", "out", "ok", "refused", "over"}]
  /\ sentFor \in [Messages -> 0..MaxRuns] /\ strayed \in BOOLEAN
  /\ slot \in [Asked -> [run : 0..MaxRuns, answer : Options \cup {Nobody},
                         state : {"unasked", "open", "closed"}]]
  /\ card \in [Asked -> {"none", "open", "sent", "chosen", "failed"}]
  /\ picked \in [Asked -> Options \cup {Nobody}]
  /\ reply \in [Asked -> {"none", "out", "ok", "refused", "over"}]

\* When a run is over the page has said of every message typed for it what
\* became of it: nothing is left "sending" or "queued" (steer.js:55-57).
NothingForgotten ==
  \A m \in Messages :
    shown[m] \in {"sending", "queued"} => /\ m \in Range(ledger)
                                          /\ current = sentFor[m]

\* As long as requests and refusals are not overtaken or lost and meet only
\* the run they were typed for, what is marked applied is what the run took, so
\* the transcript names the right message (steer.js:34-40); and come what may,
\* no more messages are marked than the run has taken.
EchoNamesIt ==
  /\ ~strayed => \A m \in Messages :
                   shown[m] = "applied" => m \in applied[sentFor[m]]
  /\ current # 0 =>
       Cardinality({m \in Range(ledger) : shown[m] = "applied"})
         <= Cardinality(applied[current])

\* A card that says which option was chosen belongs to a run that got that
\* answer, or is about to: a late click never looks like a choice
\* (cli.zig:11057-11060).
ChosenIsHeard ==
  \A q \in Asked : card[q] = "chosen" => slot[q].answer = picked[q]

\* Each question is settled once, by an option it offered or by the clock,
\* and in the end (cli.zig:11097-11103).
Promise == INSTANCE Questions WITH
  Ids <- Asked, Offered <- Options,
  state <- [q \in Asked |-> IF slot[q].state = "unasked" THEN "unasked"
                            ELSE IF slot[q].state = "closed" \/ slot[q].answer # Nobody
                              THEN "settled" ELSE "open"],
  answer <- [q \in Asked |-> slot[q].answer]
KeepsPromise == Promise!Spec

=============================================================================
