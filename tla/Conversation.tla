---------------------------- MODULE Conversation ----------------------------
(***************************************************************************)
(* The Chat view of the web UI (ui/app/app.js): which conversation the     *)
(* composer continues, what the transcript shows, the draft and the model  *)
(* that belong to each conversation, and the one run that may be in        *)
(* flight.  Answers of the server come in any order; a handler runs to its *)
(* end before the next one starts.                                         *)
(***************************************************************************)
EXTENDS Integers, Sequences, FiniteSets, SequencesExt

CONSTANTS
  Sessions,    \* conversation ids, those of new ones included
  History,     \* the turns the server has of each at the start, 0 for new ids
  Texts,       \* tasks that may be typed
  Models,      \* the callable provider and model pairs
  ConfigModel, \* the pair the configuration makes the default
  Slots,       \* bound: requests and replays under way at a time
  MaxDrafts,   \* max_drafts
  Stored,      \* the draft store when the page is loaded, Blank where it has none
  StoredOlder, \* the order its drafts were touched in
  MaxActs      \* bound: what the user does

\* No text, no model.
Blank == "blank"

ASSUME ConversationAssumption ==
  /\ History \in [Sessions -> Nat]
  /\ Blank \notin Texts \cup Models
  /\ ConfigModel \in Models
  /\ MaxDrafts \in Nat \ {0} /\ MaxActs \in Nat
  /\ Stored \in [Sessions -> Texts \cup {Blank}]
  /\ LET kept == {s \in Sessions : Stored[s] # Blank}
     IN  /\ IsFiniteSet(kept) /\ Cardinality(kept) <= MaxDrafts
         /\ StoredOlder \subseteq kept \X kept
         /\ \A a, b \in kept : a # b => (<<a, b>> \in StoredOlder <=> <<b, a>> \notin StoredOlder)
         /\ \A a, b, c \in kept : <<a, b>> \in StoredOlder /\ <<b, c>> \in StoredOlder => <<a, c>> \in StoredOlder
         /\ \A a \in kept : <<a, a>> \notin StoredOlder

VARIABLES
  sessionId,   \* the conversation the composer continues
  task,        \* el.task.value, Blank when empty
  timer,       \* draftTimer is set
  drafts,      \* the draft store: the text kept for each conversation, or Blank
  older,       \* <<a, b>>: the draft of a was touched before that of b
  transcript,  \* the turn cards on screen
  run,         \* the run in flight: `busy` and the closure of the submit
  pins,        \* chatPrefs: the model each conversation is pinned to
  default,     \* localStorage "clanker.model"
  options,     \* the options of the model select
  model,       \* its value
  pending,     \* requests in flight and replays between two chunks
  turns,       \* the server's transcripts: the number of turns of each
  origin,      \* the conversation each one's turns were copied from
  used,        \* ids given out so far
  acts,        \* bound: what the user did so far
  words,       \* history: typed and neither erased, run nor given up
  hasty,       \* history: a draft was written over before it was restored
  crossed      \* history: an answer for what was open before was let in

store == <<drafts, older>>
composer == <<task, timer, store, words, hasty>>
select == <<pins, default, options, model>>
server == <<turns, origin, used>>
screen == <<transcript, crossed>>
vars == <<sessionId, composer, screen, run, select, pending, server, acts>>

\* A turn card: whose turn it shows and whether it held.
Turns == [of : Sessions, state : {"live", "held", "struck"}]
Card(s, state) == [of |-> origin[s], state |-> state]

\* done: the stream said so; failed: it carried a line drawn as a failure.
Runs == [session : Sessions, text : Texts, done : BOOLEAN, failed : BOOLEAN]
NoRun == [session |-> "none"]
busy == run # NoRun

\* late: the conversation or the run changed since the request was made.
Kinds == {"history", "reload", "replay", "redraw", "copy", "delete",
          "compact", "import"}
Request == [kind : Kinds, of : Sessions, left : Nat, late : BOOLEAN]
Idle == [kind |-> "idle"]
Asks(i, kind, s) ==
  pending' = [pending EXCEPT ![i] = [kind |-> kind, of |-> s, left |-> 0,
                                     late |-> FALSE]]

\* Everything under way was asked for what was open before.
Outdated(p) == [i \in Slots |-> IF p[i] = Idle THEN Idle
                                ELSE [p[i] EXCEPT !.late = TRUE]]

-----------------------------------------------------------------------------
(* Drafts.                                                                  *)

\* draftFor, and the conversations that have one.
DraftOf(s) == drafts[s]
Drafted(d) == {s \in Sessions : d[s] # Blank}

\* setDraft: an empty text removes the entry, and the oldest makes room.
SetDraft(s, text) ==
  LET set == [drafts EXCEPT ![s] = text]
      others == Drafted(set) \ {s}
      oldest == {a \in others : \A b \in others \ {a} : <<a, b>> \in older}
      full == text # Blank /\ Cardinality(Drafted(set)) > MaxDrafts
  IN  [a \in Sessions |-> IF full /\ a \in oldest THEN Blank ELSE set[a]]

\* The store after it: the conversation is the last one touched.
Sets(s, text) ==
  /\ drafts' = SetDraft(s, text)
  /\ LET others == Drafted(drafts') \ {s}
     IN  older' = (older \cap (others \X others)) \cup (others \X (Drafted(drafts') \cap {s}))

\* The draft of s is on its way back to the composer.
Restoring(s) ==
  /\ DraftOf(s) # Blank
  /\ \E i \in Slots : /\ pending[i] # Idle /\ ~pending[i].late
                      /\ pending[i].kind \in {"history", "replay"}

\* What the store drops to stay within its bound.
Evicted(s, text) ==
  {drafts[a] : a \in Drafted(drafts)}
    \ ({DraftOf(s), text} \cup {SetDraft(s, text)[a] : a \in Sessions})

\* flushDraft.
Flush ==
  /\ Sets(sessionId, task)
  /\ timer' = FALSE
  /\ hasty' = (hasty \/ (Restoring(sessionId) /\ task # DraftOf(sessionId)))
  /\ words' = words \ (Evicted(sessionId, task) \ {task})

\* rememberDraft's timeout.
TimerFires ==
  /\ timer
  /\ Flush
  /\ UNCHANGED <<sessionId, task, screen, run, select, pending, server>>

\* restoreDraft: only ever fills an empty composer.
Restore ==
  /\ task' = IF task = Blank THEN DraftOf(sessionId) ELSE task
  /\ UNCHANGED <<timer, store, words, hasty>>

\* The text of the composer is another one; the one it held is given up.
Rewritten(text) ==
  /\ task' = text
  /\ words' = words \ {task}
  /\ hasty' = (hasty \/ Restoring(sessionId))

\* The composer's input event.  Locked while a run is in flight.
Type(text) ==
  /\ ~busy /\ task # text /\ text \notin words
  /\ task' = text
  /\ words' = (words \ {task}) \cup ({text} \ {Blank})
  /\ hasty' = (hasty \/ Restoring(sessionId))
  /\ timer' = TRUE
  /\ UNCHANGED <<sessionId, store, screen, run, select, pending, server>>

-----------------------------------------------------------------------------
(* The model of each conversation.                                          *)

Effective(p, s) == IF p[s] # Blank THEN p[s] ELSE default

\* setPref: an empty model unpins.
SetPref(s, m) == pins' = [pins EXCEPT ![s] = m]

\* applyChatPrefs: a value the select does not offer leaves it as it is.
Apply(p, s) ==
  model' = IF Effective(p, s) \in options THEN Effective(p, s) ELSE model

\* A choice in the picker or the select, the current one too: pinned, and the
\* next default.
PickModel(m) ==
  /\ m \in options
  /\ model' = m /\ default' = m
  /\ SetPref(sessionId, m)
  /\ UNCHANGED <<sessionId, composer, screen, run, options, pending, server>>

\* Another tab of the browser writes the default.
OtherTab(m) ==
  /\ default # m /\ default' = m
  /\ UNCHANGED <<sessionId, composer, screen, run, pins, options, model,
                 pending, server>>

\* Mutant: the new options select the configured model.
BugModelsListed(list) ==
  /\ options # list /\ options' = list
  /\ model' \in IF ConfigModel \in list THEN {ConfigModel} ELSE list
  /\ UNCHANGED <<sessionId, composer, screen, run, pins, default, pending,
                 server>>

\* loadProviders: the options are built anew, then the pin is looked up.
ModelsListed(list) ==
  /\ options # list /\ options' = list
  /\ model' \in IF Effective(pins, sessionId) \in list
                  THEN {Effective(pins, sessionId)}
                ELSE IF ConfigModel \in list THEN {ConfigModel} ELSE list
  /\ UNCHANGED <<sessionId, composer, screen, run, pins, default, pending,
                 server>>

ModelsFailed ==
  /\ options' = {Blank} /\ model' = Blank
  /\ UNCHANGED <<sessionId, composer, screen, run, pins, default, pending,
                 server>>

-----------------------------------------------------------------------------
(* Opening a conversation.                                                  *)

\* The rows of the rail: whatever the server has a turn of.
Listed == {s \in Sessions : turns[s] > 0}

\* Mutant: the draft is left to its timer.
BugSwitchUnsaved(s, i) ==
  /\ s \in Listed \ {sessionId} /\ ~busy /\ pending[i] = Idle
  /\ sessionId' = s /\ task' = Blank
  /\ Apply(pins, s)
  /\ transcript' = <<>> /\ crossed' = FALSE
  /\ pending' = [Outdated(pending) EXCEPT
                   ![i] = [kind |-> "history", of |-> s, left |-> 0,
                           late |-> FALSE]]
  /\ UNCHANGED <<timer, store, words, hasty, run, pins, default, options,
                 server>>

\* Mutant: a run in flight does not keep the conversation.
BugSwitchBusy(s, i) ==
  /\ s \in Listed \ {sessionId} /\ pending[i] = Idle
  /\ Flush
  /\ sessionId' = s /\ task' = Blank
  /\ Apply(pins, s)
  /\ transcript' = <<>> /\ crossed' = FALSE
  /\ pending' = [Outdated(pending) EXCEPT
                   ![i] = [kind |-> "history", of |-> s, left |-> 0,
                           late |-> FALSE]]
  /\ UNCHANGED <<run, pins, default, options, server>>

\* switchSession: refused during a run.
Switch(s, i) ==
  /\ s \in Listed \ {sessionId} /\ ~busy /\ pending[i] = Idle
  /\ Flush
  /\ sessionId' = s /\ task' = Blank
  /\ Apply(pins, s)
  /\ transcript' = <<>> /\ crossed' = FALSE
  /\ pending' = [Outdated(pending) EXCEPT
                   ![i] = [kind |-> "history", of |-> s, left |-> 0,
                           late |-> FALSE]]
  /\ UNCHANGED <<run, pins, default, options, server>>

\* The New chat button, which a run disables.
NewChat(new) ==
  /\ ~busy /\ new \notin used
  /\ Flush
  /\ sessionId' = new /\ task' = Blank
  /\ Apply(pins, new)
  /\ transcript' = <<>> /\ crossed' = FALSE
  /\ used' = used \cup {new}
  /\ pending' = Outdated(pending)
  /\ UNCHANGED <<run, pins, default, options, turns, origin>>

\* setCurrentWorkspace: the open conversation belongs elsewhere, so one of
\* the chosen workspace is opened, or a new one started.
PickWorkspace(s, i) == IF s \in used THEN Switch(s, i) ELSE NewChat(s)

\* One chunk of renderSessionHistory: n cards more, then a timeout or the
\* continuation of the load (only switchSession's puts the draft back).
Chunk(i, shown, p, n) ==
  /\ transcript' = shown \o [k \in 1..n |-> Card(p.of, "held")]
  /\ crossed' = (crossed \/ p.late)
  /\ IF n < p.left
       THEN /\ pending' = [pending EXCEPT ![i] = [p EXCEPT !.left = @ - n]]
            /\ UNCHANGED composer
       ELSE /\ pending' = [pending EXCEPT ![i] = Idle]
            /\ IF p.kind = "replay" THEN Restore ELSE UNCHANGED composer

\* The history arrives: the transcript is emptied and the replay starts.
HistoryLands(i) ==
  LET p == [pending[i] EXCEPT
              !.kind = IF @ = "history" THEN "replay" ELSE "redraw",
              !.left = turns[pending[i].of]]
  IN  /\ pending[i].kind \in {"history", "reload"}
      /\ \E n \in 0..p.left : /\ n = 0 => p.left = 0
                              /\ Chunk(i, <<>>, p, n)
      /\ UNCHANGED <<sessionId, run, select, server>>

\* A timeout of the replay: its cards go after whatever is on screen.
ReplayGoesOn(i) ==
  /\ pending[i].kind \in {"replay", "redraw"}
  /\ \E n \in 1..pending[i].left : Chunk(i, transcript, pending[i], n)
  /\ UNCHANGED <<sessionId, run, select, server>>

\* A notice instead of the transcript; the draft comes back all the same.
HistoryFails(i) ==
  /\ pending[i].kind \in {"history", "reload"}
  /\ IF pending[i].kind = "history" THEN Restore ELSE UNCHANGED composer
  /\ pending' = [pending EXCEPT ![i] = Idle]
  /\ UNCHANGED <<sessionId, screen, run, select, server>>

-----------------------------------------------------------------------------
(* What can be done to the open conversation.                               *)

\* Fork and Branch, which a run does not disable.
Copy(i) ==
  /\ sessionId \in Listed /\ pending[i] = Idle
  /\ \A j \in Slots : pending[j].kind # "copy"
  /\ Asks(i, "copy", sessionId)
  /\ UNCHANGED <<sessionId, composer, screen, run, select, server>>

\* Adopting an id the server gave: the pin of whatever is open now goes with
\* it, the transcript and the composer stay.
Adopt(new, i) ==
  /\ new \notin used /\ used' = used \cup {new}
  /\ pins' = [pins EXCEPT ![new] = pins[sessionId]]
  /\ sessionId' = new
  /\ pending' = Outdated([pending EXCEPT ![i] = Idle])
  /\ UNCHANGED <<composer, transcript, run, default, options, model>>

Copied(new, i) ==
  /\ pending[i].kind = "copy"
  /\ Adopt(new, i)
  /\ turns' = [turns EXCEPT ![new] = turns[pending[i].of]]
  /\ origin' = [origin EXCEPT ![new] = origin[pending[i].of]]
  /\ crossed' = (crossed \/ pending[i].late \/ busy)

\* Import: a conversation from a file.
Import(i) ==
  /\ pending[i] = Idle
  /\ Asks(i, "import", sessionId)
  /\ UNCHANGED <<sessionId, composer, screen, run, select, server>>

Imported(new, i) ==
  /\ pending[i].kind = "import"
  /\ Adopt(new, i)
  /\ turns' = [turns EXCEPT ![new] = 1]
  /\ crossed' = TRUE
  /\ UNCHANGED origin

Delete(i) ==
  /\ sessionId \in Listed /\ pending[i] = Idle
  /\ \A j \in Slots : pending[j].kind # "delete"
  /\ Asks(i, "delete", sessionId)
  /\ UNCHANGED <<sessionId, composer, screen, run, select, server>>

\* The answer: draft and pin of what is open now are dropped.
Deleted(new, i) ==
  /\ pending[i].kind = "delete"
  /\ new \notin used /\ used' = used \cup {new}
  /\ turns' = [turns EXCEPT ![pending[i].of] = 0]
  /\ Sets(sessionId, Blank)
  /\ words' = words \ ({DraftOf(sessionId)} \ {task})
  /\ hasty' = (hasty \/ pending[i].late)
  /\ SetPref(sessionId, Blank)
  /\ sessionId' = new
  /\ Apply(pins', new)
  /\ transcript' = <<>>
  /\ crossed' = (pending[i].late \/ busy)
  /\ pending' = Outdated([pending EXCEPT ![i] = Idle])
  /\ UNCHANGED <<task, timer, run, default, options, origin>>

\* Compact, refused during a run, and its answer.
Compact(i) ==
  /\ sessionId \in Listed /\ ~busy /\ pending[i] = Idle
  /\ \A j \in Slots : pending[j].kind # "compact"
  /\ Asks(i, "compact", sessionId)
  /\ UNCHANGED <<sessionId, composer, screen, run, select, server>>

Compacted(i) ==
  /\ pending[i].kind = "compact"
  /\ \E n \in 1..turns[pending[i].of] :
       turns' = [turns EXCEPT ![pending[i].of] = n]
  /\ transcript' = <<>>
  /\ crossed' = (crossed \/ pending[i].late)
  /\ pending' = [pending EXCEPT ![i] = [@ EXCEPT !.kind = "reload",
                                                 !.of = sessionId]]
  /\ UNCHANGED <<sessionId, composer, run, select, origin, used>>

Refused(i) ==
  /\ pending[i].kind \in {"copy", "import", "delete", "compact"}
  /\ pending' = [pending EXCEPT ![i] = Idle]
  /\ UNCHANGED <<sessionId, composer, screen, run, select, server>>

-----------------------------------------------------------------------------
(* The run.                                                                 *)

\* chatPrefsPinFirstTurn: only a conversation without an entry is pinned.  An
\* entry may pin the effort alone, which is not kept here: either may be.
PinFirstTurn ==
  \/ pins[sessionId] = Blank /\ SetPref(sessionId, model)
  \/ UNCHANGED pins

\* The form's submit: a card, the lock, the pin of a first turn.
Starts(text) ==
  /\ ~busy
  /\ transcript' = Append(transcript, Card(sessionId, "live"))
  /\ run' = [session |-> sessionId, text |-> text, done |-> FALSE,
             failed |-> FALSE]
  /\ PinFirstTurn
  /\ pending' = Outdated(pending)
  /\ UNCHANGED <<sessionId, crossed, default, options, model, server>>

Submit ==
  /\ task # Blank /\ Starts(task)
  /\ hasty' = (hasty \/ Restoring(sessionId))
  /\ UNCHANGED <<task, timer, store, words>>

\* Run again and its like on an earlier turn: over what was typed.
RunAgain(text) ==
  /\ transcript # <<>> /\ Starts(text)
  /\ Rewritten(text)
  /\ UNCHANGED <<timer, store>>

\* Edit & resend, which a run does not disable.
Edit(text) ==
  /\ transcript # <<>> /\ task # text /\ text \notin words
  /\ Rewritten(text)
  /\ UNCHANGED <<sessionId, timer, store, screen, run, select, pending,
                 server>>

\* A status or error event: drawn as a failure.
Told ==
  /\ busy /\ ~run.done /\ run' = [run EXCEPT !.failed = TRUE]
  /\ UNCHANGED <<sessionId, composer, screen, select, pending, server>>

\* The done event: renderStats strikes the turn or says that it held.
LiveTurns == {k \in DOMAIN transcript : transcript[k].state = "live"}
Settle(state) ==
  transcript' = [k \in DOMAIN transcript |->
                   IF k \in LiveTurns THEN [transcript[k] EXCEPT !.state = state]
                                      ELSE transcript[k]]
Done ==
  /\ busy /\ ~run.done
  /\ run' = [run EXCEPT !.done = TRUE]
  /\ turns' = [turns EXCEPT ![run.session] = @ + 1]
  /\ Settle(IF run.failed THEN "struck" ELSE "held")
  /\ UNCHANGED <<sessionId, composer, crossed, select, pending, origin, used>>

\* The stream ends after the done event: the composer is emptied.
Completes ==
  /\ busy /\ run.done
  /\ run' = NoRun
  /\ task' = Blank /\ Sets(sessionId, Blank)
  /\ words' = words \ {run.text}
  /\ hasty' = (hasty \/ Restoring(sessionId))
  /\ UNCHANGED <<sessionId, timer, screen, select, pending, server>>

\* It breaks, is stopped, or ends without one: the task stays.
Breaks ==
  /\ busy
  /\ run' = NoRun
  /\ IF run.done THEN UNCHANGED transcript ELSE Settle("struck")
  /\ UNCHANGED <<sessionId, composer, crossed, select, pending, server>>

\* The page is left and loaded again: beforeunload writes the draft down, and
\* the page starts a new conversation.
Reload(new) ==
  /\ new \notin used /\ used' = used \cup {new}
  /\ Flush
  /\ sessionId' = new /\ task' = Blank
  /\ run' = NoRun
  /\ transcript' = <<>> /\ crossed' = FALSE
  /\ pending' = [i \in Slots |-> Idle]
  /\ options' = {} /\ model' = Blank
  /\ UNCHANGED <<pins, default, turns, origin>>

-----------------------------------------------------------------------------
Init ==
  /\ sessionId \in {s \in Sessions : History[s] = 0 /\ Stored[s] = Blank}
  /\ task = Blank /\ timer = FALSE /\ drafts = Stored /\ older = StoredOlder
  /\ transcript = <<>> /\ run = NoRun
  /\ pins = [s \in Sessions |-> Blank] /\ default = Blank
  /\ options = {} /\ model = Blank
  /\ pending = [i \in Slots |-> Idle]
  /\ turns = History /\ origin = [s \in Sessions |-> s]
  /\ used = {sessionId} \cup Listed \cup Drafted(Stored)
  /\ acts = 0 /\ words = {Stored[s] : s \in Drafted(Stored)}
  /\ hasty = FALSE /\ crossed = FALSE

\* Answers, events and timers, in any order.
Happens ==
  \/ TimerFires \/ Told \/ Done \/ Completes \/ Breaks \/ ModelsFailed
  \/ \E list \in (SUBSET Models) \ {{}} : ModelsListed(list)
  \/ \E i \in Slots :
       \/ HistoryLands(i) \/ ReplayGoesOn(i) \/ HistoryFails(i)
       \/ Compacted(i) \/ Refused(i)
       \/ \E s \in Sessions : Copied(s, i) \/ Imported(s, i) \/ Deleted(s, i)

Acts ==
  \/ Submit
  \/ \E text \in Texts : Type(text) \/ RunAgain(text) \/ Edit(text)
  \/ Type(Blank)
  \/ \E m \in Models : PickModel(m) \/ OtherTab(m)
  \/ \E s \in Sessions : NewChat(s) \/ Reload(s)
  \/ \E i \in Slots :
       \/ Copy(i) \/ Import(i) \/ Delete(i) \/ Compact(i)
       \/ \E s \in Sessions : PickWorkspace(s, i)

Next ==
  \/ Happens /\ UNCHANGED acts
  \/ acts < MaxActs /\ acts' = acts + 1 /\ Acts

Spec == Init /\ [][Next]_vars

-----------------------------------------------------------------------------
TypeOK ==
  /\ sessionId \in used /\ used \subseteq Sessions
  /\ task \in Texts \cup {Blank} /\ timer \in BOOLEAN
  /\ drafts \in [Sessions -> Texts \cup {Blank}] /\ Cardinality(Drafted(drafts)) <= MaxDrafts
  /\ older \subseteq Drafted(drafts) \X Drafted(drafts)
  /\ transcript \in Seq(Turns)
  /\ run \in Runs \cup {NoRun}
  /\ pins \in [Sessions -> Models \cup {Blank}] /\ default \in Models \cup {Blank}
  /\ options \subseteq (Models \cup {Blank}) /\ model \in Models \cup {Blank}
  /\ pending \in [Slots -> Request \cup {Idle}]
  /\ turns \in [Sessions -> Nat] /\ origin \in [Sessions -> Sessions]
  /\ words \subseteq Texts /\ hasty \in BOOLEAN /\ crossed \in BOOLEAN
  /\ acts \in 0..MaxActs

\* What was typed is in the composer or in the store until it is erased, run
\* to its end or pushed out by newer drafts, whatever is opened, copied,
\* reloaded or failed meanwhile (app.js:289-293).  Excepted: a conversation
\* written to or left before its draft was back, and a deletion answered after
\* another conversation was opened.
WordsKept ==
  ~hasty => \A w \in words : \/ task = w
                             \/ \E s \in Sessions : DraftOf(s) = w

\* The transcript is the open conversation's, and a run in flight has its card
\* there, unless an answer for what was open before was let in or a file was
\* imported (app.js:1110-1116).
ScreenAgrees ==
  ~crossed => /\ \A k \in DOMAIN transcript :
                    transcript[k].of = origin[sessionId]
              /\ busy => /\ run.session = sessionId
                         /\ ~run.done => LiveTurns = {Len(transcript)}
              /\ ~busy => LiveTurns = {}

\* A conversation with a pin the server can serve shows and sends that model,
\* whatever was chosen elsewhere and in whatever order the list, the switch
\* and the copy were answered (chatprefs.js:4-17).
PinHonoured == pins[sessionId] \in options \ {Blank} => model = pins[sessionId]

=============================================================================
