----------------------------- MODULE TurnProofs -----------------------------
(***************************************************************************)
(* Theorems about a turn of a conversation.  LiveRun, for any number of    *)
(* runs, messages and questions: what the page says of a message and of an *)
(* answer is what became of it.  Conversation: the page keeps to its       *)
(* types, the draft store to its bound, a pin the server can serve is      *)
(* honoured, the screen is the open conversation's, and no typed text is   *)
(* lost.                                                                   *)
(***************************************************************************)
EXTENDS LiveRun, Conversation, SequenceTheorems, FiniteSetTheorems, TLAPS

Events == {<<"end">>, <<"applied">>} \cup {<<"ask", q>> : q \in Asked}

-----------------------------------------------------------------------------
(* Sequences and events. *)

\* What an append does to the elements of a sequence.
LEMMA Appended ==
  ASSUME NEW S, NEW s \in Seq(S), NEW e \in S
  PROVE  /\ Append(s, e) \in Seq(S) /\ Len(Append(s, e)) = Len(s) + 1
         /\ \A i \in 1..Len(s) : Append(s, e)[i] = s[i]
         /\ Append(s, e)[Len(s) + 1] = e
         /\ DOMAIN Append(s, e) = 1..(Len(s) + 1)
         /\ Range(Append(s, e)) = Range(s) \cup {e}
<1>1. /\ Append(s, e) \in Seq(S) /\ Len(Append(s, e)) = Len(s) + 1
      /\ \A i \in 1..Len(s) : Append(s, e)[i] = s[i]
      /\ Append(s, e)[Len(s) + 1] = e
  BY AppendProperties
<1>2. DOMAIN Append(s, e) = 1..(Len(s) + 1) /\ DOMAIN s = 1..Len(s) /\ Len(s) \in Nat
  BY <1>1, LenProperties
<1>3. ASSUME NEW x PROVE x \in Range(Append(s, e)) <=> x \in Range(s) \cup {e}
  <2>1. x \in Range(Append(s, e)) <=> \E i \in 1..(Len(s) + 1) : Append(s, e)[i] = x
    BY <1>2 DEF Range
  <2>2. x \in Range(s) <=> \E i \in 1..Len(s) : s[i] = x
    BY <1>2 DEF Range
  <2>3. \A i : i \in 1..(Len(s) + 1) <=> i \in 1..Len(s) \/ i = Len(s) + 1
    BY <1>2
  <2> QED
    BY <1>1, <2>1, <2>2, <2>3
<1> QED
  BY <1>1, <1>2, <1>3

\* What taking the head of a sequence does to its elements.
LEMMA Beheaded ==
  ASSUME NEW S, NEW s \in Seq(S), s # <<>>
  PROVE  /\ Tail(s) \in Seq(S) /\ Len(s) \in Nat \ {0} /\ Len(Tail(s)) = Len(s) - 1
         /\ Head(s) = s[1] /\ Head(s) \in S
         /\ \A i \in 1..Len(Tail(s)) : Tail(s)[i] = s[i + 1] /\ i + 1 \in 1..Len(s)
         /\ Range(s) = Range(Tail(s)) \cup {Head(s)}
<1>1. /\ Tail(s) \in Seq(S) /\ Len(Tail(s)) = Len(s) - 1 /\ Head(s) \in S
      /\ \A i \in 1..Len(Tail(s)) : Tail(s)[i] = s[i + 1]
  BY HeadTailProperties
<1>2. Len(s) \in Nat \ {0} /\ DOMAIN s = 1..Len(s) /\ DOMAIN Tail(s) = 1..Len(Tail(s))
  BY <1>1, LenProperties, EmptySeq
<1>3. Head(s) = s[1]
  OBVIOUS
<1>4. \A i \in 1..Len(Tail(s)) : i + 1 \in 1..Len(s)
  BY <1>1, <1>2
<1>5. ASSUME NEW x PROVE x \in Range(s) <=> x \in Range(Tail(s)) \cup {Head(s)}
  <2>1. x \in Range(s) <=> \E i \in 1..Len(s) : s[i] = x
    BY <1>2 DEF Range
  <2>2. x \in Range(Tail(s)) <=> \E i \in 1..Len(Tail(s)) : Tail(s)[i] = x
    BY <1>2 DEF Range
  <2>3. \A i \in 1..Len(s) : i = 1 \/ (i - 1 \in 1..Len(Tail(s)) /\ Tail(s)[i - 1] = s[i])
    BY <1>1, <1>2
  <2>4. 1 \in 1..Len(s)
    BY <1>2
  <2> QED
    BY <1>1, <1>3, <1>4, <2>1, <2>2, <2>3, <2>4
<1> QED
  BY <1>1, <1>2, <1>3, <1>4, <1>5

\* Membership in the range of a sequence.
LEMMA Ranged ==
  ASSUME NEW S, NEW s \in Seq(S), NEW x
  PROVE  /\ x \in Range(s) <=> \E i \in 1..Len(s) : s[i] = x
         /\ DOMAIN s = 1..Len(s) /\ Len(s) \in Nat
         /\ \A i \in 1..Len(s) : s[i] \in S
<1>1. DOMAIN s = 1..Len(s) /\ Len(s) \in Nat /\ \A i \in 1..Len(s) : s[i] \in S
  BY LenProperties, ElementOfSeq
<1> QED
  BY <1>1 DEF Range

\* Nothing is in the empty sequence.
LEMMA Emptied == Len(<<>>) = 0 /\ Range(<<>>) = {} /\ \A S : <<>> \in Seq(S)
<1>1. \A x : x \notin Range(<<>>)
  BY DEF Range
<1> QED
  BY <1>1

\* The events of a stream can be told apart.
LEMMA EventsDiffer ==
  /\ <<"end">> # <<"applied">>
  /\ \A q : <<"ask", q>> # <<"applied">> /\ <<"ask", q>> # <<"end">>
  /\ \A q, p : <<"ask", q>> = <<"ask", p>> => q = p
  /\ \A e \in Events : e[1] = "ask" => \E q \in Asked : e = <<"ask", q>> /\ e[2] = q
<1>1. <<"end">>[1] = "end" /\ <<"applied">>[1] = "applied"
  OBVIOUS
<1>2. \A q : <<"ask", q>>[1] = "ask" /\ <<"ask", q>>[2] = q
  OBVIOUS
<1> QED
  BY <1>1, <1>2 DEF Events

-----------------------------------------------------------------------------
(* Type correctness. *)

\* An event leaves the stream a stream of events.
LEMMA EmitsTyped ==
  ASSUME LiveTypeOK, NEW r, NEW e \in Events, Emits(r, e)
  PROVE  stream' \in Seq(Events)
<1> QED
  BY Appended DEF Emits, LiveTypeOK, Events

\* The initial state is typed.
LEMMA InitTyped == LiveInit => LiveTypeOK
<1> SUFFICES ASSUME LiveInit PROVE LiveTypeOK
  OBVIOUS
<1>1. slot \in [Asked -> [run : 0..MaxRuns, answer : Options \cup {Nobody}, state : {"unasked", "open", "closed"}]]
  BY LiveRunAssumption DEF LiveInit, Free
<1>2. queue \in [RunIds -> Seq(Messages)] /\ \A r \in RunIds : Len(queue[r]) <= SteerCap
  BY LiveRunAssumption, Emptied DEF LiveInit
<1> QED
  <2>1. stream \in Seq(Events) /\ ledger \in Seq(Messages)
    BY EmptySeq DEF LiveInit
  <2>2. 0 \in 0..MaxRuns
    BY LiveRunAssumption
  <2>5. current \in 0..MaxRuns /\ sentFor \in [Messages -> 0..MaxRuns]
    BY <2>2 DEF LiveInit
  <2>6. strayed \in BOOLEAN
    BY DEF LiveInit
  <2>3. /\ phase \in [RunIds -> {"new", "accepted", "working", "asking", "over"}]
        /\ applied \in [RunIds -> SUBSET Messages]
        /\ shown \in [Messages -> {"unsent", "sending", "queued", "applied", "failed", "dropped"}]
        /\ posts \in [Messages -> {"none", "out", "ok", "refused", "over"}]
    BY DEF LiveInit
  <2>4. /\ card \in [Asked -> {"none", "open", "sent", "chosen", "failed"}]
        /\ picked \in [Asked -> Options \cup {Nobody}]
        /\ reply \in [Asked -> {"none", "out", "ok", "refused", "over"}]
    BY DEF LiveInit
  <2> QED
    BY <1>1, <1>2, <2>1, <2>3, <2>4, <2>5, <2>6 DEF LiveTypeOK, Events

\* Every step keeps the types.
LEMMA NextTyped == LiveTypeOK /\ [LiveNext]_liveVars => LiveTypeOK'
<1> SUFFICES ASSUME LiveTypeOK, [LiveNext]_liveVars PROVE LiveTypeOK'
  OBVIOUS
<1> USE LiveRunAssumption DEF liveVars, thread, steering, asking
<1> DEFINE AskSlots == [run : 0..MaxRuns, answer : Options \cup {Nobody}, state : {"unasked", "open", "closed"}]
<1>0. stream \in Seq(Events) /\ slot \in [Asked -> AskSlots]
  BY DEF LiveTypeOK, Events
<1>00. \A x \in AskSlots : /\ \A o \in Options \cup {Nobody} : [x EXCEPT !.answer = o] \in AskSlots
                           /\ [x EXCEPT !.state = "closed"] \in AskSlots
  OBVIOUS
<1>1. CASE Over
  BY <1>1 DEF Over, LiveTypeOK
<1>2. CASE AppliedRead
  <2>1. stream' \in Seq(Events)
    BY <1>0, <1>2, Beheaded DEF AppliedRead
  <2>2. ASSUME NEW i \in DOMAIN ledger PROVE ledger[i] \in Messages
    BY Ranged DEF LiveTypeOK
  <2>3. shown' \in [Messages -> {"unsent", "sending", "queued", "applied", "failed", "dropped"}]
    BY <1>2, <2>2 DEF AppliedRead, LiveTypeOK
  <2> QED
    BY <1>2, <2>1, <2>3 DEF AppliedRead, LiveTypeOK, Events
<1>3. CASE AskRead
  <2>1. stream' \in Seq(Events)
    BY <1>0, <1>3, Beheaded DEF AskRead
  <2>2. card' \in [Asked -> {"none", "open", "sent", "chosen", "failed"}]
    BY <1>3 DEF AskRead, LiveTypeOK
  <2>3. UNCHANGED <<current, phase, queue, applied, ledger, shown, posts, sentFor, strayed, slot, picked, reply>>
    BY <1>3 DEF AskRead
  <2>4. stream' \in Seq({<<"end">>, <<"applied">>} \cup {<<"ask", q>> : q \in Asked})
    BY <2>1 DEF Events
  <2>5. /\ current' \in 0..MaxRuns
        /\ phase' \in [RunIds -> {"new", "accepted", "working", "asking", "over"}]
        /\ queue' \in [RunIds -> Seq(Messages)] /\ \A r \in RunIds : Len(queue'[r]) <= SteerCap
        /\ applied' \in [RunIds -> SUBSET Messages]
        /\ ledger' \in Seq(Messages)
    BY <2>3 DEF LiveTypeOK
  <2>6. /\ shown' \in [Messages -> {"unsent", "sending", "queued", "applied", "failed", "dropped"}]
        /\ posts' \in [Messages -> {"none", "out", "ok", "refused", "over"}]
        /\ sentFor' \in [Messages -> 0..MaxRuns] /\ strayed' \in BOOLEAN
    BY <2>3 DEF LiveTypeOK
  <2>7. /\ slot' \in [Asked -> AskSlots] /\ picked' \in [Asked -> Options \cup {Nobody}]
        /\ reply' \in [Asked -> {"none", "out", "ok", "refused", "over"}]
    BY <2>3 DEF LiveTypeOK
  <2> QED
    BY <2>2, <2>4, <2>5, <2>6, <2>7, Zenon DEF LiveTypeOK
<1>4. ASSUME NEW r \in RunIds, Begins(r) PROVE LiveTypeOK'
  <2>1. r \in 0..MaxRuns /\ phase' \in [RunIds -> {"new", "accepted", "working", "asking", "over"}]
    BY <1>4 DEF Begins, LiveTypeOK, RunIds
  <2>2. current' = r /\ UNCHANGED <<stream, queue, applied, steering, asking>>
    BY <1>4 DEF Begins
  <2> QED
    BY <2>1, <2>2 DEF LiveTypeOK
<1>5. ASSUME NEW r \in RunIds, Registers(r) PROVE LiveTypeOK'
  BY <1>5 DEF Registers, LiveTypeOK
<1>6. ASSUME NEW r \in RunIds, Ends(r) PROVE LiveTypeOK'
  <2>1. stream' \in Seq(Events)
    BY <1>6, EmitsTyped DEF Ends, Events
  <2>2. queue' \in [RunIds -> Seq(Messages)] /\ \A s \in RunIds : Len(queue'[s]) <= SteerCap
    BY <1>6, Emptied DEF Ends, LiveTypeOK
  <2> QED
    BY <1>6, <2>1, <2>2 DEF Ends, LiveTypeOK, Events
<1>7. ASSUME NEW r \in RunIds, Polls(r) PROVE LiveTypeOK'
  <2>1. stream' \in Seq(Events)
    BY <1>7, EmitsTyped DEF Polls, Events
  <2>2. /\ Tail(queue[r]) \in Seq(Messages) /\ Len(Tail(queue[r])) = Len(queue[r]) - 1
        /\ Len(queue[r]) \in Nat /\ Head(queue[r]) \in Messages
    BY <1>7, Beheaded DEF Polls, LiveTypeOK
  <2>3. queue' = [queue EXCEPT ![r] = Tail(queue[r])] /\ queue \in [RunIds -> Seq(Messages)]
    BY <1>7 DEF Polls, LiveTypeOK
  <2>4. queue' \in [RunIds -> Seq(Messages)]
    BY <2>2, <2>3
  <2>5. ASSUME NEW s \in RunIds PROVE Len(queue'[s]) <= SteerCap
    <3>1. Len(queue[r]) <= SteerCap /\ Len(queue[s]) <= SteerCap
      BY DEF LiveTypeOK
    <3>2. queue'[s] = IF s = r THEN Tail(queue[r]) ELSE queue[s]
      BY <2>3
    <3> QED
      BY <2>2, <3>1, <3>2
  <2> QED
    BY <1>7, <2>1, <2>2, <2>4, <2>5 DEF Polls, LiveTypeOK, Events
<1>8. ASSUME NEW r \in RunIds, NEW q \in Asked, RunAsks(r, q) PROVE LiveTypeOK'
  <2>1. stream' \in Seq(Events)
    BY <1>8, EmitsTyped DEF RunAsks, Events
  <2>2. slot' \in [Asked -> AskSlots]
    BY <1>0, <1>8 DEF RunAsks, RunIds
  <2>3. phase' \in [RunIds -> {"new", "accepted", "working", "asking", "over"}]
    BY <1>8 DEF RunAsks, LiveTypeOK
  <2> QED
    BY <1>8, <2>1, <2>2, <2>3 DEF RunAsks, LiveTypeOK, Events
<1>9. ASSUME NEW m \in Messages, SendSteer(m) PROVE LiveTypeOK'
  <2>1. ledger' \in Seq(Messages)
    BY <1>9, Appended DEF SendSteer, LiveTypeOK
  <2> QED
    BY <1>9, <2>1 DEF SendSteer, LiveTypeOK
<1>10. ASSUME NEW m \in Messages, Enqueued(m) PROVE LiveTypeOK'
  <2>1. ASSUME NEW r \in RunIds PROVE queue'[r] \in Seq(Messages) /\ Len(queue'[r]) <= SteerCap
    <3>1. queue[r] \in Seq(Messages) /\ Len(queue[r]) <= SteerCap /\ Len(queue[r]) \in Nat
      BY Ranged DEF LiveTypeOK
    <3> QED
      BY <1>10, <3>1, Appended DEF Enqueued, Takers
  <2>2. queue' \in [RunIds -> Seq(Messages)]
    BY <1>10, <2>1 DEF Enqueued
  <2>3. strayed' \in BOOLEAN
    BY <1>10 DEF Enqueued, LiveTypeOK
  <2> QED
    BY <1>10, <2>1, <2>2, <2>3 DEF Enqueued, LiveTypeOK
<1>11. ASSUME NEW m \in Messages, SteerAnswered(m) PROVE LiveTypeOK'
  BY <1>11 DEF SteerAnswered, Marks, LiveTypeOK
<1>12. ASSUME NEW m \in Messages, SteerLost(m) PROVE LiveTypeOK'
  BY <1>12 DEF SteerLost, Marks, LiveTypeOK
<1>13. ASSUME NEW q \in Asked, Resolves(q) PROVE LiveTypeOK'
  <2>1. slot' \in [Asked -> AskSlots]
    <3>1. picked[q] \in Options \cup {Nobody} /\ [slot[q] EXCEPT !.answer = picked[q]] \in AskSlots
      BY <1>0, <1>00 DEF LiveTypeOK
    <3>2. slot' = slot \/ slot' = [slot EXCEPT ![q] = [slot[q] EXCEPT !.answer = picked[q]]]
      BY <1>0, <1>13 DEF Resolves
    <3> HIDE DEF AskSlots
    <3> QED
      BY <1>0, <3>1, <3>2
  <2>2. reply' \in [Asked -> {"none", "out", "ok", "refused", "over"}]
    <3>1. reply \in [Asked -> {"none", "out", "ok", "refused", "over"}]
      BY DEF LiveTypeOK
    <3>2. reply' = [reply EXCEPT ![q] = "ok"] \/ reply' = [reply EXCEPT ![q] = "refused"]
      BY <1>13 DEF Resolves
    <3> QED
      BY <3>1, <3>2
  <2>3. UNCHANGED <<current, stream, phase, queue, applied, ledger, shown, posts, sentFor, strayed, card, picked>>
    BY <1>13 DEF Resolves
  <2>4. /\ stream' \in Seq({<<"end">>, <<"applied">>} \cup {<<"ask", a>> : a \in Asked})
        /\ current' \in 0..MaxRuns
        /\ phase' \in [RunIds -> {"new", "accepted", "working", "asking", "over"}]
        /\ queue' \in [RunIds -> Seq(Messages)] /\ \A r \in RunIds : Len(queue'[r]) <= SteerCap
        /\ applied' \in [RunIds -> SUBSET Messages]
        /\ ledger' \in Seq(Messages)
    BY <2>3 DEF LiveTypeOK
  <2>5. /\ shown' \in [Messages -> {"unsent", "sending", "queued", "applied", "failed", "dropped"}]
        /\ posts' \in [Messages -> {"none", "out", "ok", "refused", "over"}]
        /\ sentFor' \in [Messages -> 0..MaxRuns] /\ strayed' \in BOOLEAN
    BY <2>3 DEF LiveTypeOK
  <2>6. /\ card' \in [Asked -> {"none", "open", "sent", "chosen", "failed"}]
        /\ picked' \in [Asked -> Options \cup {Nobody}]
    BY <2>3 DEF LiveTypeOK
  <2> QED
    BY <2>1, <2>2, <2>4, <2>5, <2>6, Zenon DEF LiveTypeOK
<1>14. ASSUME NEW q \in Asked, AskSettled(q) PROVE LiveTypeOK'
  BY <1>14 DEF AskSettled, LiveTypeOK
<1>15. ASSUME NEW q \in Asked, AskLost(q) PROVE LiveTypeOK'
  BY <1>15 DEF AskLost, LiveTypeOK
<1>16. ASSUME NEW q \in Asked, Awaited(q) PROVE LiveTypeOK'
  <2>1. slot' \in [Asked -> AskSlots]
    BY <1>0, <1>00, <1>16 DEF Awaited
  <2>2. phase' \in [RunIds -> {"new", "accepted", "working", "asking", "over"}]
    BY <1>16 DEF Awaited, LiveTypeOK
  <2> QED
    BY <1>16, <2>1, <2>2 DEF Awaited, LiveTypeOK
<1>17. ASSUME NEW q \in Asked, NEW o \in Options, Clicks(q, o) PROVE LiveTypeOK'
  BY <1>17 DEF Clicks, LiveTypeOK
<1>18. CASE UNCHANGED liveVars
  BY <1>18 DEF LiveTypeOK
<1> QED
  BY <1>1, <1>2, <1>3, <1>4, <1>5, <1>6, <1>7, <1>8, <1>9, <1>10, <1>11, <1>12, <1>13, <1>14,
     <1>15, <1>16, <1>17, <1>18 DEF LiveNext, Abort, EndRead

\* The runs, the messages and the questions always have their types.
THEOREM LiveTypeCorrect == LiveSpec => []LiveTypeOK
<1> QED
  BY InitTyped, NextTyped, PTL DEF LiveSpec

-----------------------------------------------------------------------------
(* What the page says of a message. *)

Waits(m) == shown[m] \in {"sending", "queued"}

\* The ledger holds each message typed for the run on screen once, and no
\* other; a run is on screen only once.
Followed ==
  /\ current = 0 => ledger = <<>> /\ stream = <<>>
  /\ current # 0 => phase[current] # "new"
  /\ \A r \in RunIds : phase[r] = "new" => \A m \in Messages : sentFor[m] # r
  /\ \A m \in Messages : posts[m] = "none" <=> shown[m] = "unsent"
  /\ \A m \in Range(ledger) : shown[m] # "unsent"
  /\ \A i, j \in 1..Len(ledger) : ledger[i] = ledger[j] => i = j
  /\ current # 0 => \A m \in Messages : sentFor[m] = current <=> m \in Range(ledger)

Telling == LiveTypeOK /\ Followed /\ NothingForgotten

\* A step beside the messages leaves what is said of them.
LEMMA BesideFollowed ==
  ASSUME Telling, UNCHANGED <<current, ledger, shown, sentFor>>,
         stream' = <<>> \/ current # 0 \/ stream' = stream,
         \A r \in RunIds : phase'[r] = "new" => phase[r] = "new",
         \A m \in Messages : posts'[m] = "none" <=> posts[m] = "none"
  PROVE  Followed' /\ NothingForgotten'
<1>1. current # 0 => current \in RunIds
  BY LiveRunAssumption DEF Telling, LiveTypeOK, RunIds
<1> QED
  BY <1>1 DEF Telling, Followed, NothingForgotten

\* When the page lets go of a run nothing is left waiting.
LEMMA OverFollowed == Telling /\ Over => Followed' /\ NothingForgotten'
<1> SUFFICES ASSUME Telling, Over PROVE Followed' /\ NothingForgotten'
  OBVIOUS
<1>1. /\ current' = 0 /\ stream' = <<>> /\ ledger' = <<>> /\ Len(ledger') = 0 /\ Range(ledger') = {}
      /\ UNCHANGED <<phase, posts, sentFor>>
  BY Emptied DEF Over, thread
<1>2. \A m \in Messages : shown'[m] = IF m \in steerUnapplied THEN "dropped" ELSE shown[m]
  BY DEF Over
<1>3. \A m \in Messages : ~Waits(m)'
  BY <1>2 DEF Waits, Telling, NothingForgotten, steerUnapplied
<1>4. \A m \in Messages : shown'[m] = "unsent" <=> shown[m] = "unsent"
  BY <1>2 DEF steerUnapplied
<1> QED
  BY <1>1, <1>3, <1>4 DEF Telling, Followed, NothingForgotten, Waits

\* A mark on a message that is not unsent leaves the rest as it is.
LEMMA MarkedFollowed ==
  ASSUME Telling, NEW m \in Messages, NEW state \in {"queued", "applied", "failed"},
         UNCHANGED <<current, ledger, sentFor, phase>>,
         shown' = shown \/ (m \in Range(ledger) /\ shown' = [shown EXCEPT ![m] = state]),
         stream' = stream \/ current # 0,
         \A n \in Messages : posts'[n] = "none" <=> posts[n] = "none"
  PROVE  Followed' /\ NothingForgotten'
<1>1. shown \in [Messages -> {"unsent", "sending", "queued", "applied", "failed", "dropped"}]
  BY DEF Telling, LiveTypeOK
<1>2. \A n \in Messages : shown'[n] = shown[n] \/ (n = m /\ m \in Range(ledger) /\ shown'[n] = state)
  BY <1>1
<1>3. \A n \in Messages : shown'[n] = "unsent" <=> shown[n] = "unsent"
  BY <1>2 DEF Telling, Followed
<1>4. \A n \in Range(ledger) : n \in Messages
  BY Ranged DEF Telling, LiveTypeOK
<1>5. m \in Range(ledger) => current # 0 /\ sentFor[m] = current
  BY Emptied DEF Telling, Followed
<1>6. \A n \in Messages : shown'[n] \in {"sending", "queued"} =>
        n \in Range(ledger) /\ current = sentFor[n]
  BY <1>2, <1>5 DEF Telling, NothingForgotten
<1> QED
  BY <1>3, <1>4, <1>6 DEF Telling, Followed, NothingForgotten

\* Every step keeps the ledger and the fate of each message together.
LEMMA NextFollowed == Telling /\ [LiveNext]_liveVars => Followed' /\ NothingForgotten'
<1> SUFFICES ASSUME Telling, [LiveNext]_liveVars PROVE Followed' /\ NothingForgotten'
  OBVIOUS
<1> USE DEF liveVars, thread, steering, asking
<1>0. LiveTypeOK /\ (stream # <<>> => current # 0)
  BY DEF Telling, Followed
<1>1. CASE Over
  BY <1>1, OverFollowed
<1>2. CASE AppliedRead
  <2>1. CASE UNCHANGED shown
    BY <1>0, <1>2, <2>1, BesideFollowed DEF AppliedRead
  <2>2. ASSUME NEW i \in DOMAIN ledger, shown' = [shown EXCEPT ![ledger[i]] = "applied"]
        PROVE  Followed' /\ NothingForgotten'
    <3>1. ledger[i] \in Messages /\ ledger[i] \in Range(ledger)
      BY Ranged DEF Telling, LiveTypeOK, Range
    <3> QED
      BY <1>0, <1>2, <2>2, <3>1, MarkedFollowed DEF AppliedRead
  <2> QED
    BY <1>2, <2>1, <2>2 DEF AppliedRead
<1>3. CASE AskRead
  BY <1>0, <1>3, BesideFollowed DEF AskRead
<1>4. ASSUME NEW r \in RunIds, Begins(r) PROVE Followed' /\ NothingForgotten'
  <2>1. /\ current = 0 /\ current' = r /\ phase'[r] = "accepted"
        /\ \A s \in RunIds : phase'[s] = "new" => phase[s] = "new"
        /\ UNCHANGED <<stream, ledger, shown, posts, sentFor>>
    BY <1>0, <1>4 DEF Begins, LiveTypeOK
  <2>2. ledger = <<>> /\ Range(ledger) = {} /\ Len(ledger) = 0 /\ r # 0
    BY <2>1, Emptied DEF Telling, Followed, RunIds
  <2>3. \A m \in Messages : sentFor[m] # r
    BY <1>4 DEF Begins, Telling, Followed
  <2>4. \A m \in Messages : shown[m] \notin {"sending", "queued"}
    BY <2>2 DEF Telling, NothingForgotten
  <2> QED
    BY <2>1, <2>2, <2>3, <2>4 DEF Telling, Followed, NothingForgotten
<1>5. ASSUME NEW r \in RunIds, Registers(r) PROVE Followed' /\ NothingForgotten'
  BY <1>0, <1>5, BesideFollowed DEF Registers, LiveTypeOK
<1>6. ASSUME NEW r \in RunIds, Ends(r) PROVE Followed' /\ NothingForgotten'
  <2>1. stream' = stream \/ current # 0
    BY <1>6 DEF Ends, Emits, RunIds
  <2> QED
    BY <1>0, <1>6, <2>1, BesideFollowed DEF Ends, LiveTypeOK
<1>7. ASSUME NEW r \in RunIds, Polls(r) PROVE Followed' /\ NothingForgotten'
  <2>1. stream' = stream \/ current # 0
    BY <1>7 DEF Polls, Emits, RunIds
  <2> QED
    BY <1>0, <1>7, <2>1, BesideFollowed DEF Polls
<1>8. ASSUME NEW r \in RunIds, NEW q \in Asked, RunAsks(r, q) PROVE Followed' /\ NothingForgotten'
  <2>1. stream' = stream \/ current # 0
    BY <1>8 DEF RunAsks, Emits, RunIds
  <2> QED
    BY <1>0, <1>8, <2>1, BesideFollowed DEF RunAsks, LiveTypeOK
<1>9. ASSUME NEW m \in Messages, SendSteer(m) PROVE Followed' /\ NothingForgotten'
  <2>1. /\ Len(ledger) \in Nat /\ Len(ledger') = Len(ledger) + 1 /\ ledger'[Len(ledger) + 1] = m
        /\ \A i \in 1..Len(ledger) : ledger'[i] = ledger[i]
        /\ Range(ledger') = Range(ledger) \cup {m}
    BY <1>0, <1>9, Appended, Ranged DEF SendSteer, LiveTypeOK
  <2>2. /\ current' = current /\ current # 0 /\ shown[m] = "unsent" /\ shown'[m] = "sending"
        /\ posts'[m] = "out" /\ sentFor'[m] = current
        /\ \A n \in Messages \ {m} : shown'[n] = shown[n] /\ posts'[n] = posts[n] /\ sentFor'[n] = sentFor[n]
        /\ phase' = phase
    BY <1>0, <1>9 DEF SendSteer, LiveTypeOK
  <2>3. m \notin Range(ledger) /\ \A n \in Range(ledger) : n \in Messages
    <3>1. m \notin Range(ledger)
      BY <2>2 DEF Telling, Followed
    <3>2. \A n : n \in Range(ledger) => n \in Messages
      <4>1. ledger \in Seq(Messages)
        BY <1>0 DEF LiveTypeOK
      <4> QED
        BY <4>1, Ranged
    <3> QED
      BY <3>1, <3>2
  <2>4. \A i \in 1..Len(ledger) : ledger[i] # m
    BY <1>0, <2>3, Ranged DEF LiveTypeOK
  <2>5. \A i, j \in 1..Len(ledger') : ledger'[i] = ledger'[j] => i = j
    <3>1. \A i \in 1..Len(ledger') : i \in 1..Len(ledger) \/ i = Len(ledger) + 1
      BY <2>1
    <3> QED
      BY <2>1, <2>4, <3>1 DEF Telling, Followed
  <2>6. current \in RunIds
    BY <1>0, <2>2, LiveRunAssumption DEF LiveTypeOK, RunIds
  <2>7. \A r \in RunIds : phase'[r] = "new" => \A n \in Messages : sentFor'[n] # r
    BY <2>2 DEF Telling, Followed
  <2>8. \A n \in Messages : sentFor'[n] = current' <=> n \in Range(ledger')
    BY <2>1, <2>2 DEF Telling, Followed
  <2>9. \A n \in Messages : posts'[n] = "none" <=> shown'[n] = "unsent"
    BY <2>2 DEF Telling, Followed
  <2>10. \A n \in Range(ledger') : shown'[n] # "unsent"
    BY <2>1, <2>2, <2>3 DEF Telling, Followed
  <2>11. NothingForgotten'
    BY <2>1, <2>2 DEF Telling, NothingForgotten
  <2> QED
    BY <2>2, <2>5, <2>7, <2>8, <2>9, <2>10, <2>11 DEF Telling, Followed
<1>10. ASSUME NEW m \in Messages, Enqueued(m) PROVE Followed' /\ NothingForgotten'
  BY <1>0, <1>10, BesideFollowed DEF Enqueued, LiveTypeOK
<1>11. ASSUME NEW m \in Messages, SteerAnswered(m) PROVE Followed' /\ NothingForgotten'
  <2>1. \A n \in Messages : posts'[n] = "none" <=> posts[n] = "none"
    BY <1>0, <1>11 DEF SteerAnswered, LiveTypeOK
  <2>2. \E state \in {"queued", "failed"} :
          shown' = shown \/ (m \in Range(ledger) /\ shown' = [shown EXCEPT ![m] = state])
    BY <1>0, <1>11 DEF SteerAnswered, Marks, LiveTypeOK
  <2> QED
    BY <1>0, <1>11, <2>1, <2>2, MarkedFollowed DEF SteerAnswered
<1>12. ASSUME NEW m \in Messages, SteerLost(m) PROVE Followed' /\ NothingForgotten'
  <2>1. \A n \in Messages : posts'[n] = "none" <=> posts[n] = "none"
    BY <1>0, <1>12 DEF SteerLost, LiveTypeOK
  <2>2. shown' = shown \/ (m \in Range(ledger) /\ shown' = [shown EXCEPT ![m] = "failed"])
    BY <1>0, <1>12 DEF SteerLost, Marks, LiveTypeOK
  <2> QED
    BY <1>0, <1>12, <2>1, <2>2, MarkedFollowed DEF SteerLost
<1>13. ASSUME NEW q \in Asked, Resolves(q) PROVE Followed' /\ NothingForgotten'
  BY <1>0, <1>13, BesideFollowed DEF Resolves
<1>14. ASSUME NEW q \in Asked, AskSettled(q) PROVE Followed' /\ NothingForgotten'
  BY <1>0, <1>14, BesideFollowed DEF AskSettled
<1>15. ASSUME NEW q \in Asked, AskLost(q) PROVE Followed' /\ NothingForgotten'
  BY <1>0, <1>15, BesideFollowed DEF AskLost
<1>16. ASSUME NEW q \in Asked, Awaited(q) PROVE Followed' /\ NothingForgotten'
  BY <1>0, <1>16, BesideFollowed DEF Awaited, LiveTypeOK
<1>17. ASSUME NEW q \in Asked, NEW o \in Options, Clicks(q, o) PROVE Followed' /\ NothingForgotten'
  BY <1>0, <1>17, BesideFollowed DEF Clicks
<1>18. CASE UNCHANGED liveVars
  BY <1>0, <1>18, BesideFollowed
<1> QED
  BY <1>1, <1>2, <1>3, <1>4, <1>5, <1>6, <1>7, <1>8, <1>9, <1>10, <1>11, <1>12, <1>13, <1>14,
     <1>15, <1>16, <1>17, <1>18 DEF LiveNext, Abort, EndRead

\* The initial page follows no run and says nothing.
LEMMA InitFollowed == LiveInit => Followed /\ NothingForgotten
<1> QED
  BY Emptied DEF LiveInit, Followed, NothingForgotten, RunIds

\* When a run is over the page has said of every message typed for it what
\* became of it, whichever request is refused, lost or late.
THEOREM FatesTold == LiveSpec => []NothingForgotten
<1>1. LiveInit => Telling
  BY InitTyped, InitFollowed DEF Telling
<1>2. Telling /\ [LiveNext]_liveVars => Telling'
  BY NextTyped, NextFollowed DEF Telling
<1>3. Telling => NothingForgotten
  BY DEF Telling
<1> QED
  BY <1>1, <1>2, <1>3, PTL DEF LiveSpec

-----------------------------------------------------------------------------
(* What the page says of an answer, and the promise of a question. *)

\* A question has one card; the card is drawn once, after the slot is taken,
\* and clicked once, with an answer the slot then holds if it was heard.
Carded(q) ==
  /\ slot[q].state = "unasked" => slot[q] = Free /\ card[q] = "none"
  /\ \A i \in 1..Len(stream) : stream[i] = <<"ask", q>> =>
       /\ slot[q].state # "unasked" /\ card[q] = "none"
       /\ \A j \in 1..Len(stream) : stream[j] = <<"ask", q>> => i = j
  /\ card[q] \in {"none", "open"} => reply[q] = "none"
  /\ reply[q] # "none" => picked[q] \in Options
  /\ card[q] = "chosen" \/ reply[q] = "ok" => slot[q].answer = picked[q]

Cards == \A q \in Asked : Carded(q)

\* What a step that asks nothing does to the stream: it may cut it off, read
\* its head, or add an event of another kind.
Passes ==
  \/ stream' = <<>> \/ stream' = stream
  \/ stream # <<>> /\ stream' = Tail(stream)
  \/ \E e \in Events : (\A q : e # <<"ask", q>>) /\ stream' = Append(stream, e)

\* Such a step brings no question and repeats none.
LEMMA PassesKeeps ==
  ASSUME LiveTypeOK, Passes, NEW q,
         \A i, j \in 1..Len(stream) : stream[i] = <<"ask", q>> /\ stream[j] = <<"ask", q>> => i = j
  PROVE  /\ \A i \in 1..Len(stream') : stream'[i] = <<"ask", q>> =>
              \E j \in 1..Len(stream) : stream[j] = <<"ask", q>>
         /\ \A i, j \in 1..Len(stream') : stream'[i] = <<"ask", q>> /\ stream'[j] = <<"ask", q>> => i = j
<1>0. stream \in Seq(Events) /\ Len(stream) \in Nat
  BY Ranged DEF LiveTypeOK, Events
<1>1. CASE stream' = <<>>
  BY <1>1, Emptied
<1>2. CASE stream' = stream
  BY <1>2
<1>3. CASE stream # <<>> /\ stream' = Tail(stream)
  <2>1. /\ Len(stream') = Len(stream) - 1
        /\ \A i \in 1..Len(stream') : stream'[i] = stream[i + 1] /\ i + 1 \in 1..Len(stream)
    BY <1>0, <1>3, Beheaded
  <2>2. ASSUME NEW i \in 1..Len(stream'), NEW j \in 1..Len(stream'),
               stream'[i] = <<"ask", q>>, stream'[j] = <<"ask", q>>
        PROVE  i = j
    <3>1. i + 1 = j + 1
      BY <2>1, <2>2
    <3> QED
      BY <1>0, <2>1, <3>1
  <2> QED
    BY <2>1, <2>2
<1>4. ASSUME NEW e \in Events, \A p : e # <<"ask", p>>, stream' = Append(stream, e)
      PROVE  /\ \A i \in 1..Len(stream') : stream'[i] = <<"ask", q>> =>
                  \E j \in 1..Len(stream) : stream[j] = <<"ask", q>>
             /\ \A i, j \in 1..Len(stream') : stream'[i] = <<"ask", q>> /\ stream'[j] = <<"ask", q>> => i = j
  <2>1. /\ Len(stream') = Len(stream) + 1 /\ stream'[Len(stream) + 1] = e
        /\ \A i \in 1..Len(stream) : stream'[i] = stream[i]
    BY <1>0, <1>4, Appended
  <2>2. \A i \in 1..Len(stream') : stream'[i] = <<"ask", q>> => i \in 1..Len(stream)
    <3>1. \A i \in 1..Len(stream') : i \in 1..Len(stream) \/ i = Len(stream) + 1
      BY <1>0, <2>1
    <3> QED
      BY <1>4, <2>1, <3>1
  <2> QED
    BY <2>1, <2>2
<1> QED
  BY <1>1, <1>2, <1>3, <1>4 DEF Passes

\* A step that neither asks nor answers leaves every card as it is.
LEMMA BesideCards ==
  ASSUME LiveTypeOK, Cards, Passes, UNCHANGED asking
  PROVE  Cards'
<1> SUFFICES ASSUME NEW q \in Asked PROVE Carded(q)'
  BY DEF Cards
<1>1. Carded(q)
  BY DEF Cards
<1>2. /\ \A i \in 1..Len(stream') : stream'[i] = <<"ask", q>> =>
           \E j \in 1..Len(stream) : stream[j] = <<"ask", q>>
      /\ \A i, j \in 1..Len(stream') : stream'[i] = <<"ask", q>> /\ stream'[j] = <<"ask", q>> => i = j
  BY <1>1, PassesKeeps DEF Carded
<1>3. UNCHANGED <<slot, card, picked, reply>>
  BY DEF asking
<1> QED
  BY <1>1, <1>2, <1>3 DEF Carded, Free

\* A step on one question leaves the cards of the others as they are.
LEMMA OneCard ==
  ASSUME LiveTypeOK, Cards, NEW q \in Asked, stream' = stream,
         \A p \in Asked \ {q} : /\ slot'[p] = slot[p] /\ card'[p] = card[p]
                                /\ picked'[p] = picked[p] /\ reply'[p] = reply[p],
         Carded(q)'
  PROVE  Cards'
<1> SUFFICES ASSUME NEW p \in Asked, p # q PROVE Carded(p)'
  BY DEF Cards
<1>1. Carded(p) /\ slot'[p] = slot[p] /\ card'[p] = card[p] /\ picked'[p] = picked[p] /\ reply'[p] = reply[p]
  BY DEF Cards
<1> QED
  BY <1>1 DEF Carded, Free

\* Every step keeps the cards.
LEMMA NextCards == LiveTypeOK /\ Cards /\ [LiveNext]_liveVars => Cards'
<1> SUFFICES ASSUME LiveTypeOK, Cards, [LiveNext]_liveVars PROVE Cards'
  OBVIOUS
<1> USE DEF liveVars, thread, steering, asking
<1>0. /\ stream \in Seq(Events) /\ Len(stream) \in Nat
      /\ card \in [Asked -> {"none", "open", "sent", "chosen", "failed"}]
      /\ picked \in [Asked -> Options \cup {Nobody}]
      /\ reply \in [Asked -> {"none", "out", "ok", "refused", "over"}]
      /\ DOMAIN slot = Asked /\ slot = [q \in Asked |-> slot[q]]
  BY Ranged DEF LiveTypeOK, Events
<1>00. <<"end">> \in Events /\ <<"applied">> \in Events
       /\ \A q : <<"end">> # <<"ask", q>> /\ <<"applied">> # <<"ask", q>>
  BY EventsDiffer DEF Events
<1>1. CASE Over
  BY <1>1, BesideCards DEF Over, Passes
<1>2. CASE AppliedRead
  BY <1>2, BesideCards DEF AppliedRead, Passes
<1>3. CASE AskRead
  <2>1. PICK q \in Asked : Head(stream) = <<"ask", q>> /\ Head(stream)[2] = q
    BY <1>0, <1>3, Beheaded, EventsDiffer DEF AskRead
  <2>2. stream # <<>> /\ stream' = Tail(stream) /\ card' = [card EXCEPT ![q] = "open"]
        /\ UNCHANGED <<slot, picked, reply>>
    BY <1>3, <2>1 DEF AskRead
  <2>3. /\ Len(stream) \in Nat \ {0} /\ Len(stream') = Len(stream) - 1 /\ stream[1] = <<"ask", q>>
        /\ \A i \in 1..Len(stream') : stream'[i] = stream[i + 1] /\ i + 1 \in 1..Len(stream)
    BY <1>0, <2>1, <2>2, Beheaded
  <2>4. Passes
    BY <2>2 DEF Passes
  <2>5. ASSUME NEW p \in Asked PROVE Carded(p)'
    <3>1. Carded(p) /\ Carded(q)
      BY DEF Cards
    <3>2. CASE p = q
      <4>1. \A i \in 1..Len(stream') : stream'[i] # <<"ask", q>>
        <5> SUFFICES ASSUME NEW i \in 1..Len(stream'), stream'[i] = <<"ask", q>> PROVE FALSE
          OBVIOUS
        <5>0. 1 \in 1..Len(stream) /\ stream[i + 1] = <<"ask", q>> /\ i + 1 \in 1..Len(stream)
          BY <2>3
        <5>1. i + 1 = 1
          BY <2>3, <3>1, <5>0 DEF Carded
        <5> QED
          BY <2>3, <5>1
      <4>2. slot[q].state # "unasked" /\ card[q] = "none" /\ card'[q] = "open"
        <5>1. 1 \in 1..Len(stream)
          BY <2>3
        <5> QED
          BY <1>0, <2>2, <2>3, <3>1, <5>1 DEF Carded
      <4> QED
        BY <2>2, <3>1, <3>2, <4>1, <4>2 DEF Carded
    <3>3. CASE p # q
      <4>1. card'[p] = card[p]
        BY <1>0, <2>2, <3>3
      <4>2. /\ \A i \in 1..Len(stream') : stream'[i] = <<"ask", p>> =>
                 \E j \in 1..Len(stream) : stream[j] = <<"ask", p>>
            /\ \A i, j \in 1..Len(stream') : stream'[i] = <<"ask", p>> /\ stream'[j] = <<"ask", p>> => i = j
        BY <2>4, <3>1, PassesKeeps DEF Carded
      <4> QED
        BY <2>2, <3>1, <4>1, <4>2 DEF Carded, Free
    <3> QED
      BY <3>2, <3>3
  <2> QED
    BY <2>5 DEF Cards
<1>4. ASSUME NEW r \in RunIds, Begins(r) PROVE Cards'
  BY <1>4, BesideCards DEF Begins, Passes
<1>5. ASSUME NEW r \in RunIds, Registers(r) PROVE Cards'
  BY <1>5, BesideCards DEF Registers, Passes
<1>6. ASSUME NEW r \in RunIds, Ends(r) PROVE Cards'
  BY <1>00, <1>6, BesideCards DEF Ends, Emits, Passes
<1>7. ASSUME NEW r \in RunIds, Polls(r) PROVE Cards'
  BY <1>00, <1>7, BesideCards DEF Polls, Emits, Passes
<1>8. ASSUME NEW r \in RunIds, NEW q \in Asked, RunAsks(r, q) PROVE Cards'
  <2>1. /\ slot[q].state = "unasked" /\ slot[q] = Free /\ UNCHANGED <<card, picked, reply>>
        /\ slot'[q] = [run |-> r, answer |-> Nobody, state |-> "open"]
        /\ slot'[q].state = "open"
        /\ \A p \in Asked \ {q} : slot'[p] = slot[p]
    BY <1>0, <1>8 DEF RunAsks, Free
  <2>2. Carded(q) /\ \A i \in 1..Len(stream) : stream[i] # <<"ask", q>>
    BY <2>1 DEF Cards, Carded
  <2>3. /\ \A i \in 1..Len(stream) : stream'[i] = stream[i]
        /\ \/ Len(stream') = Len(stream)
           \/ Len(stream') = Len(stream) + 1 /\ stream'[Len(stream) + 1] = <<"ask", q>>
    <3>1. <<"ask", q>> \in Events
      BY DEF Events
    <3>2. stream' = stream \/ stream' = Append(stream, <<"ask", q>>)
      BY <1>8 DEF RunAsks, Emits
    <3> QED
      BY <1>0, <3>1, <3>2, Appended
  <2>4. \A i \in 1..Len(stream') : i \in 1..Len(stream) \/ (i = Len(stream) + 1 /\ stream'[i] = <<"ask", q>>)
    BY <1>0, <2>3
  <2>5. ASSUME NEW p \in Asked PROVE Carded(p)'
    <3>1. Carded(p)
      BY DEF Cards
    <3>2. CASE p = q
      <4>1. \A i, j \in 1..Len(stream') : stream'[i] = <<"ask", q>> /\ stream'[j] = <<"ask", q>> => i = j
        BY <2>2, <2>3, <2>4
      <4>2. card[q] = "none" /\ reply[q] = "none"
        BY <2>1, <2>2 DEF Carded
      <4> QED
        BY <2>1, <3>2, <4>1, <4>2 DEF Carded
    <3>3. CASE p # q
      <4>1. \A i \in 1..Len(stream') : stream'[i] = <<"ask", p>> => i \in 1..Len(stream) /\ stream[i] = <<"ask", p>>
        BY <2>3, <2>4, <3>3, EventsDiffer
      <4>2. slot'[p] = slot[p]
        BY <2>1, <3>3
      <4> QED
        BY <2>1, <3>1, <4>1, <4>2 DEF Carded, Free
    <3> QED
      BY <3>2, <3>3
  <2> QED
    BY <2>5 DEF Cards
<1>9. ASSUME NEW m \in Messages, SendSteer(m) PROVE Cards'
  BY <1>9, BesideCards DEF SendSteer, Passes
<1>10. ASSUME NEW m \in Messages, Enqueued(m) PROVE Cards'
  BY <1>10, BesideCards DEF Enqueued, Passes
<1>11. ASSUME NEW m \in Messages, SteerAnswered(m) PROVE Cards'
  BY <1>11, BesideCards DEF SteerAnswered, Passes
<1>12. ASSUME NEW m \in Messages, SteerLost(m) PROVE Cards'
  BY <1>12, BesideCards DEF SteerLost, Passes
<1>13. ASSUME NEW q \in Asked, Resolves(q) PROVE Cards'
  <2>1. Carded(q) /\ picked[q] \in Options /\ stream' = stream /\ card' = card /\ picked' = picked
    BY <1>13 DEF Resolves, Cards, Carded
  <2>2. \A p \in Asked \ {q} : slot'[p] = slot[p] /\ reply'[p] = reply[p]
    BY <1>0, <1>13 DEF Resolves
  <2>3. CASE slot[q].state = "open" /\ slot[q].answer = Nobody
    <3>1. slot'[q] = [slot[q] EXCEPT !.answer = picked[q]] /\ reply'[q] = "ok"
      BY <1>0, <1>13, <2>3 DEF Resolves
    <3>2. slot'[q].state = slot[q].state /\ slot'[q].answer = picked[q]
      BY <3>1 DEF LiveTypeOK
    <3>3. Carded(q)'
      BY <1>13, <2>1, <2>3, <3>1, <3>2 DEF Resolves, Carded, Free
    <3> QED
      BY <2>1, <2>2, <3>3, OneCard
  <2>4. CASE ~(slot[q].state = "open" /\ slot[q].answer = Nobody)
    <3>1. slot' = slot /\ reply'[q] = "refused"
      BY <1>0, <1>13, <2>4 DEF Resolves
    <3>2. Carded(q)'
      BY <1>13, <2>1, <3>1 DEF Resolves, Carded, Free
    <3> QED
      BY <2>1, <2>2, <3>2, OneCard
  <2> QED
    BY <2>3, <2>4
<1>14. ASSUME NEW q \in Asked, AskSettled(q) PROVE Cards'
  <2>1. Carded(q) /\ UNCHANGED <<stream, slot, picked>> /\ reply'[q] = "over"
        /\ (card'[q] = "failed" \/ (reply[q] = "ok" /\ card'[q] = "chosen"))
        /\ card[q] \notin {"none", "open"} /\ reply[q] # "none"
    BY <1>0, <1>14 DEF AskSettled, Cards, Carded
  <2>2. \A p \in Asked \ {q} : card'[p] = card[p] /\ reply'[p] = reply[p]
    BY <1>0, <1>14 DEF AskSettled
  <2>3. Carded(q)'
    BY <2>1 DEF Carded, Free
  <2> QED
    BY <2>1, <2>2, <2>3, OneCard
<1>15. ASSUME NEW q \in Asked, AskLost(q) PROVE Cards'
  <2>1. Carded(q) /\ UNCHANGED <<stream, slot, picked>> /\ reply'[q] = "over" /\ card'[q] = "failed"
        /\ card[q] \notin {"none", "open"} /\ reply[q] # "none"
    BY <1>0, <1>15 DEF AskLost, Cards, Carded
  <2>2. \A p \in Asked \ {q} : card'[p] = card[p] /\ reply'[p] = reply[p]
    BY <1>0, <1>15 DEF AskLost
  <2>3. Carded(q)'
    BY <2>1 DEF Carded, Free
  <2> QED
    BY <2>1, <2>2, <2>3, OneCard
<1>16. ASSUME NEW q \in Asked, Awaited(q) PROVE Cards'
  <2>1. Carded(q) /\ UNCHANGED <<stream, card, picked, reply>> /\ slot[q].state = "open"
        /\ slot'[q] = [slot[q] EXCEPT !.state = "closed"]
        /\ \A p \in Asked \ {q} : slot'[p] = slot[p]
    BY <1>0, <1>16 DEF Awaited, Cards
  <2>2. slot'[q].state = "closed" /\ slot'[q].answer = slot[q].answer
    BY <2>1 DEF LiveTypeOK
  <2>3. Carded(q)'
    BY <2>1, <2>2 DEF Carded, Free
  <2> QED
    BY <2>1, <2>3, OneCard
<1>17. ASSUME NEW q \in Asked, NEW o \in Options, Clicks(q, o) PROVE Cards'
  <2>1. Carded(q) /\ UNCHANGED <<stream, slot>> /\ card[q] = "open" /\ card'[q] = "sent"
        /\ picked'[q] = o /\ reply'[q] = "out"
        /\ \A p \in Asked \ {q} : card'[p] = card[p] /\ picked'[p] = picked[p] /\ reply'[p] = reply[p]
    BY <1>0, <1>17 DEF Clicks, Cards
  <2>2. Carded(q)'
    BY <2>1 DEF Carded, Free
  <2> QED
    BY <2>1, <2>2, OneCard
<1>18. CASE UNCHANGED liveVars
  BY <1>18, BesideCards DEF Passes
<1> QED
  BY <1>1, <1>2, <1>3, <1>4, <1>5, <1>6, <1>7, <1>8, <1>9, <1>10, <1>11, <1>12, <1>13, <1>14,
     <1>15, <1>16, <1>17, <1>18 DEF LiveNext, Abort, EndRead

\* Before the first question no card is drawn.
LEMMA InitCards == LiveInit => Cards
<1> QED
  BY Emptied DEF LiveInit, Cards, Carded, Free

\* A card that says which option was chosen belongs to a run that got that
\* answer, however late the click and whatever became of the request.
THEOREM ChoicesHeard == LiveSpec => []ChosenIsHeard
<1>1. LiveTypeOK /\ Cards /\ [LiveNext]_liveVars => (LiveTypeOK /\ Cards)'
  BY NextTyped, NextCards
<1>2. Cards => ChosenIsHeard
  BY DEF Cards, Carded, ChosenIsHeard
<1> QED
  BY InitTyped, InitCards, <1>1, <1>2, PTL DEF LiveSpec

\* What the promise sees of a question.
Stage(q) ==
  IF slot[q].state = "unasked" THEN "unasked"
  ELSE IF slot[q].state = "closed" \/ slot[q].answer # Nobody THEN "settled" ELSE "open"

\* A step that moves the stage of one question, or its answer, or neither.
LEMMA StageMoves ==
  ASSUME NEW q \in Asked, \A p \in Asked \ {q} : slot'[p] = slot[p]
  PROVE  /\ [p \in Asked |-> Stage(p)]' = [[p \in Asked |-> Stage(p)] EXCEPT ![q] = Stage(q)']
         /\ [p \in Asked |-> slot[p].answer]' = [[p \in Asked |-> slot[p].answer] EXCEPT ![q] = slot'[q].answer]
<1>1. \A p \in Asked \ {q} : Stage(p)' = Stage(p)
  BY DEF Stage
<1> QED
  BY <1>1

\* Every step of the run, the page and the requests is a step of Questions,
\* or changes no question.
LEMMA NextPromised == LiveTypeOK /\ Cards /\ [LiveNext]_liveVars => [Promise!Next]_(Promise!vars)
<1> SUFFICES ASSUME LiveTypeOK, Cards, [LiveNext]_liveVars PROVE [Promise!Next]_(Promise!vars)
  OBVIOUS
<1> DEFINE Stages == [q \in Asked |-> Stage(q)]
           Answers == [q \in Asked |-> slot[q].answer]
<1>0. slot \in [Asked -> [run : 0..MaxRuns, answer : Options \cup {Nobody}, state : {"unasked", "open", "closed"}]]
  BY DEF LiveTypeOK
<1>1. ASSUME UNCHANGED slot PROVE UNCHANGED Promise!vars
  BY <1>1 DEF Promise!vars
<1>2. ASSUME UNCHANGED <<Stages, Answers>> PROVE UNCHANGED Promise!vars
  BY <1>2 DEF Promise!vars, Stage
<1>3. ASSUME NEW q \in Asked, Stages[q] = "unasked", Stages' = [Stages EXCEPT ![q] = "open"],
             UNCHANGED Answers
      PROVE  Promise!Next
  BY <1>3 DEF Promise!Next, Promise!Ask, Stage
<1>4. ASSUME NEW q \in Asked, NEW o \in Options \cup {Nobody}, Stages[q] = "open",
             Stages' = [Stages EXCEPT ![q] = "settled"], Answers' = [Answers EXCEPT ![q] = o]
      PROVE  Promise!Next
  BY <1>4 DEF Promise!Next, Promise!Settle, Stage
<1>5. ASSUME NEW r \in RunIds, NEW q \in Asked, RunAsks(r, q) PROVE Promise!Next
  <2>1. /\ slot[q] = Free /\ slot'[q] = [run |-> r, answer |-> Nobody, state |-> "open"]
        /\ \A p \in Asked \ {q} : slot'[p] = slot[p]
    BY <1>0, <1>5 DEF RunAsks
  <2>2. Stage(q) = "unasked" /\ Stage(q)' = "open" /\ slot'[q].answer = slot[q].answer
    BY <2>1 DEF Stage, Free
  <2>3. Stages' = [Stages EXCEPT ![q] = "open"] /\ Answers' = [Answers EXCEPT ![q] = slot[q].answer]
    BY <2>1, <2>2, StageMoves
  <2>4. Stages[q] = "unasked" /\ UNCHANGED Answers
    BY <2>2, <2>3
  <2> HIDE DEF Stages, Answers
  <2> QED
    BY <1>3, <2>3, <2>4
<1>6. ASSUME NEW q \in Asked, Resolves(q) PROVE [Promise!Next]_(Promise!vars)
  <2>1. CASE slot[q].state = "open" /\ slot[q].answer = Nobody
    <3>1. picked[q] \in Options
      BY <1>6 DEF Resolves, Cards, Carded
    <3>2. /\ slot'[q] = [slot[q] EXCEPT !.answer = picked[q]]
          /\ \A p \in Asked \ {q} : slot'[p] = slot[p]
      BY <1>0, <1>6, <2>1 DEF Resolves
    <3>3. slot'[q].state = slot[q].state /\ slot'[q].answer = picked[q]
      BY <1>0, <3>2
    <3>4. Stage(q) = "open" /\ Stage(q)' = "settled"
      BY <2>1, <3>1, <3>3, LiveRunAssumption DEF Stage
    <3>5. Stages' = [Stages EXCEPT ![q] = "settled"] /\ Answers' = [Answers EXCEPT ![q] = picked[q]]
      BY <3>2, <3>3, <3>4, StageMoves
    <3>6. Stages[q] = "open" /\ picked[q] \in Options \cup {Nobody}
      BY <3>1, <3>4
    <3> HIDE DEF Stages, Answers
    <3> QED
      BY <1>4, <3>5, <3>6
  <2>2. CASE ~(slot[q].state = "open" /\ slot[q].answer = Nobody)
    BY <1>1, <1>6, <2>2 DEF Resolves
  <2> QED
    BY <2>1, <2>2
<1>7. ASSUME NEW q \in Asked, Awaited(q) PROVE [Promise!Next]_(Promise!vars)
  <2>1. /\ slot[q].state = "open" /\ slot'[q] = [slot[q] EXCEPT !.state = "closed"]
        /\ \A p \in Asked \ {q} : slot'[p] = slot[p]
    BY <1>0, <1>7 DEF Awaited
  <2>2. slot'[q].state = "closed" /\ slot'[q].answer = slot[q].answer
    BY <1>0, <2>1
  <2>3. Stage(q)' = "settled"
    BY <2>2 DEF Stage
  <2>4. Stages' = [Stages EXCEPT ![q] = "settled"] /\ Answers' = [Answers EXCEPT ![q] = slot[q].answer]
    BY <2>1, <2>2, <2>3, StageMoves
  <2>5. CASE slot[q].answer = Nobody
    <3>1. Stages[q] = "open" /\ Answers' = [Answers EXCEPT ![q] = Nobody]
      BY <2>1, <2>4, <2>5 DEF Stage
    <3> HIDE DEF Stages, Answers
    <3> QED
      BY <1>4, <2>4, <3>1
  <2>6. CASE slot[q].answer # Nobody
    <3>1. Stages[q] = "settled" /\ Answers[q] = slot[q].answer
      BY <2>1, <2>6 DEF Stage
    <3>2. UNCHANGED <<Stages, Answers>>
      BY <2>4, <3>1
    <3> QED
      BY <1>2, <3>2
  <2> QED
    BY <2>5, <2>6
<1>8. ASSUME UNCHANGED liveVars \/ Over \/ AppliedRead \/ AskRead PROVE UNCHANGED Promise!vars
  BY <1>1, <1>8 DEF liveVars, asking, Over, AppliedRead, AskRead
<1>9. ASSUME NEW r \in RunIds, Begins(r) \/ Registers(r) \/ Ends(r) \/ Polls(r)
      PROVE  UNCHANGED Promise!vars
  BY <1>1, <1>9 DEF asking, Begins, Registers, Ends, Polls
<1>10. ASSUME NEW m \in Messages, SendSteer(m) \/ Enqueued(m) \/ SteerAnswered(m) \/ SteerLost(m)
       PROVE  UNCHANGED Promise!vars
  BY <1>1, <1>10 DEF asking, SendSteer, Enqueued, SteerAnswered, SteerLost
<1>11. ASSUME NEW q \in Asked, AskSettled(q) \/ AskLost(q) \/ \E o \in Options : Clicks(q, o)
       PROVE  UNCHANGED Promise!vars
  BY <1>1, <1>11 DEF AskSettled, AskLost, Clicks
<1> QED
  BY <1>5, <1>6, <1>7, <1>8, <1>9, <1>10, <1>11 DEF LiveNext, Abort, EndRead

\* Each question is settled once, by an option it offered or by the clock: the
\* run, the page and the requests between them implement the safety part of
\* Questions, whatever is late or lost.
THEOREM AnswersAsPromised == LiveSpec => Promise!Init /\ [][Promise!Next]_(Promise!vars)
<1>1. LiveInit => Promise!Init
  BY DEF LiveInit, Free, Promise!Init
<1>2. LiveTypeOK /\ Cards /\ [LiveNext]_liveVars => (LiveTypeOK /\ Cards)'
  BY NextTyped, NextCards
<1> QED
  BY InitTyped, InitCards, NextPromised, <1>1, <1>2, PTL DEF LiveSpec

-----------------------------------------------------------------------------
(* Counting the echoes. *)

Marked(s) == {i \in 1..Len(s) : s[i] = <<"applied">>}

\* The marks of a stream can be counted.
LEMMA MarksCounted ==
  ASSUME NEW s \in Seq(Events)
  PROVE  IsFiniteSet(Marked(s)) /\ Cardinality(Marked(s)) \in Nat
<1>1. Marked(s) \subseteq 1..Len(s) /\ Len(s) \in Nat
  BY LenProperties DEF Marked
<1>2. IsFiniteSet(1..Len(s))
  BY <1>1, FS_Interval
<1>3. IsFiniteSet(Marked(s))
  BY <1>1, <1>2, FS_Subset
<1> QED
  BY <1>3, FS_CardinalityType

\* An event appended is one mark more, or none.
LEMMA MarksAppended ==
  ASSUME NEW s \in Seq(Events), NEW e \in Events
  PROVE  Cardinality(Marked(Append(s, e))) =
           Cardinality(Marked(s)) + IF e = <<"applied">> THEN 1 ELSE 0
<1> DEFINE n == Len(s) + 1
<1>1. /\ Len(Append(s, e)) = n /\ Append(s, e)[n] = e /\ Len(s) \in Nat
      /\ \A i \in 1..Len(s) : Append(s, e)[i] = s[i]
  BY Appended, LenProperties
<1>2. \A i : i \in 1..n <=> i \in 1..Len(s) \/ i = n
  BY <1>1
<1>3. n \notin Marked(s)
  BY <1>1 DEF Marked
<1>4. Marked(Append(s, e)) = Marked(s) \cup (IF e = <<"applied">> THEN {n} ELSE {})
  BY <1>1, <1>2 DEF Marked
<1> HIDE DEF n
<1>5. CASE e = <<"applied">>
  <2>1. Marked(Append(s, e)) = Marked(s) \cup {n}
    BY <1>4, <1>5
  <2>2. Cardinality(Marked(s) \cup {n}) = Cardinality(Marked(s)) + 1
    BY <1>3, MarksCounted, FS_AddElement
  <2> QED
    BY <1>5, <2>1, <2>2
<1>6. CASE e # <<"applied">>
  <2>1. Marked(Append(s, e)) = Marked(s)
    BY <1>4, <1>6
  <2> QED
    BY <1>6, <2>1, MarksCounted
<1> QED
  BY <1>5, <1>6

\* A head read is one mark less, or none.
LEMMA MarksBeheaded ==
  ASSUME NEW s \in Seq(Events), s # <<>>
  PROVE  Cardinality(Marked(Tail(s))) =
           Cardinality(Marked(s)) - IF Head(s) = <<"applied">> THEN 1 ELSE 0
<1>1. /\ Tail(s) \in Seq(Events) /\ Len(s) \in Nat \ {0} /\ Len(Tail(s)) = Len(s) - 1 /\ Head(s) = s[1]
      /\ \A i \in 1..Len(Tail(s)) : Tail(s)[i] = s[i + 1] /\ i + 1 \in 1..Len(s)
  BY Beheaded
<1> DEFINE S == Marked(s) \ {1}
           T == Marked(Tail(s))
           f == [i \in S |-> i - 1]
<1>2. \A i \in S : i \in Nat /\ i - 1 \in 1..Len(Tail(s)) /\ s[i] = <<"applied">>
  BY <1>1 DEF Marked
<1>3. \A i \in S : Tail(s)[i - 1] = s[i]
  <2> SUFFICES ASSUME NEW i \in S PROVE Tail(s)[i - 1] = s[i]
    OBVIOUS
  <2>1. i - 1 \in 1..Len(Tail(s)) /\ (i - 1) + 1 = i
    BY <1>2
  <2> QED
    BY <1>1, <2>1
<1>4. f \in [S -> T]
  <2>1. \A i \in S : i - 1 \in T
    <3> SUFFICES ASSUME NEW i \in S PROVE i - 1 \in T
      OBVIOUS
    <3>1. i - 1 \in 1..Len(Tail(s)) /\ Tail(s)[i - 1] = <<"applied">>
      BY <1>2, <1>3
    <3> QED
      BY <3>1 DEF Marked
  <2> HIDE DEF S, T
  <2> QED
    BY <2>1
<1>5. \A i, j \in S : f[i] = f[j] => i = j
  BY <1>2
<1>6. \A k \in T : \E i \in S : f[i] = k
  <2> SUFFICES ASSUME NEW k \in T PROVE k + 1 \in S /\ f[k + 1] = k
    OBVIOUS
  <2>1. k \in 1..Len(Tail(s)) /\ Tail(s)[k] = <<"applied">>
    BY DEF Marked
  <2>2. k + 1 \in 1..Len(s) /\ s[k + 1] = <<"applied">> /\ k + 1 # 1
    BY <1>1, <2>1
  <2>3. k + 1 \in S
    BY <2>2 DEF Marked
  <2> QED
    BY <1>1, <2>1, <2>3
<1>7. IsFiniteSet(S) /\ IsFiniteSet(Marked(s))
  BY MarksCounted, FS_Subset
<1>8. ExistsBijection(S, T)
  <2> HIDE DEF f, S, T
  <2> QED
    BY <1>4, <1>5, <1>6 DEF ExistsBijection, Bijection, Injection, Surjection, IsInjective
<1>9. Cardinality(T) = Cardinality(S)
  BY <1>7, <1>8, FS_Bijection
<1>10. Cardinality(S) = Cardinality(Marked(s)) - IF 1 \in Marked(s) THEN 1 ELSE 0
  <2>1. CASE 1 \in Marked(s)
    BY <1>7, <2>1, FS_RemoveElement
  <2>2. CASE 1 \notin Marked(s)
    <3>1. S = Marked(s)
      BY <2>2
    <3>2. Cardinality(Marked(s)) \in Nat
      BY MarksCounted
    <3>3. Cardinality(S) = Cardinality(Marked(s))
      BY <3>1
    <3> HIDE DEF S
    <3> QED
      BY <2>2, <3>2, <3>3
  <2> QED
    BY <2>1, <2>2
<1>11. 1 \in Marked(s) <=> Head(s) = <<"applied">>
  BY <1>1 DEF Marked
<1> QED
  BY <1>9, <1>10, <1>11

-----------------------------------------------------------------------------
(* The echo names the message taken. *)

\* Only what was sent is queued or applied, and by each run once.
Taken ==
  \A r \in RunIds :
    /\ phase[r] \in {"new", "accepted"} => queue[r] = <<>> /\ applied[r] = {}
    /\ \A m \in Range(queue[r]) \cup applied[r] : posts[m] \notin {"none", "out"}
    /\ \A m \in Range(queue[r]) : m \notin applied[r]
    /\ \A i, j \in 1..Len(queue[r]) : queue[r][i] = queue[r][j] => i = j

\* A thread that waits for an answer waits on one question.
Waiting ==
  \A q \in Asked : slot[q].state = "open" =>
    /\ slot[q].run \in RunIds /\ phase[slot[q].run] = "asking"
    /\ \A p \in Asked : slot[p].state = "open" /\ slot[p].run = slot[q].run => p = q

\* What each run has queued, from the front, and applied.
LEMMA QueueRanged ==
  ASSUME LiveTypeOK, NEW r \in RunIds
  PROVE  /\ queue[r] \in Seq(Messages) /\ Len(queue[r]) \in Nat
         /\ \A m : m \in Range(queue[r]) <=> \E i \in 1..Len(queue[r]) : queue[r][i] = m
         /\ \A m \in Range(queue[r]) \cup applied[r] : m \in Messages
<1>1. queue[r] \in Seq(Messages) /\ applied[r] \subseteq Messages
  BY DEF LiveTypeOK
<1> QED
  BY <1>1, Ranged

\* A poll takes the head of the queue.
LEMMA PollTakes ==
  ASSUME LiveTypeOK, Taken, NEW r \in RunIds, Polls(r)
  PROVE  /\ queue'[r] = Tail(queue[r]) /\ Len(queue[r]) \in Nat \ {0} /\ Len(queue'[r]) = Len(queue[r]) - 1
         /\ Head(queue[r]) = queue[r][1] /\ Head(queue[r]) \in Messages
         /\ \A i \in 1..Len(queue'[r]) : queue'[r][i] = queue[r][i + 1] /\ i + 1 \in 1..Len(queue[r])
         /\ Range(queue[r]) = Range(queue'[r]) \cup {Head(queue[r])} /\ Head(queue[r]) \notin Range(queue'[r])
         /\ applied'[r] = applied[r] \cup {Head(queue[r])} /\ Head(queue[r]) \notin applied[r]
         /\ \A s \in RunIds \ {r} : queue'[s] = queue[s] /\ applied'[s] = applied[s]
<1>1. queue[r] # <<>> /\ queue \in [RunIds -> Seq(Messages)] /\ applied \in [RunIds -> SUBSET Messages]
  BY DEF Polls, LiveTypeOK
<1>2. /\ queue'[r] = Tail(queue[r]) /\ applied'[r] = applied[r] \cup {Head(queue[r])}
      /\ \A s \in RunIds \ {r} : queue'[s] = queue[s] /\ applied'[s] = applied[s]
  BY <1>1 DEF Polls
<1>3. /\ Len(queue[r]) \in Nat \ {0} /\ Len(queue'[r]) = Len(queue[r]) - 1
      /\ Head(queue[r]) = queue[r][1] /\ Head(queue[r]) \in Messages /\ queue'[r] \in Seq(Messages)
      /\ \A i \in 1..Len(queue'[r]) : queue'[r][i] = queue[r][i + 1] /\ i + 1 \in 1..Len(queue[r])
      /\ Range(queue[r]) = Range(queue'[r]) \cup {Head(queue[r])}
  BY <1>1, <1>2, Beheaded
<1>4. Head(queue[r]) \notin Range(queue'[r])
  <2> SUFFICES ASSUME NEW i \in 1..Len(queue'[r]), queue'[r][i] = queue[r][1] PROVE FALSE
    BY <1>3, Ranged
  <2>1. 1 \in 1..Len(queue[r]) /\ i + 1 \in 1..Len(queue[r]) /\ queue[r][i + 1] = queue[r][1]
    BY <1>3
  <2>2. i + 1 = 1
    BY <2>1 DEF Taken
  <2> QED
    BY <1>3, <2>2
<1>5. Head(queue[r]) \notin applied[r]
  BY <1>3 DEF Taken
<1> QED
  BY <1>2, <1>3, <1>4, <1>5

\* An enqueue adds the message to the end of some queues.
LEMMA EnqueueAdds ==
  ASSUME LiveTypeOK, NEW m \in Messages, Enqueued(m), NEW r \in RunIds
  PROVE  \/ r \notin Takers /\ queue'[r] = queue[r]
         \/ /\ r \in Takers /\ Len(queue'[r]) = Len(queue[r]) + 1 /\ queue'[r][Len(queue[r]) + 1] = m
            /\ \A i \in 1..Len(queue[r]) : queue'[r][i] = queue[r][i]
            /\ Range(queue'[r]) = Range(queue[r]) \cup {m}
<1>1. queue'[r] = IF r \in Takers THEN Append(queue[r], m) ELSE queue[r]
  BY DEF Enqueued
<1> QED
  BY <1>1, QueueRanged, Appended

\* A step that touches no queue keeps what the runs have taken.
LEMMA BesideTaken ==
  ASSUME Taken, UNCHANGED <<queue, applied>>,
         \A r \in RunIds : phase'[r] \in {"new", "accepted"} => phase[r] \in {"new", "accepted"},
         \A m : posts[m] \notin {"none", "out"} => posts'[m] \notin {"none", "out"}
  PROVE  Taken'
<1> QED
  BY DEF Taken

\* Every step keeps what the runs have taken.
LEMMA NextTaken == Telling /\ Taken /\ [LiveNext]_liveVars => Taken'
<1> SUFFICES ASSUME Telling, LiveTypeOK, Taken, [LiveNext]_liveVars PROVE Taken'
  BY DEF Telling
<1> USE DEF liveVars, thread, steering, asking
<1>0. /\ phase \in [RunIds -> {"new", "accepted", "working", "asking", "over"}]
      /\ posts \in [Messages -> {"none", "out", "ok", "refused", "over"}]
      /\ queue \in [RunIds -> Seq(Messages)] /\ applied \in [RunIds -> SUBSET Messages]
  BY DEF LiveTypeOK
<1>1. CASE Over \/ AppliedRead \/ AskRead \/ UNCHANGED liveVars
  BY <1>1, BesideTaken DEF Over, AppliedRead, AskRead
<1>2. ASSUME NEW r \in RunIds, Begins(r) \/ Registers(r) \/ \E q \in Asked : RunAsks(r, q)
      PROVE  Taken'
  BY <1>0, <1>2, BesideTaken DEF Begins, Registers, RunAsks
<1>3. ASSUME NEW r \in RunIds, Ends(r) PROVE Taken'
  <2>1. /\ queue'[r] = <<>> /\ Range(queue'[r]) = {} /\ Len(queue'[r]) = 0 /\ UNCHANGED <<applied, posts>>
        /\ \A s \in RunIds \ {r} : queue'[s] = queue[s] /\ phase'[s] = phase[s]
        /\ phase'[r] = "over"
    BY <1>0, <1>3, Emptied DEF Ends
  <2> QED
    BY <2>1 DEF Taken
<1>4. ASSUME NEW r \in RunIds, Polls(r) PROVE Taken'
  <2>1. UNCHANGED <<phase, posts>> /\ phase[r] = "working"
    BY <1>4 DEF Polls
  <2>2. \A i, j \in 1..Len(queue'[r]) : queue'[r][i] = queue'[r][j] => i = j
    <3> SUFFICES ASSUME NEW i \in 1..Len(queue'[r]), NEW j \in 1..Len(queue'[r]), queue'[r][i] = queue'[r][j]
                 PROVE  i = j
      OBVIOUS
    <3>1. /\ i + 1 \in 1..Len(queue[r]) /\ j + 1 \in 1..Len(queue[r])
          /\ queue[r][i + 1] = queue[r][j + 1] /\ Len(queue'[r]) \in Nat
      BY <1>4, PollTakes
    <3>2. i + 1 = j + 1
      BY <3>1 DEF Taken
    <3> QED
      BY <3>1, <3>2
  <2>3. \A m \in Range(queue'[r]) : m \notin applied'[r]
    <3>1. /\ Range(queue'[r]) \subseteq Range(queue[r]) /\ Head(queue[r]) \notin Range(queue'[r])
          /\ applied'[r] = applied[r] \cup {Head(queue[r])}
      BY <1>4, PollTakes
    <3>2. \A m \in Range(queue[r]) : m \notin applied[r]
      BY DEF Taken
    <3> QED
      BY <3>1, <3>2
  <2>4. \A m \in Range(queue'[r]) \cup applied'[r] : m \in Range(queue[r]) \cup applied[r]
    BY <1>4, PollTakes
  <2>5. \A s \in RunIds \ {r} : queue'[s] = queue[s] /\ applied'[s] = applied[s]
    BY <1>4, PollTakes
  <2> QED
    BY <2>1, <2>2, <2>3, <2>4, <2>5 DEF Taken
<1>5. ASSUME NEW m \in Messages, SendSteer(m) PROVE Taken'
  <2>1. posts[m] = "none" /\ posts' = [posts EXCEPT ![m] = "out"] /\ UNCHANGED <<phase, queue, applied>>
    BY <1>5 DEF SendSteer, Telling, Followed
  <2>2. \A r \in RunIds : m \notin Range(queue[r]) \cup applied[r]
    BY <2>1 DEF Taken
  <2> QED
    BY <1>0, <2>1, <2>2, QueueRanged DEF Taken
<1>6. ASSUME NEW m \in Messages, Enqueued(m) PROVE Taken'
  <2>1. posts[m] = "out" /\ posts'[m] \in {"ok", "refused"} /\ UNCHANGED <<phase, applied>>
        /\ \A n \in Messages \ {m} : posts'[n] = posts[n]
    BY <1>0, <1>6 DEF Enqueued
  <2>2. ASSUME NEW r \in RunIds
        PROVE  /\ phase'[r] \in {"new", "accepted"} => queue'[r] = <<>> /\ applied'[r] = {}
               /\ \A n \in Range(queue'[r]) \cup applied'[r] : posts'[n] \notin {"none", "out"}
               /\ \A n \in Range(queue'[r]) : n \notin applied'[r]
               /\ \A i, j \in 1..Len(queue'[r]) : queue'[r][i] = queue'[r][j] => i = j
    <3>1. m \notin Range(queue[r]) /\ m \notin applied[r]
      BY <2>1 DEF Taken
    <3>2. \A n \in Range(queue[r]) \cup applied[r] : posts'[n] \notin {"none", "out"}
      BY <2>1, <3>1, QueueRanged DEF Taken
    <3>3. CASE r \notin Takers /\ queue'[r] = queue[r]
      BY <2>1, <3>2, <3>3 DEF Taken
    <3>4. CASE /\ r \in Takers /\ Len(queue'[r]) = Len(queue[r]) + 1 /\ queue'[r][Len(queue[r]) + 1] = m
               /\ \A i \in 1..Len(queue[r]) : queue'[r][i] = queue[r][i]
               /\ Range(queue'[r]) = Range(queue[r]) \cup {m}
      <4>1. phase'[r] \notin {"new", "accepted"}
        BY <2>1, <3>4 DEF Takers, InFlight
      <4>2. \A i \in 1..Len(queue[r]) : queue[r][i] # m
        BY <3>1, QueueRanged
      <4>3. \A i \in 1..Len(queue'[r]) : i \in 1..Len(queue[r]) \/ i = Len(queue[r]) + 1
        BY <3>4, QueueRanged
      <4>4. \A i, j \in 1..Len(queue'[r]) : queue'[r][i] = queue'[r][j] => i = j
        BY <3>4, <4>2, <4>3 DEF Taken
      <4>5. \A n \in Range(queue'[r]) : n \notin applied'[r]
        BY <2>1, <3>1, <3>4 DEF Taken
      <4> QED
        BY <2>1, <3>2, <3>4, <4>1, <4>4, <4>5
    <3> QED
      BY <1>6, <3>3, <3>4, EnqueueAdds
  <2> QED
    BY <2>2 DEF Taken
<1>7. ASSUME NEW m \in Messages, SteerAnswered(m) \/ SteerLost(m) PROVE Taken'
  <2>1. posts' = [posts EXCEPT ![m] = "over"] /\ UNCHANGED <<phase, queue, applied>>
    BY <1>7 DEF SteerAnswered, SteerLost
  <2> QED
    BY <1>0, <2>1, BesideTaken
<1>8. ASSUME NEW q \in Asked, Resolves(q) \/ AskSettled(q) \/ AskLost(q) \/ \E o \in Options : Clicks(q, o)
      PROVE  Taken'
  BY <1>8, BesideTaken DEF Resolves, AskSettled, AskLost, Clicks
<1>9. ASSUME NEW q \in Asked, Awaited(q) PROVE Taken'
  BY <1>0, <1>9, BesideTaken DEF Awaited
<1> QED
  BY <1>1, <1>2, <1>3, <1>4, <1>5, <1>6, <1>7, <1>8, <1>9 DEF LiveNext, Abort, EndRead

\* Every step keeps the waits, and a run that is over stays over.
LEMMA NextWaiting ==
  ASSUME LiveTypeOK, Waiting, [LiveNext]_liveVars
  PROVE  Waiting' /\ \A r \in RunIds : phase[r] = "over" => phase'[r] = "over"
<1> USE DEF liveVars, thread, steering, asking
<1>0. /\ phase \in [RunIds -> {"new", "accepted", "working", "asking", "over"}]
      /\ slot \in [Asked -> [run : 0..MaxRuns, answer : Options \cup {Nobody}, state : {"unasked", "open", "closed"}]]
  BY DEF LiveTypeOK
<1> DEFINE Goal == Waiting' /\ \A r \in RunIds : phase[r] = "over" => phase'[r] = "over"
<1>1. ASSUME UNCHANGED <<phase, slot>> PROVE Goal
  BY <1>1 DEF Waiting
<1>2. CASE Over \/ AppliedRead \/ AskRead \/ UNCHANGED liveVars
  BY <1>1, <1>2 DEF Over, AppliedRead, AskRead
<1>3. ASSUME NEW r \in RunIds, Begins(r) \/ Registers(r) \/ Ends(r) \/ Polls(r) PROVE Goal
  <2>1. slot' = slot /\ phase[r] \notin {"asking", "over"} /\ \A s \in RunIds \ {r} : phase'[s] = phase[s]
    BY <1>0, <1>3 DEF Begins, Registers, Ends, Polls
  <2> QED
    BY <2>1 DEF Waiting
<1>4. ASSUME NEW r \in RunIds, NEW q \in Asked, RunAsks(r, q) PROVE Goal
  <2>1. /\ phase[r] = "working" /\ phase'[r] = "asking" /\ \A s \in RunIds \ {r} : phase'[s] = phase[s]
        /\ slot'[q].state = "open" /\ slot'[q].run = r /\ \A p \in Asked \ {q} : slot'[p] = slot[p]
    BY <1>0, <1>4 DEF RunAsks
  <2>2. \A p \in Asked : slot[p].state = "open" => slot[p].run # r
    BY <2>1 DEF Waiting
  <2> QED
    BY <2>1, <2>2 DEF Waiting
<1>5. ASSUME NEW m \in Messages, SendSteer(m) \/ Enqueued(m) \/ SteerAnswered(m) \/ SteerLost(m) PROVE Goal
  BY <1>1, <1>5 DEF SendSteer, Enqueued, SteerAnswered, SteerLost
<1>6. ASSUME NEW q \in Asked, AskSettled(q) \/ AskLost(q) \/ \E o \in Options : Clicks(q, o) PROVE Goal
  BY <1>1, <1>6 DEF AskSettled, AskLost, Clicks
<1>7. ASSUME NEW q \in Asked, Resolves(q) PROVE Goal
  <2>1. phase' = phase /\ \A p \in Asked : slot'[p].state = slot[p].state /\ slot'[p].run = slot[p].run
    BY <1>0, <1>7 DEF Resolves
  <2> QED
    BY <2>1 DEF Waiting
<1>8. ASSUME NEW q \in Asked, Awaited(q) PROVE Goal
  <2>1. /\ slot[q].state = "open" /\ slot'[q].state = "closed" /\ \A p \in Asked \ {q} : slot'[p] = slot[p]
    BY <1>0, <1>8 DEF Awaited
  <2>2. slot[q].run \in RunIds /\ phase[slot[q].run] = "asking"
    BY <2>1 DEF Waiting
  <2>3. \A s \in RunIds : s # slot[q].run => phase'[s] = phase[s]
    BY <1>0, <1>8 DEF Awaited
  <2>4. \A p \in Asked : p # q /\ slot[p].state = "open" => slot[p].run # slot[q].run
    BY <2>1 DEF Waiting
  <2>5. Waiting'
    BY <2>1, <2>3, <2>4 DEF Waiting
  <2> QED
    BY <2>2, <2>3, <2>5
<1> QED
  BY <1>2, <1>3, <1>4, <1>5, <1>6, <1>7, <1>8 DEF LiveNext, Abort, EndRead

ToldSoFar == Cardinality(Marked(stream))
Echoed == {m \in Range(ledger) : shown[m] = "applied"}
Unechoed == {m \in Range(ledger) : Waits(m) /\ m \in applied[current]}

\* No more messages are marked, or about to be, than the run has taken.
Counted == current # 0 => Cardinality(Echoed) + ToldSoFar <= Cardinality(applied[current])

\* Each message met only the run it was typed for, which took it or has it
\* queued.
Direct ==
  \A r \in RunIds : \A m \in Range(queue[r]) \cup applied[r] : sentFor[m] = r /\ posts[m] \in {"ok", "over"}

\* No message got through before one typed earlier was let through, or its
\* refusal was read.
InTurn ==
  \A i, j \in 1..Len(ledger) :
    i < j /\ posts[ledger[j]] # "out" => posts[ledger[i]] \notin {"out", "refused"}

\* Of the run on screen, what waits in its queue waits on the page; what the
\* run took comes before what it has still to take; and every echo on its way
\* has a message to name.
InStep ==
  /\ \A m \in Range(queue[current]) : Waits(m)
  /\ \A m \in applied[current] : Waits(m) \/ shown[m] = "applied"
  /\ \A m \in Range(ledger) : Waits(m) /\ posts[m] \in {"ok", "over"} =>
       m \in applied[current] \/ m \in Range(queue[current]) \/ phase[current] = "over"
  /\ \A i, j \in 1..Len(ledger) :
       i < j /\ ledger[j] \in applied[current] /\ Waits(ledger[i]) => ledger[i] \in applied[current]
  /\ \A i, j \in 1..Len(ledger) : \A a, b \in 1..Len(queue[current]) :
       i < j /\ ledger[i] = queue[current][a] /\ ledger[j] = queue[current][b] => a < b
  /\ ToldSoFar <= Cardinality(Unechoed)

\* What is marked was taken, and what is still out is not marked.
Named ==
  /\ \A m \in Messages : shown[m] = "applied" => sentFor[m] \in RunIds /\ m \in applied[sentFor[m]]
  /\ \A m \in Range(ledger) : posts[m] = "out" => Waits(m)

Straight == Direct /\ InTurn /\ (current # 0 => InStep) /\ Named

WhileStraight == ~strayed => Straight

\* Any set of messages can be counted.
LEMMA MessagesCounted ==
  ASSUME NEW S, S \subseteq Messages
  PROVE  IsFiniteSet(S) /\ Cardinality(S) \in Nat
<1>1. IsFiniteSet(S)
  BY LiveRunAssumption, FS_Subset
<1> QED
  BY <1>1, FS_CardinalityType

\* The sets counted are finite.
LEMMA EchoesCounted ==
  ASSUME LiveTypeOK
  PROVE  /\ ToldSoFar \in Nat
         /\ IsFiniteSet(Echoed) /\ Cardinality(Echoed) \in Nat
         /\ IsFiniteSet(Unechoed) /\ Cardinality(Unechoed) \in Nat
         /\ \A r \in RunIds : IsFiniteSet(applied[r]) /\ Cardinality(applied[r]) \in Nat
         /\ \A m \in Range(ledger) : m \in Messages
<1>1. stream \in Seq(Events) /\ ledger \in Seq(Messages)
  BY DEF LiveTypeOK, Events
<1>2. ToldSoFar \in Nat
  BY <1>1, MarksCounted DEF ToldSoFar
<1>3. \A m \in Range(ledger) : m \in Messages
  BY <1>1, Ranged
<1>4. Echoed \subseteq Messages /\ Unechoed \subseteq Messages
  BY <1>3 DEF Echoed, Unechoed
<1>5. \A r \in RunIds : applied[r] \subseteq Messages
  BY DEF LiveTypeOK
<1> QED
  BY <1>2, <1>3, <1>4, <1>5, MessagesCounted

\* What a step does to the echoes on their way.
LEMMA ToldEmits ==
  ASSUME LiveTypeOK, NEW r, NEW e \in Events, Emits(r, e)
  PROVE  ToldSoFar' = ToldSoFar + IF current = r /\ e = <<"applied">> THEN 1 ELSE 0
<1>1. stream \in Seq(Events)
  BY DEF LiveTypeOK, Events
<1>2. CASE current = r
  BY <1>1, <1>2, MarksAppended DEF Emits, ToldSoFar
<1>3. CASE current # r
  <2>1. stream' = stream /\ ToldSoFar \in Nat
    BY <1>3, EchoesCounted DEF Emits
  <2> QED
    BY <1>3, <2>1 DEF ToldSoFar
<1> QED
  BY <1>2, <1>3

\* Reading the head of the stream takes an echo off it, or another event.
LEMMA ToldReads ==
  ASSUME LiveTypeOK, stream # <<>>, stream' = Tail(stream)
  PROVE  ToldSoFar' = ToldSoFar - IF Head(stream) = <<"applied">> THEN 1 ELSE 0
<1> QED
  BY MarksBeheaded DEF ToldSoFar, LiveTypeOK, Events

\* A run can be followed only if there is one.
LEMMA CurrentRuns == LiveTypeOK /\ current # 0 => current \in RunIds
<1> QED
  BY LiveRunAssumption DEF LiveTypeOK, RunIds

\* A step that marks nothing and brings no echo keeps the count.
LEMMA BesideCounted ==
  ASSUME LiveTypeOK, LiveTypeOK', Counted, current' = current, ledger' = ledger,
         \A m \in Messages : shown'[m] = "applied" => shown[m] = "applied",
         \A r \in RunIds : applied[r] \subseteq applied'[r],
         ToldSoFar' <= ToldSoFar
  PROVE  Counted'
<1> SUFFICES ASSUME current # 0 PROVE Cardinality(Echoed') + ToldSoFar' <= Cardinality(applied'[current])
  BY DEF Counted
<1>1. current \in RunIds
  BY CurrentRuns
<1>2. /\ ToldSoFar \in Nat /\ IsFiniteSet(Echoed) /\ Cardinality(Echoed) \in Nat
      /\ Cardinality(applied[current]) \in Nat /\ \A m \in Range(ledger) : m \in Messages
  BY <1>1, EchoesCounted
<1>3. ToldSoFar' \in Nat /\ IsFiniteSet(applied'[current]) /\ Cardinality(applied'[current]) \in Nat
  <2>1. stream' \in Seq(Events) /\ applied'[current] \subseteq Messages
    BY <1>1 DEF LiveTypeOK, Events
  <2> QED
    BY <2>1, MarksCounted, MessagesCounted DEF ToldSoFar
<1>4. Echoed' \subseteq Echoed
  BY <1>2 DEF Echoed
<1>5. Cardinality(Echoed') <= Cardinality(Echoed) /\ Cardinality(Echoed') \in Nat
  BY <1>2, <1>4, FS_Subset, FS_CardinalityType
<1>6. Cardinality(applied[current]) <= Cardinality(applied'[current])
  BY <1>1, <1>3, FS_Subset
<1> QED
  BY <1>2, <1>3, <1>5, <1>6 DEF Counted

\* Every step keeps the count.
LEMMA NextCounted == Telling /\ Taken /\ Counted /\ [LiveNext]_liveVars => Counted'
<1> SUFFICES ASSUME Telling, LiveTypeOK, LiveTypeOK', Taken, Counted, [LiveNext]_liveVars PROVE Counted'
  BY NextTyped DEF Telling
<1> USE DEF liveVars, thread, steering, asking
<1>0. /\ ToldSoFar \in Nat /\ <<"end">> \in Events /\ <<"applied">> \in Events
      /\ shown \in [Messages -> {"unsent", "sending", "queued", "applied", "failed", "dropped"}]
      /\ applied \in [RunIds -> SUBSET Messages] /\ \A m \in Range(ledger) : m \in Messages
      /\ \A q \in Asked : <<"ask", q>> \in Events
  <2>1. ToldSoFar \in Nat /\ \A m \in Range(ledger) : m \in Messages
    BY EchoesCounted
  <2>2. /\ <<"end">> \in Events /\ <<"applied">> \in Events
        /\ \A q \in Asked : <<"ask", q>> \in Events
    BY DEF Events
  <2> QED
    BY <2>1, <2>2 DEF LiveTypeOK
<1>1. CASE Over
  BY <1>1 DEF Over, Counted
<1>2. CASE AppliedRead
  <2>1. stream # <<>> /\ stream' = Tail(stream) /\ Head(stream) = <<"applied">>
        /\ UNCHANGED <<current, ledger, applied>>
    BY <1>2 DEF AppliedRead
  <2>2. ToldSoFar' = ToldSoFar - 1
    BY <2>1, ToldReads
  <2>3. CASE UNCHANGED shown
    BY <1>0, <2>1, <2>2, <2>3, BesideCounted
  <2>4. ASSUME NEW i \in DOMAIN ledger, Oldest(i), shown' = [shown EXCEPT ![ledger[i]] = "applied"]
        PROVE  Counted'
    <3> SUFFICES ASSUME current # 0 PROVE Cardinality(Echoed') + ToldSoFar' <= Cardinality(applied[current])
      BY <2>1 DEF Counted
    <3>1. ledger[i] \in Range(ledger) /\ shown[ledger[i]] # "applied"
      BY <2>4 DEF Oldest, steerUnapplied, Range
    <3>2. Echoed' = Echoed \cup {ledger[i]} /\ ledger[i] \notin Echoed
      BY <1>0, <2>1, <2>4, <3>1 DEF Echoed
    <3>3. Cardinality(Echoed') = Cardinality(Echoed) + 1
      BY <3>2, EchoesCounted, FS_AddElement
    <3>4. current \in RunIds /\ Cardinality(Echoed) \in Nat /\ Cardinality(applied[current]) \in Nat
      BY CurrentRuns, EchoesCounted
    <3> QED
      BY <1>0, <2>2, <3>3, <3>4 DEF Counted
  <2> QED
    BY <1>2, <2>3, <2>4 DEF AppliedRead
<1>3. CASE AskRead
  <2>1. ToldSoFar' <= ToldSoFar
    BY <1>0, <1>3, ToldReads DEF AskRead
  <2> QED
    BY <1>3, <2>1, BesideCounted DEF AskRead
<1>4. ASSUME NEW r \in RunIds, Begins(r) PROVE Counted'
  <2>1. current = 0 /\ current' = r /\ UNCHANGED <<ledger, stream, applied>>
    BY <1>4 DEF Begins
  <2>2. Range(ledger) = {} /\ Len(stream) = 0
    BY <2>1, Emptied DEF Telling, Followed
  <2>3. Echoed' = {} /\ Marked(stream') = {}
    BY <2>1, <2>2 DEF Echoed, Marked
  <2>4. Cardinality(applied'[r]) \in Nat
    BY <2>1, EchoesCounted
  <2> QED
    BY <2>1, <2>3, <2>4, FS_EmptySet DEF Counted, ToldSoFar
<1>5. ASSUME UNCHANGED <<current, ledger, shown, applied, stream>> PROVE Counted'
  BY <1>0, <1>5, BesideCounted DEF ToldSoFar
<1>6. ASSUME NEW r \in RunIds, Ends(r) PROVE Counted'
  <2>1. ToldSoFar' <= ToldSoFar
    BY <1>0, <1>6, ToldEmits, EventsDiffer DEF Ends
  <2> QED
    BY <1>6, <2>1, BesideCounted DEF Ends
<1>7. ASSUME NEW r \in RunIds, Polls(r) PROVE Counted'
  <2>1. ToldSoFar' = ToldSoFar + (IF current = r THEN 1 ELSE 0) /\ UNCHANGED <<current, ledger, shown>>
    BY <1>0, <1>7, ToldEmits DEF Polls
  <2>2. /\ applied'[r] = applied[r] \cup {Head(queue[r])} /\ Head(queue[r]) \notin applied[r]
        /\ \A s \in RunIds \ {r} : applied'[s] = applied[s]
    BY <1>7, PollTakes
  <2>3. CASE current = r
    <3>1. Cardinality(applied'[r]) = Cardinality(applied[r]) + 1
      BY <2>2, EchoesCounted, FS_AddElement
    <3>2. Cardinality(Echoed) \in Nat /\ Cardinality(applied[r]) \in Nat /\ Echoed' = Echoed
      BY <2>1, EchoesCounted DEF Echoed
    <3>3. r # 0
      BY DEF RunIds
    <3> QED
      BY <1>0, <2>1, <2>3, <3>1, <3>2, <3>3 DEF Counted
  <2>4. CASE current # r
    <3>1. \A s \in RunIds : applied[s] \subseteq applied'[s]
      BY <2>2
    <3> QED
      BY <1>0, <2>1, <2>4, <3>1, BesideCounted
  <2> QED
    BY <2>3, <2>4
<1>8. ASSUME NEW r \in RunIds, NEW q \in Asked, RunAsks(r, q) PROVE Counted'
  <2>1. ToldSoFar' <= ToldSoFar
    BY <1>0, <1>8, ToldEmits, EventsDiffer DEF RunAsks
  <2> QED
    BY <1>8, <2>1, BesideCounted DEF RunAsks
<1>9. ASSUME NEW m \in Messages, SendSteer(m) PROVE Counted'
  <2>1. /\ ledger' = Append(ledger, m) /\ ledger \in Seq(Messages)
        /\ shown[m] = "unsent" /\ shown' = [shown EXCEPT ![m] = "sending"]
        /\ UNCHANGED <<current, stream, applied>>
    BY <1>9 DEF SendSteer, LiveTypeOK
  <2>2. Range(ledger') = Range(ledger) \cup {m}
    BY <2>1, Appended
  <2>3. Echoed' = Echoed
    BY <1>0, <2>1, <2>2 DEF Echoed
  <2> QED
    BY <2>1, <2>3 DEF Counted, ToldSoFar
<1>10. ASSUME NEW m \in Messages, SteerAnswered(m) \/ SteerLost(m) PROVE Counted'
  <2>1. UNCHANGED <<current, ledger, applied, stream>>
    BY <1>10 DEF SteerAnswered, SteerLost
  <2>2. \A n \in Messages : shown'[n] = "applied" => shown[n] = "applied"
    BY <1>0, <1>10 DEF SteerAnswered, SteerLost, Marks
  <2> QED
    BY <1>0, <2>1, <2>2, BesideCounted DEF ToldSoFar
<1>11. ASSUME NEW r \in RunIds, Registers(r) PROVE Counted'
  BY <1>5, <1>11 DEF Registers
<1>12. ASSUME NEW m \in Messages, Enqueued(m) PROVE Counted'
  BY <1>5, <1>12 DEF Enqueued
<1>13. ASSUME NEW q \in Asked, Resolves(q) \/ AskSettled(q) \/ AskLost(q) \/ Awaited(q)
                                 \/ \E o \in Options : Clicks(q, o)
       PROVE  Counted'
  BY <1>5, <1>13 DEF Resolves, AskSettled, AskLost, Awaited, Clicks
<1>14. CASE UNCHANGED liveVars
  BY <1>5, <1>14
<1> QED
  BY <1>1, <1>2, <1>3, <1>4, <1>6, <1>7, <1>8, <1>9, <1>10, <1>11, <1>12, <1>13, <1>14
     DEF LiveNext, Abort, EndRead

\* A step that moves no message keeps the order, if it brings no echo.
LEMMA BesideStraight ==
  ASSUME LiveTypeOK, Straight, UNCHANGED <<current, ledger, shown, posts, sentFor, queue, applied>>,
         \A r \in RunIds : phase[r] = "over" => phase'[r] = "over",
         ToldSoFar' <= ToldSoFar, ToldSoFar' \in Nat
  PROVE  Straight'
<1>1. Unechoed' = Unechoed /\ ToldSoFar \in Nat /\ Cardinality(Unechoed) \in Nat
  BY EchoesCounted DEF Unechoed, Waits
<1>2. ASSUME InStep, current \in RunIds PROVE InStep'
  BY <1>1, <1>2 DEF InStep, Waits
<1>3. current' # 0 => InStep'
  BY <1>2, CurrentRuns DEF Straight
<1>4. Direct' /\ InTurn' /\ Named'
  BY DEF Straight, Direct, InTurn, Named, Waits
<1> QED
  BY <1>3, <1>4 DEF Straight

\* The echo names the oldest message, which the run has taken.
LEMMA EchoStraight ==
  ASSUME Telling, Taken, Straight, AppliedRead
  PROVE  Straight'
<1>1. LiveTypeOK /\ stream # <<>> /\ stream' = Tail(stream) /\ Head(stream) = <<"applied">>
      /\ UNCHANGED <<current, phase, ledger, posts, sentFor, queue, applied>>
  BY DEF AppliedRead, Telling, thread
<1>2. current # 0 /\ current \in RunIds /\ InStep
  BY <1>1, CurrentRuns DEF Telling, Followed, Straight
<1>3. ToldSoFar' = ToldSoFar - 1 /\ ToldSoFar \in Nat /\ ToldSoFar' \in Nat
  <2>1. stream' \in Seq(Events)
    BY <1>1, Beheaded DEF LiveTypeOK, Events
  <2> QED
    BY <1>1, <2>1, ToldReads, EchoesCounted, MarksCounted DEF ToldSoFar
<1>4. Cardinality(Unechoed) \in Nat /\ IsFiniteSet(Unechoed) /\ Cardinality(Unechoed) > 0
  <2>1. ToldSoFar <= Cardinality(Unechoed)
    BY <1>2 DEF InStep
  <2> QED
    BY <1>1, <1>3, <2>1, EchoesCounted
<1>5. PICK m \in Unechoed : TRUE
  BY <1>4, FS_EmptySet
<1>6. m \in Range(ledger) /\ m \in steerUnapplied /\ m \in applied[current]
  BY <1>5 DEF Unechoed, Waits, steerUnapplied
<1>7. PICK i \in DOMAIN ledger : Oldest(i) /\ shown' = [shown EXCEPT ![ledger[i]] = "applied"]
  BY <1>6 DEF AppliedRead
<1>8. /\ DOMAIN ledger = 1..Len(ledger) /\ Len(ledger) \in Nat
      /\ \A n : n \in Range(ledger) <=> \E k \in 1..Len(ledger) : ledger[k] = n
      /\ \A k \in 1..Len(ledger) : ledger[k] \in Messages
  BY <1>1, Ranged DEF LiveTypeOK
<1>9. Waits(ledger[i]) /\ ledger[i] \in Messages /\ ledger[i] \in Range(ledger)
  BY <1>7, <1>8 DEF Oldest, steerUnapplied, Waits
<1>10. ledger[i] \in applied[current]
  <2>1. PICK j \in 1..Len(ledger) : ledger[j] = m
    BY <1>6, <1>8
  <2>2. ~(j < i)
    <3> SUFFICES ASSUME j < i PROVE FALSE
      OBVIOUS
    <3>1. j \in 1..(i - 1)
      BY <1>8
    <3> QED
      BY <1>6, <1>7, <2>1, <3>1 DEF Oldest
  <2>3. CASE i = j
    BY <1>6, <2>1, <2>3
  <2>4. CASE i < j
    BY <1>2, <1>6, <1>8, <1>9, <2>1, <2>4 DEF InStep
  <2> QED
    BY <1>8, <2>2, <2>3, <2>4
<1> DEFINE o == ledger[i]
<1>11. shown'[o] = "applied" /\ \A n \in Messages \ {o} : shown'[n] = shown[n]
  BY <1>1, <1>7, <1>9 DEF LiveTypeOK
<1>12. sentFor[o] = current /\ posts[o] \in {"ok", "over"} /\ o \notin Range(queue[current])
  BY <1>2, <1>10 DEF Straight, Direct, Taken
<1>13. Unechoed' = Unechoed \ {o} /\ o \in Unechoed
  <2>1. o \in Unechoed
    BY <1>9, <1>10 DEF Unechoed
  <2>2. \A n \in Messages : Waits(n)' <=> n # o /\ Waits(n)
    BY <1>11 DEF Waits
  <2> QED
    BY <1>1, <1>8, <2>1, <2>2 DEF Unechoed
<1>14. ToldSoFar' <= Cardinality(Unechoed')
  <2>1. Cardinality(Unechoed') = Cardinality(Unechoed) - 1
    BY <1>4, <1>13, FS_RemoveElement
  <2>2. ToldSoFar <= Cardinality(Unechoed)
    BY <1>2 DEF InStep
  <2> QED
    BY <1>3, <1>4, <2>1, <2>2
<1>15. \A n \in Messages : Waits(n)' <=> n # o /\ Waits(n)
  BY <1>11 DEF Waits
<1> HIDE DEF o
<1>16. InStep'
  <2>1. \A n \in Range(queue[current]) \cup applied[current] : n \in Messages
    BY <1>1, <1>2, QueueRanged
  <2>2. \A n \in Range(queue'[current']) : Waits(n)'
    BY <1>1, <1>2, <1>12, <1>15, <2>1 DEF InStep
  <2>3. \A n \in applied'[current'] : Waits(n)' \/ shown'[n] = "applied"
    BY <1>1, <1>2, <1>11, <1>15, <2>1 DEF InStep
  <2>4. \A n \in Range(ledger') : Waits(n)' /\ posts'[n] \in {"ok", "over"} =>
          n \in applied'[current'] \/ n \in Range(queue'[current']) \/ phase'[current'] = "over"
    BY <1>1, <1>2, <1>8, <1>15 DEF InStep
  <2>5. \A k, l \in 1..Len(ledger') :
          k < l /\ ledger'[l] \in applied'[current'] /\ Waits(ledger[k])' => ledger'[k] \in applied'[current']
    BY <1>1, <1>2, <1>8, <1>15 DEF InStep
  <2>6. \A k, l \in 1..Len(ledger') : \A a, b \in 1..Len(queue'[current']) :
          k < l /\ ledger'[k] = queue'[current'][a] /\ ledger'[l] = queue'[current'][b] => a < b
    BY <1>1, <1>2 DEF InStep
  <2> QED
    BY <1>1, <1>14, <2>2, <2>3, <2>4, <2>5, <2>6 DEF InStep
<1>17. Direct' /\ InTurn'
  BY <1>1 DEF Straight, Direct, InTurn
<1>18. Named'
  <2>1. \A n \in Messages : shown'[n] = "applied" => sentFor'[n] \in RunIds /\ n \in applied'[sentFor'[n]]
    BY <1>1, <1>2, <1>10, <1>11, <1>12 DEF Straight, Named, o
  <2>2. \A n \in Range(ledger') : posts'[n] = "out" => Waits(n)'
    BY <1>1, <1>8, <1>12, <1>15 DEF Straight, Named
  <2> QED
    BY <2>1, <2>2 DEF Named
<1> QED
  BY <1>1, <1>16, <1>17, <1>18 DEF Straight

\* What a run takes from its queue is the oldest message it has not taken.
LEMMA PollStraight ==
  ASSUME Telling, Taken, Straight, NEW r \in RunIds, Polls(r)
  PROVE  Straight'
<1> DEFINE h == Head(queue[r])
<1>1. LiveTypeOK /\ phase[r] = "working" /\ UNCHANGED <<current, phase, ledger, shown, posts, sentFor>>
      /\ queue[r] # <<>> /\ Emits(r, <<"applied">>) /\ r # 0
  BY DEF Polls, Telling, steering, RunIds
<1>2. /\ Len(queue[r]) \in Nat \ {0} /\ Len(queue'[r]) = Len(queue[r]) - 1
      /\ h = queue[r][1] /\ h \in Messages
      /\ \A i \in 1..Len(queue'[r]) : queue'[r][i] = queue[r][i + 1] /\ i + 1 \in 1..Len(queue[r])
      /\ Range(queue[r]) = Range(queue'[r]) \cup {h} /\ h \notin Range(queue'[r])
      /\ applied'[r] = applied[r] \cup {h} /\ h \notin applied[r]
      /\ \A s \in RunIds \ {r} : queue'[s] = queue[s] /\ applied'[s] = applied[s]
  BY <1>1, PollTakes
<1> HIDE DEF h
<1>3. sentFor[h] = r /\ posts[h] \in {"ok", "over"}
  BY <1>2 DEF Straight, Direct
<1>4. Direct' /\ InTurn'
  BY <1>1, <1>2, <1>3 DEF Straight, Direct, InTurn
<1>5. Named'
  <2>1. \A s \in RunIds : applied[s] \subseteq applied'[s]
    BY <1>2
  <2> QED
    BY <1>1, <2>1 DEF Straight, Named, Waits
<1>6. CASE current # r
  <2>1. ToldSoFar' = ToldSoFar
    <3>1. stream' = stream
      BY <1>1, <1>6 DEF Emits
    <3> QED
      BY <3>1 DEF ToldSoFar
  <2>2. ASSUME current \in RunIds, InStep PROVE InStep'
    <3>1. queue'[current] = queue[current] /\ applied'[current] = applied[current]
      BY <1>2, <1>6, <2>2
    <3>2. Unechoed' = Unechoed
      BY <1>1, <3>1 DEF Unechoed, Waits
    <3> QED
      BY <1>1, <2>1, <2>2, <3>1, <3>2 DEF InStep, Waits
  <2>3. current' # 0 => InStep'
    BY <1>1, <2>2, CurrentRuns DEF Straight
  <2> QED
    BY <1>4, <1>5, <2>3 DEF Straight
<1>7. CASE current = r
  <2>1. InStep /\ Telling /\ Followed
    BY <1>1, <1>7 DEF Straight, Telling
  <2>2. /\ DOMAIN ledger = 1..Len(ledger) /\ Len(ledger) \in Nat
        /\ \A n : n \in Range(ledger) <=> \E k \in 1..Len(ledger) : ledger[k] = n
        /\ \A k \in 1..Len(ledger) : ledger[k] \in Messages /\ ledger[k] \in Range(ledger)
    <3>1. ledger \in Seq(Messages)
      BY <1>1 DEF LiveTypeOK
    <3> QED
      BY <3>1, Ranged
  <2>3. h \in Range(ledger) /\ Waits(h)
    BY <1>1, <1>2, <1>3, <1>7, <2>1 DEF Followed, InStep
  <2>4. \A n \in Range(queue'[r]) : Waits(n)
    BY <1>2, <1>7, <2>1 DEF InStep
  <2>5. \A n \in applied'[r] : Waits(n) \/ shown[n] = "applied"
    BY <1>2, <1>7, <2>1, <2>3 DEF InStep
  <2>6. \A n \in Range(ledger) : Waits(n) /\ posts[n] \in {"ok", "over"} =>
          n \in applied'[r] \/ n \in Range(queue'[r]) \/ phase[r] = "over"
    BY <1>2, <1>7, <2>1 DEF InStep
  <2>7. ASSUME NEW i \in 1..Len(ledger), NEW j \in 1..Len(ledger), i < j,
               ledger[j] \in applied'[r], Waits(ledger[i])
        PROVE  ledger[i] \in applied'[r]
    <3>1. CASE ledger[j] \in applied[r]
      BY <1>2, <1>7, <2>1, <2>7, <3>1 DEF InStep
    <3>2. CASE ledger[j] = h
      <4>1. posts[ledger[i]] \notin {"out", "refused"}
        BY <1>3, <2>7, <3>2 DEF Straight, InTurn
      <4>2. posts[ledger[i]] \in {"ok", "over"}
        <5>1. shown[ledger[i]] # "unsent"
          BY <2>7 DEF Waits
        <5>2. posts[ledger[i]] # "none" /\ posts[ledger[i]] \in {"none", "out", "ok", "refused", "over"}
          BY <1>1, <2>1, <2>2, <5>1 DEF Followed, LiveTypeOK
        <5> QED
          BY <4>1, <5>2
      <4>3. ledger[i] \in applied[r] \/ ledger[i] \in Range(queue[r])
        BY <1>1, <1>7, <2>1, <2>2, <2>7, <4>2 DEF InStep
      <4>4. CASE ledger[i] \in Range(queue[r])
        <5>1. PICK a \in 1..Len(queue[r]) : queue[r][a] = ledger[i]
          BY <1>1, <4>4, QueueRanged
        <5>2. 1 \in 1..Len(queue[r])
          BY <1>2
        <5>3. ledger[i] = queue[current][a] /\ ledger[j] = queue[current][1] /\ 1 \in 1..Len(queue[current])
          BY <1>2, <1>7, <3>2, <5>1, <5>2
        <5>4. a < 1
          BY <1>7, <2>1, <2>7, <5>1, <5>3 DEF InStep
        <5> QED
          BY <1>2, <5>4
      <4> QED
        BY <1>2, <4>3, <4>4
    <3> QED
      BY <1>2, <2>7, <3>1, <3>2
  <2>8. ASSUME NEW i \in 1..Len(ledger), NEW j \in 1..Len(ledger),
               NEW a \in 1..Len(queue'[r]), NEW b \in 1..Len(queue'[r]),
               i < j, ledger[i] = queue'[r][a], ledger[j] = queue'[r][b]
        PROVE  a < b
    <3>1. ledger[i] = queue[r][a + 1] /\ ledger[j] = queue[r][b + 1]
          /\ a + 1 \in 1..Len(queue[r]) /\ b + 1 \in 1..Len(queue[r])
      BY <1>2, <2>8
    <3>2. a + 1 < b + 1
      BY <1>7, <2>1, <2>8, <3>1 DEF InStep
    <3> QED
      BY <1>2, <3>2
  <2>9. ToldSoFar' <= Cardinality(Unechoed')
    <3>1. ToldSoFar' = ToldSoFar + 1 /\ ToldSoFar \in Nat
      <4>1. <<"applied">> \in Events
        BY DEF Events
      <4> QED
        BY <1>1, <1>7, <4>1, ToldEmits, EchoesCounted
    <3>2. Unechoed' = Unechoed \cup {h} /\ h \notin Unechoed
      BY <1>1, <1>2, <1>7, <2>3 DEF Unechoed, Waits
    <3>3. Cardinality(Unechoed') = Cardinality(Unechoed) + 1 /\ Cardinality(Unechoed) \in Nat
      BY <1>1, <3>2, EchoesCounted, FS_AddElement
    <3> QED
      BY <2>1, <3>1, <3>3 DEF InStep
  <2>10. InStep'
    BY <1>1, <1>7, <2>4, <2>5, <2>6, <2>7, <2>8, <2>9 DEF InStep, Waits
  <2> QED
    BY <1>4, <1>5, <2>10 DEF Straight
<1> QED
  BY <1>6, <1>7

\* A message just typed is the last of the ledger and is still out.
LEMMA SendStraight ==
  ASSUME Telling, Taken, Straight, NEW m \in Messages, SendSteer(m)
  PROVE  Straight'
<1>1. /\ LiveTypeOK /\ Followed /\ current # 0 /\ current \in RunIds
      /\ UNCHANGED <<current, phase, queue, applied, stream>>
      /\ shown[m] = "unsent" /\ posts[m] = "none" /\ m \notin Range(ledger)
  BY CurrentRuns DEF SendSteer, Telling, thread, Followed
<1>2. /\ Len(ledger) \in Nat /\ Len(ledger') = Len(ledger) + 1 /\ ledger'[Len(ledger) + 1] = m
      /\ \A i \in 1..Len(ledger) : ledger'[i] = ledger[i]
      /\ Range(ledger') = Range(ledger) \cup {m}
      /\ \A i \in 1..Len(ledger) : ledger[i] \in Range(ledger) /\ ledger[i] \in Messages
  BY <1>1, Appended, Ranged DEF SendSteer, LiveTypeOK
<1>3. /\ shown'[m] = "sending" /\ posts'[m] = "out" /\ sentFor'[m] = current
      /\ \A n \in Messages \ {m} : shown'[n] = shown[n] /\ posts'[n] = posts[n] /\ sentFor'[n] = sentFor[n]
      /\ \A n \in Range(ledger) : n \in Messages \ {m}
  BY <1>1, EchoesCounted DEF SendSteer, LiveTypeOK
<1>4. \A i \in 1..Len(ledger') : i \in 1..Len(ledger) \/ (i = Len(ledger) + 1 /\ ledger'[i] = m)
  BY <1>2
<1>5. \A r \in RunIds : \A n \in Range(queue[r]) \cup applied[r] : n \in Messages \ {m}
  BY <1>1, QueueRanged DEF Taken
<1>6. \A n \in Messages \ {m} : Waits(n)' <=> Waits(n)
  BY <1>3 DEF Waits
<1>7. Waits(m)' /\ m \notin applied[current]
  BY <1>1, <1>3, <1>5 DEF Waits
<1>8. Direct'
  BY <1>1, <1>3, <1>5 DEF Straight, Direct
<1>9. InTurn'
  <2> SUFFICES ASSUME NEW i \in 1..Len(ledger'), NEW j \in 1..Len(ledger'), i < j, posts'[ledger'[j]] # "out"
               PROVE  posts'[ledger'[i]] \notin {"out", "refused"}
    BY DEF InTurn
  <2>1. i \in 1..Len(ledger) /\ j \in 1..Len(ledger)
    BY <1>2, <1>3, <1>4
  <2> QED
    BY <1>2, <1>3, <2>1 DEF Straight, InTurn
<1>10. Named'
  <2>1. \A n \in Messages : shown'[n] = "applied" => n # m /\ shown[n] = "applied"
    BY <1>3
  <2>2. \A n \in Messages : shown'[n] = "applied" => sentFor'[n] \in RunIds /\ n \in applied'[sentFor'[n]]
    BY <1>1, <1>3, <2>1 DEF Straight, Named
  <2>3. \A n \in Range(ledger') : posts'[n] = "out" => Waits(n)'
    BY <1>2, <1>3, <1>6, <1>7 DEF Straight, Named
  <2> QED
    BY <2>2, <2>3 DEF Named
<1>11. InStep'
  <2>0. InStep
    BY <1>1 DEF Straight
  <2>1. \A n \in Range(queue'[current']) : Waits(n)'
    BY <1>1, <1>5, <1>6, <2>0 DEF InStep
  <2>2. \A n \in applied'[current'] : Waits(n)' \/ shown'[n] = "applied"
    BY <1>1, <1>3, <1>5, <1>6, <2>0 DEF InStep
  <2>3. \A n \in Range(ledger') : Waits(n)' /\ posts'[n] \in {"ok", "over"} =>
          n \in applied'[current'] \/ n \in Range(queue'[current']) \/ phase'[current'] = "over"
    BY <1>1, <1>2, <1>3, <1>6, <2>0 DEF InStep
  <2>4. \A i, j \in 1..Len(ledger') :
          i < j /\ ledger'[j] \in applied'[current'] /\ Waits(ledger[i])' => ledger'[i] \in applied'[current']
    <3> SUFFICES ASSUME NEW i \in 1..Len(ledger'), NEW j \in 1..Len(ledger'),
                        i < j, ledger'[j] \in applied[current], Waits(ledger[i])'
                 PROVE  ledger'[i] \in applied[current]
      BY <1>1
    <3>1. j \in 1..Len(ledger) /\ i \in 1..Len(ledger)
      BY <1>2, <1>4, <1>7
    <3>2. Waits(ledger[i])
      BY <1>2, <1>3, <3>1 DEF Waits
    <3> QED
      BY <1>2, <2>0, <3>1, <3>2 DEF InStep
  <2>5. \A i, j \in 1..Len(ledger') : \A a, b \in 1..Len(queue'[current']) :
          i < j /\ ledger'[i] = queue'[current'][a] /\ ledger'[j] = queue'[current'][b] => a < b
    <3> SUFFICES ASSUME NEW i \in 1..Len(ledger'), NEW j \in 1..Len(ledger'),
                        NEW a \in 1..Len(queue[current]), NEW b \in 1..Len(queue[current]),
                        i < j, ledger'[i] = queue[current][a], ledger'[j] = queue[current][b]
                 PROVE  a < b
      BY <1>1
    <3>1. queue[current][b] # m
      <4>1. queue[current][b] \in Range(queue[current])
        BY <1>1, QueueRanged
      <4> QED
        BY <1>1, <1>5, <4>1
    <3>2. j \in 1..Len(ledger) /\ i \in 1..Len(ledger)
      BY <1>2, <1>4, <3>1
    <3> QED
      BY <1>2, <2>0, <3>2 DEF InStep
  <2>6. Unechoed' = Unechoed
    BY <1>1, <1>2, <1>3, <1>6, <1>7 DEF Unechoed
  <2>7. ToldSoFar' = ToldSoFar
    BY <1>1 DEF ToldSoFar
  <2> QED
    BY <1>1, <2>0, <2>1, <2>2, <2>3, <2>4, <2>5, <2>6, <2>7 DEF InStep
<1> QED
  BY <1>8, <1>9, <1>10, <1>11 DEF Straight

\* A message let through is queued by its own run only, behind those typed
\* before it.
LEMMA EnqueueStraight ==
  ASSUME Telling, Taken, Straight, NEW m \in Messages, Enqueued(m), ~strayed'
  PROVE  Straight'
<1>1. /\ LiveTypeOK /\ Followed /\ UNCHANGED <<current, stream, phase, applied, ledger, shown, sentFor>>
      /\ posts[m] = "out" /\ Earlier(m) = {} /\ Takers \ {sentFor[m]} = {}
      /\ posts'[m] = IF Takers # {} THEN "ok" ELSE "refused"
      /\ \A n \in Messages \ {m} : posts'[n] = posts[n]
  BY DEF Enqueued, Telling, LiveTypeOK
<1>2. /\ DOMAIN ledger = 1..Len(ledger) /\ Len(ledger) \in Nat
      /\ \A n : n \in Range(ledger) <=> \E k \in 1..Len(ledger) : ledger[k] = n
      /\ \A k \in 1..Len(ledger) : ledger[k] \in Messages
  <2>1. ledger \in Seq(Messages)
    BY <1>1 DEF LiveTypeOK
  <2> QED
    BY <2>1, Ranged
<1>3. \A r \in RunIds : \A n \in Range(queue[r]) \cup applied[r] : n \in Messages \ {m}
  BY <1>1, QueueRanged DEF Taken
<1>4. \A r \in RunIds : /\ Range(queue[r]) \subseteq Range(queue'[r])
                        /\ \A n \in Range(queue'[r]) : n \in Range(queue[r]) \/ (n = m /\ r \in Takers)
                        /\ r \in Takers => m \in Range(queue'[r])
  <2> SUFFICES ASSUME NEW r \in RunIds
               PROVE  /\ Range(queue[r]) \subseteq Range(queue'[r])
                      /\ \A n \in Range(queue'[r]) : n \in Range(queue[r]) \/ (n = m /\ r \in Takers)
                      /\ r \in Takers => m \in Range(queue'[r])
    OBVIOUS
  <2>1. CASE r \notin Takers /\ queue'[r] = queue[r]
    BY <2>1
  <2>2. CASE r \in Takers /\ Range(queue'[r]) = Range(queue[r]) \cup {m}
    BY <2>2
  <2> QED
    BY <1>1, <2>1, <2>2, EnqueueAdds
<1>5. \A r \in Takers : r = sentFor[m] /\ posts'[m] = "ok"
  BY <1>1
<1>6. Direct'
  <2> SUFFICES ASSUME NEW r \in RunIds, NEW n \in Range(queue'[r]) \cup applied[r]
               PROVE  sentFor[n] = r /\ posts'[n] \in {"ok", "over"}
    BY <1>1 DEF Direct
  <2>1. CASE n \in Range(queue[r]) \cup applied[r]
    BY <1>1, <1>3, <2>1 DEF Straight, Direct
  <2>2. CASE n = m /\ r \in Takers
    BY <1>5, <2>2
  <2> QED
    BY <1>4, <2>1, <2>2
<1>7. \A i, j \in 1..Len(ledger) : i < j /\ ledger[j] = m => posts[ledger[i]] \notin {"out", "refused"} /\ ledger[i] # m
  <2> SUFFICES ASSUME NEW i \in 1..Len(ledger), NEW j \in 1..Len(ledger), i < j, ledger[j] = m
               PROVE  posts[ledger[i]] \notin {"out", "refused"} /\ ledger[i] # m
    OBVIOUS
  <2>1. ledger[i] \notin Earlier(m)
    BY <1>1
  <2>2. posts[ledger[i]] \notin {"out", "refused"}
    BY <1>2, <2>1 DEF Earlier
  <2> QED
    BY <1>1, <2>2
<1>8. \A i, j \in 1..Len(ledger) : i < j /\ ledger[i] = m => posts[ledger[j]] = "out" /\ ledger[j] # m
  BY <1>1, <1>7 DEF Straight, InTurn
<1>9. InTurn'
  <2> SUFFICES ASSUME NEW i \in 1..Len(ledger), NEW j \in 1..Len(ledger), i < j, posts'[ledger[j]] # "out"
               PROVE  posts'[ledger[i]] \notin {"out", "refused"}
    BY <1>1 DEF InTurn
  <2>1. ledger[i] # m
    BY <1>1, <1>2, <1>8
  <2>2. posts'[ledger[i]] = posts[ledger[i]]
    BY <1>1, <1>2, <2>1
  <2>3. CASE ledger[j] = m
    BY <1>7, <2>2, <2>3
  <2>4. CASE ledger[j] # m
    BY <1>1, <1>2, <2>2, <2>4 DEF Straight, InTurn
  <2> QED
    BY <2>3, <2>4
<1>10. Named'
  <2>1. \A n \in Range(ledger') : posts'[n] = "out" => Waits(n)'
    BY <1>1, <1>2 DEF Straight, Named, Waits
  <2> QED
    BY <1>1, <2>1 DEF Straight, Named
<1>11. ASSUME current # 0 PROVE InStep'
  <2>0. InStep /\ current \in RunIds
    BY <1>1, <1>11, CurrentRuns DEF Straight
  <2>1. current \in Takers => m \in Range(ledger) /\ Waits(m)
    BY <1>1, <1>5, <1>11 DEF Straight, Named, Followed
  <2>2. \A n \in Range(queue'[current]) : Waits(n)
    BY <1>4, <2>0, <2>1 DEF InStep
  <2>3. \A n \in Range(ledger) : Waits(n) /\ posts'[n] \in {"ok", "over"} =>
          n \in applied[current] \/ n \in Range(queue'[current]) \/ phase[current] = "over"
    <3> SUFFICES ASSUME NEW n \in Range(ledger), Waits(n), posts'[n] \in {"ok", "over"}
                 PROVE  n \in applied[current] \/ n \in Range(queue'[current]) \/ phase[current] = "over"
      OBVIOUS
    <3>1. CASE n = m
      <4>1. PICK r \in Takers : TRUE
        BY <1>1, <3>1
      <4>2. sentFor[m] = current
        BY <1>1, <1>11, <3>1 DEF Followed
      <4> QED
        BY <1>4, <1>5, <2>0, <3>1, <4>1, <4>2
    <3>2. CASE n # m
      BY <1>1, <1>2, <1>4, <2>0, <3>2 DEF InStep
    <3> QED
      BY <3>1, <3>2
  <2>4. ASSUME NEW i \in 1..Len(ledger), NEW j \in 1..Len(ledger),
               NEW a \in 1..Len(queue'[current]), NEW b \in 1..Len(queue'[current]),
               i < j, ledger[i] = queue'[current][a], ledger[j] = queue'[current][b]
        PROVE  a < b
    <3>1. CASE queue'[current] = queue[current]
      BY <2>0, <2>4, <3>1 DEF InStep
    <3>2. CASE /\ Len(queue'[current]) = Len(queue[current]) + 1 /\ queue'[current][Len(queue[current]) + 1] = m
               /\ \A k \in 1..Len(queue[current]) : queue'[current][k] = queue[current][k]
      <4>1. /\ Len(queue[current]) \in Nat
            /\ \A k \in 1..Len(queue[current]) : queue[current][k] \in Range(queue[current])
        BY <1>1, <2>0, QueueRanged
      <4>2. a \in 1..Len(queue[current]) \/ a = Len(queue[current]) + 1
        BY <3>2, <4>1
      <4>3. b \in 1..Len(queue[current]) \/ b = Len(queue[current]) + 1
        BY <3>2, <4>1
      <4>4. ~(a = Len(queue[current]) + 1)
        <5> SUFFICES ASSUME ledger[i] = m PROVE FALSE
          BY <2>4, <3>2
        <5>1. posts[ledger[j]] = "out" /\ ledger[j] # m
          BY <1>8, <2>4
        <5>2. ledger[j] \in Range(queue[current])
          BY <2>4, <3>2, <4>1, <4>3, <5>1
        <5> QED
          BY <2>0, <5>1, <5>2 DEF Taken
      <4>5. CASE b = Len(queue[current]) + 1
        BY <4>1, <4>2, <4>4, <4>5
      <4>6. CASE b \in 1..Len(queue[current])
        BY <2>0, <2>4, <3>2, <4>2, <4>4, <4>6 DEF InStep
      <4> QED
        BY <4>3, <4>5, <4>6
    <3> QED
      BY <1>1, <2>0, <3>1, <3>2, EnqueueAdds
  <2>5. Unechoed' = Unechoed /\ ToldSoFar' = ToldSoFar
    BY <1>1 DEF Unechoed, Waits, ToldSoFar
  <2> QED
    BY <1>1, <2>0, <2>2, <2>3, <2>4, <2>5 DEF InStep, Waits
<1> QED
  BY <1>1, <1>6, <1>9, <1>10, <1>11 DEF Straight

\* An answer read, a refusal too, leaves what is queued and taken waiting.
LEMMA AnswerStraight ==
  ASSUME Telling, Taken, Straight, NEW m \in Messages, SteerAnswered(m)
  PROVE  Straight'
<1>1. /\ LiveTypeOK /\ UNCHANGED <<current, stream, phase, queue, applied, ledger, sentFor>>
      /\ posts[m] \in {"ok", "refused"} /\ posts'[m] = "over"
      /\ \A n \in Messages \ {m} : posts'[n] = posts[n] /\ shown'[n] = shown[n]
  BY DEF SteerAnswered, Marks, Telling, LiveTypeOK, thread
<1>2. posts[m] = "ok" => (Waits(m)' <=> Waits(m)) /\ (shown'[m] = "applied" <=> shown[m] = "applied")
  BY <1>1 DEF SteerAnswered, Marks, Waits, LiveTypeOK
<1>3. posts[m] = "refused" => (shown'[m] = shown[m] /\ m \notin Range(ledger)) \/ shown'[m] = "failed"
  BY <1>1 DEF SteerAnswered, Marks, LiveTypeOK
<1>4. \A n \in Messages : shown'[n] = "applied" => shown[n] = "applied"
  BY <1>1, <1>2, <1>3
<1>5. \A n \in Range(ledger) : n \in Messages /\ (Waits(n)' => Waits(n))
  BY <1>1, <1>2, <1>3, EchoesCounted DEF Waits
<1>6. \A r \in RunIds : \A n \in Range(queue[r]) \cup applied[r] :
        n \in Messages /\ (n = m => posts[m] = "ok") /\ posts'[n] \in {"ok", "over"}
  BY <1>1, QueueRanged DEF Straight, Direct
<1>7. \A r \in RunIds : \A n \in Range(queue[r]) \cup applied[r] :
        (Waits(n)' <=> Waits(n)) /\ (shown'[n] = "applied" <=> shown[n] = "applied")
  BY <1>1, <1>2, <1>6 DEF Waits
<1>8. Direct'
  BY <1>1, <1>6 DEF Straight, Direct
<1>9. InTurn'
  <2>1. \A i \in 1..Len(ledger) : ledger[i] \in Messages
    BY <1>1, Ranged DEF LiveTypeOK
  <2> QED
    BY <1>1, <2>1 DEF Straight, InTurn
<1>10. Named'
  <2>1. \A n \in Range(ledger) : posts'[n] = "out" => n # m /\ posts[n] = "out"
    BY <1>1, <1>5
  <2>2. \A n \in Range(ledger) : posts'[n] = "out" => Waits(n)'
    BY <1>1, <1>5, <2>1 DEF Straight, Named, Waits
  <2> QED
    BY <1>1, <1>4, <2>2 DEF Straight, Named
<1>11. ASSUME current # 0 PROVE InStep'
  <2>0. InStep /\ current \in RunIds
    BY <1>1, <1>11, CurrentRuns DEF Straight
  <2>1. \A n \in Range(queue[current]) : Waits(n)'
    BY <1>7, <2>0 DEF InStep
  <2>2. \A n \in applied[current] : Waits(n)' \/ shown'[n] = "applied"
    BY <1>7, <2>0 DEF InStep
  <2>3. \A n \in Range(ledger) : Waits(n)' /\ posts'[n] \in {"ok", "over"} =>
          n \in applied[current] \/ n \in Range(queue[current]) \/ phase[current] = "over"
    <3> SUFFICES ASSUME NEW n \in Range(ledger), Waits(n)', posts'[n] \in {"ok", "over"}
                 PROVE  n \in applied[current] \/ n \in Range(queue[current]) \/ phase[current] = "over"
      OBVIOUS
    <3>1. posts[n] \in {"ok", "over"}
      BY <1>1, <1>3, <1>5 DEF Waits
    <3> QED
      BY <1>5, <2>0, <3>1 DEF InStep
  <2>4. \A i, j \in 1..Len(ledger) :
          i < j /\ ledger[j] \in applied[current] /\ Waits(ledger[i])' => ledger[i] \in applied[current]
    <3>1. \A i \in 1..Len(ledger) : ledger[i] \in Range(ledger)
      BY <1>1, Ranged DEF LiveTypeOK
    <3>2. \A i \in 1..Len(ledger) : Waits(ledger[i])' => Waits(ledger[i])
      BY <1>1, <1>5, <3>1 DEF Waits
    <3> QED
      BY <2>0, <3>2 DEF InStep
  <2>5. Unechoed' = Unechoed /\ ToldSoFar' = ToldSoFar
    <3>1. \A n \in applied[current] : Waits(n)' <=> Waits(n)
      BY <1>7, <2>0
    <3> QED
      BY <1>1, <3>1 DEF Unechoed, ToldSoFar
  <2> QED
    BY <1>1, <2>0, <2>1, <2>2, <2>3, <2>4, <2>5 DEF InStep
<1> QED
  BY <1>1, <1>8, <1>9, <1>10, <1>11 DEF Straight

\* When the page lets go of a run, or takes a new one, nothing is under way.
LEMMA OverStraight == Telling /\ Straight /\ Over => Straight'
<1> SUFFICES ASSUME Telling, Straight, Over PROVE Straight'
  OBVIOUS
<1>1. /\ current' = 0 /\ ledger' = <<>> /\ Len(ledger') = 0 /\ Range(ledger') = {}
      /\ UNCHANGED <<queue, applied, posts, sentFor>>
  BY Emptied DEF Over, thread
<1>2. \A m \in Messages : shown'[m] = "applied" => shown[m] = "applied"
  BY DEF Over
<1>3. Direct' /\ InTurn' /\ Named'
  BY <1>1, <1>2 DEF Straight, Direct, InTurn, Named
<1> QED
  BY <1>1, <1>3 DEF Straight

\* A run starts with nothing typed, queued or taken.
LEMMA SubmitStraight ==
  ASSUME Telling, Taken, Straight, NEW r \in RunIds, Begins(r)
  PROVE  Straight'
<1>1. /\ current' = r /\ ledger' = <<>> /\ stream' = <<>> /\ queue'[r] = <<>> /\ applied'[r] = {}
      /\ UNCHANGED <<ledger, queue, applied, posts, shown, sentFor>>
  BY DEF Begins, Telling, Followed, Taken, steering
<1>2. /\ Len(ledger') = 0 /\ Range(ledger') = {} /\ Len(queue'[r]) = 0 /\ Range(queue'[r]) = {}
      /\ Len(stream') = 0
  BY <1>1, Emptied
<1>3. ToldSoFar' = 0 /\ Cardinality(Unechoed') = 0
  <2>1. Marked(stream') = {} /\ Unechoed' = {}
    BY <1>2 DEF Marked, Unechoed
  <2> QED
    BY <2>1, FS_EmptySet DEF ToldSoFar
<1>4. InStep'
  BY <1>1, <1>2, <1>3 DEF InStep
<1>5. Direct' /\ InTurn' /\ Named'
  BY <1>1 DEF Straight, Direct, InTurn, Named, Waits
<1> QED
  BY <1>4, <1>5 DEF Straight

\* A run that ends drops what it has queued.
LEMMA EndStraight ==
  ASSUME Telling, Taken, Straight, NEW r \in RunIds, Ends(r)
  PROVE  Straight'
<1>1. /\ LiveTypeOK /\ UNCHANGED <<current, applied, ledger, shown, posts, sentFor>>
      /\ queue'[r] = <<>> /\ Len(queue'[r]) = 0 /\ Range(queue'[r]) = {} /\ phase'[r] = "over"
      /\ \A s \in RunIds \ {r} : queue'[s] = queue[s] /\ phase'[s] = phase[s]
  BY Emptied DEF Ends, Telling, LiveTypeOK, steering
<1>2. ToldSoFar' = ToldSoFar
  <2>1. <<"end">> \in Events /\ ToldSoFar \in Nat
    BY <1>1, EchoesCounted DEF Events
  <2> QED
    BY <1>1, <2>1, ToldEmits, EventsDiffer DEF Ends
<1>3. Direct' /\ InTurn' /\ Named'
  BY <1>1 DEF Straight, Direct, InTurn, Named, Waits
<1>4. ASSUME current # 0 PROVE InStep'
  <2>1. InStep /\ current \in RunIds /\ Unechoed' = Unechoed
    BY <1>1, <1>4, CurrentRuns DEF Straight, Unechoed, Waits
  <2>2. CASE current = r
    BY <1>1, <1>2, <2>1, <2>2 DEF InStep, Waits
  <2>3. CASE current # r
    BY <1>1, <1>2, <2>1, <2>3 DEF InStep, Waits
  <2> QED
    BY <2>2, <2>3
<1> QED
  BY <1>1, <1>3, <1>4 DEF Straight

\* Every step keeps the order, as long as nothing strays.
LEMMA NextStraight ==
  ASSUME Telling, Taken, Waiting, WhileStraight, [LiveNext]_liveVars
  PROVE  WhileStraight'
<1> SUFFICES ASSUME ~strayed' PROVE Straight'
  BY DEF WhileStraight
<1> USE DEF liveVars, thread, steering, asking
<1>0. LiveTypeOK /\ LiveTypeOK' /\ ToldSoFar \in Nat /\ ToldSoFar' \in Nat
  <2>1. LiveTypeOK /\ LiveTypeOK'
    BY NextTyped DEF Telling
  <2>2. stream' \in Seq(Events)
    BY <2>1 DEF LiveTypeOK, Events
  <2> QED
    BY <2>1, <2>2, EchoesCounted, MarksCounted DEF ToldSoFar
<1>00. \A r \in RunIds : phase[r] = "over" => phase'[r] = "over"
  BY <1>0, NextWaiting
<1>1. ASSUME Straight, UNCHANGED <<current, ledger, shown, posts, sentFor, queue, applied>>, ToldSoFar' <= ToldSoFar
      PROVE  Straight'
  BY <1>0, <1>00, <1>1, BesideStraight
<1>2. ASSUME Straight, UNCHANGED <<current, ledger, shown, posts, sentFor, queue, applied, stream>>
      PROVE  Straight'
  BY <1>0, <1>1, <1>2 DEF ToldSoFar
<1>3. CASE Over
  BY <1>3, OverStraight DEF Over, WhileStraight
<1>4. CASE AppliedRead
  BY <1>4, EchoStraight DEF AppliedRead, WhileStraight
<1>5. CASE AskRead
  <2>1. ToldSoFar' <= ToldSoFar
    BY <1>0, <1>5, ToldReads DEF AskRead
  <2> QED
    BY <1>1, <1>5, <2>1 DEF AskRead, WhileStraight
<1>6. ASSUME NEW r \in RunIds, Begins(r) PROVE Straight'
  BY <1>6, SubmitStraight DEF Begins, WhileStraight
<1>7. ASSUME NEW r \in RunIds, Ends(r) PROVE Straight'
  BY <1>7, EndStraight DEF Ends, WhileStraight
<1>8. ASSUME NEW r \in RunIds, Polls(r) PROVE Straight'
  BY <1>8, PollStraight DEF Polls, WhileStraight
<1>9. ASSUME NEW r \in RunIds, NEW q \in Asked, RunAsks(r, q) PROVE Straight'
  <2>1. <<"ask", q>> \in Events /\ Emits(r, <<"ask", q>>)
    BY <1>9 DEF Events, RunAsks
  <2>2. ToldSoFar' <= ToldSoFar
    BY <1>0, <2>1, ToldEmits, EventsDiffer
  <2> QED
    BY <1>1, <1>9, <2>2 DEF RunAsks, WhileStraight
<1>10. ASSUME NEW m \in Messages, SendSteer(m) PROVE Straight'
  BY <1>10, SendStraight DEF SendSteer, WhileStraight
<1>11. ASSUME NEW m \in Messages, Enqueued(m) PROVE Straight'
  <2>1. Straight
    BY <1>11 DEF Enqueued, WhileStraight
  <2> QED
    BY <1>11, <2>1, EnqueueStraight
<1>12. ASSUME NEW m \in Messages, SteerAnswered(m) PROVE Straight'
  BY <1>12, AnswerStraight DEF SteerAnswered, WhileStraight
<1>13. ASSUME NEW m \in Messages, SteerLost(m) PROVE Straight'
  BY <1>13 DEF SteerLost
<1>14. ASSUME NEW r \in RunIds, Registers(r) PROVE Straight'
  BY <1>2, <1>14 DEF Registers, WhileStraight
<1>15. ASSUME NEW q \in Asked, Resolves(q) \/ AskSettled(q) \/ AskLost(q) \/ Awaited(q)
                                 \/ \E o \in Options : Clicks(q, o)
       PROVE  Straight'
  BY <1>2, <1>15 DEF Resolves, AskSettled, AskLost, Awaited, Clicks, WhileStraight
<1>16. CASE UNCHANGED liveVars
  BY <1>2, <1>16 DEF WhileStraight
<1> QED
  BY <1>3, <1>4, <1>5, <1>6, <1>7, <1>8, <1>9, <1>10, <1>11, <1>12, <1>13, <1>14, <1>15, <1>16
     DEF LiveNext, Abort, EndRead

\* At the start nothing is typed, taken or on its way.
LEMMA InitStraight == LiveInit => Telling /\ Taken /\ Waiting /\ Counted /\ WhileStraight
<1> SUFFICES ASSUME LiveInit PROVE Telling /\ Taken /\ Waiting /\ Counted /\ WhileStraight
  OBVIOUS
<1>1. Telling
  BY InitTyped, InitFollowed DEF Telling
<1>2. Taken /\ Waiting /\ Counted
  BY Emptied DEF LiveInit, Taken, Waiting, Free, Counted
<1>3. Straight
  BY Emptied DEF LiveInit, Straight, Direct, InTurn, Named
<1> QED
  BY <1>1, <1>2, <1>3 DEF WhileStraight

\* What the transcript marks as applied is what the run took, as long as no
\* request strays; and it never marks more than the run has taken.
THEOREM EchoesNamed == LiveSpec => []EchoNamesIt
<1> DEFINE IInv == Telling /\ Taken /\ Waiting /\ Counted /\ WhileStraight
<1>1. LiveInit => IInv
  BY InitStraight
<1>2. IInv /\ [LiveNext]_liveVars => IInv'
  <2>1. Telling /\ [LiveNext]_liveVars => Telling'
    BY NextTyped, NextFollowed DEF Telling
  <2>2. Telling => LiveTypeOK
    BY DEF Telling
  <2> QED
    BY <2>1, <2>2, NextTaken, NextWaiting, NextCounted, NextStraight
<1>3. IInv => EchoNamesIt
  <2> SUFFICES ASSUME IInv PROVE EchoNamesIt
    OBVIOUS
  <2>1. ~strayed => \A m \in Messages : shown[m] = "applied" => m \in applied[sentFor[m]]
    BY DEF WhileStraight, Straight, Named
  <2>2. current # 0 => Cardinality(Echoed) <= Cardinality(applied[current])
    <3> SUFFICES ASSUME current # 0 PROVE Cardinality(Echoed) <= Cardinality(applied[current])
      OBVIOUS
    <3>1. current \in RunIds /\ ToldSoFar \in Nat /\ Cardinality(Echoed) \in Nat
          /\ Cardinality(applied[current]) \in Nat
      BY CurrentRuns, EchoesCounted DEF Telling
    <3> QED
      BY <3>1 DEF Counted
  <2> QED
    BY <2>1, <2>2 DEF EchoNamesIt, Echoed
<1> QED
  BY <1>1, <1>2, <1>3, PTL DEF LiveSpec


-----------------------------------------------------------------------------
(* The draft store. *)

\* The members of T are in a strict total order.
InOrder(R, T) ==
  /\ \A a, b \in T : a # b => (<<a, b>> \in R <=> <<b, a>> \notin R)
  /\ \A a, b, c \in T : <<a, b>> \in R /\ <<b, c>> \in R => <<a, c>> \in R
  /\ \A a \in T : <<a, a>> \notin R

\* A finite set in order has a first member: the smallest subset without one
\* would have one less a member.
LEMMA First ==
  ASSUME NEW S, NEW R, IsFiniteSet(S), S # {}, InOrder(R, S)
  PROVE  \E a \in S : \A b \in S \ {a} : <<a, b>> \in R
<1> DEFINE Without == {T \in SUBSET S : T # {} /\ ~ \E a \in T : \A b \in T \ {a} : <<a, b>> \in R}
<1>1. Without = {}
  <2> SUFFICES ASSUME Without # {} PROVE FALSE
    OBVIOUS
  <2>1. IsWellFoundedOn(StrictSubsetOrdering(S), SUBSET S)
    BY FS_StrictSubsetOrderingWellFounded, FS_FiniteSubsetsOfFinite
  <2>2. PICK T \in Without : \A U \in Without : ~ (<<U, T>> \in StrictSubsetOrdering(S))
    <3>1. Without \subseteq SUBSET S
      OBVIOUS
    <3> HIDE DEF Without
    <3> QED
      BY <2>1, <3>1, WFMin
  <2>3. PICK z \in T : TRUE
    OBVIOUS
  <2>4. T \ {z} \notin Without
    <3> SUFFICES ASSUME T \ {z} \in Without PROVE FALSE
      OBVIOUS
    <3>1. T \ {z} \subseteq S /\ T \ {z} \subseteq T /\ T \ {z} # T /\ T \subseteq S
      BY <2>3
    <3>2. <<T \ {z}, T>> \in StrictSubsetOrdering(S)
      BY <3>1 DEF StrictSubsetOrdering
    <3> QED
      BY <2>2, <3>2
  <2>5. CASE T \ {z} = {}
    <3>1. \A y \in T : y = z
      BY <2>5
    <3> QED
      BY <2>3, <3>1
  <2>6. CASE \E a \in T \ {z} : \A b \in (T \ {z}) \ {a} : <<a, b>> \in R
    <3>1. PICK a \in T \ {z} : \A b \in (T \ {z}) \ {a} : <<a, b>> \in R
      BY <2>6
    <3>2. a \in S /\ z \in S /\ a # z /\ T \subseteq S
      BY <2>3
    <3>3. CASE <<a, z>> \in R
      BY <3>1, <3>3
    <3>4. CASE <<z, a>> \in R
      <4>1. \A b \in T \ {z} : <<z, b>> \in R
        <5>1. \A b \in (T \ {z}) \ {a} : b \in S /\ <<a, b>> \in R
          BY <3>1, <3>2
        <5> QED
          BY <3>2, <3>4, <5>1 DEF InOrder
      <4> QED
        BY <2>3, <4>1
    <3> QED
      BY <3>2, <3>3, <3>4 DEF InOrder
  <2> QED
    BY <2>4, <2>5, <2>6
<1> QED
  BY <1>1

\* How many members subsets and a set with one more have.
LEMMA Fewer ==
  ASSUME NEW A, NEW B, IsFiniteSet(A), B \subseteq A
  PROVE  /\ IsFiniteSet(B) /\ Cardinality(A) \in Nat /\ Cardinality(B) \in Nat
         /\ Cardinality(B) <= Cardinality(A) /\ (B # A => Cardinality(B) < Cardinality(A))
<1>1. IsFiniteSet(B) /\ Cardinality(B) <= Cardinality(A) /\ (Cardinality(A) = Cardinality(B) => A = B)
  BY FS_Subset
<1>2. Cardinality(A) \in Nat /\ Cardinality(B) \in Nat
  BY <1>1, FS_CardinalityType
<1> QED
  BY <1>1, <1>2

LEMMA OneMore ==
  ASSUME NEW A, NEW x, IsFiniteSet(A)
  PROVE  IsFiniteSet(A \cup {x}) /\ Cardinality(A \cup {x}) <= Cardinality(A) + 1
<1>1. /\ IsFiniteSet(A \cup {x})
      /\ Cardinality(A \cup {x}) = IF x \in A THEN Cardinality(A) ELSE Cardinality(A) + 1
  BY FS_AddElement
<1>2. Cardinality(A) \in Nat
  BY FS_CardinalityType
<1> QED
  BY <1>1, <1>2

Kept == drafts \in [Sessions -> Texts \cup {Blank}]

\* The store holds no more than MaxDrafts texts, in the order they were
\* touched.
Bounded ==
  /\ IsFiniteSet(Drafted(drafts)) /\ Cardinality(Drafted(drafts)) <= MaxDrafts
  /\ older \subseteq Drafted(drafts) \X Drafted(drafts)
  /\ InOrder(older, Drafted(drafts))

\* setDraft stores the text, and of the other entries it may drop some to make
\* room for it.
LEMMA SetDraftKeeps ==
  ASSUME Kept, NEW s \in Sessions, NEW text \in Texts \cup {Blank}
  PROVE  /\ SetDraft(s, text) \in [Sessions -> Texts \cup {Blank}]
         /\ SetDraft(s, text)[s] = text
         /\ \A a \in Sessions \ {s} : /\ SetDraft(s, text)[a] \in {drafts[a], Blank}
                                      /\ text = Blank => SetDraft(s, text)[a] = drafts[a]
<1> QED
  BY DEF SetDraft, Kept

\* setDraft keeps the store within its bound.
LEMMA SetsBounded ==
  ASSUME Kept, Bounded, NEW s \in Sessions, NEW text \in Texts \cup {Blank}, Sets(s, text)
  PROVE  Kept' /\ Bounded'
<1> DEFINE set == [drafts EXCEPT ![s] = text]
           others == Drafted(set) \ {s}
           oldest == {a \in others : \A b \in others \ {a} : <<a, b>> \in older}
           full == text # Blank /\ Cardinality(Drafted(set)) > MaxDrafts
           now == Drafted(drafts')
           rest == now \ {s}
<1>1. Kept' /\ drafts' = [a \in Sessions |-> IF full /\ a \in oldest THEN Blank ELSE set[a]]
  BY SetDraftKeeps DEF Sets, SetDraft, Kept
<1>2. MaxDrafts \in Nat \ {0}
  BY ConversationAssumption
<1>3. others \subseteq Drafted(drafts) /\ Drafted(set) \subseteq Drafted(drafts) \cup {s}
  BY DEF Drafted, Kept
<1>4. /\ IsFiniteSet(Drafted(drafts)) /\ IsFiniteSet(Drafted(set)) /\ IsFiniteSet(others)
      /\ Cardinality(Drafted(set)) \in Nat /\ Cardinality(Drafted(set)) <= MaxDrafts + 1
      /\ Drafted(set) \subseteq Drafted(drafts) => Cardinality(Drafted(set)) <= MaxDrafts
  <2> DEFINE old == Drafted(drafts)
             new == Drafted(set)
  <2>1. IsFiniteSet(old) /\ Cardinality(old) <= MaxDrafts /\ new \subseteq old \cup {s} /\ others \subseteq new
    BY <1>3 DEF Bounded
  <2> HIDE DEF old, new, set, others
  <2>2. IsFiniteSet(old \cup {s}) /\ Cardinality(old \cup {s}) <= Cardinality(old) + 1
    BY <2>1, OneMore
  <2>3. /\ IsFiniteSet(new) /\ Cardinality(new) \in Nat /\ Cardinality(old \cup {s}) \in Nat
        /\ Cardinality(new) <= Cardinality(old \cup {s})
    BY <2>1, <2>2, Fewer
  <2>4. new \subseteq old => Cardinality(new) <= Cardinality(old)
    BY <2>1, Fewer
  <2>5. Cardinality(old) \in Nat /\ IsFiniteSet(others)
    BY <2>1, <2>3, Fewer, FS_CardinalityType
  <2>6. Cardinality(new) <= MaxDrafts + 1 /\ (new \subseteq old => Cardinality(new) <= MaxDrafts)
    BY <1>2, <2>1, <2>2, <2>3, <2>4, <2>5
  <2> QED
    BY <2>1, <2>3, <2>5, <2>6 DEF old, new
<1>5. now = IF full THEN Drafted(set) \ oldest ELSE Drafted(set)
  BY <1>1 DEF Drafted, Kept
<1>6. IsFiniteSet(now) /\ Cardinality(now) <= MaxDrafts
  <2>1. CASE ~full
    <3>1. now = Drafted(set)
      BY <1>5, <2>1
    <3>2. text = Blank => Drafted(set) \subseteq Drafted(drafts)
      BY DEF Drafted, Kept
    <3>3. text # Blank => ~ (Cardinality(Drafted(set)) > MaxDrafts)
      BY <2>1
    <3> HIDE DEF set, now, full
    <3>4. Cardinality(Drafted(set)) <= MaxDrafts
      BY <1>2, <1>4, <3>2, <3>3
    <3> QED
      BY <1>4, <3>1, <3>4
  <2>2. CASE full
    <3>1. Cardinality(Drafted(set)) > MaxDrafts /\ now = Drafted(set) \ oldest
      BY <1>5, <2>2
    <3>2. others # {}
      <4> SUFFICES ASSUME others = {} PROVE FALSE
        OBVIOUS
      <4>1. Drafted(set) \subseteq {s}
        OBVIOUS
      <4> HIDE DEF set, full
      <4>2. IsFiniteSet({s}) /\ Cardinality({s}) = 1
        BY FS_Singleton
      <4>3. Cardinality(Drafted(set)) <= Cardinality({s})
        BY <4>1, <4>2, Fewer
      <4> QED
        BY <1>2, <1>4, <3>1, <4>2, <4>3
    <3>3. oldest # {} /\ oldest \subseteq Drafted(set)
      <4>1. InOrder(older, others)
        BY <1>3 DEF Bounded, InOrder
      <4> HIDE DEF others
      <4>2. PICK a \in others : \A b \in others \ {a} : <<a, b>> \in older
        BY <1>4, <3>2, <4>1, First
      <4> QED
        BY <4>2 DEF others
    <3> HIDE DEF set, now, oldest, full
    <3>4. now \subseteq Drafted(set) /\ now # Drafted(set)
      BY <3>1, <3>3
    <3>5. IsFiniteSet(now) /\ Cardinality(now) < Cardinality(Drafted(set)) /\ Cardinality(now) \in Nat
      BY <1>4, <3>4, Fewer
    <3> QED
      BY <1>2, <1>4, <3>5
  <2> QED
    BY <2>1, <2>2
<1>7. older' = (older \cap (rest \X rest)) \cup (rest \X (now \cap {s}))
  BY DEF Sets
<1>8. rest \subseteq Drafted(drafts)
  BY <1>3, <1>5
<1> HIDE DEF set, others, oldest, full, now
<1>9. older' \subseteq now \X now
  BY <1>7
<1>10. \A a, b \in now : <<a, b>> \in older' <=> \/ a # s /\ b # s /\ <<a, b>> \in older
                                                 \/ a # s /\ b = s
  BY <1>7
<1>11. InOrder(older', now)
  <2>1. InOrder(older, rest)
    BY <1>8 DEF Bounded, InOrder
  <2>2. ASSUME NEW a \in now, NEW b \in now, a # b PROVE <<a, b>> \in older' <=> <<b, a>> \notin older'
    <3>1. a # s /\ b # s => (<<a, b>> \in older <=> <<b, a>> \notin older)
      BY <2>1, <2>2 DEF InOrder
    <3> QED
      BY <1>10, <2>2, <3>1
  <2>3. \A a, b, c \in now : <<a, b>> \in older' /\ <<b, c>> \in older' => <<a, c>> \in older'
    BY <1>10, <2>1 DEF InOrder
  <2>4. \A a \in now : <<a, a>> \notin older'
    BY <1>10, <2>1 DEF InOrder
  <2> QED
    BY <2>2, <2>3, <2>4 DEF InOrder
<1> QED
  BY <1>1, <1>6, <1>9, <1>11 DEF Bounded, now

-----------------------------------------------------------------------------
(* The types. *)

\* The sorts of the variables, one conjunct for each part of the page.
OpenSorts == sessionId \in used /\ used \subseteq Sessions /\ acts \in 0..MaxActs
WordSorts ==
  /\ task \in Texts \cup {Blank} /\ timer \in BOOLEAN
  /\ words \subseteq Texts /\ hasty \in BOOLEAN
ScreenSorts == transcript \in Seq(Turns) /\ crossed \in BOOLEAN /\ run \in Runs \cup {NoRun}
SelectSorts ==
  /\ pins \in [Sessions -> Models \cup {Blank}] /\ default \in Models \cup {Blank}
  /\ options \subseteq Models \cup {Blank} /\ model \in Models \cup {Blank}
SlotSorts == pending \in [Slots -> Request \cup {Idle}]
ServerSorts == turns \in [Sessions -> Nat] /\ origin \in [Sessions -> Sessions]

Sorts == OpenSorts /\ WordSorts /\ ScreenSorts /\ SelectSorts /\ SlotSorts /\ ServerSorts
           /\ Kept /\ Bounded

\* What is not idle is a request.
LEMMA Slot ==
  ASSUME SlotSorts, NEW i \in Slots
  PROVE  /\ pending[i] # Idle => pending[i] \in Request /\ pending[i].kind \in Kinds
         /\ pending[i].kind # "idle" => pending[i] # Idle
         /\ pending[i].kind \in Kinds => pending[i] \in Request
<1>1. pending[i] \in Request \cup {Idle}
  BY DEF SlotSorts
<1>2. Idle.kind = "idle" /\ "idle" \notin Kinds
  BY DEF Idle, Kinds
<1> QED
  BY <1>1, <1>2 DEF Request

\* Outdated changes nothing but that every request is late.
LEMMA AllLate ==
  ASSUME NEW p \in [Slots -> Request \cup {Idle}]
  PROVE  /\ Outdated(p) \in [Slots -> Request \cup {Idle}]
         /\ \A i \in Slots : Outdated(p)[i] = Idle \/ (Outdated(p)[i] \in Request /\ Outdated(p)[i].late)
<1>1. ASSUME NEW i \in Slots
      PROVE  Outdated(p)[i] = Idle \/ (Outdated(p)[i] \in Request /\ Outdated(p)[i].late)
  <2>1. CASE p[i] = Idle
    BY <2>1 DEF Outdated
  <2>2. CASE p[i] # Idle
    <3>1. p[i] \in Request /\ Outdated(p)[i] = [p[i] EXCEPT !.late = TRUE]
      BY <2>2 DEF Outdated
    <3> QED
      BY <3>1 DEF Request
  <2> QED
    BY <2>1, <2>2
<1> QED
  BY <1>1 DEF Outdated

\* The draft store is only ever written by setDraft, for what is open.
LEMMA StoreWritten ==
  ASSUME Next, WordSorts
  PROVE  \/ UNCHANGED store
         \/ \E text \in Texts \cup {Blank} : Sets(sessionId, text)
<1> USE DEF WordSorts, Flush, store, composer, screen, select, server
<1>1. ASSUME NEW i \in Slots, HistoryLands(i) \/ ReplayGoesOn(i) \/ HistoryFails(i)
      PROVE  UNCHANGED store
  BY <1>1 DEF HistoryLands, ReplayGoesOn, HistoryFails, Chunk, Restore
<1>2. ASSUME NEW i \in Slots,
             Compacted(i) \/ Refused(i) \/ Copy(i) \/ Import(i) \/ Delete(i) \/ Compact(i)
      PROVE  UNCHANGED store
  BY <1>2 DEF Compacted, Refused, Copy, Import, Delete, Compact
<1>3. ASSUME NEW i \in Slots, NEW s \in Sessions, Copied(s, i) \/ Imported(s, i)
      PROVE  UNCHANGED store
  BY <1>3 DEF Copied, Imported, Adopt
<1>4. ASSUME NEW i \in Slots, NEW s \in Sessions, Deleted(s, i)
      PROVE  Sets(sessionId, Blank)
  BY <1>4 DEF Deleted
<1>5. ASSUME NEW s \in Sessions, NEW i \in Slots, Switch(s, i) \/ NewChat(s) \/ Reload(s)
      PROVE  Sets(sessionId, task)
  BY <1>5 DEF Switch, NewChat, Reload
<1>6. ASSUME NEW s \in Sessions, NewChat(s) \/ Reload(s)
      PROVE  Sets(sessionId, task)
  BY <1>6 DEF NewChat, Reload
<1>7. TimerFires => Sets(sessionId, task)
  BY DEF TimerFires
<1>8. Completes => Sets(sessionId, Blank)
  BY DEF Completes
<1>9. Told \/ Done \/ Breaks \/ Submit \/ ModelsFailed => UNCHANGED store
  BY DEF Told, Done, Breaks, Submit, ModelsFailed
<1>10. ASSUME NEW text, Type(text) \/ RunAgain(text) \/ Edit(text) PROVE UNCHANGED store
  BY <1>10 DEF Type, RunAgain, Edit
<1>11. ASSUME NEW m, PickModel(m) \/ OtherTab(m) \/ ModelsListed(m) PROVE UNCHANGED store
  BY <1>11 DEF PickModel, OtherTab, ModelsListed
<1> HIDE DEF Flush, store
<1> QED
  BY <1>1, <1>2, <1>3, <1>4, <1>5, <1>6, <1>7, <1>8, <1>9, <1>10, <1>11
     DEF Next, Happens, Acts, PickWorkspace

\* One step keeps the sorts of the store.
LEMMA StoreSorts ==
  ASSUME Sorts, [Next]_vars
  PROVE  Kept' /\ Bounded'
<1>1. CASE UNCHANGED store
  BY <1>1 DEF store, Sorts, Kept, Bounded, Drafted
<1>2. CASE \E text \in Texts \cup {Blank} : Sets(sessionId, text)
  BY <1>2, SetsBounded DEF Sorts, OpenSorts
<1>3. CASE UNCHANGED vars
  BY <1>1, <1>3 DEF vars, composer
<1> QED
  BY <1>1, <1>2, <1>3, StoreWritten DEF Sorts

\* It keeps those of the composer.
LEMMA WordStep ==
  ASSUME Sorts, [Next]_vars
  PROVE  WordSorts'
<1> USE DEF WordSorts, store, composer, screen, select, server
<1>0. WordSorts /\ Kept /\ sessionId \in Sessions /\ drafts[sessionId] \in Texts \cup {Blank}
  BY DEF Sorts, OpenSorts, Kept
<1>s. ASSUME Flush PROVE timer' \in BOOLEAN /\ words' \subseteq Texts /\ hasty' \in BOOLEAN
  <2>1. timer' \in BOOLEAN /\ words' \subseteq Texts
    BY <1>0, <1>s DEF Flush
  <2>2. hasty' \in BOOLEAN
    BY <1>s, Zenon DEF Flush
  <2> QED
    BY <2>1, <2>2
<1>r. ASSUME Restore PROVE WordSorts'
  BY <1>0, <1>r DEF Restore, DraftOf
<1>w. ASSUME NEW text \in Texts, Rewritten(text)
      PROVE  task' \in Texts /\ words' \subseteq Texts /\ hasty' \in BOOLEAN
  <2>1. task' \in Texts /\ words' \subseteq Texts
    BY <1>0, <1>w DEF Rewritten
  <2>2. hasty' \in BOOLEAN
    BY <1>w, Zenon DEF Rewritten
  <2> QED
    BY <2>1, <2>2
<1>1. ASSUME NEW i \in Slots, HistoryLands(i) \/ ReplayGoesOn(i) \/ HistoryFails(i)
      PROVE  WordSorts'
  <2>1. Restore \/ UNCHANGED composer
    BY <1>1 DEF HistoryLands, ReplayGoesOn, HistoryFails, Chunk
  <2> QED
    BY <1>0, <1>r, <2>1
<1>2. ASSUME NEW i \in Slots,
             Compacted(i) \/ Refused(i) \/ Copy(i) \/ Import(i) \/ Delete(i) \/ Compact(i)
      PROVE  WordSorts'
  BY <1>0, <1>2 DEF Compacted, Refused, Copy, Import, Delete, Compact
<1>3. ASSUME NEW i \in Slots, NEW s \in Sessions, Copied(s, i) \/ Imported(s, i)
      PROVE  WordSorts'
  BY <1>0, <1>3 DEF Copied, Imported, Adopt
<1>4. ASSUME NEW i \in Slots, NEW s \in Sessions, Deleted(s, i)
      PROVE  WordSorts'
  <2>1. task' \in Texts \cup {Blank} /\ timer' \in BOOLEAN /\ words' \subseteq Texts
    BY <1>0, <1>4 DEF Deleted
  <2>2. hasty' \in BOOLEAN
    BY <1>4, Zenon DEF Deleted
  <2> QED
    BY <2>1, <2>2
<1>5. ASSUME NEW s \in Sessions, NEW i \in Slots, Switch(s, i)
      PROVE  WordSorts'
  BY <1>0, <1>5, <1>s DEF Switch
<1>6. ASSUME NEW s \in Sessions, NewChat(s) \/ Reload(s)
      PROVE  WordSorts'
  BY <1>0, <1>6, <1>s DEF NewChat, Reload
<1>7. CASE TimerFires
  BY <1>0, <1>7, <1>s DEF TimerFires
<1>8. CASE Completes
  <2>1. task' \in Texts \cup {Blank} /\ timer' \in BOOLEAN /\ words' \subseteq Texts
    BY <1>0, <1>8 DEF Completes
  <2>2. hasty' \in BOOLEAN
    BY <1>8, Zenon DEF Completes
  <2> QED
    BY <2>1, <2>2
<1>9. CASE Told \/ Done \/ Breaks \/ ModelsFailed
  BY <1>0, <1>9 DEF Told, Done, Breaks, ModelsFailed
<1>10. CASE Submit
  <2>1. hasty' \in BOOLEAN
    BY <1>10, Zenon DEF Submit
  <2> QED
    BY <1>0, <1>10, <2>1 DEF Submit
<1>11. ASSUME NEW text \in Texts \cup {Blank}, Type(text) PROVE WordSorts'
  <2>1. hasty' \in BOOLEAN
    BY <1>11, Zenon DEF Type
  <2> QED
    BY <1>0, <1>11, <2>1 DEF Type
<1>12. ASSUME NEW text \in Texts, RunAgain(text) \/ Edit(text) PROVE WordSorts'
  <2>1. Rewritten(text) /\ timer' = timer
    BY <1>12 DEF RunAgain, Edit
  <2> QED
    BY <1>0, <1>w, <2>1
<1>13. ASSUME NEW m, PickModel(m) \/ OtherTab(m) \/ ModelsListed(m) PROVE WordSorts'
  BY <1>0, <1>13 DEF PickModel, OtherTab, ModelsListed
<1>14. CASE UNCHANGED vars
  BY <1>0, <1>14 DEF vars
<1> HIDE DEF WordSorts, store, composer, screen, select, server
<1> QED
  BY <1>1, <1>2, <1>3, <1>4, <1>5, <1>6, <1>7, <1>8, <1>9, <1>10, <1>11, <1>12, <1>13, <1>14
     DEF Next, Happens, Acts, PickWorkspace

\* A chunk's cards come after those on screen.
LEMMA MoreCards ==
  ASSUME NEW drawn \in Seq(Turns), NEW n \in Nat, NEW entry \in Turns
  PROVE  LET all == drawn \o [k \in 1..n |-> entry]
         IN  /\ all \in Seq(Turns) /\ Len(all) \in Nat /\ DOMAIN all = 1..Len(all)
             /\ \A k \in DOMAIN all : all[k] = entry \/ (k \in DOMAIN drawn /\ all[k] = drawn[k])
<1> DEFINE more == [k \in 1..n |-> entry]
           all == drawn \o more
<1>1. more \in Seq(Turns) /\ Len(more) = n /\ \A k \in 1..n : more[k] = entry
  OBVIOUS
<1> HIDE DEF more
<1>2. all \in Seq(Turns) /\ Len(all) = Len(drawn) + Len(more)
      /\ \A k \in 1..(Len(drawn) + Len(more)) : all[k] = IF k <= Len(drawn) THEN drawn[k] ELSE more[k - Len(drawn)]
  BY <1>1
<1>3. Len(all) \in Nat /\ DOMAIN all = 1..Len(all) /\ Len(drawn) \in Nat /\ DOMAIN drawn = 1..Len(drawn)
  BY <1>2
<1>4. ASSUME NEW k \in 1..Len(all) PROVE all[k] = entry \/ (k \in DOMAIN drawn /\ all[k] = drawn[k])
  <2>1. CASE k <= Len(drawn)
    BY <1>2, <1>3, <2>1
  <2>2. CASE k > Len(drawn)
    <3>1. k - Len(drawn) \in 1..n /\ all[k] = more[k - Len(drawn)]
      BY <1>1, <1>2, <1>3, <2>2
    <3> QED
      BY <1>1, <3>1
  <2> QED
    BY <1>3, <2>1, <2>2
<1> QED
  BY <1>2, <1>3, <1>4 DEF more

\* renderStats changes no card but a live one, and that one's state only.
LEMMA Settling ==
  ASSUME transcript \in Seq(Turns), NEW state \in {"held", "struck"}, Settle(state)
  PROVE  /\ transcript' \in Seq(Turns) /\ Len(transcript') = Len(transcript)
         /\ \A k \in DOMAIN transcript : transcript'[k].of = transcript[k].of
         /\ LiveTurns' = {}
<1> DEFINE m == Len(transcript)
<1>1. m \in Nat /\ DOMAIN transcript = 1..m /\ \A k \in 1..m : transcript[k] \in Turns
  OBVIOUS
<1>2. DOMAIN transcript' = 1..m /\ \A k \in 1..m :
        transcript'[k] = IF transcript[k].state = "live" THEN [transcript[k] EXCEPT !.state = state]
                                                         ELSE transcript[k]
  BY <1>1 DEF Settle, LiveTurns
<1> HIDE DEF m
<1>3. \A k \in 1..m : /\ transcript'[k] \in Turns /\ transcript'[k].of = transcript[k].of
                      /\ transcript'[k].state # "live"
  BY <1>1, <1>2 DEF Turns
<1>4. transcript' = [k \in 1..m |-> transcript'[k]]
  BY <1>1 DEF Settle, LiveTurns
<1>5. transcript' \in Seq(Turns) /\ Len(transcript') = m
  BY <1>1, <1>3, <1>4
<1> QED
  BY <1>1, <1>2, <1>3, <1>5 DEF LiveTurns, m

\* Cards and runs have their sorts.
LEMMA CardSort ==
  ASSUME ServerSorts, NEW s \in Sessions, NEW state \in {"live", "held", "struck"}
  PROVE  Card(s, state) \in Turns
BY DEF Card, Turns, ServerSorts

\* The step keeps the sorts of the screen.
LEMMA ScreenStep ==
  ASSUME Sorts, [Next]_vars
  PROVE  ScreenSorts'
<1> USE DEF ScreenSorts, store, composer, screen, select, server
<1>0. ScreenSorts /\ ServerSorts /\ SlotSorts /\ sessionId \in Sessions /\ <<>> \in Seq(Turns) /\ task \in Texts \cup {Blank}
  BY DEF Sorts, OpenSorts, WordSorts
<1>c. ASSUME NEW i \in Slots, NEW drawn \in Seq(Turns), NEW p \in Request, NEW n \in Nat, Chunk(i, drawn, p, n)
      PROVE  transcript' \in Seq(Turns) /\ crossed' \in BOOLEAN
  <2>1. Card(p.of, "held") \in Turns
    BY <1>0, CardSort DEF Request
  <2>2. transcript' \in Seq(Turns)
    <3> DEFINE entry == Card(p.of, "held")
    <3>1. transcript' = drawn \o [k \in 1..n |-> entry] /\ entry \in Turns
      BY <1>c, <2>1 DEF Chunk
    <3> HIDE DEF entry
    <3>2. drawn \o [k \in 1..n |-> entry] \in Seq(Turns)
      BY <3>1, MoreCards
    <3> QED
      BY <3>1, <3>2
  <2>3. crossed' \in BOOLEAN
    BY <1>c, Zenon DEF Chunk
  <2> QED
    BY <2>2, <2>3
<1>1. ASSUME NEW i \in Slots, HistoryLands(i) PROVE ScreenSorts'
  <2> DEFINE p == [pending[i] EXCEPT !.kind = IF @ = "history" THEN "replay" ELSE "redraw",
                                     !.left = turns[pending[i].of]]
  <2>1. pending[i] \in Request
    BY <1>0, <1>1, Slot DEF HistoryLands, Kinds
  <2>2. p \in Request /\ p.left \in Nat
    BY <1>0, <2>1 DEF Request, Kinds, ServerSorts
  <2>3. run' = run /\ \E n \in 0..p.left : Chunk(i, <<>>, p, n)
    BY <1>1 DEF HistoryLands
  <2> HIDE DEF p
  <2>4. PICK n \in 0..p.left : Chunk(i, <<>>, p, n)
    BY <2>3
  <2>5. transcript' \in Seq(Turns) /\ crossed' \in BOOLEAN
    <3>1. n \in Nat
      BY <2>2
    <3> QED
      BY <1>0, <1>c, <2>2, <2>4, <3>1
  <2>6. run' \in Runs \cup {NoRun}
    BY <1>0, <2>3
  <2> QED
    BY <2>5, <2>6, Zenon
<1>2. ASSUME NEW i \in Slots, ReplayGoesOn(i) PROVE ScreenSorts'
  <2>1. pending[i] \in Request /\ pending[i].left \in Nat
    BY <1>0, <1>2, Slot DEF ReplayGoesOn, Kinds, Request
  <2>2. run' = run /\ \E n \in 1..pending[i].left : Chunk(i, transcript, pending[i], n)
    BY <1>2 DEF ReplayGoesOn
  <2>3. PICK n \in 1..pending[i].left : Chunk(i, transcript, pending[i], n)
    BY <2>2
  <2>4. n \in Nat /\ transcript \in Seq(Turns)
    BY <1>0, <2>1
  <2>5. transcript' \in Seq(Turns) /\ crossed' \in BOOLEAN
    BY <1>c, <2>1, <2>3, <2>4
  <2>6. run' \in Runs \cup {NoRun}
    BY <1>0, <2>2
  <2> QED
    BY <2>5, <2>6, Zenon
<1>3. ASSUME NEW i \in Slots,
             HistoryFails(i) \/ Refused(i) \/ Copy(i) \/ Import(i) \/ Delete(i) \/ Compact(i)
      PROVE  ScreenSorts'
  BY <1>0, <1>3 DEF HistoryFails, Refused, Copy, Import, Delete, Compact
<1>4. ASSUME NEW i \in Slots, Compacted(i) PROVE ScreenSorts'
  <2>1. crossed' \in BOOLEAN
    BY <1>4, Zenon DEF Compacted
  <2> QED
    BY <1>0, <1>4, <2>1 DEF Compacted
<1>5. ASSUME NEW i \in Slots, NEW s \in Sessions, Copied(s, i) PROVE ScreenSorts'
  <2>1. crossed' \in BOOLEAN
    BY <1>5, Zenon DEF Copied
  <2> QED
    BY <1>0, <1>5, <2>1 DEF Copied, Adopt
<1>6. ASSUME NEW i \in Slots, NEW s \in Sessions, Imported(s, i) PROVE ScreenSorts'
  BY <1>0, <1>6 DEF Imported, Adopt
<1>7. ASSUME NEW i \in Slots, NEW s \in Sessions, Deleted(s, i) PROVE ScreenSorts'
  <2>1. crossed' \in BOOLEAN
    BY <1>7, Zenon DEF Deleted
  <2> QED
    BY <1>0, <1>7, <2>1 DEF Deleted
<1>8. ASSUME NEW s \in Sessions, NEW i \in Slots, Switch(s, i) PROVE ScreenSorts'
  BY <1>0, <1>8 DEF Switch
<1>9. ASSUME NEW s \in Sessions, NewChat(s) \/ Reload(s) PROVE ScreenSorts'
  BY <1>0, <1>9 DEF NewChat, Reload
<1>10. ASSUME NEW text \in Texts, Starts(text) PROVE ScreenSorts'
  <2>1. Card(sessionId, "live") \in Turns
    BY <1>0, CardSort
  <2>2. Append(transcript, Card(sessionId, "live")) \in Seq(Turns)
    BY <1>0, <2>1
  <2>3. run' \in Runs
    BY <1>0, <1>10 DEF Starts, Runs
  <2> QED
    BY <1>0, <1>10, <2>2, <2>3 DEF Starts
<1>11. Submit => ScreenSorts'
  BY <1>0, <1>10 DEF Submit
<1>12. ASSUME NEW text \in Texts, RunAgain(text) PROVE ScreenSorts'
  BY <1>10, <1>12 DEF RunAgain
<1>13. ASSUME NEW text, Type(text) \/ Edit(text) PROVE ScreenSorts'
  BY <1>0, <1>13 DEF Type, Edit
<1>14. CASE Told
  BY <1>0, <1>14 DEF Told, busy, Runs
<1>15. CASE Done
  <2>1. run' \in Runs /\ transcript' \in Seq(Turns)
    BY <1>0, <1>15, Settling DEF Done, busy, Runs
  <2> QED
    BY <1>0, <1>15, <2>1 DEF Done
<1>16. CASE Breaks
  <2>1. transcript' \in Seq(Turns)
    BY <1>0, <1>16, Settling DEF Breaks
  <2> QED
    BY <1>0, <1>16, <2>1 DEF Breaks
<1>17. CASE TimerFires \/ Completes \/ ModelsFailed
  BY <1>0, <1>17 DEF TimerFires, Completes, ModelsFailed
<1>18. ASSUME NEW m, PickModel(m) \/ OtherTab(m) \/ ModelsListed(m) PROVE ScreenSorts'
  BY <1>0, <1>18 DEF PickModel, OtherTab, ModelsListed
<1>19. CASE UNCHANGED vars
  BY <1>0, <1>19 DEF vars
<1> HIDE DEF ScreenSorts, store, composer, screen, select, server
<1> QED
  BY <1>1, <1>2, <1>3, <1>4, <1>5, <1>6, <1>7, <1>8, <1>9, <1>11, <1>12, <1>13, <1>14, <1>15, <1>16,
     <1>17, <1>18, <1>19
     DEF Next, Happens, Acts, PickWorkspace

\* It keeps those of the requests.
LEMMA SlotStep ==
  ASSUME Sorts, [Next]_vars
  PROVE  SlotSorts'
<1> USE DEF SlotSorts, store, composer, screen, select, server
<1>0. ScreenSorts /\ ServerSorts /\ SlotSorts /\ sessionId \in Sessions
  BY DEF Sorts, OpenSorts
<1>p. ASSUME NEW i \in Slots, NEW x \in Request \cup {Idle}, pending' = [pending EXCEPT ![i] = x]
      PROVE  SlotSorts'
  BY <1>0, <1>p
<1>q. ASSUME NEW i \in Slots, NEW x \in Request \cup {Idle}, pending' = [Outdated(pending) EXCEPT ![i] = x]
      PROVE  SlotSorts'
  <2>1. Outdated(pending) \in [Slots -> Request \cup {Idle}]
    BY <1>0, AllLate
  <2> QED
    BY <1>q, <2>1
<1>o. ASSUME pending' = Outdated(pending) PROVE SlotSorts'
  BY <1>0, <1>o, AllLate
<1>a. ASSUME NEW i \in Slots, pending' = Outdated([pending EXCEPT ![i] = Idle])
      PROVE  SlotSorts'
  <2>1. [pending EXCEPT ![i] = Idle] \in [Slots -> Request \cup {Idle}]
    BY <1>0
  <2> QED
    BY <1>a, <2>1, AllLate
<1>c. ASSUME NEW i \in Slots, NEW drawn, NEW p \in Request, NEW n \in Nat, n <= p.left, Chunk(i, drawn, p, n)
      PROVE  SlotSorts'
  <2>1. [p EXCEPT !.left = @ - n] \in Request
    BY <1>c DEF Request
  <2>2. \/ pending' = [pending EXCEPT ![i] = [p EXCEPT !.left = @ - n]]
        \/ pending' = [pending EXCEPT ![i] = Idle]
    BY <1>c DEF Chunk
  <2> QED
    BY <1>p, <2>1, <2>2
<1>1. ASSUME NEW i \in Slots, HistoryLands(i) PROVE SlotSorts'
  <2> DEFINE p == [pending[i] EXCEPT !.kind = IF @ = "history" THEN "replay" ELSE "redraw",
                                     !.left = turns[pending[i].of]]
  <2>1. pending[i] \in Request
    BY <1>0, <1>1, Slot DEF HistoryLands, Kinds
  <2>2. p \in Request /\ p.left \in Nat
    BY <1>0, <2>1 DEF Request, Kinds, ServerSorts
  <2>3. \E n \in 0..p.left : Chunk(i, <<>>, p, n)
    BY <1>1 DEF HistoryLands
  <2> HIDE DEF p
  <2>4. PICK n \in 0..p.left : Chunk(i, <<>>, p, n)
    BY <2>3
  <2>5. n \in Nat /\ n <= p.left
    BY <2>2
  <2> QED
    BY <1>c, <2>2, <2>4, <2>5
<1>2. ASSUME NEW i \in Slots, ReplayGoesOn(i) PROVE SlotSorts'
  <2>1. pending[i] \in Request /\ pending[i].left \in Nat
    BY <1>0, <1>2, Slot DEF ReplayGoesOn, Kinds, Request
  <2>2. PICK n \in 1..pending[i].left : Chunk(i, transcript, pending[i], n)
    BY <1>2 DEF ReplayGoesOn
  <2>3. n \in Nat /\ n <= pending[i].left
    BY <2>1
  <2> QED
    BY <1>c, <2>1, <2>2, <2>3
<1>3. ASSUME NEW i \in Slots, HistoryFails(i) \/ Refused(i) PROVE SlotSorts'
  BY <1>p, <1>3 DEF HistoryFails, Refused
<1>k. ASSUME NEW i \in Slots, NEW kind \in Kinds, Asks(i, kind, sessionId) PROVE SlotSorts'
  <2> DEFINE x == [kind |-> kind, of |-> sessionId, left |-> 0, late |-> FALSE]
  <2>1. x \in Request /\ pending' = [pending EXCEPT ![i] = x]
    BY <1>0, <1>k DEF Asks, Request
  <2> HIDE DEF x
  <2> QED
    BY <1>p, <2>1
<1>4. ASSUME NEW i \in Slots, Copy(i) \/ Import(i) \/ Delete(i) \/ Compact(i) PROVE SlotSorts'
  <2>1. \/ Asks(i, "copy", sessionId) \/ Asks(i, "import", sessionId)
        \/ Asks(i, "delete", sessionId) \/ Asks(i, "compact", sessionId)
    BY <1>4 DEF Copy, Import, Delete, Compact
  <2>2. {"copy", "import", "delete", "compact"} \subseteq Kinds
    BY DEF Kinds
  <2> QED
    BY <1>k, <2>1, <2>2
<1>5. ASSUME NEW i \in Slots, Compacted(i) PROVE SlotSorts'
  <2>1. pending[i] \in Request
    BY <1>0, <1>5, Slot DEF Compacted, Kinds
  <2>2. [pending[i] EXCEPT !.kind = "reload", !.of = sessionId] \in Request
    BY <1>0, <2>1 DEF Request, Kinds
  <2> DEFINE x == [pending[i] EXCEPT !.kind = "reload", !.of = sessionId]
  <2>3. pending' = [pending EXCEPT ![i] = x]
    BY <1>0, <1>5 DEF Compacted
  <2> HIDE DEF x
  <2> QED
    BY <1>p, <2>2, <2>3 DEF x
<1>6. ASSUME NEW i \in Slots, NEW s \in Sessions, Copied(s, i) \/ Imported(s, i) \/ Deleted(s, i) PROVE SlotSorts'
  BY <1>a, <1>6 DEF Copied, Imported, Adopt, Deleted
<1>7. ASSUME NEW s \in Sessions, NEW i \in Slots, Switch(s, i) PROVE SlotSorts'
  <2> DEFINE x == [kind |-> "history", of |-> s, left |-> 0, late |-> FALSE]
  <2>1. x \in Request /\ pending' = [Outdated(pending) EXCEPT ![i] = x]
    BY <1>7 DEF Switch, Request, Kinds
  <2> HIDE DEF x
  <2> QED
    BY <1>q, <2>1
<1>8. ASSUME NEW s \in Sessions, NewChat(s) PROVE SlotSorts'
  BY <1>o, <1>8 DEF NewChat
<1>9. ASSUME NEW s \in Sessions, Reload(s) PROVE SlotSorts'
  BY <1>9 DEF Reload
<1>10. ASSUME NEW text, Starts(text) PROVE SlotSorts'
  BY <1>o, <1>10 DEF Starts
<1>11. ASSUME NEW text, Submit \/ RunAgain(text) PROVE SlotSorts'
  BY <1>10, <1>11 DEF Submit, RunAgain
<1>12. ASSUME NEW text, Type(text) \/ Edit(text) PROVE SlotSorts'
  BY <1>0, <1>12 DEF Type, Edit
<1>13. CASE TimerFires \/ Completes \/ Told \/ Done \/ Breaks \/ ModelsFailed
  BY <1>0, <1>13 DEF TimerFires, Completes, Told, Done, Breaks, ModelsFailed
<1>14. ASSUME NEW m, PickModel(m) \/ OtherTab(m) \/ ModelsListed(m) PROVE SlotSorts'
  BY <1>0, <1>14 DEF PickModel, OtherTab, ModelsListed
<1>15. CASE UNCHANGED vars
  BY <1>0, <1>15 DEF vars
<1> HIDE DEF SlotSorts, store, composer, screen, select, server
<1> QED
  BY <1>1, <1>2, <1>3, <1>4, <1>5, <1>6, <1>7, <1>8, <1>9, <1>11, <1>12, <1>13, <1>14, <1>15
     DEF Next, Happens, Acts, PickWorkspace

\* It keeps those of what is open, of the model select and of the server.
LEMMA OtherStep ==
  ASSUME Sorts, [Next]_vars
  PROVE  OpenSorts' /\ SelectSorts' /\ ServerSorts'
<1> USE DEF OpenSorts, SelectSorts, ServerSorts, store, composer, screen, select, server
<1> DEFINE Goal == sessionId' \in used' /\ used' \subseteq Sessions /\ SelectSorts' /\ ServerSorts'
<1>0. OpenSorts /\ SelectSorts /\ ServerSorts /\ ScreenSorts /\ SlotSorts /\ ConfigModel \in Models
  BY ConversationAssumption DEF Sorts
<1>e. ASSUME NEW s \in Sessions, NEW p \in [Sessions -> Models \cup {Blank}], Apply(p, s)
      PROVE  model' \in Models \cup {Blank}
  BY <1>0, <1>e DEF Apply, Effective
<1>1. ASSUME NEW i \in Slots, HistoryLands(i) \/ ReplayGoesOn(i) \/ HistoryFails(i) \/ Refused(i)
      PROVE  Goal
  BY <1>0, <1>1 DEF HistoryLands, ReplayGoesOn, HistoryFails, Refused
<1>2. ASSUME NEW i \in Slots, Copy(i) \/ Import(i) \/ Delete(i) \/ Compact(i) PROVE Goal
  BY <1>0, <1>2 DEF Copy, Import, Delete, Compact
<1>3. ASSUME NEW i \in Slots, Compacted(i) PROVE Goal
  <2>1. pending[i] \in Request /\ pending[i].of \in Sessions
    BY <1>0, <1>3, Slot DEF Compacted, Kinds, Request
  <2> QED
    BY <1>0, <1>3, <2>1 DEF Compacted
<1>4. ASSUME NEW i \in Slots, NEW s \in Sessions, Copied(s, i) PROVE Goal
  <2>1. pending[i] \in Request /\ pending[i].of \in Sessions
    BY <1>0, <1>4, Slot DEF Copied, Kinds, Request
  <2> QED
    BY <1>0, <1>4, <2>1 DEF Copied, Adopt
<1>5. ASSUME NEW i \in Slots, NEW s \in Sessions, Imported(s, i) PROVE Goal
  BY <1>0, <1>5 DEF Imported, Adopt
<1>6. ASSUME NEW i \in Slots, NEW s \in Sessions, Deleted(s, i) PROVE Goal
  <2>1. pins' \in [Sessions -> Models \cup {Blank}]
    BY <1>0, <1>6 DEF Deleted, SetPref
  <2>2. model' \in Models \cup {Blank}
    BY <1>e, <1>6, <2>1 DEF Deleted
  <2> QED
    BY <1>0, <1>6, <2>1, <2>2 DEF Deleted
<1>7. ASSUME NEW s \in used, NEW i \in Slots, Switch(s, i) PROVE Goal
  <2>1. model' \in Models \cup {Blank}
    BY <1>0, <1>e, <1>7 DEF Switch
  <2> QED
    BY <1>0, <1>7, <2>1 DEF Switch
<1>8. ASSUME NEW s \in Sessions, NewChat(s) PROVE Goal
  <2>1. model' \in Models \cup {Blank}
    BY <1>0, <1>e, <1>8 DEF NewChat
  <2> QED
    BY <1>0, <1>8, <2>1 DEF NewChat
<1>9. ASSUME NEW s \in Sessions, Reload(s) PROVE Goal
  BY <1>0, <1>9 DEF Reload
<1>10. ASSUME NEW text, Starts(text) PROVE Goal
  <2>1. CASE pins' = pins
    BY <1>0, <1>10, <2>1 DEF Starts
  <2>2. CASE SetPref(sessionId, model)
    <3>1. pins' \in [Sessions -> Models \cup {Blank}]
      BY <1>0, <2>2 DEF SetPref
    <3> QED
      BY <1>0, <1>10, <3>1 DEF Starts
  <2> QED
    BY <1>10, <2>1, <2>2 DEF Starts, PinFirstTurn
<1>11. ASSUME NEW text, Submit \/ RunAgain(text) PROVE Goal
  BY <1>10, <1>11 DEF Submit, RunAgain
<1>12. ASSUME NEW text, Type(text) \/ Edit(text) PROVE Goal
  BY <1>0, <1>12 DEF Type, Edit
<1>13. TimerFires \/ Completes \/ Told \/ Breaks \/ ModelsFailed => Goal
  BY <1>0 DEF TimerFires, Completes, Told, Breaks, ModelsFailed
<1>14. Done => Goal
  BY <1>0 DEF Done, ScreenSorts, busy, Runs
<1>15. ASSUME NEW m \in Models, PickModel(m) \/ OtherTab(m) PROVE Goal
  BY <1>0, <1>15 DEF PickModel, OtherTab, SetPref
<1>16. ASSUME NEW list \in (SUBSET Models) \ {{}}, ModelsListed(list) PROVE Goal
  BY <1>0, <1>16 DEF ModelsListed
<1>17. UNCHANGED vars => Goal /\ acts' = acts
  BY <1>0 DEF vars
<1>18. Next => acts' \in 0..MaxActs
  BY <1>0, ConversationAssumption DEF Next
<1>19. Next => Goal
  <2> HIDE DEF Goal, OpenSorts, SelectSorts, ServerSorts, store, composer, screen, select, server
  <2> QED
    BY <1>1, <1>2, <1>3, <1>4, <1>5, <1>6, <1>7, <1>8, <1>9, <1>11, <1>12, <1>13, <1>14, <1>15, <1>16
       DEF Next, Happens, Acts, PickWorkspace
<1> QED
  BY <1>0, <1>17, <1>18, <1>19

LEMMA SortsStep == Sorts /\ [Next]_vars => Sorts'
BY StoreSorts, WordStep, ScreenStep, SlotStep, OtherStep DEF Sorts

LEMMA SortsInit == Init => Sorts
<1> SUFFICES ASSUME Init PROVE Sorts
  OBVIOUS
<1>1. OpenSorts
  BY ConversationAssumption DEF Init, OpenSorts, Drafted, Listed
<1>2. WordSorts
  <2>1. task \in Texts \cup {Blank} /\ words \subseteq Texts
    BY ConversationAssumption DEF Init, Drafted
  <2>2. timer \in BOOLEAN /\ hasty \in BOOLEAN
    BY Zenon DEF Init
  <2> QED
    BY <2>1, <2>2 DEF WordSorts
<1>3. ScreenSorts
  <2>1. transcript \in Seq(Turns) /\ run \in Runs \cup {NoRun}
    BY DEF Init
  <2>2. crossed \in BOOLEAN
    BY Zenon DEF Init
  <2> QED
    BY <2>1, <2>2 DEF ScreenSorts
<1>4. SelectSorts
  BY DEF Init, SelectSorts
<1>5. SlotSorts /\ ServerSorts
  BY ConversationAssumption DEF Init, SlotSorts, ServerSorts
<1>6. Kept
  BY ConversationAssumption DEF Init, Kept
<1>7. Bounded
  <2>1. drafts = Stored /\ older = StoredOlder
    BY DEF Init
  <2>2. Drafted(drafts) = {s \in Sessions : Stored[s] # Blank}
    BY <2>1 DEF Drafted
  <2> QED
    BY <2>1, <2>2, ConversationAssumption DEF Bounded, InOrder
<1> QED
  BY <1>1, <1>2, <1>3, <1>4, <1>5, <1>6, <1>7 DEF Sorts

-----------------------------------------------------------------------------
(* The model each conversation is pinned to. *)

\* It takes no more than the sorts: whatever opens a conversation, builds the
\* list or pins a model looks the pin up in the list.
LEMMA PinStep ==
  ASSUME Sorts, PinHonoured, [Next]_vars
  PROVE  PinHonoured'
<1> USE DEF PinHonoured, Effective, store, composer, screen, select, server
<1>0. OpenSorts /\ SelectSorts /\ sessionId \in Sessions
  BY DEF Sorts, OpenSorts
<1>u. ASSUME UNCHANGED <<sessionId, pins, options, model>> PROVE PinHonoured'
  BY <1>u
<1>e. ASSUME NEW s \in Sessions, Apply(pins', s), sessionId' = s, UNCHANGED options
      PROVE  PinHonoured'
  BY <1>e DEF Apply
<1>1. ASSUME NEW i \in Slots, HistoryLands(i) \/ ReplayGoesOn(i) \/ HistoryFails(i) \/ Refused(i)
      PROVE  UNCHANGED <<sessionId, pins, options, model>>
  BY <1>1 DEF HistoryLands, ReplayGoesOn, HistoryFails, Refused
<1>2. ASSUME NEW i \in Slots, Copy(i) \/ Import(i) \/ Delete(i) \/ Compact(i) \/ Compacted(i)
      PROVE  UNCHANGED <<sessionId, pins, options, model>>
  BY <1>2 DEF Copy, Import, Delete, Compact, Compacted
<1>3. ASSUME NEW i \in Slots, NEW s \in Sessions, Adopt(s, i) PROVE PinHonoured'
  BY <1>0, <1>3 DEF Adopt, SelectSorts, OpenSorts
<1>4. ASSUME NEW i \in Slots, NEW s \in Sessions, Copied(s, i) \/ Imported(s, i) PROVE PinHonoured'
  BY <1>3, <1>4 DEF Copied, Imported
<1>5. ASSUME NEW i \in Slots, NEW s \in Sessions, Deleted(s, i) PROVE PinHonoured'
  BY <1>e, <1>5 DEF Deleted
<1>6. ASSUME NEW i \in Slots, NEW s \in Sessions, Switch(s, i) PROVE PinHonoured'
  BY <1>e, <1>6 DEF Switch
<1>7. ASSUME NEW s \in Sessions, NewChat(s) PROVE PinHonoured'
  BY <1>e, <1>7 DEF NewChat
<1>8. ASSUME NEW s \in Sessions, Reload(s) PROVE PinHonoured'
  BY <1>8 DEF Reload
<1>9. ASSUME NEW text, Starts(text) PROVE PinHonoured'
  BY <1>0, <1>9 DEF Starts, PinFirstTurn, SetPref, SelectSorts
<1>10. ASSUME NEW text, Submit \/ RunAgain(text) PROVE PinHonoured'
  BY <1>9, <1>10 DEF Submit, RunAgain
<1>11. ASSUME NEW text, Type(text) \/ Edit(text) PROVE UNCHANGED <<sessionId, pins, options, model>>
  BY <1>11 DEF Type, Edit
<1>12. TimerFires \/ Completes \/ Told \/ Done \/ Breaks => UNCHANGED <<sessionId, pins, options, model>>
  BY DEF TimerFires, Completes, Told, Done, Breaks
<1>13. ModelsFailed => PinHonoured'
  BY DEF ModelsFailed
<1>14. ASSUME NEW m, PickModel(m) PROVE PinHonoured'
  BY <1>0, <1>14 DEF PickModel, SetPref, SelectSorts
<1>15. ASSUME NEW m, OtherTab(m) PROVE UNCHANGED <<sessionId, pins, options, model>>
  BY <1>15 DEF OtherTab
<1>16. ASSUME NEW list, ModelsListed(list) PROVE PinHonoured'
  BY <1>16 DEF ModelsListed
<1>17. CASE UNCHANGED vars
  BY <1>17 DEF vars
<1> HIDE DEF PinHonoured, Effective, store, composer, screen, select, server
<1> QED
  BY <1>u, <1>1, <1>2, <1>4, <1>5, <1>6, <1>7, <1>8, <1>10, <1>11, <1>12, <1>13, <1>14, <1>15, <1>16, <1>17
     DEF Next, Happens, Acts, PickWorkspace

-----------------------------------------------------------------------------
(* Requests of the open conversation, and ids nobody has used. *)

\* An answer that is not late is about the open conversation; while a run is in
\* flight it can only be of a copy, a deletion or an import.
AskedOf ==
  \A i \in Slots : pending[i] # Idle /\ ~pending[i].late =>
    /\ pending[i].of = sessionId
    /\ busy => pending[i].kind \in {"copy", "delete", "import"}

\* An id that was not given out has no draft.
Fresh == \A s \in Sessions \ used : drafts[s] = Blank

LEMMA FreshStep ==
  ASSUME Sorts, Fresh, [Next]_vars
  PROVE  Fresh'
<1>0. OpenSorts /\ WordSorts /\ SlotSorts /\ Kept
  BY DEF Sorts
<1>1. used \subseteq used'
  <2> USE DEF OpenSorts, store, composer, screen, select, server
  <2>1. ASSUME NEW i \in Slots, HistoryLands(i) \/ ReplayGoesOn(i) \/ HistoryFails(i) \/ Refused(i)
        PROVE  used' = used
    BY <2>1 DEF HistoryLands, ReplayGoesOn, HistoryFails, Refused
  <2>2. ASSUME NEW i \in Slots, Copy(i) \/ Import(i) \/ Delete(i) \/ Compact(i) \/ Compacted(i)
        PROVE  used' = used
    BY <2>2 DEF Copy, Import, Delete, Compact, Compacted
  <2>3. ASSUME NEW i \in Slots, NEW s \in Sessions, Copied(s, i) \/ Imported(s, i) \/ Deleted(s, i)
        PROVE  used' = used \cup {s}
    BY <2>3 DEF Copied, Imported, Adopt, Deleted
  <2>4. ASSUME NEW i \in Slots, NEW s, Switch(s, i) PROVE used' = used
    BY <2>4 DEF Switch
  <2>5. ASSUME NEW s \in Sessions, NewChat(s) \/ Reload(s) PROVE used' = used \cup {s}
    BY <2>5 DEF NewChat, Reload
  <2>6. TimerFires \/ Completes \/ Told \/ Done \/ Breaks \/ ModelsFailed \/ Submit => used' = used
    BY DEF TimerFires, Completes, Told, Done, Breaks, ModelsFailed, Submit, Starts
  <2>7. ASSUME NEW text, Type(text) \/ Edit(text) \/ RunAgain(text) PROVE used' = used
    BY <2>7 DEF Type, Edit, RunAgain, Starts
  <2>8. ASSUME NEW m, PickModel(m) \/ OtherTab(m) \/ ModelsListed(m) PROVE used' = used
    BY <2>8 DEF PickModel, OtherTab, ModelsListed
  <2>9. CASE UNCHANGED vars
    BY <2>9 DEF vars
  <2> HIDE DEF OpenSorts, store, composer, screen, select, server
  <2> QED
    BY <2>1, <2>2, <2>3, <2>4, <2>5, <2>6, <2>7, <2>8, <2>9 DEF Next, Happens, Acts, PickWorkspace
<1>2. CASE UNCHANGED store
  BY <1>1, <1>2 DEF Fresh, store
<1>3. ASSUME NEW text \in Texts \cup {Blank}, Sets(sessionId, text) PROVE Fresh'
  <2>1. sessionId \in used /\ sessionId \in Sessions
    BY <1>0 DEF OpenSorts
  <2>2. \A a \in Sessions \ {sessionId} : drafts'[a] \in {drafts[a], Blank}
    BY <1>0, <1>3, <2>1, SetDraftKeeps DEF Sets
  <2> QED
    BY <1>1, <2>1, <2>2 DEF Fresh
<1>4. CASE UNCHANGED vars
  BY <1>2, <1>4 DEF vars, composer
<1> QED
  BY <1>0, <1>2, <1>3, <1>4, StoreWritten

LEMMA AskedStep ==
  ASSUME Sorts, AskedOf, [Next]_vars
  PROVE  AskedOf'
<1> USE DEF store, composer, screen, select, server
<1>0. ScreenSorts /\ ServerSorts /\ SlotSorts /\ sessionId \in Sessions
  BY DEF Sorts, OpenSorts
<1>z. Idle.kind = "idle"
  BY DEF Idle
<1>b. ASSUME UNCHANGED <<sessionId, pending>>, busy' => busy PROVE AskedOf'
  BY <1>b DEF AskedOf
<1>p. ASSUME NEW i \in Slots, NEW x, pending' = [pending EXCEPT ![i] = x], UNCHANGED <<sessionId, run>>,
             x # Idle /\ ~x.late => x.of = sessionId /\ (busy => x.kind \in {"copy", "delete", "import"})
      PROVE  AskedOf'
  <2>1. \A j \in Slots : pending'[j] = IF j = i THEN x ELSE pending[j]
    BY <1>0, <1>p DEF SlotSorts
  <2> QED
    BY <1>p, <2>1 DEF AskedOf, busy
<1>o. ASSUME NEW p \in [Slots -> Request \cup {Idle}], pending' = Outdated(p)
      PROVE  AskedOf'
  BY <1>o, AllLate DEF AskedOf
<1>c. ASSUME NEW i \in Slots, NEW drawn, NEW p \in Request, NEW n, Chunk(i, drawn, p, n),
             UNCHANGED <<sessionId, run>>, ~p.late => p.of = sessionId /\ ~busy
      PROVE  AskedOf'
  <2> DEFINE x == [p EXCEPT !.left = @ - n]
  <2>1. x.of = p.of /\ x.late = p.late
    BY DEF Request
  <2>2. pending' = [pending EXCEPT ![i] = x] \/ pending' = [pending EXCEPT ![i] = Idle]
    BY <1>c DEF Chunk
  <2> HIDE DEF x
  <2> QED
    BY <1>c, <1>p, <2>1, <2>2
<1>1. ASSUME NEW i \in Slots, HistoryLands(i) PROVE AskedOf'
  <2> DEFINE p == [pending[i] EXCEPT !.kind = IF @ = "history" THEN "replay" ELSE "redraw",
                                     !.left = turns[pending[i].of]]
  <2>1. pending[i] \in Request /\ pending[i] # Idle /\ pending[i].kind \in {"history", "reload"}
    BY <1>0, <1>1, <1>z, Slot DEF HistoryLands, Kinds
  <2>2. p \in Request /\ p.of = pending[i].of /\ p.late = pending[i].late
    BY <1>0, <2>1 DEF Request, Kinds, ServerSorts
  <2>3. UNCHANGED <<sessionId, run>> /\ \E n \in 0..p.left : Chunk(i, <<>>, p, n)
    BY <1>1 DEF HistoryLands
  <2>4. ~p.late => p.of = sessionId /\ ~busy
    BY <2>1, <2>2 DEF AskedOf
  <2> HIDE DEF p
  <2> QED
    BY <1>c, <2>2, <2>3, <2>4
<1>2. ASSUME NEW i \in Slots, ReplayGoesOn(i) PROVE AskedOf'
  <2>1. pending[i] \in Request /\ pending[i] # Idle /\ pending[i].kind \in {"replay", "redraw"}
    BY <1>0, <1>2, <1>z, Slot DEF ReplayGoesOn, Kinds
  <2>2. UNCHANGED <<sessionId, run>> /\ \E n \in 1..pending[i].left : Chunk(i, transcript, pending[i], n)
    BY <1>2 DEF ReplayGoesOn
  <2>3. ~pending[i].late => pending[i].of = sessionId /\ ~busy
    BY <2>1 DEF AskedOf
  <2> QED
    BY <1>c, <2>1, <2>2, <2>3
<1>3. ASSUME NEW i \in Slots, HistoryFails(i) \/ Refused(i) PROVE AskedOf'
  <2>1. pending' = [pending EXCEPT ![i] = Idle] /\ UNCHANGED <<sessionId, run>>
    BY <1>3 DEF HistoryFails, Refused
  <2> QED
    BY <1>p, <2>1
<1>k. ASSUME NEW i \in Slots, NEW kind, Asks(i, kind, sessionId), UNCHANGED <<sessionId, run>>,
             busy => kind \in {"copy", "delete", "import"}
      PROVE  AskedOf'
  <2> DEFINE x == [kind |-> kind, of |-> sessionId, left |-> 0, late |-> FALSE]
  <2>1. x.kind = kind /\ x.of = sessionId /\ pending' = [pending EXCEPT ![i] = x]
    BY <1>k DEF Asks
  <2> HIDE DEF x
  <2> QED
    BY <1>k, <1>p, <2>1
<1>4. ASSUME NEW i \in Slots, Copy(i) \/ Import(i) \/ Delete(i) \/ Compact(i) PROVE AskedOf'
  <2>1. /\ UNCHANGED <<sessionId, run>>
        /\ \/ \E kind \in {"copy", "delete", "import"} : Asks(i, kind, sessionId)
           \/ ~busy /\ Asks(i, "compact", sessionId)
    BY <1>4 DEF Copy, Import, Delete, Compact
  <2> QED
    BY <1>k, <2>1
<1>5. ASSUME NEW i \in Slots, Compacted(i) PROVE AskedOf'
  <2> DEFINE x == [pending[i] EXCEPT !.kind = "reload", !.of = sessionId]
  <2>1. pending[i] \in Request /\ pending[i] # Idle /\ pending[i].kind = "compact"
    BY <1>0, <1>5, <1>z, Slot DEF Compacted, Kinds
  <2>2. x.of = sessionId /\ x.late = pending[i].late
    BY <2>1 DEF Request
  <2>3. pending' = [pending EXCEPT ![i] = x] /\ UNCHANGED <<sessionId, run>>
    BY <1>0, <1>5 DEF Compacted
  <2>4. ~pending[i].late => ~busy
    BY <2>1 DEF AskedOf
  <2> HIDE DEF x
  <2> QED
    BY <1>p, <2>2, <2>3, <2>4
<1>6. ASSUME NEW i \in Slots, NEW s \in Sessions, Copied(s, i) \/ Imported(s, i) \/ Deleted(s, i)
      PROVE  AskedOf'
  <2>1. pending' = Outdated([pending EXCEPT ![i] = Idle])
    BY <1>6 DEF Copied, Imported, Adopt, Deleted
  <2>2. [pending EXCEPT ![i] = Idle] \in [Slots -> Request \cup {Idle}]
    BY <1>0 DEF SlotSorts
  <2> QED
    BY <1>o, <2>1, <2>2
<1>7. ASSUME NEW s \in Sessions, NEW i \in Slots, Switch(s, i) PROVE AskedOf'
  <2> DEFINE x == [kind |-> "history", of |-> s, left |-> 0, late |-> FALSE]
  <2>1. pending' = [Outdated(pending) EXCEPT ![i] = x] /\ sessionId' = s /\ ~busy /\ run' = run /\ x.of = s
    BY <1>7 DEF Switch
  <2> HIDE DEF x
  <2>2. /\ Outdated(pending) \in [Slots -> Request \cup {Idle}]
        /\ \A j \in Slots : Outdated(pending)[j] = Idle \/ Outdated(pending)[j].late
    BY <1>0, AllLate DEF SlotSorts
  <2>3. \A j \in Slots : pending'[j] = IF j = i THEN x ELSE Outdated(pending)[j]
    BY <2>1, <2>2
  <2> QED
    BY <2>1, <2>2, <2>3 DEF AskedOf, busy
<1>8. ASSUME NEW s \in Sessions, NewChat(s) PROVE AskedOf'
  BY <1>0, <1>o, <1>8 DEF NewChat, SlotSorts
<1>9. ASSUME NEW s \in Sessions, Reload(s) PROVE AskedOf'
  BY <1>9 DEF Reload, AskedOf
<1>10. ASSUME NEW text, Submit \/ RunAgain(text) PROVE AskedOf'
  <2>1. pending' = Outdated(pending)
    BY <1>10 DEF Submit, RunAgain, Starts
  <2> QED
    BY <1>0, <1>o, <2>1 DEF SlotSorts
<1>11. ASSUME NEW text, Type(text) \/ Edit(text) PROVE AskedOf'
  BY <1>b, <1>11 DEF Type, Edit, busy
<1>12. TimerFires \/ Completes \/ Told \/ Done \/ Breaks \/ ModelsFailed => AskedOf'
  <2>1. TimerFires \/ Completes \/ Told \/ Done \/ Breaks \/ ModelsFailed
          => UNCHANGED <<sessionId, pending>> /\ (busy' => busy)
    BY DEF TimerFires, Completes, Told, Done, Breaks, ModelsFailed, busy
  <2> QED
    BY <1>b, <2>1
<1>13. ASSUME NEW m, PickModel(m) \/ OtherTab(m) \/ ModelsListed(m) PROVE AskedOf'
  BY <1>b, <1>13 DEF PickModel, OtherTab, ModelsListed, busy
<1>14. CASE UNCHANGED vars
  BY <1>b, <1>14 DEF vars, busy
<1> HIDE DEF store, composer, screen, select, server
<1> QED
  BY <1>1, <1>2, <1>3, <1>4, <1>5, <1>6, <1>7, <1>8, <1>9, <1>10, <1>11, <1>12, <1>13, <1>14
     DEF Next, Happens, Acts, PickWorkspace

-----------------------------------------------------------------------------
(* The screen. *)

\* The cards are the open conversation's, a run in flight is its own, and a
\* card is live exactly while the run has not said that it is done.
OnScreen ==
  ~crossed => /\ \A k \in DOMAIN transcript : transcript[k].of = origin[sessionId]
              /\ busy => run.session = sessionId
              /\ LiveTurns = IF busy /\ ~run.done THEN {Len(transcript)} ELSE {}

LEMMA OnScreenStep ==
  ASSUME Sorts, AskedOf, OnScreen, [Next]_vars
  PROVE  OnScreen'
<1> USE DEF store, composer, screen, select, server
<1>0. ScreenSorts /\ ServerSorts /\ SlotSorts /\ sessionId \in Sessions
  BY DEF Sorts, OpenSorts
<1>z. Idle.kind = "idle"
  BY DEF Idle
<1>u. ASSUME UNCHANGED <<screen, run, sessionId, origin>> PROVE OnScreen'
  BY <1>u DEF OnScreen, LiveTurns, busy
<1>e. ASSUME transcript' = <<>>, ~crossed' => ~busy' PROVE OnScreen'
  BY <1>e DEF OnScreen, LiveTurns
<1>c. ASSUME NEW i \in Slots, NEW drawn \in Seq(Turns), NEW p \in Request, NEW n \in Nat,
             Chunk(i, drawn, p, n), UNCHANGED <<sessionId, run, origin>>,
             ~p.late => p.of = sessionId /\ ~busy,
             ~crossed /\ ~busy => \A k \in DOMAIN drawn : /\ drawn[k].of = origin[sessionId]
                                                        /\ drawn[k].state # "live"
      PROVE  OnScreen'
  <2> SUFFICES ASSUME ~crossed' PROVE OnScreen'
    BY DEF OnScreen
  <2> DEFINE entry == Card(p.of, "held")
  <2>1. ~crossed /\ ~p.late
    BY <1>c DEF Chunk
  <2>2. entry \in Turns /\ entry.of = origin[sessionId] /\ entry.state = "held"
    BY <1>0, <1>c, <2>1, CardSort DEF Request, Card
  <2>3. transcript' = drawn \o [k \in 1..n |-> entry]
    BY <1>c DEF Chunk
  <2> HIDE DEF entry
  <2>4. \A k \in DOMAIN transcript' :
          transcript'[k] = entry \/ (k \in DOMAIN drawn /\ transcript'[k] = drawn[k])
    BY <2>2, <2>3, MoreCards
  <2>5. \A k \in DOMAIN transcript' : transcript'[k].of = origin[sessionId] /\ transcript'[k].state # "live"
    BY <1>c, <2>1, <2>2, <2>4
  <2> QED
    BY <1>c, <2>1, <2>5 DEF OnScreen, LiveTurns, busy
<1>1. ASSUME NEW i \in Slots, HistoryLands(i) PROVE OnScreen'
  <2> DEFINE p == [pending[i] EXCEPT !.kind = IF @ = "history" THEN "replay" ELSE "redraw",
                                     !.left = turns[pending[i].of]]
  <2>1. pending[i] \in Request /\ pending[i] # Idle /\ pending[i].kind \in {"history", "reload"}
    BY <1>0, <1>1, <1>z, Slot DEF HistoryLands, Kinds
  <2>2. p \in Request /\ p.of = pending[i].of /\ p.late = pending[i].late /\ p.left \in Nat
    BY <1>0, <2>1 DEF Request, Kinds, ServerSorts
  <2>3. UNCHANGED <<sessionId, run, origin>> /\ \E n \in 0..p.left : Chunk(i, <<>>, p, n)
    BY <1>1 DEF HistoryLands
  <2>4. ~p.late => p.of = sessionId /\ ~busy
    BY <2>1, <2>2 DEF AskedOf
  <2> HIDE DEF p
  <2>5. PICK n \in 0..p.left : Chunk(i, <<>>, p, n)
    BY <2>3
  <2>6. n \in Nat /\ <<>> \in Seq(Turns) /\ DOMAIN <<>> = {}
    BY <2>2
  <2> QED
    BY <1>c, <2>2, <2>3, <2>4, <2>5, <2>6
<1>2. ASSUME NEW i \in Slots, ReplayGoesOn(i) PROVE OnScreen'
  <2>1. /\ pending[i] \in Request /\ pending[i] # Idle /\ pending[i].kind \in {"replay", "redraw"}
        /\ pending[i].left \in Nat
    BY <1>0, <1>2, <1>z, Slot DEF ReplayGoesOn, Kinds, Request
  <2>2. UNCHANGED <<sessionId, run, origin>>
    BY <1>2 DEF ReplayGoesOn
  <2>3. ~pending[i].late => pending[i].of = sessionId /\ ~busy
    BY <2>1 DEF AskedOf
  <2>4. PICK n \in 1..pending[i].left : Chunk(i, transcript, pending[i], n)
    BY <1>2 DEF ReplayGoesOn
  <2>5. n \in Nat /\ transcript \in Seq(Turns)
    BY <1>0, <2>1 DEF ScreenSorts
  <2>6. ~crossed /\ ~busy => \A k \in DOMAIN transcript : /\ transcript[k].of = origin[sessionId]
                                                       /\ transcript[k].state # "live"
    BY DEF OnScreen, LiveTurns
  <2> QED
    BY <1>c, <2>1, <2>2, <2>3, <2>4, <2>5, <2>6
<1>3. ASSUME NEW i \in Slots,
             HistoryFails(i) \/ Refused(i) \/ Copy(i) \/ Import(i) \/ Delete(i) \/ Compact(i)
      PROVE  OnScreen'
  BY <1>u, <1>3 DEF HistoryFails, Refused, Copy, Import, Delete, Compact
<1>4. ASSUME NEW i \in Slots, Compacted(i) PROVE OnScreen'
  <2>1. pending[i] # Idle /\ pending[i].kind = "compact"
    BY <1>4, <1>z DEF Compacted
  <2>2. transcript' = <<>> /\ run' = run /\ (~crossed' => ~pending[i].late)
    BY <1>4 DEF Compacted
  <2> QED
    BY <1>e, <2>1, <2>2 DEF AskedOf, busy
<1>5. ASSUME NEW i \in Slots, NEW s \in Sessions, Copied(s, i) PROVE OnScreen'
  <2> SUFFICES ASSUME ~crossed' PROVE OnScreen'
    BY DEF OnScreen
  <2>1. pending[i] # Idle
    BY <1>5, <1>z DEF Copied
  <2>2. ~crossed /\ ~pending[i].late /\ ~busy
    BY <1>5 DEF Copied
  <2>3. pending[i].of = sessionId
    BY <2>1, <2>2 DEF AskedOf
  <2>4. /\ UNCHANGED <<transcript, run>> /\ sessionId' = s
        /\ origin' = [origin EXCEPT ![s] = origin[pending[i].of]]
    BY <1>5 DEF Copied, Adopt
  <2>5. origin'[sessionId'] = origin[sessionId]
    BY <1>0, <2>3, <2>4 DEF ServerSorts
  <2> QED
    BY <2>2, <2>4, <2>5 DEF OnScreen, LiveTurns, busy
<1>6. ASSUME NEW i \in Slots, NEW s \in Sessions, Imported(s, i) PROVE OnScreen'
  BY <1>6 DEF Imported, OnScreen
<1>7. ASSUME NEW i \in Slots, NEW s \in Sessions, Deleted(s, i) PROVE OnScreen'
  BY <1>e, <1>7 DEF Deleted, busy
<1>8. ASSUME NEW s \in Sessions, NEW i \in Slots, Switch(s, i) PROVE OnScreen'
  BY <1>e, <1>8 DEF Switch, busy
<1>9. ASSUME NEW s \in Sessions, NewChat(s) \/ Reload(s) PROVE OnScreen'
  BY <1>e, <1>9 DEF NewChat, Reload, busy
<1>10. ASSUME NEW text, Starts(text) PROVE OnScreen'
  <2> SUFFICES ASSUME ~crossed' PROVE OnScreen'
    BY DEF OnScreen
  <2> DEFINE entry == Card(sessionId, "live")
             m == Len(transcript)
  <2>1. entry \in Turns /\ entry.of = origin[sessionId] /\ entry.state = "live"
    BY <1>0, CardSort DEF Card
  <2>2. transcript' = Append(transcript, entry) /\ UNCHANGED <<sessionId, origin>> /\ ~busy /\ ~crossed
    BY <1>10 DEF Starts
  <2>3. run'.session = sessionId /\ run'.done = FALSE
    BY <1>10 DEF Starts
  <2>4. m \in Nat /\ DOMAIN transcript = 1..m
    BY <1>0 DEF ScreenSorts
  <2>5. \A k \in 1..m : transcript[k].of = origin[sessionId] /\ transcript[k].state # "live"
    BY <2>2, <2>4 DEF OnScreen, LiveTurns
  <2> HIDE DEF entry, m
  <2>6. /\ DOMAIN transcript' = 1..(m + 1) /\ Len(transcript') = m + 1 /\ transcript'[m + 1] = entry
        /\ \A k \in 1..m : transcript'[k] = transcript[k]
    BY <1>0, <2>2, <2>4 DEF ScreenSorts, m
  <2>7. LiveTurns' = {m + 1}
    BY <2>1, <2>4, <2>5, <2>6 DEF LiveTurns
  <2>8. \A k \in 1..(m + 1) : transcript'[k].of = origin[sessionId]
    BY <2>1, <2>4, <2>5, <2>6
  <2>9. busy' /\ ~run'.done
    BY <1>0, <1>10, <2>3 DEF Starts, busy, NoRun
  <2> QED
    BY <2>2, <2>3, <2>6, <2>7, <2>8, <2>9 DEF OnScreen
<1>11. ASSUME NEW text, Submit \/ RunAgain(text) PROVE OnScreen'
  BY <1>10, <1>11 DEF Submit, RunAgain
<1>12. ASSUME NEW text, Type(text) \/ Edit(text) PROVE OnScreen'
  BY <1>u, <1>12 DEF Type, Edit
<1>13. CASE Told
  <2>1. run \in Runs /\ run'.done = run.done /\ run'.session = run.session /\ busy' /\ busy
    BY <1>0, <1>13 DEF Told, ScreenSorts, Runs, busy, NoRun
  <2>2. UNCHANGED <<transcript, crossed, sessionId, origin>>
    BY <1>13 DEF Told
  <2> QED
    BY <2>1, <2>2 DEF OnScreen, LiveTurns
<1>s. ASSUME NEW state \in {"held", "struck"}, Settle(state), UNCHANGED <<crossed, sessionId, origin>>,
             busy' => run'.done /\ busy /\ run'.session = run.session
      PROVE  OnScreen'
  <2>1. /\ DOMAIN transcript' = DOMAIN transcript /\ LiveTurns' = {}
        /\ \A k \in DOMAIN transcript : transcript'[k].of = transcript[k].of
    BY <1>0, <1>s, Settling DEF ScreenSorts, Settle
  <2> QED
    BY <1>s, <2>1 DEF OnScreen
<1>14. CASE Done
  <2>1. run \in Runs /\ busy /\ run'.done /\ run'.session = run.session
    BY <1>0, <1>14 DEF Done, ScreenSorts, Runs, busy
  <2>2. UNCHANGED <<crossed, sessionId, origin>> /\ \E state \in {"held", "struck"} : Settle(state)
    BY <1>14 DEF Done
  <2> QED
    BY <1>s, <2>1, <2>2
<1>15. CASE Breaks
  <2>1. ~busy' /\ busy /\ UNCHANGED <<crossed, sessionId, origin>>
    BY <1>15 DEF Breaks, busy
  <2>2. CASE run.done
    BY <1>15, <2>1, <2>2 DEF Breaks, OnScreen, LiveTurns
  <2>3. CASE ~run.done
    BY <1>15, <1>s, <2>1, <2>3 DEF Breaks
  <2> QED
    BY <2>2, <2>3
<1>16. CASE Completes
  <2>1. ~busy' /\ busy /\ run.done /\ UNCHANGED <<transcript, crossed, sessionId, origin>>
    BY <1>16 DEF Completes, busy
  <2> QED
    BY <2>1 DEF OnScreen, LiveTurns
<1>17. TimerFires \/ ModelsFailed => OnScreen'
  BY <1>u DEF TimerFires, ModelsFailed
<1>18. ASSUME NEW m, PickModel(m) \/ OtherTab(m) \/ ModelsListed(m) PROVE OnScreen'
  BY <1>u, <1>18 DEF PickModel, OtherTab, ModelsListed
<1>19. CASE UNCHANGED vars
  BY <1>u, <1>19 DEF vars
<1> HIDE DEF store, composer, screen, select, server
<1> QED
  BY <1>1, <1>2, <1>3, <1>4, <1>5, <1>6, <1>7, <1>8, <1>9, <1>11, <1>12, <1>13, <1>14, <1>15, <1>16,
     <1>17, <1>18, <1>19
     DEF Next, Happens, Acts, PickWorkspace

-----------------------------------------------------------------------------
(* The typed words. *)

\* While a run is in flight the composer holds a text, and if that is one to be
\* kept it is the run's.
Running == busy => task # Blank /\ (task \in words => task = run.text)

\* A history or a replay of the open conversation is under way.
Returning == \E i \in Slots : pending[i] # Idle /\ ~pending[i].late /\ pending[i].kind \in {"history", "replay"}

\* A word to be kept that is in the open conversation's draft but not in the
\* composer is on its way there, and the composer is empty.
Held ==
  ~hasty => /\ \A w \in words : task = w \/ \E s \in Sessions : drafts[s] = w
            /\ drafts[sessionId] \in words /\ drafts[sessionId] # task => task = Blank /\ Returning

\* No word to be kept is the empty text.
LEMMA NoBlank == Sorts => Blank \notin words
BY ConversationAssumption DEF Sorts, WordSorts

LEMMA RunningStep ==
  ASSUME Sorts, Running, [Next]_vars
  PROVE  Running'
<1> USE DEF busy, store, composer, screen, select, server
<1>0. /\ ScreenSorts /\ WordSorts /\ Kept /\ sessionId \in Sessions /\ Blank \notin Texts
  BY ConversationAssumption DEF Sorts, OpenSorts
<1>u. ASSUME UNCHANGED <<task, run>>, words' \subseteq words PROVE Running'
  BY <1>u DEF Running
<1>n. ASSUME ~busy' PROVE Running'
  BY <1>n DEF Running
<1>1. ASSUME NEW i \in Slots, HistoryLands(i) \/ ReplayGoesOn(i) \/ HistoryFails(i) PROVE Running'
  <2>1. run' = run /\ (Restore \/ UNCHANGED composer)
    BY <1>1 DEF HistoryLands, ReplayGoesOn, HistoryFails, Chunk
  <2> QED
    BY <2>1 DEF Restore, Running
<1>2. ASSUME NEW i \in Slots,
             Compacted(i) \/ Refused(i) \/ Copy(i) \/ Import(i) \/ Delete(i) \/ Compact(i)
      PROVE  Running'
  BY <1>u, <1>2 DEF Compacted, Refused, Copy, Import, Delete, Compact
<1>3. ASSUME NEW i \in Slots, NEW s \in Sessions, Copied(s, i) \/ Imported(s, i) \/ Deleted(s, i)
      PROVE  Running'
  BY <1>u, <1>3 DEF Copied, Imported, Adopt, Deleted
<1>4. ASSUME NEW i \in Slots, NEW s, Switch(s, i) PROVE Running'
  BY <1>n, <1>4 DEF Switch
<1>5. ASSUME NEW s \in Sessions, NewChat(s) \/ Reload(s) PROVE Running'
  BY <1>n, <1>5 DEF NewChat, Reload
<1>6. ASSUME Submit PROVE Running'
  <2>1. task' = task /\ run'.text = task /\ task # Blank
    BY <1>6 DEF Submit, Starts
  <2> QED
    BY <2>1 DEF Running
<1>7. ASSUME NEW text \in Texts, RunAgain(text) PROVE Running'
  <2>1. task' = text /\ run'.text = text /\ text # Blank
    BY <1>0, <1>7 DEF RunAgain, Rewritten, Starts
  <2> QED
    BY <2>1 DEF Running
<1>8. ASSUME NEW text \in Texts, Edit(text) PROVE Running'
  <2>1. task' = text /\ text # Blank /\ text \notin words'
    BY <1>0, <1>8 DEF Edit, Rewritten
  <2> QED
    BY <2>1 DEF Running
<1>9. ASSUME NEW text, Type(text) PROVE Running'
  BY <1>n, <1>9 DEF Type
<1>10. TimerFires => Running'
  BY <1>u DEF TimerFires, Flush
<1>11. Completes \/ Breaks => Running'
  BY <1>n DEF Completes, Breaks
<1>12. ASSUME Told \/ Done PROVE Running'
  <2>1. UNCHANGED <<task, words>> /\ busy /\ run'.text = run.text
    BY <1>0, <1>12 DEF Told, Done, ScreenSorts, Runs
  <2> QED
    BY <2>1 DEF Running
<1>13. ModelsFailed => Running'
  BY <1>u DEF ModelsFailed
<1>14. ASSUME NEW m, PickModel(m) \/ OtherTab(m) \/ ModelsListed(m) PROVE Running'
  BY <1>u, <1>14 DEF PickModel, OtherTab, ModelsListed
<1>15. CASE UNCHANGED vars
  BY <1>u, <1>15 DEF vars
<1> HIDE DEF busy, store, composer, screen, select, server
<1> QED
  BY <1>1, <1>2, <1>3, <1>4, <1>5, <1>6, <1>7, <1>8, <1>9, <1>10, <1>11, <1>12, <1>13, <1>14, <1>15
     DEF Next, Happens, Acts, PickWorkspace

\* flushDraft leaves every word to be kept in the store.
LEMMA Flushed ==
  ASSUME Sorts, Held, Flush, ~hasty'
  PROVE  /\ ~hasty /\ words' \subseteq words /\ drafts'[sessionId] = task
         /\ \A w \in words' : \E s \in Sessions : drafts'[s] = w
<1>0. WordSorts /\ Kept /\ sessionId \in Sessions /\ Blank \notin words
  BY NoBlank DEF Sorts, OpenSorts
<1>1. task \in Texts \cup {Blank}
  BY <1>0 DEF WordSorts
<1>2. ~hasty /\ words' \subseteq words /\ ~(Restoring(sessionId) /\ task # DraftOf(sessionId))
  BY DEF Flush
<1>3. drafts' = SetDraft(sessionId, task) /\ drafts'[sessionId] = task
  BY <1>0, <1>1, SetDraftKeeps DEF Flush, Sets
<1>4. ASSUME NEW w \in words' PROVE \E s \in Sessions : drafts'[s] = w
  <2>1. CASE w = task
    BY <1>0, <1>3, <2>1
  <2>2. CASE w # task
    <3>1. w \in words /\ w \notin Evicted(sessionId, task) /\ w # Blank
      BY <1>0, <1>2, <2>2 DEF Flush
    <3>2. PICK s \in Sessions : drafts[s] = w
      BY <1>2, <2>2, <3>1 DEF Held
    <3>3. s \in Drafted(drafts)
      BY <3>1, <3>2 DEF Drafted
    <3>4. w \in {DraftOf(sessionId), task} \cup {SetDraft(sessionId, task)[a] : a \in Sessions}
      BY <3>1, <3>2, <3>3 DEF Evicted
    <3>5. CASE w = DraftOf(sessionId)
      <4>1. drafts[sessionId] \in words /\ drafts[sessionId] # task
        BY <2>2, <3>1, <3>5 DEF DraftOf
      <4>2. Returning
        BY <1>2, <4>1 DEF Held
      <4>3. Restoring(sessionId)
        BY <3>1, <3>5, <4>2 DEF Restoring, Returning
      <4> QED
        BY <1>2, <2>2, <3>5, <4>3
    <3>6. CASE w \in {SetDraft(sessionId, task)[a] : a \in Sessions}
      BY <1>3, <3>6
    <3> QED
      BY <2>2, <3>4, <3>5, <3>6
  <2> QED
    BY <2>1, <2>2
<1> QED
  BY <1>2, <1>3, <1>4

LEMMA HeldStep ==
  ASSUME Sorts, Fresh, Running, Held, [Next]_vars
  PROVE  Held'
<1> USE DEF store, composer, screen, select, server
<1>0. /\ ScreenSorts /\ WordSorts /\ SlotSorts /\ Kept /\ Blank \notin words
      /\ sessionId \in used /\ sessionId \in Sessions
  BY NoBlank DEF Sorts, OpenSorts
<1>1. task \in Texts \cup {Blank}
  BY <1>0 DEF WordSorts
<1>z. Idle.kind = "idle"
  BY DEF Idle
<1>u. ASSUME UNCHANGED <<task, words, drafts, sessionId, pending>>, ~hasty' => ~hasty PROVE Held'
  BY <1>u DEF Held, Returning
\* Composer and store stay: the draft still returns.
<1>r. ASSUME UNCHANGED composer, sessionId' = sessionId, Returning => Returning' \/ task # Blank PROVE Held'
  BY <1>r DEF Held
\* The draft is back.
<1>b. ASSUME Restore, sessionId' = sessionId PROVE Held'
  <2>1. CASE task = Blank
    <3>1. task' = drafts[sessionId] /\ UNCHANGED <<words, drafts, sessionId, hasty>>
      BY <1>b, <2>1 DEF Restore, DraftOf
    <3> QED
      BY <1>0, <2>1, <3>1 DEF Held
  <2>2. CASE task # Blank
    <3>1. UNCHANGED composer
      BY <1>b, <2>2 DEF Restore
    <3> QED
      BY <1>b, <1>r, <2>2, <3>1
  <2> QED
    BY <2>1, <2>2
\* A new id has no draft.
<1>n. ASSUME NEW new \in Sessions \ used, sessionId' = new, drafts'[new] \in {drafts[new], Blank},
             ~hasty' => /\ words' \subseteq words
                        /\ \A w \in words' : task' = w \/ \E s \in Sessions : drafts'[s] = w
      PROVE  Held'
  <2>1. drafts'[sessionId'] = Blank
    BY <1>n DEF Fresh
  <2> QED
    BY <1>0, <1>n, <2>1 DEF Held
\* Another text in the composer.
<1>t. ASSUME NEW text, task' = text, UNCHANGED <<drafts, sessionId>>, words' \subseteq (words \ {task}) \cup {text},
             ~hasty' => ~hasty /\ ~Restoring(sessionId), Blank \notin words'
      PROVE  Held'
  <2> SUFFICES ASSUME ~hasty' PROVE Held'
    BY DEF Held
  <2>1. ~hasty /\ ~Restoring(sessionId)
    BY <1>t
  <2>2. \A w \in words' : task' = w \/ \E s \in Sessions : drafts'[s] = w
    BY <1>t, <2>1 DEF Held
  <2>3. ASSUME drafts[sessionId] \in words', drafts[sessionId] # text PROVE FALSE
    <3>1. drafts[sessionId] \in words /\ drafts[sessionId] # task /\ drafts[sessionId] # Blank
      BY <1>t, <2>3
    <3>2. Returning
      BY <2>1, <3>1 DEF Held
    <3> QED
      BY <2>1, <3>1, <3>2 DEF Restoring, Returning, DraftOf
  <2> QED
    BY <1>t, <2>2, <2>3 DEF Held
\* A request that brings no draft starts or ends, or changes its kind.
<1>k. ASSUME NEW i \in Slots, NEW x, pending' = [pending EXCEPT ![i] = x],
             pending[i] # Idle /\ ~pending[i].late /\ pending[i].kind \in {"history", "replay"}
               => x # Idle /\ ~x.late /\ x.kind \in {"history", "replay"}
      PROVE  Returning => Returning'
  <2>1. \A j \in Slots : pending'[j] = IF j = i THEN x ELSE pending[j]
    BY <1>0, <1>k DEF SlotSorts
  <2> QED
    BY <1>k, <2>1 DEF Returning
<1>c. ASSUME NEW i \in Slots, NEW drawn, NEW p \in Request, NEW n, Chunk(i, drawn, p, n), sessionId' = sessionId,
             p.kind \in {"replay", "redraw"}, p.late = pending[i].late,
             pending[i].kind \in {"history", "replay"} <=> p.kind = "replay"
      PROVE  Held'
  <2> DEFINE x == [p EXCEPT !.left = @ - n]
  <2>1. x.kind = p.kind /\ x.late = p.late /\ x # Idle
    BY DEF Request, Idle
  <2>2. \/ pending' = [pending EXCEPT ![i] = x] /\ UNCHANGED composer
        \/ pending' = [pending EXCEPT ![i] = Idle] /\ p.kind = "replay" /\ Restore
        \/ pending' = [pending EXCEPT ![i] = Idle] /\ p.kind # "replay" /\ UNCHANGED composer
    BY <1>c DEF Chunk
  <2> HIDE DEF x
  <2>3. CASE pending' = [pending EXCEPT ![i] = x] /\ UNCHANGED composer
    <3>1. Returning => Returning'
      BY <1>c, <1>k, <2>1, <2>3
    <3> QED
      BY <1>c, <1>r, <2>3, <3>1
  <2>4. CASE Restore
    BY <1>b, <1>c, <2>4
  <2>5. CASE pending' = [pending EXCEPT ![i] = Idle] /\ p.kind # "replay" /\ UNCHANGED composer
    <3>1. Returning => Returning'
      BY <1>c, <1>k, <2>5
    <3> QED
      BY <1>c, <1>r, <2>5, <3>1
  <2> QED
    BY <2>2, <2>3, <2>4, <2>5
<1>2. ASSUME NEW i \in Slots, HistoryLands(i) PROVE Held'
  <2> DEFINE p == [pending[i] EXCEPT !.kind = IF @ = "history" THEN "replay" ELSE "redraw",
                                     !.left = turns[pending[i].of]]
  <2>1. pending[i] \in Request /\ pending[i] # Idle /\ pending[i].kind \in {"history", "reload"}
    BY <1>0, <1>2, <1>z, Slot DEF HistoryLands, Kinds
  <2>2. /\ p \in Request /\ p.late = pending[i].late /\ p.kind \in {"replay", "redraw"}
        /\ pending[i].kind \in {"history", "replay"} <=> p.kind = "replay"
    <3>1. ServerSorts
      BY DEF Sorts
    <3> QED
      BY <2>1, <3>1 DEF Request, Kinds, ServerSorts
  <2>3. sessionId' = sessionId /\ \E n \in 0..p.left : Chunk(i, <<>>, p, n)
    BY <1>2 DEF HistoryLands
  <2> HIDE DEF p
  <2> QED
    BY <1>c, <2>2, <2>3
<1>3. ASSUME NEW i \in Slots, ReplayGoesOn(i) PROVE Held'
  <2>1. /\ pending[i] \in Request /\ pending[i].kind \in {"replay", "redraw"}
        /\ pending[i].kind \in {"history", "replay"} <=> pending[i].kind = "replay"
    BY <1>0, <1>3, Slot DEF ReplayGoesOn, Kinds
  <2>2. sessionId' = sessionId /\ \E n \in 1..pending[i].left : Chunk(i, transcript, pending[i], n)
    BY <1>3 DEF ReplayGoesOn
  <2> QED
    BY <1>c, <2>1, <2>2
<1>4. ASSUME NEW i \in Slots, HistoryFails(i) PROVE Held'
  <2>1. sessionId' = sessionId /\ pending' = [pending EXCEPT ![i] = Idle] /\ pending[i].kind \in {"history", "reload"}
    BY <1>4 DEF HistoryFails
  <2>2. CASE pending[i].kind = "history"
    BY <1>4, <1>b, <2>1, <2>2 DEF HistoryFails
  <2>3. CASE pending[i].kind = "reload"
    <3>1. UNCHANGED composer
      BY <1>4, <2>3 DEF HistoryFails
    <3>2. Returning => Returning'
      BY <1>k, <2>1, <2>3
    <3> QED
      BY <1>r, <2>1, <3>1, <3>2
  <2> QED
    BY <2>1, <2>2, <2>3
<1>5. ASSUME NEW i \in Slots, Refused(i) PROVE Held'
  <2>1. /\ sessionId' = sessionId /\ UNCHANGED composer
        /\ pending' = [pending EXCEPT ![i] = Idle] /\ pending[i].kind \notin {"history", "replay"}
    BY <1>5 DEF Refused
  <2>2. Returning => Returning'
    BY <1>k, <2>1
  <2> QED
    BY <1>r, <2>1, <2>2
<1>6. ASSUME NEW i \in Slots, Compacted(i) PROVE Held'
  <2> DEFINE x == [pending[i] EXCEPT !.kind = "reload", !.of = sessionId]
  <2>1. /\ sessionId' = sessionId /\ UNCHANGED composer
        /\ pending' = [pending EXCEPT ![i] = x] /\ pending[i].kind \notin {"history", "replay"}
    BY <1>0, <1>6 DEF Compacted, SlotSorts
  <2> HIDE DEF x
  <2>2. Returning => Returning'
    BY <1>k, <2>1
  <2> QED
    BY <1>r, <2>1, <2>2
<1>7. ASSUME NEW i \in Slots, Copy(i) \/ Import(i) \/ Delete(i) \/ Compact(i) PROVE Held'
  <2>1. /\ sessionId' = sessionId /\ UNCHANGED composer /\ pending[i] = Idle
        /\ \E kind \in Kinds : Asks(i, kind, sessionId)
    BY <1>7 DEF Copy, Import, Delete, Compact, Kinds
  <2>2. PICK x : pending' = [pending EXCEPT ![i] = x]
    BY <2>1 DEF Asks
  <2>3. Returning => Returning'
    BY <1>k, <2>1, <2>2
  <2> QED
    BY <1>r, <2>1, <2>3
<1>8. ASSUME NEW i \in Slots, NEW s \in Sessions, Copied(s, i) \/ Imported(s, i) PROVE Held'
  <2>1. sessionId' = s /\ s \in Sessions \ used /\ UNCHANGED composer
    BY <1>8 DEF Copied, Imported, Adopt
  <2>2. ~hasty' => \A w \in words' : task' = w \/ \E a \in Sessions : drafts'[a] = w
    BY <2>1 DEF Held
  <2> QED
    BY <1>n, <2>1, <2>2
<1>9. ASSUME NEW i \in Slots, NEW s \in Sessions, Deleted(s, i) PROVE Held'
  <2>1. /\ sessionId' = s /\ s \in Sessions \ used /\ task' = task /\ (~hasty' => ~hasty)
        /\ words' = words \ ({drafts[sessionId]} \ {task}) /\ drafts' = SetDraft(sessionId, Blank)
    BY <1>9 DEF Deleted, Sets, DraftOf
  <2>2. \A a \in Sessions \ {sessionId} : drafts'[a] = drafts[a]
    BY <1>0, <2>1, SetDraftKeeps
  <2>3. ~hasty' => \A w \in words' : task' = w \/ \E a \in Sessions : drafts'[a] = w
    <3> SUFFICES ASSUME ~hasty', NEW w \in words', task # w PROVE \E a \in Sessions : drafts'[a] = w
      BY <2>1
    <3>1. PICK a \in Sessions : drafts[a] = w
      BY <2>1 DEF Held
    <3>2. a # sessionId
      BY <2>1, <3>1
    <3> QED
      BY <2>2, <3>1, <3>2
  <2>4. drafts'[s] = drafts[s]
    BY <1>0, <2>1, <2>2
  <2> QED
    BY <1>n, <2>1, <2>3, <2>4
<1>10. ASSUME NEW i \in Slots, NEW s \in Sessions, Switch(s, i) PROVE Held'
  <2> SUFFICES ASSUME ~hasty' PROVE Held'
    BY DEF Held
  <2>1. \A w \in words' : \E a \in Sessions : drafts'[a] = w
    BY <1>10, Flushed DEF Switch
  <2>2. Returning'
    <3> DEFINE x == [kind |-> "history", of |-> s, left |-> 0, late |-> FALSE]
    <3>1. pending' = [Outdated(pending) EXCEPT ![i] = x] /\ x # Idle /\ ~x.late /\ x.kind = "history"
      BY <1>10 DEF Switch, Idle
    <3>2. Outdated(pending) \in [Slots -> Request \cup {Idle}]
      BY <1>0, AllLate DEF SlotSorts
    <3> HIDE DEF x
    <3>3. pending'[i] = x
      BY <3>1, <3>2
    <3> QED
      BY <3>1, <3>3 DEF Returning
  <2>3. task' = Blank
    BY <1>10 DEF Switch
  <2> QED
    BY <2>1, <2>2, <2>3 DEF Held
<1>11. ASSUME NEW s \in Sessions, NewChat(s) \/ Reload(s) PROVE Held'
  <2>1. Flush /\ sessionId' = s /\ s \in Sessions \ used
    BY <1>11 DEF NewChat, Reload
  <2>2. ~hasty' => words' \subseteq words /\ \A w \in words' : \E a \in Sessions : drafts'[a] = w
    BY <2>1, Flushed
  <2>3. drafts'[s] \in {drafts[s], Blank}
    BY <1>0, <1>1, <2>1, SetDraftKeeps DEF Flush, Sets
  <2> QED
    BY <1>n, <2>1, <2>2, <2>3
<1>12. CASE TimerFires
  <2> SUFFICES ASSUME ~hasty' PROVE Held'
    BY DEF Held
  <2>1. /\ drafts'[sessionId] = task /\ UNCHANGED <<sessionId, task>>
        /\ \A w \in words' : \E a \in Sessions : drafts'[a] = w
    BY <1>12, Flushed DEF TimerFires
  <2> QED
    BY <2>1 DEF Held
<1>13. ASSUME NEW text \in Texts \cup {Blank}, Type(text) PROVE Held'
  <2>1. /\ task' = text /\ UNCHANGED <<drafts, sessionId>>
        /\ words' = (words \ {task}) \cup ({text} \ {Blank})
        /\ ~hasty' => ~hasty /\ ~Restoring(sessionId)
    BY <1>13 DEF Type
  <2> QED
    BY <1>0, <1>t, <2>1
<1>14. ASSUME NEW text \in Texts, Rewritten(text), UNCHANGED <<drafts, sessionId>> PROVE Held'
  <2>1. task' = text /\ words' = words \ {task} /\ (~hasty' => ~hasty /\ ~Restoring(sessionId))
    BY <1>14 DEF Rewritten
  <2> QED
    BY <1>0, <1>t, <1>14, <2>1
<1>15. ASSUME NEW text \in Texts, RunAgain(text) \/ Edit(text) PROVE Held'
  BY <1>14, <1>15 DEF RunAgain, Edit, Starts
<1>16. CASE Submit
  <2> SUFFICES ASSUME ~hasty' PROVE Held'
    BY DEF Held
  <2>1. UNCHANGED <<task, words, drafts, sessionId>> /\ ~hasty /\ ~Restoring(sessionId)
    BY <1>16 DEF Submit, Starts
  <2>2. ASSUME drafts[sessionId] \in words, drafts[sessionId] # task PROVE FALSE
    <3>1. Returning /\ drafts[sessionId] # Blank
      BY <1>0, <2>1, <2>2 DEF Held
    <3> QED
      BY <2>1, <3>1 DEF Restoring, Returning, DraftOf
  <2> QED
    BY <2>1, <2>2 DEF Held
<1>17. CASE Completes
  <2> SUFFICES ASSUME ~hasty' PROVE Held'
    BY DEF Held
  <2>1. /\ busy /\ sessionId' = sessionId /\ task' = Blank /\ drafts' = SetDraft(sessionId, Blank)
        /\ words' = words \ {run.text} /\ ~hasty
    BY <1>17 DEF Completes, Sets
  <2>2. drafts'[sessionId] = Blank /\ \A a \in Sessions \ {sessionId} : drafts'[a] = drafts[a]
    BY <1>0, <2>1, SetDraftKeeps
  <2>3. ASSUME NEW w \in words' PROVE \E a \in Sessions : drafts'[a] = w
    <3>1. w \in words /\ w # task
      BY <2>1 DEF Running
    <3>2. PICK a \in Sessions : drafts[a] = w
      BY <2>1, <3>1 DEF Held
    <3>3. a # sessionId
      <4> SUFFICES ASSUME a = sessionId PROVE FALSE
        OBVIOUS
      <4>1. task = Blank
        BY <2>1, <3>1, <3>2 DEF Held
      <4> QED
        BY <2>1, <4>1 DEF Running
    <3> QED
      BY <2>2, <3>2, <3>3
  <2> QED
    BY <1>0, <2>1, <2>2, <2>3 DEF Held
<1>18. Told \/ Done \/ Breaks \/ ModelsFailed => Held'
  BY <1>u DEF Told, Done, Breaks, ModelsFailed
<1>19. ASSUME NEW m, PickModel(m) \/ OtherTab(m) \/ ModelsListed(m) PROVE Held'
  BY <1>u, <1>19 DEF PickModel, OtherTab, ModelsListed
<1>20. CASE UNCHANGED vars
  BY <1>u, <1>20 DEF vars
<1> HIDE DEF store, composer, screen, select, server
<1> QED
  BY <1>2, <1>3, <1>4, <1>5, <1>6, <1>7, <1>8, <1>9, <1>10, <1>11, <1>12, <1>13, <1>15, <1>16, <1>17,
     <1>18, <1>19, <1>20
     DEF Next, Happens, Acts, PickWorkspace

-----------------------------------------------------------------------------
(* What follows for every behaviour. *)

IInv == Sorts /\ PinHonoured /\ AskedOf /\ OnScreen /\ Fresh /\ Running /\ Held

LEMMA IInvInit == Init => IInv
<1> SUFFICES ASSUME Init PROVE IInv
  OBVIOUS
<1>1. Sorts
  BY SortsInit
<1>2. PinHonoured
  BY <1>1 DEF Init, PinHonoured
<1>3. AskedOf /\ ~busy
  BY DEF Init, AskedOf, busy
<1>4. OnScreen
  BY <1>3 DEF Init, OnScreen, LiveTurns
<1>5. Fresh
  BY DEF Init, Fresh, Drafted
<1>6. Running
  BY <1>3 DEF Running
<1>7. Held
  <2>1. Blank \notin words
    BY <1>1, NoBlank
  <2>2. drafts = Stored /\ words = {Stored[s] : s \in Drafted(Stored)} /\ Stored[sessionId] = Blank
    BY DEF Init
  <2>3. \A w \in words : \E s \in Sessions : drafts[s] = w
    BY <2>2 DEF Drafted
  <2> QED
    BY <2>1, <2>2, <2>3 DEF Held
<1> QED
  BY <1>1, <1>2, <1>3, <1>4, <1>5, <1>6, <1>7 DEF IInv

LEMMA IInvStep == IInv /\ [Next]_vars => IInv'
BY SortsStep, PinStep, AskedStep, OnScreenStep, FreshStep, RunningStep, HeldStep DEF IInv

LEMMA Invariant == Spec => []IInv
BY IInvInit, IInvStep, PTL DEF Spec

\* The page keeps to its types and the draft store to max_drafts entries
\* (composer.js, setDraft).
THEOREM TypeCorrect == Spec => []TypeOK
<1>1. IInv => TypeOK
  BY DEF IInv, Sorts, OpenSorts, WordSorts, ScreenSorts, SelectSorts, SlotSorts, ServerSorts, Kept,
         Bounded, TypeOK
<1> QED
  BY <1>1, Invariant, PTL

\* Whatever is opened, chosen elsewhere or answered late, a conversation with a
\* pin the server can serve shows and sends that model (chatprefs.js:4-17).
THEOREM PinsHonoured == Spec => []PinHonoured
<1>1. IInv => PinHonoured
  BY DEF IInv
<1> QED
  BY <1>1, Invariant, PTL

\* The transcript is the open conversation's and a run in flight has its card
\* there, unless an answer for what was open before was let in (app.js:1110-1116).
THEOREM ScreenIsTheOpenOnes == Spec => []ScreenAgrees
<1>1. IInv => ScreenAgrees
  BY DEF IInv, OnScreen, ScreenAgrees
<1> QED
  BY <1>1, Invariant, PTL

\* No typed text is lost until it is erased, run to its end or pushed out by
\* newer drafts (app.js:289-293).
THEOREM NothingTypedIsLost == Spec => []WordsKept
<1>1. IInv => WordsKept
  BY DEF IInv, Held, WordsKept, DraftOf
<1> QED
  BY <1>1, Invariant, PTL


=============================================================================
