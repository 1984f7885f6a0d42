----------------------------- MODULE RoomsProofs -----------------------------
(***************************************************************************)
(* Proofs about the rooms page: it keeps to its types, a room on screen is *)
(* polled or about to be, what it shows and polls is of the room the       *)
(* composer sends to, and no message is drawn again too early.             *)
(***************************************************************************)
EXTENDS Rooms, FiniteSetTheorems, SequenceTheorems, TLAPS

-----------------------------------------------------------------------------
(* The greatest of a finite set. *)

\* A finite set of numbers has a greatest: the smallest subset without one
\* would have one less a member.
LEMMA Greatest ==
  ASSUME NEW S, S \subseteq Nat, IsFiniteSet(S), S # {}
  PROVE  \E x \in S : \A y \in S : x >= y
<1> DEFINE Without == {T \in SUBSET S : T # {} /\ ~ \E x \in T : \A y \in T : x >= y}
<1>1. Without = {}
  <2> SUFFICES ASSUME Without # {} PROVE FALSE
    OBVIOUS
  <2>1. IsWellFoundedOn(StrictSubsetOrdering(S), SUBSET S)
    BY FS_StrictSubsetOrderingWellFounded, FS_FiniteSubsetsOfFinite
  <2>2. PICK T \in Without : \A U \in Without : ~ (<<U, T>> \in StrictSubsetOrdering(S))
    <3>1. Without \subseteq SUBSET S
      OBVIOUS
    <3> HIDE DEF Without
    <3> QED
      BY <2>1, <3>1, WFMin
  <2>3. PICK z \in T : TRUE
    OBVIOUS
  <2>4. T \ {z} \notin Without
    <3> SUFFICES ASSUME T \ {z} \in Without PROVE FALSE
      OBVIOUS
    <3>1. T \ {z} \subseteq S /\ T \ {z} \subseteq T /\ T \ {z} # T /\ T \subseteq S
      BY <2>3
    <3>2. <<T \ {z}, T>> \in StrictSubsetOrdering(S)
      BY <3>1 DEF StrictSubsetOrdering
    <3> QED
      BY <2>2, <3>2
  <2>5. CASE T \ {z} = {}
    <3>1. \A y \in T : y = z
      BY <2>5
    <3> QED
      BY <2>3, <3>1
  <2>6. CASE \E x \in T \ {z} : \A y \in T \ {z} : x >= y
    <3>1. PICK x \in T \ {z} : \A y \in T \ {z} : x >= y
      BY <2>6
    <3>2. x \in Nat /\ z \in Nat /\ T \subseteq Nat
      BY <2>3
    <3>3. CASE x >= z
      BY <3>1, <3>3
    <3>4. CASE z >= x
      <4>1. \A y \in T : z >= y
        BY <3>1, <3>2, <3>4
      <4> QED
        BY <2>3, <4>1
    <3> QED
      BY <3>2, <3>3, <3>4
  <2> QED
    BY <2>4, <2>5, <2>6
<1> QED
  BY <1>1

\* So Max names one of its members.
LEMMA MaxOfNats ==
  ASSUME NEW S, S \subseteq Nat, IsFiniteSet(S), S # {}
  PROVE  Max(S) \in S /\ \A y \in S : Max(S) >= y
<1> QED
  BY Greatest DEF Max

\* The greater of nought and a number.
LEMMA MaxWithZero == \A n \in Int : Max({0, n}) = IF n > 0 THEN n ELSE 0
<1> SUFFICES ASSUME NEW n \in Int PROVE Max({0, n}) = IF n > 0 THEN n ELSE 0
  OBVIOUS
<1> DEFINE z == IF n > 0 THEN n ELSE 0
<1>1. z \in {0, n} /\ \A y \in {0, n} : z >= y
  OBVIOUS
<1>2. \A x \in {0, n} : (\A y \in {0, n} : x >= y) => x = z
  OBVIOUS
<1> QED
  BY <1>1, <1>2 DEF Max

-----------------------------------------------------------------------------
(* What a batch of messages does to the log. *)

\* What SubSeq picks.
LEMMA Slice ==
  ASSUME NEW S, NEW s \in Seq(S), NEW a \in Nat, NEW b \in Nat, a <= b, b <= Len(s)
  PROVE  /\ SubSeq(s, a + 1, b) \in Seq(S) /\ Len(SubSeq(s, a + 1, b)) = b - a
         /\ \A k \in 1..(b - a) : SubSeq(s, a + 1, b)[k] = s[a + k]
<1>1. \A k \in (a + 1)..b : s[k] \in S
  <2>1. Len(s) \in Nat
    BY LenProperties
  <2>2. \A k \in (a + 1)..b : k \in 1..Len(s)
    BY <2>1
  <2> QED
    BY <2>2, ElementOfSeq
<1>2. a + 1 \in Int /\ b \in Int
  OBVIOUS
<1>3. /\ SubSeq(s, a + 1, b) \in Seq(S)
      /\ Len(SubSeq(s, a + 1, b)) = IF a + 1 <= b THEN b - (a + 1) + 1 ELSE 0
      /\ \A k \in 1..(b - (a + 1) + 1) : SubSeq(s, a + 1, b)[k] = s[(a + 1) + k - 1]
  BY <1>1, <1>2, SubSeqProperties
<1>4. b - (a + 1) + 1 = b - a /\ \A k \in 1..(b - a) : (a + 1) + k - 1 = a + k
  OBVIOUS
<1> QED
  BY <1>3, <1>4

\* The length after n ids joined those remembered, of which there are at most
\* SeenCap.
Overflow(n) == IF Len(seenOrder) + n > SeenCap THEN Len(seenOrder) + n - SeenCap ELSE 0

\* Remembering a batch keeps the newest ids, and forgets only those before.
LEMMA Remembering ==
  ASSUME seenOrder \in Seq(Messages), seen \subseteq Messages, NEW q \in Seq(Messages), Remember(q)
  PROVE  /\ seenOrder' \in Seq(Messages) /\ seen' \subseteq Messages
         /\ Overflow(Len(q)) \in 0..(Len(seenOrder) + Len(q))
         /\ Len(seenOrder') = Len(seenOrder) + Len(q) - Overflow(Len(q))
         /\ \A k \in 1..Len(seenOrder') : seenOrder'[k] = (seenOrder \o q)[Overflow(Len(q)) + k]
         /\ \A x \in seen \cup Range(q) : x \in seen' \/ \E k \in 1..Overflow(Len(q)) : (seenOrder \o q)[k] = x
<1> DEFINE order == seenOrder \o q
           drop == Overflow(Len(q))
<1>1. /\ order \in Seq(Messages) /\ Len(order) = Len(seenOrder) + Len(q)
      /\ Len(seenOrder) \in Nat /\ Len(q) \in Nat /\ SeenCap \in Nat
      /\ \A k \in 1..Len(order) : order[k] \in Messages
  BY ConcatProperties, LenProperties, ElementOfSeq, RoomsAssumption
<1>2. drop \in 0..Len(order) /\ drop = Max({0, Len(order) - SeenCap})
  BY <1>1, MaxWithZero DEF Overflow
<1>3. /\ seenOrder' = SubSeq(order, drop + 1, Len(order))
      /\ seen' = (seen \cup Range(q)) \ Range(SubSeq(order, 1, drop))
  BY <1>2 DEF Remember
<1> HIDE DEF order, drop
<1>4. /\ seenOrder' \in Seq(Messages) /\ Len(seenOrder') = Len(order) - drop
      /\ \A k \in 1..(Len(order) - drop) : seenOrder'[k] = order[drop + k]
  <2>1. drop \in Nat /\ Len(order) \in Nat /\ drop <= Len(order) /\ Len(order) <= Len(order)
    BY <1>1, <1>2
  <2>2. /\ SubSeq(order, drop + 1, Len(order)) \in Seq(Messages)
        /\ Len(SubSeq(order, drop + 1, Len(order))) = Len(order) - drop
        /\ \A k \in 1..(Len(order) - drop) : SubSeq(order, drop + 1, Len(order))[k] = order[drop + k]
    BY <1>1, <2>1, Slice
  <2> QED
    BY <1>3, <2>2
<1>5. \A x : x \in Range(SubSeq(order, 1, drop)) <=> \E k \in 1..drop : order[k] = x
  <2>1. 0 \in Nat /\ 0 <= drop /\ 0 + 1 = 1 /\ drop \in Nat /\ drop <= Len(order)
    BY <1>1, <1>2
  <2>2. SubSeq(order, 1, drop) \in Seq(Messages) /\ Len(SubSeq(order, 1, drop)) = drop
        /\ \A k \in 1..drop : SubSeq(order, 1, drop)[k] = order[k]
    <3>1. /\ SubSeq(order, 0 + 1, drop) \in Seq(Messages) /\ Len(SubSeq(order, 0 + 1, drop)) = drop - 0
          /\ \A k \in 1..(drop - 0) : SubSeq(order, 0 + 1, drop)[k] = order[0 + k]
      BY <1>1, <2>1, Slice
    <3> QED
      BY <2>1, <3>1
  <2>3. DOMAIN SubSeq(order, 1, drop) = 1..drop
    BY <2>2, LenProperties
  <2> QED
    BY <2>2, <2>3 DEF Range
<1>6. seen' \subseteq Messages
  <2>1. Range(q) \subseteq Messages
    BY LenProperties, ElementOfSeq DEF Range
  <2> QED
    BY <1>3, <2>1
<1>7. \A x \in seen \cup Range(q) : x \in seen' \/ \E k \in 1..drop : order[k] = x
  BY <1>3, <1>5
<1>8. \A k \in 1..Len(seenOrder') : seenOrder'[k] = order[drop + k]
  BY <1>4
<1>9. drop \in 0..(Len(seenOrder) + Len(q)) /\ Len(seenOrder') = Len(seenOrder) + Len(q) - drop
  BY <1>1, <1>2, <1>4
<1> QED
  BY <1>4, <1>6, <1>7, <1>8, <1>9 DEF order, drop

\* An answer adds a batch of messages not seen, each once.
LEMMA Ingested ==
  ASSUME lastTs \in Nat, NEW answer, answer \subseteq Messages, Ingest(answer)
  PROVE  /\ lastTs' \in Nat
         /\ \E q \in Seq(Messages) :
              /\ log' = log \o q /\ Remember(q)
              /\ \A k \in 1..Len(q) : q[k] \in answer /\ q[k] \notin seen
              /\ \A a, b \in 1..Len(q) : q[a] = q[b] => a = b
<1> DEFINE fresh == answer \ seen
<1>1. fresh \subseteq Messages /\ IsFiniteSet(fresh) /\ Cardinality(fresh) \in Nat
  <2>1. fresh \subseteq Messages
    OBVIOUS
  <2> HIDE DEF fresh
  <2> QED
    BY <2>1, RoomsAssumption, FS_Subset, FS_CardinalityType
<1>2. PICK q \in [1..Cardinality(fresh) -> fresh] :
        IsInjective(q) /\ log' = log \o q /\ Remember(q) /\ lastTs' = Max({lastTs} \cup {Ts[m] : m \in fresh})
  BY DEF Ingest
<1>3. lastTs' \in Nat
  <2> DEFINE times == {Ts[m] : m \in fresh}
  <2>1. IsFiniteSet(times)
    <3> HIDE DEF fresh
    <3> DEFINE f == [m \in fresh |-> Ts[m]]
    <3>1. f \in Surjection(fresh, times)
      BY DEF Surjection
    <3> QED
      BY <1>1, <3>1, FS_Surjection
  <2>2. times \subseteq Nat
    BY <1>1, RoomsAssumption
  <2> HIDE DEF times
  <2>3. IsFiniteSet(times \cup {lastTs})
    BY <2>1, FS_AddElement
  <2>4. Max(times \cup {lastTs}) \in Nat
    BY <2>2, <2>3, MaxOfNats
  <2>5. {lastTs} \cup times = times \cup {lastTs}
    OBVIOUS
  <2> QED
    BY <1>2, <2>4, <2>5 DEF times
<1>4. q \in Seq(Messages) /\ Len(q) = Cardinality(fresh)
  <2> HIDE DEF fresh
  <2>1. q \in [1..Cardinality(fresh) -> Messages]
    BY <1>1, <1>2
  <2>2. q \in Seq(Messages)
    BY <1>1, <2>1, SeqDef
  <2> QED
    BY <1>1, <1>2, <2>2, LenProperties
<1>5. \A k \in 1..Len(q) : q[k] \in answer /\ q[k] \notin seen
  BY <1>2, <1>4
<1>6. \A a, b \in 1..Len(q) : q[a] = q[b] => a = b
  BY <1>2, <1>4 DEF IsInjective
<1> QED
  BY <1>2, <1>3, <1>4, <1>5, <1>6

\* An answer is of messages posted to the room asked for.
LEMMA AnswerOf ==
  ASSUME posted \subseteq Messages, NEW r, NEW a, NEW S \in Answer(r, a)
  PROVE  S \subseteq Messages /\ \A m \in S : RoomOf[m] = r
<1> QED
  BY DEF Answer

-----------------------------------------------------------------------------
(* Types. *)

TimerTyped == handle \in {"null", "armed", "fired"} /\ timerRoom \in RoomNames \cup {NoRoom}
PinsTyped ==
  /\ panel \in BOOLEAN /\ pinned \in RoomNames \cup {NoRoom}
  /\ jumps \subseteq Messages /\ pinsAsked \subseteq RoomNames
ServerTyped == listed \subseteq RoomNames /\ posted \subseteq Messages /\ aired \subseteq posted
TabTyped == view \in {"rooms", "other"} /\ hidden \in BOOLEAN /\ loaded \in BOOLEAN
ComposerTyped == room \in RoomNames \cup {NoRoom} /\ locked \in BOOLEAN /\ mixed \in BOOLEAN
PendingTyped == pending \in [Ids -> Request \cup {Idle}]
PageTyped ==
  log \in Seq(Messages) /\ seenOrder \in Seq(Messages) /\ seen \subseteq Messages /\ lastTs \in Nat

\* A room that is being created has a name, and is opened when it is listed.
Creations ==
  \A i \in Ids : pending[i].kind = "create" => pending[i].room \in RoomNames /\ pending[i].cont \in RoomNames

\* The types, part by part.
LEMMA TypedParts ==
  TypeOK <=> /\ PageTyped /\ TimerTyped /\ PinsTyped /\ ServerTyped /\ TabTyped /\ ComposerTyped
             /\ PendingTyped /\ options \subseteq RoomNames /\ acts \in 0..MaxActs
<1> QED
  BY DEF TypeOK, PageTyped, TimerTyped, PinsTyped, ServerTyped, TabTyped, ComposerTyped, PendingTyped

\* The requests the page makes.
LEMMA RequestsTyped ==
  /\ \A r \in RoomNames \cup {NoRoom}, a \in Nat, c \in Continuations : Poll(r, a, c) \in Request
  /\ \A r \in RoomNames, c \in Continuations : Join(r, c) \in Request
  /\ \A c \in Continuations : Rooms(c) \in Request
  /\ \A r \in RoomNames : Sending(r) \in Request /\ Creating(r) \in Request
  /\ {"timer", "none", "start", "load", "sent"} \subseteq Continuations /\ RoomNames \subseteq Continuations
<1>1. {"timer", "none", "start", "load", "sent"} \subseteq Continuations /\ RoomNames \subseteq Continuations
  BY DEF Continuations
<1>2. \A r \in RoomNames \cup {NoRoom}, a \in Nat, c \in Continuations : Poll(r, a, c) \in Request
  BY DEF Poll, Request
<1>3. /\ \A r \in RoomNames, c \in Continuations : Join(r, c) \in Request
      /\ \A c \in Continuations : Rooms(c) \in Request
  BY DEF Join, Rooms, Request
<1>4. \A r \in RoomNames : Sending(r) \in Request /\ Creating(r) \in Request
  BY <1>1 DEF Sending, Creating, Request
<1> QED
  BY <1>1, <1>2, <1>3, <1>4

\* What is in flight is a request, or the slot is idle.
LEMMA Pending ==
  ASSUME TypeOK, NEW i \in Ids
  PROVE  /\ pending[i] = Idle \/ pending[i] \in Request
         /\ Idle.kind = "idle"
         /\ pending[i].kind # "idle" => /\ pending[i] \in Request
                                        /\ pending[i].cont \in Continuations
                                        /\ pending[i].room \in RoomNames \cup {NoRoom}
<1> QED
  BY DEF TypeOK, Idle, Request

\* A page emptied, left alone, or given an answer is a page.
LEMMA PageKept ==
  ASSUME TypeOK
  PROVE  /\ UNCHANGED page => PageTyped'
         /\ log' = <<>> /\ UNCHANGED <<seen, seenOrder, lastTs>> => PageTyped'
         /\ log' = <<>> /\ seen' = {} /\ seenOrder' = <<>> /\ lastTs' = 0 => PageTyped'
         /\ \A answer \in SUBSET Messages : Ingest(answer) => PageTyped'
<1>0. PageTyped /\ <<>> \in Seq(Messages)
  BY EmptySeq DEF TypeOK, PageTyped
<1>2. UNCHANGED page => PageTyped'
  BY <1>0 DEF PageTyped, page
<1>3. ASSUME log' = <<>>, UNCHANGED <<seen, seenOrder, lastTs>> PROVE PageTyped'
  BY <1>0, <1>3 DEF PageTyped
<1>4. ASSUME log' = <<>>, seen' = {}, seenOrder' = <<>>, lastTs' = 0 PROVE PageTyped'
  BY <1>0, <1>4 DEF PageTyped
<1>1. ASSUME NEW answer \in SUBSET Messages, Ingest(answer) PROVE PageTyped'
  <2>1. lastTs \in Nat /\ answer \subseteq Messages
    BY <1>0 DEF PageTyped
  <2>2. lastTs' \in Nat
    BY <1>1, <2>1, Ingested
  <2>3. PICK q \in Seq(Messages) : log' = log \o q /\ Remember(q)
    BY <1>1, <2>1, Ingested
  <2>4. log' \in Seq(Messages)
    BY <1>0, <2>3, ConcatProperties DEF PageTyped
  <2>5. seenOrder' \in Seq(Messages) /\ seen' \subseteq Messages
    BY <1>0, <2>3, Remembering DEF PageTyped
  <2> QED
    BY <2>2, <2>4, <2>5 DEF PageTyped
<1> QED
  BY <1>1, <1>2, <1>3, <1>4

\* The timer set or stopped.
LEMMA TimerKept ==
  ASSUME TypeOK
  PROVE  /\ UNCHANGED poll \/ StopPoll \/ (\E r \in RoomNames \cup {NoRoom} : StartPoll(r))
              => TimerTyped'
<1> QED
  BY DEF TypeOK, TimerTyped, poll, StopPoll, StartPoll

\* Opening a room keeps to the types.
LEMMA OpenTyped ==
  ASSUME TypeOK, NEW r \in RoomNames, NEW value \in RoomNames \cup {NoRoom}, NEW i \in Ids,
         NEW c \in Continuations, OpenRoom(r, value, i, c)
  PROVE  PageTyped' /\ TimerTyped' /\ PinsTyped' /\ PendingTyped' /\ room' \in RoomNames \cup {NoRoom} /\ mixed' \in BOOLEAN
<1>1. PageTyped'
  BY PageKept DEF OpenRoom
<1>2. TimerTyped'
  BY TimerKept DEF OpenRoom
<1>3. room' \in RoomNames \cup {NoRoom} /\ mixed' \in BOOLEAN
  BY DEF OpenRoom, Foreign
<1>4. PinsTyped'
  BY DEF OpenRoom, TypeOK, PinsTyped
<1>5. PendingTyped'
  <2>1. PICK first \in {Poll(r, 0, c), Join(r, c)} : pending' = [pending EXCEPT ![i] = first]
    BY DEF OpenRoom
  <2>2. first \in Request
    BY <2>1, RequestsTyped
  <2> QED
    BY <2>1, <2>2 DEF TypeOK, PendingTyped
<1> QED
  BY <1>1, <1>2, <1>3, <1>4, <1>5

\* A slot filled with a request or freed.
LEMMA SlotTyped ==
  ASSUME TypeOK, NEW i \in Ids, NEW x \in Request \cup {Idle}, pending' = [pending EXCEPT ![i] = x]
  PROVE  PendingTyped'
<1> QED
  BY DEF TypeOK, PendingTyped

\* The initial state is typed.
LEMMA InitTyped == Init => TypeOK
<1> SUFFICES ASSUME Init PROVE TypeOK
  OBVIOUS
<1>1. log \in Seq(Messages) /\ seenOrder \in Seq(Messages)
  BY EmptySeq DEF Init
<1>2. acts \in 0..MaxActs /\ listed \subseteq RoomNames
  BY RoomsAssumption DEF Init
<1>3. pending \in [Ids -> Request \cup {Idle}]
  BY DEF Init
<1> QED
  BY <1>1, <1>2, <1>3 DEF Init, TypeOK

\* What a step leaves alone keeps its types.
LEMMA PartsKept ==
  ASSUME TypeOK
  PROVE  /\ UNCHANGED page => PageTyped'
         /\ UNCHANGED poll => TimerTyped'
         /\ UNCHANGED pins => PinsTyped'
         /\ UNCHANGED server => ServerTyped'
         /\ UNCHANGED tab => TabTyped'
         /\ UNCHANGED composer => ComposerTyped'
         /\ UNCHANGED pending => PendingTyped'
         /\ UNCHANGED options => options' \subseteq RoomNames
<1>1. UNCHANGED page => PageTyped'
  BY PageKept
<1>2. (UNCHANGED poll => TimerTyped') /\ (UNCHANGED pins => PinsTyped') /\ (UNCHANGED server => ServerTyped')
  BY TypedParts DEF poll, pins, server, TimerTyped, PinsTyped, ServerTyped
<1>3. /\ UNCHANGED tab => TabTyped'
      /\ UNCHANGED composer => ComposerTyped'
      /\ UNCHANGED pending => PendingTyped'
      /\ UNCHANGED options => options' \subseteq RoomNames
  BY TypedParts DEF tab, composer, TabTyped, ComposerTyped, PendingTyped
<1> QED
  BY <1>1, <1>2, <1>3

\* Every answer, event and timer keeps to the types.
LEMMA HappensTyped ==
  ASSUME TypeOK, Creations, Happens
  PROVE  /\ PageTyped' /\ TimerTyped' /\ PinsTyped' /\ ServerTyped' /\ TabTyped' /\ ComposerTyped'
         /\ PendingTyped' /\ options' \subseteq RoomNames
<1> DEFINE Goal == /\ PageTyped' /\ TimerTyped' /\ PinsTyped' /\ ServerTyped' /\ TabTyped' /\ ComposerTyped'
                   /\ PendingTyped' /\ options' \subseteq RoomNames
<1>1. ASSUME NEW m \in Messages, Post(m) \/ Lost(m) PROVE Goal
  <2>1. ServerTyped'
    BY <1>1 DEF Post, Lost, TypeOK, ServerTyped
  <2> QED
    BY PartsKept, <1>1, <2>1 DEF Post, Lost
<1>2. ASSUME NEW m \in Messages, Live(m) PROVE Goal
  <2>1. ServerTyped'
    BY <1>2 DEF Live, TypeOK, ServerTyped
  <2>2. PageTyped'
    BY <1>2, PageKept DEF Live
  <2> QED
    BY PartsKept, <1>2, <2>1, <2>2 DEF Live
<1>3. ASSUME NEW r \in RoomNames, Pinned(r) PROVE Goal
  <2>1. PinsTyped'
    BY <1>3, AnswerOf DEF Pinned, TypeOK, PinsTyped
  <2> QED
    BY PartsKept, <1>3, <2>1 DEF Pinned
<1>4. ASSUME NEW i \in Ids, Fires(i) PROVE Goal
  <2>1. Poll(timerRoom, lastTs, "timer") \in Request /\ TimerTyped'
    BY <1>4, RequestsTyped DEF Fires, TypeOK, TimerTyped
  <2>2. PendingTyped'
    BY <1>4, <2>1, SlotTyped DEF Fires
  <2> QED
    BY PartsKept, <1>4, <2>1, <2>2 DEF Fires
<1>5. ASSUME NEW i \in Ids, RoomsListed(i) PROVE Goal
  <2>1. PICK r \in Wanted(listed) : OpenRoom(r, r, i, pending[i].cont)
    BY <1>5 DEF RoomsListed
  <2>2. r \in RoomNames /\ pending[i].cont \in Continuations
    BY <1>5, <2>1, Pending, TypedParts DEF RoomsListed, Wanted, ServerTyped
  <2>3. PageTyped' /\ TimerTyped' /\ PinsTyped' /\ PendingTyped' /\ room' \in RoomNames \cup {NoRoom} /\ mixed' \in BOOLEAN
    BY <2>1, <2>2, OpenTyped
  <2>4. locked' = FALSE /\ options' = listed /\ UNCHANGED <<server, tab>>
    BY <1>5 DEF RoomsListed
  <2> QED
    BY PartsKept, <2>3, <2>4, TypedParts DEF ComposerTyped, ServerTyped
<1>6. ASSUME NEW i \in Ids, RoomsFailed(i) PROVE Goal
  <2>1. locked' = TRUE /\ UNCHANGED <<server, view, hidden, options>> /\ loaded' \in BOOLEAN
    BY <1>6 DEF RoomsFailed, TypeOK
  <2>2. TabTyped'
    BY <2>1, TypedParts DEF TabTyped
  <2>3. CASE pending[i].cont \in RoomNames
    <3>1. PICK value \in RoomNames \cup {NoRoom} : OpenRoom(pending[i].cont, value, i, "start")
      BY <1>6, <2>3 DEF RoomsFailed
    <3>2. PageTyped' /\ TimerTyped' /\ PinsTyped' /\ PendingTyped' /\ room' \in RoomNames \cup {NoRoom} /\ mixed' \in BOOLEAN
      BY <2>3, <3>1, OpenTyped, RequestsTyped
    <3> QED
      BY PartsKept, <2>1, <2>2, <3>2 DEF ComposerTyped
  <2>4. CASE pending[i].cont \notin RoomNames
    <3>1. /\ log' = <<>> /\ UNCHANGED <<seen, seenOrder, lastTs, poll, pins, room, mixed>>
          /\ pending' = [pending EXCEPT ![i] = Idle]
      BY <1>6, <2>4 DEF RoomsFailed
    <3>2. PageTyped' /\ PendingTyped'
      BY <3>1, PageKept, SlotTyped
    <3>3. ComposerTyped'
      BY <2>1, <3>1, TypedParts DEF ComposerTyped
    <3> QED
      BY PartsKept, <2>1, <2>2, <3>1, <3>2, <3>3
  <2> QED
    BY <2>3, <2>4
<1>7. ASSUME NEW i \in Ids, Joined(i) PROVE Goal
  <2>1. /\ pending[i] \in Request /\ pending[i].room \in RoomNames \cup {NoRoom}
        /\ pending[i].cont \in Continuations /\ lastTs \in Nat
    BY <1>7, Pending, TypedParts DEF Joined, PageTyped
  <2>2. pending' = [pending EXCEPT ![i] = Poll(pending[i].room, lastTs, pending[i].cont)]
    BY <1>7, TypedParts DEF Joined, PendingTyped
  <2>3. PendingTyped'
    BY <2>1, <2>2, RequestsTyped, SlotTyped
  <2> QED
    BY PartsKept, <1>7, <2>3 DEF Joined
<1>8. ASSUME NEW i \in Ids, SendFailed(i) PROVE Goal
  BY PartsKept, <1>8, SlotTyped DEF SendFailed
<1>9. ASSUME NEW i \in Ids, NEW m \in Messages, Sent(m, i) PROVE Goal
  <2>1. /\ pending[i] \in Request /\ pending[i].room \in RoomNames \cup {NoRoom} /\ lastTs \in Nat
    BY <1>9, Pending, TypedParts DEF Sent, PageTyped
  <2>2. pending' = [pending EXCEPT ![i] = Poll(pending[i].room, lastTs, "sent")]
    BY <1>9, TypedParts DEF Sent, PendingTyped
  <2>3. PendingTyped'
    BY <2>1, <2>2, RequestsTyped, SlotTyped
  <2>4. ServerTyped'
    BY <1>9, TypedParts DEF Sent, ServerTyped
  <2> QED
    BY PartsKept, <1>9, <2>3, <2>4 DEF Sent
<1>10. ASSUME NEW i \in Ids, NEW ok \in BOOLEAN, Created(i, ok) PROVE Goal
  <2>1. /\ pending[i] \in Request /\ pending[i].cont \in Continuations
        /\ pending[i].room \in RoomNames
    BY <1>10, Pending DEF Created, Creations
  <2>2. pending' = [pending EXCEPT ![i] = IF ok THEN Rooms(pending[i].cont) ELSE Idle]
    BY <1>10, TypedParts DEF Created, PendingTyped
  <2>3. PendingTyped'
    BY <2>1, <2>2, RequestsTyped, SlotTyped
  <2>4. ServerTyped'
    BY <1>10, <2>1, TypedParts DEF Created, ServerTyped
  <2> QED
    BY PartsKept, <1>10, <2>3, <2>4 DEF Created
<1>11. ASSUME NEW i \in Ids, NEW ok \in BOOLEAN, Polled(i, ok) PROVE Goal
  <2>1. /\ pending[i] \in Request /\ pending[i].room \in RoomNames \cup {NoRoom}
        /\ UNCHANGED <<server, options>>
    BY <1>11, Pending DEF Polled
  <2>2. CASE pending[i].cont \in RoomNames
    <3>1. OpenRoom(pending[i].cont, pending[i].cont, i, "start") /\ UNCHANGED <<tab, locked>>
      BY <1>11, <2>2 DEF Polled
    <3>2. PageTyped' /\ TimerTyped' /\ PinsTyped' /\ PendingTyped' /\ room' \in RoomNames \cup {NoRoom} /\ mixed' \in BOOLEAN
      BY <2>2, <3>1, OpenTyped, RequestsTyped
    <3>3. ComposerTyped'
      BY <3>1, <3>2, TypedParts DEF ComposerTyped
    <3> QED
      BY PartsKept, <2>1, <3>1, <3>2, <3>3
  <2>3. CASE pending[i].cont \notin RoomNames
    <3>1. /\ (\E S \in Answer(pending[i].room, pending[i].after) : Ingest(S)) \/ UNCHANGED page
          /\ StartPoll(pending[i].room) \/ UNCHANGED poll
          /\ loaded' = (loaded \/ pending[i].cont = "load")
          /\ pending' = [pending EXCEPT ![i] = Idle]
          /\ UNCHANGED <<pins, room, locked, mixed, view, hidden>>
      BY <1>11, <2>3 DEF Polled
    <3>2. PageTyped'
      <4>1. posted \subseteq Messages
        BY TypedParts DEF ServerTyped
      <4> QED
        BY <3>1, <4>1, PageKept, AnswerOf
    <3>3. TimerTyped' /\ PendingTyped'
      BY <2>1, <3>1, TimerKept, SlotTyped
    <3>4. TabTyped' /\ ComposerTyped'
      BY <3>1, TypedParts DEF TabTyped, ComposerTyped
    <3> QED
      BY PartsKept, <2>1, <3>1, <3>2, <3>3, <3>4
  <2> QED
    BY <2>2, <2>3
<1> QED
  BY <1>1, <1>2, <1>3, <1>4, <1>5, <1>6, <1>7, <1>8, <1>9, <1>10, <1>11 DEF Happens

\* So does every act of the user, the way back to the view included.
LEMMA ActsTyped ==
  ASSUME TypeOK, Acts \/ Returns
  PROVE  /\ PageTyped' /\ TimerTyped' /\ PinsTyped' /\ ServerTyped' /\ TabTyped' /\ ComposerTyped'
         /\ PendingTyped' /\ options' \subseteq RoomNames
<1> DEFINE Goal == /\ PageTyped' /\ TimerTyped' /\ PinsTyped' /\ ServerTyped' /\ TabTyped' /\ ComposerTyped'
                   /\ PendingTyped' /\ options' \subseteq RoomNames
<1>0. room \in RoomNames \cup {NoRoom} /\ lastTs \in Nat /\ options \subseteq RoomNames
  BY DEF TypeOK
<1>1. CASE ShowOther \/ Hide \/ Unhide
  <2>1. TabTyped' /\ TimerTyped'
    BY <1>1, <1>0, TimerKept, TypedParts DEF ShowOther, Hide, Unhide, TabTyped, TimerTyped
  <2> QED
    BY PartsKept, <1>1, <2>1 DEF ShowOther, Hide, Unhide
<1>2. CASE TogglePins
  <2>1. PinsTyped'
    BY <1>0, <1>2, TypedParts DEF TogglePins, PinsTyped
  <2> QED
    BY PartsKept, <1>2, <2>1 DEF TogglePins
<1>3. ASSUME NEW m \in Messages, Reveal(m) PROVE Goal
  <2>1. PinsTyped'
    BY <1>3, TypedParts DEF Reveal, PinsTyped
  <2>2. PageTyped'
    <3>1. CASE UNCHANGED page
      BY <3>1, PageKept
    <3>2. CASE log' = Append(log, m) /\ Remember(<<m>>) /\ lastTs' = Max({lastTs, Ts[m]})
      <4>1. PageTyped /\ <<m>> \in Seq(Messages)
        BY TypedParts
      <4>2. log' \in Seq(Messages)
        BY <3>2, <4>1, AppendProperties DEF PageTyped
      <4>3. seenOrder' \in Seq(Messages) /\ seen' \subseteq Messages
        BY <3>2, <4>1, Remembering DEF PageTyped
      <4>4. lastTs' \in Nat
        <5>1. {lastTs, Ts[m]} \subseteq Nat
          BY <1>0, RoomsAssumption
        <5>2. IsFiniteSet({lastTs, Ts[m]})
          <6>1. {lastTs, Ts[m]} = {lastTs} \cup {Ts[m]} /\ IsFiniteSet({lastTs})
            BY FS_Singleton
          <6> QED
            BY <6>1, FS_AddElement
        <5> QED
          BY <3>2, <5>1, <5>2, MaxOfNats
      <4> QED
        BY <4>2, <4>3, <4>4 DEF PageTyped
    <3> QED
      BY <1>3, <3>1, <3>2 DEF Reveal
  <2> QED
    BY PartsKept, <1>3, <2>1, <2>2 DEF Reveal
<1>4. ASSUME NEW i \in Ids, Refresh(i) PROVE Goal
  <2>1. PendingTyped'
    BY <1>4, RequestsTyped, SlotTyped DEF Refresh
  <2> QED
    BY PartsKept, <1>4, <2>1 DEF Refresh
<1>5. ASSUME NEW i \in Ids, Send(i) PROVE Goal
  <2>1. PendingTyped'
    BY <1>0, <1>5, RequestsTyped, SlotTyped DEF Send
  <2> QED
    BY PartsKept, <1>5, <2>1 DEF Send
<1>6. ASSUME NEW i \in Ids, Pin(i) PROVE Goal
  <2>1. PendingTyped'
    BY <1>0, <1>6, RequestsTyped, SlotTyped DEF Pin
  <2> QED
    BY PartsKept, <1>6, <2>1 DEF Pin
<1>7. ASSUME NEW i \in Ids, NEW r \in RoomNames, PickRoom(r, i) PROVE Goal
  <2>1. OpenRoom(r, r, i, "start") /\ UNCHANGED <<server, tab, locked, options>>
    BY <1>7 DEF PickRoom
  <2>2. PageTyped' /\ TimerTyped' /\ PinsTyped' /\ PendingTyped' /\ room' \in RoomNames \cup {NoRoom} /\ mixed' \in BOOLEAN
    BY <2>1, OpenTyped, RequestsTyped
  <2>3. ComposerTyped'
    BY <2>1, <2>2, TypedParts DEF ComposerTyped
  <2> QED
    BY PartsKept, <2>1, <2>2, <2>3
<1>8. ASSUME NEW i \in Ids, NEW r \in RoomNames, Create(r, i) PROVE Goal
  <2>1. PendingTyped'
    BY <1>8, RequestsTyped, SlotTyped DEF Create
  <2> QED
    BY PartsKept, <1>8, <2>1 DEF Create
<1>9. ASSUME NEW i \in Ids, ShowRooms(i) PROVE Goal
  <2>1. TabTyped'
    BY <1>9, TypedParts DEF ShowRooms, TabTyped
  <2>2. PendingTyped'
    <3>1. UNCHANGED pending \/ pending' = [pending EXCEPT ![i] = Rooms("load")]
      BY <1>9 DEF ShowRooms
    <3> QED
      BY <3>1, PartsKept, RequestsTyped, SlotTyped
  <2>3. TimerTyped'
    BY <1>0, <1>9, TimerKept DEF ShowRooms
  <2> QED
    BY PartsKept, <1>9, <2>1, <2>2, <2>3 DEF ShowRooms
<1> QED
  BY <1>1, <1>2, <1>3, <1>4, <1>5, <1>6, <1>7, <1>8, <1>9 DEF Acts, Returns

\* Every step keeps to the types.
LEMMA NextTyped == TypeOK /\ Creations /\ [Next]_vars => TypeOK'
<1> SUFFICES ASSUME TypeOK, Creations, [Next]_vars PROVE TypeOK'
  OBVIOUS
<1>1. CASE UNCHANGED vars
  BY <1>1 DEF vars, page, poll, pins, server, tab, composer, TypeOK
<1>2. CASE Next
  <2>1. Happens \/ Acts \/ Returns
    BY <1>2 DEF Next
  <2>2. acts' \in 0..MaxActs
    BY <1>2, RoomsAssumption DEF Next, TypeOK
  <2>3. /\ PageTyped' /\ TimerTyped' /\ PinsTyped' /\ ServerTyped' /\ TabTyped' /\ ComposerTyped'
        /\ PendingTyped' /\ options' \subseteq RoomNames
    BY <2>1, HappensTyped, ActsTyped
  <2> QED
    BY <2>2, <2>3, Zenon
       DEF TypeOK, PageTyped, TimerTyped, PinsTyped, ServerTyped, TabTyped, ComposerTyped, PendingTyped
<1> QED
  BY <1>1, <1>2

\* Every step keeps what is known of rooms being created.
LEMMA NextCreations == TypeOK /\ Creations /\ [Next]_vars => Creations'
<1> SUFFICES ASSUME TypeOK, Creations, [Next]_vars PROVE Creations'
  OBVIOUS
<1>0. DOMAIN pending = Ids /\ \A r, a, c : /\ Poll(r, a, c).kind = "poll" /\ Join(r, c).kind = "join"
                                          /\ Rooms(c).kind = "rooms" /\ Sending(r).kind = "send"
                                          /\ Creating(r).room = r /\ Creating(r).cont = r
  BY DEF TypeOK, Poll, Join, Rooms, Sending, Creating
<1>1. ASSUME NEW i \in Ids, NEW x, pending' = [pending EXCEPT ![i] = x],
             x.kind = "create" => x.room \in RoomNames /\ x.cont \in RoomNames
      PROVE  Creations'
  BY <1>0, <1>1 DEF Creations
<1>2. ASSUME UNCHANGED pending PROVE Creations'
  BY <1>2 DEF Creations
<1>3. ASSUME NEW i \in Ids, NEW r, NEW value, NEW c, OpenRoom(r, value, i, c) PROVE Creations'
  <2>1. PICK first \in {Poll(r, 0, c), Join(r, c)} : pending' = [pending EXCEPT ![i] = first]
    BY <1>3 DEF OpenRoom
  <2> QED
    BY <1>0, <1>1, <2>1
<1>4. ASSUME NEW m \in Messages, Post(m) \/ Lost(m) \/ Live(m) \/ Reveal(m) PROVE Creations'
  BY <1>2, <1>4 DEF Post, Lost, Live, Reveal
<1>5. ASSUME NEW r \in RoomNames, Pinned(r) PROVE Creations'
  BY <1>2, <1>5 DEF Pinned
<1>6. CASE ShowOther \/ Hide \/ TogglePins \/ Unhide
  BY <1>2, <1>6 DEF ShowOther, Hide, TogglePins, Unhide
<1>7. ASSUME NEW i \in Ids, Fires(i) \/ Joined(i) \/ Refresh(i) \/ Send(i) \/ Pin(i) \/ ShowRooms(i)
                             \/ SendFailed(i) \/ (\E m \in Messages : Sent(m, i))
      PROVE  Creations'
  BY <1>0, <1>1, <1>2, <1>7 DEF Fires, Joined, Refresh, Send, Pin, ShowRooms, SendFailed, Sent, Idle
<1>8. ASSUME NEW i \in Ids, NEW ok \in BOOLEAN, Created(i, ok) PROVE Creations'
  BY <1>0, <1>1, <1>8 DEF Created, Idle
<1>9. ASSUME NEW i \in Ids, NEW r \in RoomNames, Create(r, i) PROVE Creations'
  <2>1. /\ pending' = [pending EXCEPT ![i] = Creating(r)]
        /\ Creating(r).room = r /\ Creating(r).cont = r
    BY <1>9 DEF Create, Creating
  <2> QED
    BY <1>1, <2>1
<1>10. ASSUME NEW i \in Ids, NEW r \in RoomNames, PickRoom(r, i) PROVE Creations'
  BY <1>3, <1>10 DEF PickRoom
<1>11. ASSUME NEW i \in Ids, RoomsListed(i) PROVE Creations'
  BY <1>3, <1>11 DEF RoomsListed
<1>12. ASSUME NEW i \in Ids, RoomsFailed(i) PROVE Creations'
  <2>1. CASE pending[i].cont \in RoomNames
    BY <1>3, <1>12, <2>1 DEF RoomsFailed
  <2>2. CASE pending[i].cont \notin RoomNames
    BY <1>1, <1>12, <2>2 DEF RoomsFailed, Idle
  <2> QED
    BY <2>1, <2>2
<1>13. ASSUME NEW i \in Ids, NEW ok \in BOOLEAN, Polled(i, ok) PROVE Creations'
  <2>1. CASE pending[i].cont \in RoomNames
    BY <1>3, <1>13, <2>1 DEF Polled
  <2>2. CASE pending[i].cont \notin RoomNames
    BY <1>1, <1>13, <2>2 DEF Polled, Idle
  <2> QED
    BY <2>1, <2>2
<1>14. CASE UNCHANGED vars
  BY <1>2, <1>14 DEF vars
<1> QED
  BY <1>4, <1>5, <1>6, <1>7, <1>8, <1>9, <1>10, <1>11, <1>12, <1>13, <1>14 DEF Next, Happens, Acts, Returns

\* The initial state has no request.
LEMMA InitCreations == Init => Creations
<1> QED
  BY DEF Init, Creations, Idle

\* The variables keep to their types.
THEOREM TypeCorrect == Spec => []TypeOK
<1>1. TypeOK /\ Creations /\ [Next]_vars => (TypeOK /\ Creations)'
  BY NextTyped, NextCreations
<1> QED
  BY InitTyped, InitCreations, <1>1, PTL DEF Spec

-----------------------------------------------------------------------------
(* A room on screen is polled. *)

\* A poll, or the join before it; the view's first load may end in one; and
\* some go on to set the timer.
Chain(x) == x.kind \in {"join", "poll"}
Loading == \E i \in Ids : Chain(pending[i]) /\ pending[i].cont = "load"
Onward == {"start", "load"} \cup RoomNames
Restarting == \E i \in Ids : Chain(pending[i]) /\ pending[i].cont \in Onward

\* A timer that fired has its poll in flight; and while a room is on screen
\* with no timer, a poll is that will set it.
Chained ==
  /\ \A i \in Ids : pending[i].kind \in {"rooms", "join", "create"} => pending[i].cont \in Onward
  /\ handle = "fired" => \E i \in Ids : pending[i].kind = "poll" /\ pending[i].cont = "timer"
  /\ handle = "null" /\ view = "rooms" /\ ~hidden /\ room # NoRoom => Restarting

\* Until the view has loaded, a load is under way when the view is on screen,
\* and has come to its poll when a room is.
Loads ==
  ~loaded =>
    /\ room # NoRoom \/ options # {} => Loading
    /\ \A i \in Ids : /\ pending[i].kind = "rooms" => pending[i].cont = "load" \/ Loading
                      /\ pending[i] # Idle => pending[i].cont \notin RoomNames
    /\ view = "rooms" => \E i \in Ids : /\ pending[i].kind \in {"rooms", "join", "poll"}
                                        /\ pending[i].cont = "load"

\* The words for what comes after are no rooms.
LEMMA Words ==
  /\ \A w \in {"timer", "none", "start", "load", "sent"} : w \notin RoomNames
  /\ \A r, a, c : /\ Poll(r, a, c).kind = "poll" /\ Poll(r, a, c).cont = c
                  /\ Join(r, c).kind = "join" /\ Join(r, c).cont = c
                  /\ Rooms(c).kind = "rooms" /\ Rooms(c).cont = c
                  /\ Sending(r).kind = "send" /\ Sending(r).cont = "sent"
                  /\ Creating(r).kind = "create" /\ Creating(r).cont = r
  /\ Idle.kind = "idle"
<1>1. \A w \in {"timer", "none", "start", "load", "sent"} : w \notin RoomNames
  BY RoomsAssumption
<1> QED
  BY <1>1 DEF Poll, Join, Rooms, Sending, Creating, Idle

\* One slot changes.
LEMMA Slot ==
  ASSUME TypeOK, NEW i \in Ids, NEW x, pending' = [pending EXCEPT ![i] = x]
  PROVE  pending'[i] = x /\ \A j \in Ids \ {i} : pending'[j] = pending[j]
<1> QED
  BY DEF TypeOK

\* Opening a room starts a poll that will set the timer.
LEMMA OpenPolled ==
  ASSUME TypeOK, Chained, Loads, NEW i \in Ids, NEW r, NEW value, NEW c \in Onward,
         OpenRoom(r, value, i, c), UNCHANGED <<view, hidden, loaded>>,
         loaded \/ (~Chain(pending[i]) /\ (c = "load" \/ Loading) /\ c \notin RoomNames)
  PROVE  Chained' /\ Loads'
<1>1. PICK first \in {Poll(r, 0, c), Join(r, c)} : pending' = [pending EXCEPT ![i] = first]
  BY DEF OpenRoom
<1>2. Chain(first) /\ first.cont = c /\ first # Idle /\ first.kind # "rooms"
  BY <1>1, Words DEF Chain
<1>3. pending'[i] = first /\ \A j \in Ids \ {i} : pending'[j] = pending[j]
  BY <1>1, Slot
<1>4. Restarting' /\ handle' = "null"
  BY <1>2, <1>3 DEF Restarting, Onward, OpenRoom, StopPoll
<1>5. \A j \in Ids : pending'[j].kind \in {"rooms", "join", "create"} => pending'[j].cont \in Onward
  BY <1>2, <1>3 DEF Chained
<1>6. Chained'
  BY <1>4, <1>5 DEF Chained, Onward
<1>7. ASSUME ~loaded PROVE Loading'
  <2>1. CASE c = "load"
    BY <1>2, <1>3, <2>1 DEF Loading
  <2>2. CASE Loading
    <3>1. PICK j \in Ids : Chain(pending[j]) /\ pending[j].cont = "load"
      BY <2>2 DEF Loading
    <3>2. j # i
      BY <1>7, <3>1
    <3> QED
      BY <1>3, <3>1, <3>2 DEF Loading
  <2> QED
    BY <1>7, <2>1, <2>2
<1>8. ASSUME ~loaded PROVE \A j \in Ids : pending'[j] # Idle => pending'[j].cont \notin RoomNames
  BY <1>2, <1>3, <1>8 DEF Loads
<1>9. ASSUME ~loaded PROVE \E j \in Ids : pending'[j].kind \in {"rooms", "join", "poll"} /\ pending'[j].cont = "load"
  BY <1>7, <1>9 DEF Loading, Chain
<1>10. Loads'
  BY <1>7, <1>8, <1>9 DEF Loads
<1> QED
  BY <1>6, <1>10

\* A request made from an idle slot, or one that is not part of a chain, moves
\* no other.
LEMMA SlotLoads ==
  ASSUME TypeOK, Loads, NEW i \in Ids, NEW x, pending' = [pending EXCEPT ![i] = x],
         UNCHANGED <<view, room, options>>,
         ~loaded' => /\ ~loaded
                     /\ pending[i].kind \in {"rooms", "join", "poll"} /\ pending[i].cont = "load" =>
                          x.kind \in {"rooms", "join", "poll"} /\ x.cont = "load"
                     /\ Chain(pending[i]) /\ pending[i].cont = "load" => Chain(x) /\ x.cont = "load"
                     /\ x.kind = "rooms" => x.cont = "load" \/ Loading
                     /\ x # Idle => x.cont \notin RoomNames
  PROVE  Loads'
<1> SUFFICES ASSUME ~loaded' PROVE Loads'
  BY DEF Loads
<1>1. pending'[i] = x /\ \A j \in Ids \ {i} : pending'[j] = pending[j]
  BY Slot
<1>2. Loading => Loading'
  BY <1>1 DEF Loading
<1>3. \A j \in Ids : /\ pending'[j].kind = "rooms" => pending'[j].cont = "load" \/ Loading'
                     /\ pending'[j] # Idle => pending'[j].cont \notin RoomNames
  BY <1>1, <1>2 DEF Loads
<1>4. view' = "rooms" => \E j \in Ids : pending'[j].kind \in {"rooms", "join", "poll"} /\ pending'[j].cont = "load"
  BY <1>1 DEF Loads
<1> QED
  BY <1>2, <1>3, <1>4 DEF Loads

\* Nor does it leave a fired timer without its poll, or a room without any.
LEMMA SlotChained ==
  ASSUME TypeOK, Chained, NEW i \in Ids, NEW x, pending' = [pending EXCEPT ![i] = x],
         x.kind \in {"rooms", "join", "create"} => x.cont \in Onward,
         handle' = "fired" => \/ x.kind = "poll" /\ x.cont = "timer"
                              \/ handle = "fired" /\ ~ (pending[i].kind = "poll" /\ pending[i].cont = "timer"),
         handle' = "null" /\ view' = "rooms" /\ ~hidden' /\ room' # NoRoom =>
           /\ Restarting
           /\ Chain(pending[i]) /\ pending[i].cont \in Onward => Chain(x) /\ x.cont \in Onward
  PROVE  Chained'
<1>1. pending'[i] = x /\ \A j \in Ids \ {i} : pending'[j] = pending[j]
  BY Slot
<1>2. \A j \in Ids : pending'[j].kind \in {"rooms", "join", "create"} => pending'[j].cont \in Onward
  BY <1>1 DEF Chained
<1>3. ASSUME handle' = "fired" PROVE \E j \in Ids : pending'[j].kind = "poll" /\ pending'[j].cont = "timer"
  <2>1. CASE x.kind = "poll" /\ x.cont = "timer"
    BY <1>1, <2>1
  <2>2. CASE handle = "fired" /\ ~ (pending[i].kind = "poll" /\ pending[i].cont = "timer")
    BY <1>1, <2>2 DEF Chained
  <2> QED
    BY <1>3, <2>1, <2>2
<1>4. ASSUME handle' = "null" /\ view' = "rooms" /\ ~hidden' /\ room' # NoRoom PROVE Restarting'
  BY <1>1, <1>4 DEF Restarting, Onward
<1> QED
  BY <1>2, <1>3, <1>4 DEF Chained, Onward

\* Every step keeps the polls going.
LEMMA NextPolled == TypeOK /\ Creations /\ Chained /\ Loads /\ [Next]_vars => Chained' /\ Loads'
<1> SUFFICES ASSUME TypeOK, Creations, Chained, Loads, [Next]_vars PROVE Chained' /\ Loads'
  OBVIOUS
<1> DEFINE Goal == Chained' /\ Loads'
<1> USE DEF page, poll, pins, server, tab, composer
<1>0. /\ handle \in {"null", "armed", "fired"} /\ view \in {"rooms", "other"}
      /\ hidden \in BOOLEAN /\ loaded \in BOOLEAN
  BY DEF TypeOK
<1>1. ASSUME UNCHANGED <<handle, view, hidden, loaded, room, options, pending>> PROVE Goal
  BY <1>1 DEF Chained, Loads, Loading, Restarting, Onward
<1>2. ASSUME NEW m \in Messages, Post(m) \/ Lost(m) \/ Live(m) \/ Reveal(m) PROVE Goal
  BY <1>1, <1>2 DEF Post, Lost, Live, Reveal
<1>3. ASSUME NEW r \in RoomNames, Pinned(r) PROVE Goal
  BY <1>1, <1>3 DEF Pinned
<1>4. CASE TogglePins \/ UNCHANGED vars
  BY <1>1, <1>4 DEF TogglePins, vars
<1>5. CASE ShowOther \/ Hide \/ Unhide
  <2>1. UNCHANGED <<loaded, room, options, pending>> /\ (view' = view \/ view' = "other")
    BY <1>5 DEF ShowOther, Hide, Unhide
  <2>2. handle' = "fired" => handle = "fired"
    BY <1>5 DEF ShowOther, Hide, Unhide, StopPoll
  <2>3. handle' = "null" /\ view' = "rooms" /\ ~hidden' /\ room' # NoRoom => FALSE
    BY <1>5, <2>1 DEF ShowOther, Hide, Unhide, StopPoll
  <2>4. Chained'
    BY <2>1, <2>2, <2>3 DEF Chained
  <2>5. Loads'
    BY <2>1 DEF Loads, Loading
  <2> QED
    BY <2>4, <2>5
<1>6. ASSUME NEW i \in Ids, Fires(i) PROVE Goal
  <2> DEFINE x == Poll(timerRoom, lastTs, "timer")
  <2>1. /\ pending[i].kind = "idle" /\ handle' = "fired" /\ UNCHANGED <<view, hidden, loaded, room, options>>
        /\ pending' = [pending EXCEPT ![i] = x]
    BY <1>6, Words DEF Fires
  <2>2. x.kind = "poll" /\ x.cont = "timer" /\ x.cont \notin RoomNames
    BY Words
  <2> HIDE DEF x
  <2>3. Chained'
    BY <2>1, <2>2, SlotChained
  <2>4. Loads'
    BY <2>1, <2>2, SlotLoads DEF Chain
  <2> QED
    BY <2>3, <2>4
<1>7. ASSUME NEW i \in Ids, Joined(i) PROVE Goal
  <2> DEFINE x == Poll(pending[i].room, lastTs, pending[i].cont)
  <2>1. /\ pending[i].kind = "join" /\ UNCHANGED <<handle, view, hidden, loaded, room, options>>
        /\ pending' = [pending EXCEPT ![i] = x]
    BY <1>7 DEF Joined, TypeOK
  <2>2. /\ x.kind = "poll" /\ x.cont = pending[i].cont
        /\ pending[i].cont # "timer" /\ pending[i] # Idle
    BY <2>1, Words DEF Chained, Onward
  <2> HIDE DEF x
  <2>3. Chained'
    <3>1. handle = "null" /\ view = "rooms" /\ ~hidden /\ room # NoRoom => Restarting
      BY DEF Chained
    <3>2. Chain(x)
      BY <2>2 DEF Chain
    <3>3. /\ x.kind \notin {"rooms", "join", "create"} /\ pending[i].kind # "poll"
      BY <2>1, <2>2
    <3> QED
      BY <2>1, <2>2, <3>1, <3>2, <3>3, SlotChained
  <2>4. Loads'
    <3>1. ~loaded => x.cont \notin RoomNames
      BY <2>2 DEF Loads
    <3> QED
      BY <2>1, <2>2, <3>1, SlotLoads DEF Chain
  <2> QED
    BY <2>3, <2>4
<1>8. ASSUME NEW i \in Ids, SendFailed(i) \/ \E m \in Messages : Sent(m, i) PROVE Goal
  <2>1. /\ pending[i].kind = "send" /\ UNCHANGED <<handle, view, hidden, loaded, room, options>>
    BY <1>8 DEF Sent, SendFailed
  <2>2. PICK x \in {Idle, Poll(pending[i].room, lastTs, "sent")} : pending' = [pending EXCEPT ![i] = x]
    BY <1>8 DEF Sent, SendFailed, TypeOK
  <2>3. /\ x = Idle \/ (x.cont = "sent" /\ x.cont \notin RoomNames)
        /\ x.kind \notin {"rooms", "join", "create"}
    BY <2>2, Words
  <2>4. Chained'
    BY <2>1, <2>2, <2>3, SlotChained DEF Chain, Chained
  <2>5. Loads'
    BY <2>1, <2>2, <2>3, SlotLoads DEF Chain
  <2> QED
    BY <2>4, <2>5
<1>9. ASSUME NEW i \in Ids, Refresh(i) \/ Send(i) \/ Pin(i) \/ \E r \in RoomNames : Create(r, i) PROVE Goal
  <2>1. /\ pending[i] = Idle /\ pending[i].kind = "idle"
        /\ UNCHANGED <<handle, view, hidden, loaded, room, options>>
    BY <1>9, Words DEF Refresh, Send, Pin, Create
  <2>2. ~loaded /\ Refresh(i) => Loading
    <3>1. ASSUME ~loaded, Refresh(i) PROVE Loading
      <4>1. view = "rooms" /\ \A j \in Ids : pending[j].kind # "rooms"
        BY <3>1 DEF Refresh
      <4>2. PICK j \in Ids : pending[j].kind \in {"rooms", "join", "poll"} /\ pending[j].cont = "load"
        BY <3>1, <4>1 DEF Loads
      <4> QED
        BY <4>1, <4>2 DEF Loading, Chain
    <3> QED
      BY <3>1
  <2>3. PICK x : /\ pending' = [pending EXCEPT ![i] = x]
                 /\ x.kind \in {"rooms", "create"} => x.cont \in Onward
                 /\ x.kind # "join"
                 /\ ~loaded => x.cont \notin RoomNames /\ (x.kind = "rooms" => Loading)
    <3>1. CASE Refresh(i)
      <4> DEFINE x == Rooms("start")
      <4>1. pending' = [pending EXCEPT ![i] = x]
        BY <3>1 DEF Refresh
      <4>2. x.kind = "rooms" /\ x.cont = "start" /\ x.cont \notin RoomNames
        BY Words
      <4> HIDE DEF x
      <4> QED
        BY <2>2, <3>1, <4>1, <4>2 DEF Onward
    <3>2. CASE Send(i)
      <4> DEFINE x == Sending(room)
      <4>1. pending' = [pending EXCEPT ![i] = x]
        BY <3>2 DEF Send
      <4>2. x.kind = "send" /\ x.cont = "sent" /\ x.cont \notin RoomNames
        BY Words
      <4> HIDE DEF x
      <4> QED
        BY <4>1, <4>2
    <3>3. CASE Pin(i)
      <4> DEFINE x == Poll(room, lastTs, "none")
      <4>1. pending' = [pending EXCEPT ![i] = x]
        BY <3>3 DEF Pin
      <4>2. x.kind = "poll" /\ x.cont = "none" /\ x.cont \notin RoomNames
        BY Words
      <4> HIDE DEF x
      <4> QED
        BY <4>1, <4>2
    <3>4. ASSUME NEW r \in RoomNames, Create(r, i)
          PROVE  /\ pending' = [pending EXCEPT ![i] = Creating(r)]
                 /\ Creating(r).kind = "create" /\ Creating(r).cont = r /\ loaded
      BY <3>4, Words DEF Create
    <3> QED
      BY <1>9, <3>1, <3>2, <3>3, <3>4 DEF Onward
  <2>4. Chained'
    BY <2>1, <2>3, SlotChained DEF Chain, Chained
  <2>5. Loads'
    BY <2>1, <2>3, SlotLoads DEF Chain
  <2> QED
    BY <2>4, <2>5
<1>10. ASSUME NEW i \in Ids, NEW r \in RoomNames, PickRoom(r, i) PROVE Goal
  <2>1. /\ pending[i].kind = "idle" /\ options # {} /\ OpenRoom(r, r, i, "start")
        /\ UNCHANGED <<view, hidden, loaded>>
    BY <1>10, Words DEF PickRoom
  <2>2. loaded \/ Loading
    BY <2>1 DEF Loads
  <2> QED
    BY <2>1, <2>2, Words, OpenPolled DEF Chain, Onward
<1>11. ASSUME NEW i \in Ids, NEW ok \in BOOLEAN, Created(i, ok) PROVE Goal
  <2>1. /\ pending[i].kind = "create" /\ UNCHANGED <<handle, view, hidden, loaded, room, options>>
    BY <1>11 DEF Created
  <2>2. pending[i].cont \in RoomNames /\ loaded
    BY <2>1, Words DEF Creations, Loads
  <2>3. PICK x \in {Idle, Rooms(pending[i].cont)} : pending' = [pending EXCEPT ![i] = x]
    BY <1>11 DEF Created, TypeOK
  <2>4. x.kind \in {"idle", "rooms"} /\ (x.kind = "rooms" => x.cont \in Onward)
    BY <2>2, <2>3, Words DEF Onward
  <2>5. Chained'
    BY <2>1, <2>3, <2>4, SlotChained DEF Chain, Chained
  <2>6. Loads'
    BY <2>1, <2>2 DEF Loads
  <2> QED
    BY <2>5, <2>6
<1>12. ASSUME NEW i \in Ids, RoomsListed(i) PROVE Goal
  <2>1. PICK r \in Wanted(listed) : OpenRoom(r, r, i, pending[i].cont)
    BY <1>12 DEF RoomsListed
  <2>2. pending[i].kind = "rooms" /\ UNCHANGED <<view, hidden, loaded>>
    BY <1>12 DEF RoomsListed
  <2>3. pending[i].cont \in Onward /\ ~Chain(pending[i]) /\ pending[i] # Idle
    BY <2>2, Words DEF Chained, Chain
  <2>4. ~loaded => (pending[i].cont = "load" \/ Loading) /\ pending[i].cont \notin RoomNames
    BY <2>2, <2>3 DEF Loads
  <2> QED
    BY <2>1, <2>2, <2>3, <2>4, OpenPolled
<1>13. ASSUME NEW i \in Ids, RoomsFailed(i) PROVE Goal
  <2>1. /\ pending[i].kind = "rooms" /\ pending[i] # Idle /\ ~Chain(pending[i])
        /\ UNCHANGED <<view, hidden, options>>
    BY <1>13, Words DEF RoomsFailed, Chain
  <2>2. CASE pending[i].cont \in RoomNames
    <3>1. /\ OpenRoom(pending[i].cont, IF pending[i].cont \in options THEN pending[i].cont ELSE NoRoom, i, "start")
          /\ UNCHANGED loaded
      BY <1>13, <2>2 DEF RoomsFailed
    <3>2. loaded
      BY <2>1, <2>2 DEF Loads
    <3> QED
      BY <2>1, <3>1, <3>2, OpenPolled DEF Onward
  <2>3. CASE pending[i].cont \notin RoomNames
    <3>1. /\ loaded' = (loaded \/ pending[i].cont = "load") /\ UNCHANGED <<handle, room>>
          /\ pending' = [pending EXCEPT ![i] = Idle]
      BY <1>13, <2>3 DEF RoomsFailed
    <3>2. Chained'
      BY <2>1, <3>1, Words, SlotChained DEF Chained, Chain
    <3>3. Loads'
      BY <2>1, <3>1, Words, SlotLoads DEF Chain
    <3> QED
      BY <3>2, <3>3
  <2> QED
    BY <2>2, <2>3
<1>14. ASSUME NEW i \in Ids, NEW ok \in BOOLEAN, Polled(i, ok) PROVE Goal
  <2>1. /\ pending[i].kind = "poll" /\ pending[i] # Idle /\ UNCHANGED <<view, hidden, options>>
    BY <1>14, Words DEF Polled
  <2>2. CASE pending[i].cont \in RoomNames
    <3>1. OpenRoom(pending[i].cont, pending[i].cont, i, "start") /\ UNCHANGED loaded
      BY <1>14, <2>2 DEF Polled
    <3>2. loaded
      BY <2>1, <2>2 DEF Loads
    <3> QED
      BY <2>1, <3>1, <3>2, OpenPolled DEF Onward
  <2>3. CASE pending[i].cont \notin RoomNames
    <3>1. /\ loaded' = (loaded \/ pending[i].cont = "load") /\ UNCHANGED room
          /\ pending' = [pending EXCEPT ![i] = Idle]
          /\ IF \/ pending[i].cont \in {"start", "load"}
                \/ pending[i].cont = "timer" /\ handle # "null"
               THEN StartPoll(pending[i].room) ELSE UNCHANGED poll
      BY <1>14, <2>3 DEF Polled
    <3>2. Chained'
      <4>1. CASE handle' # "null" \/ hidden'
        <5>1. handle' = "fired" => handle = "fired" /\ pending[i].cont # "timer"
          BY <3>1 DEF StartPoll
        <5>2. handle' = "null" /\ view' = "rooms" /\ ~hidden' /\ room' # NoRoom => FALSE
          BY <4>1
        <5> QED
          BY <3>1, <5>1, <5>2, Words, SlotChained
      <4>2. CASE handle' = "null" /\ ~hidden'
        <5>1. handle = "null" /\ pending[i].cont \notin Onward
          BY <2>1, <2>3, <3>1, <4>2 DEF StartPoll, Onward
        <5> QED
          BY <2>1, <3>1, <4>2, <5>1, Words, SlotChained DEF Chained
      <4> QED
        BY <2>1, <4>1, <4>2 DEF TypeOK
    <3>3. Loads'
      BY <2>1, <3>1, Words, SlotLoads DEF Chain
    <3> QED
      BY <3>2, <3>3
  <2> QED
    BY <2>2, <2>3
<1>15. ASSUME NEW i \in Ids, ShowRooms(i) PROVE Goal
  <2>1. UNCHANGED <<hidden, loaded, room, options>> /\ view = "other"
    BY <1>15 DEF ShowRooms
  <2>2. CASE ~loaded
    <3> DEFINE x == Rooms("load")
    <3>1. /\ pending[i].kind = "idle" /\ UNCHANGED handle
          /\ pending' = [pending EXCEPT ![i] = x]
      BY <1>15, <2>2, Words DEF ShowRooms
    <3>2. x.kind = "rooms" /\ x.cont = "load" /\ x.cont \notin RoomNames
      BY Words
    <3> HIDE DEF x
    <3>3. pending'[i] = x /\ \A j \in Ids \ {i} : pending'[j] = pending[j]
      BY <3>1, Slot
    <3>4. room # NoRoom => Restarting
      BY <2>2 DEF Loads, Loading, Restarting, Onward
    <3>5. Chained'
      BY <2>1, <3>1, <3>2, <3>4, SlotChained DEF Chained, Chain, Onward
    <3>6. Loading => Loading'
      BY <3>1, <3>3 DEF Loading, Chain
    <3>7. Loads'
      BY <2>1, <2>2, <3>2, <3>3, <3>6 DEF Loads
    <3> QED
      BY <3>5, <3>7
  <2>3. CASE loaded
    <3>1. UNCHANGED pending /\ IF room # NoRoom THEN StartPoll(room) ELSE UNCHANGED poll
      BY <1>15, <2>3 DEF ShowRooms
    <3>2. /\ handle' = "fired" => handle = "fired"
          /\ ~hidden /\ room # NoRoom => handle' # "null"
      BY <3>1 DEF StartPoll
    <3>3. Chained'
      BY <2>1, <3>1, <3>2 DEF Chained, Onward
    <3>4. Loads'
      BY <2>1, <2>3 DEF Loads
    <3> QED
      BY <3>3, <3>4
  <2> QED
    BY <2>2, <2>3
<1> QED
  BY <1>2, <1>3, <1>4, <1>5, <1>6, <1>7, <1>8, <1>9, <1>10, <1>11, <1>12, <1>13, <1>14, <1>15
     DEF Next, Happens, Acts, Returns

\* Nothing is on screen yet.
LEMMA InitPolled == Init => Chained /\ Loads
<1> QED
  BY DEF Init, Chained, Loads, Idle

\* While no list, join or poll is under way, a room on screen has its timer
\* set.
THEOREM PolledAlways == Spec => []NeverLeftUnpolled
<1>1. TypeOK /\ Creations /\ Chained /\ Loads /\ [Next]_vars => (TypeOK /\ Creations /\ Chained /\ Loads)'
  BY NextTyped, NextCreations, NextPolled
<1>2. TypeOK /\ Chained => NeverLeftUnpolled
  BY DEF TypeOK, Chained, NeverLeftUnpolled, Restarting, Chain
<1> QED
  BY InitTyped, InitCreations, InitPolled, <1>1, <1>2, PTL DEF Spec

-----------------------------------------------------------------------------
(* What is on screen is of the selected room. *)

\* What is asked for, pinned, shown and polled is of room r.
Asked(r) == \A i \in Ids : pending[i].kind \in {"join", "poll", "send"} => pending[i].room = r
PinsOf(r) == pinsAsked \subseteq {r} /\ (panel => pinned \in {NoRoom, r} /\ \A m \in jumps : RoomOf[m] = r)
Shows(r) == \A m \in Range(log) : RoomOf[m] = r
TimerOf(r) == handle # "null" => timerRoom = r

\* All of it is of the selected room, when this visit began with no answer for
\* another room due.
Unmixed == ~mixed /\ room # NoRoom => Asked(room) /\ PinsOf(room) /\ Shows(room) /\ TimerOf(room)

\* The kinds and rooms of the requests the page makes.
LEMMA Rows ==
  /\ \A r, a, c : Poll(r, a, c).room = r /\ Join(r, c).room = r /\ Sending(r).room = r
  /\ \A r, c : Rooms(c).kind \notin {"join", "poll", "send"} /\ Creating(r).kind \notin {"join", "poll", "send"}
  /\ Idle.kind \notin {"join", "poll", "send"}
<1> QED
  BY DEF Poll, Join, Rooms, Sending, Creating, Idle

\* A slot that is emptied, or takes a request for the room, keeps all requests
\* those of the room.
LEMMA AskedKept ==
  ASSUME TypeOK, NEW r, Asked(r), NEW i \in Ids, NEW x, pending' = [pending EXCEPT ![i] = x],
         x.kind \in {"join", "poll", "send"} => x.room = r
  PROVE  \A j \in Ids : pending'[j].kind \in {"join", "poll", "send"} => pending'[j].room = r
<1> QED
  BY Slot DEF Asked

\* Opening a room leaves nothing of another on screen.
LEMMA OpenUnmixed ==
  ASSUME TypeOK, NEW i \in Ids, NEW r, NEW value \in {NoRoom, r}, NEW c, OpenRoom(r, value, i, c)
  PROVE  Unmixed'
<1> SUFFICES ASSUME ~mixed', room' # NoRoom PROVE Asked(r)' /\ PinsOf(r)' /\ Shows(r)' /\ TimerOf(r)' /\ room' = r
  BY DEF Unmixed, Asked, PinsOf, Shows, TimerOf
<1>1. room' = r /\ ~ Foreign(r, i)
  BY DEF OpenRoom
<1>2. PICK first \in {Poll(r, 0, c), Join(r, c)} : pending' = [pending EXCEPT ![i] = first]
  BY DEF OpenRoom
<1>9. first.room = r
  BY <1>2, Rows
<1>3. pending'[i] = first /\ first.room = r /\ \A j \in Ids \ {i} : pending'[j] = pending[j]
  BY <1>2, <1>9, Slot
<1>4. Asked(r)'
  BY <1>1, <1>3 DEF Asked, Foreign
<1>5. PinsOf(r)'
  BY <1>1 DEF Foreign, OpenRoom, PinsOf
<1>6. Shows(r)'
  <2>1. log' = <<>> /\ Range(<<>>) = {}
    BY DEF OpenRoom, Range
  <2> QED
    BY <2>1 DEF Shows
<1>7. TimerOf(r)'
  BY DEF OpenRoom, StopPoll, TimerOf
<1> QED
  BY <1>1, <1>4, <1>5, <1>6, <1>7

\* An answer of the room's messages leaves nothing of another on screen.
LEMMA IngestShows ==
  ASSUME TypeOK, NEW r, Shows(r), NEW answer, answer \subseteq Messages, Ingest(answer),
         \A m \in answer : RoomOf[m] = r
  PROVE  \A m \in Range(log') : RoomOf[m] = r
<1>1. lastTs \in Nat /\ log \in Seq(Messages)
  BY DEF TypeOK
<1>2. PICK q \in Seq(Messages) : log' = log \o q /\ \A k \in 1..Len(q) : q[k] \in answer
  BY <1>1, Ingested
<1>3. Range(q) \subseteq answer
  BY <1>2, LenProperties DEF Range
<1>4. Range(log') = Range(log) \cup Range(q)
  BY <1>1, <1>2, RangeConcatenation
<1> QED
  BY <1>3, <1>4 DEF Shows

\* No step mixes rooms.
LEMMA NextUnmixed == TypeOK /\ Unmixed /\ [Next]_vars => Unmixed'
<1> SUFFICES ASSUME TypeOK, Unmixed, [Next]_vars PROVE Unmixed'
  OBVIOUS
<1> USE DEF page, poll, pins, server, tab, composer
<1>1. ASSUME NEW i \in Ids, RoomsListed(i) PROVE Unmixed'
  BY <1>1, OpenUnmixed DEF RoomsListed
<1>2. ASSUME NEW i \in Ids, NEW r \in RoomNames, PickRoom(r, i) PROVE Unmixed'
  BY <1>2, OpenUnmixed DEF PickRoom
<1>3. ASSUME NEW i \in Ids, NEW ok \in BOOLEAN, Polled(i, ok), pending[i].cont \in RoomNames PROVE Unmixed'
  BY <1>3, OpenUnmixed DEF Polled
<1>4. ASSUME NEW i \in Ids, RoomsFailed(i), pending[i].cont \in RoomNames PROVE Unmixed'
  <2> DEFINE value == IF pending[i].cont \in options THEN pending[i].cont ELSE NoRoom
  <2>1. OpenRoom(pending[i].cont, value, i, "start") /\ value \in {NoRoom, pending[i].cont}
    BY <1>4 DEF RoomsFailed
  <2> HIDE DEF value
  <2> QED
    BY <2>1, OpenUnmixed
<1>5. ASSUME UNCHANGED <<room, mixed>>,
             ~mixed /\ room # NoRoom /\ Asked(room) /\ PinsOf(room) /\ Shows(room) /\ TimerOf(room)
               => /\ \A i \in Ids : pending'[i].kind \in {"join", "poll", "send"} => pending'[i].room = room
                  /\ pinsAsked' \subseteq {room}
                  /\ panel' => pinned' \in {NoRoom, room} /\ \A m \in jumps' : RoomOf[m] = room
                  /\ \A m \in Range(log') : RoomOf[m] = room
                  /\ handle' # "null" => timerRoom' = room
      PROVE  Unmixed'
  BY <1>5 DEF Unmixed, Asked, PinsOf, Shows, TimerOf
<1>6. CASE \/ UNCHANGED vars \/ ShowOther \/ Hide \/ Unhide \/ TogglePins
           \/ \E m \in Messages : Post(m) \/ Lost(m)
  <2>1. UNCHANGED <<room, mixed, log, pending>>
    BY <1>6 DEF vars, ShowOther, Hide, Unhide, TogglePins, Post, Lost
  <2>2. handle' = "null" \/ timerRoom' = room \/ UNCHANGED poll
    BY <1>6 DEF vars, ShowOther, Hide, Unhide, StopPoll, TogglePins, Post, Lost
  <2>3. \/ UNCHANGED pins
        \/ panel' = FALSE /\ UNCHANGED <<pinned, jumps, pinsAsked>>
        \/ pinned' = NoRoom /\ jumps' = {} /\ pinsAsked' = pinsAsked \cup {room}
    BY <1>6 DEF vars, ShowOther, Hide, Unhide, TogglePins, Post, Lost
  <2> QED
    BY <1>5, <2>1, <2>2, <2>3 DEF Asked, PinsOf, Shows, TimerOf
<1>7. ASSUME NEW m \in Messages, Live(m) PROVE Unmixed'
  <2>1. UNCHANGED <<room, mixed, pending, pins, poll>>
    BY <1>7 DEF Live
  <2>2. Shows(room) => \A n \in Range(log') : RoomOf[n] = room
    <3>1. CASE RoomOf[m] = room
      <4>1. Ingest({m}) /\ {m} \subseteq Messages /\ \A n \in {m} : RoomOf[n] = room
        BY <1>7, <3>1 DEF Live
      <4> QED
        BY <4>1, IngestShows
    <3>2. CASE RoomOf[m] # room
      BY <1>7, <3>2 DEF Live, Shows
    <3> QED
      BY <3>1, <3>2
  <2> QED
    BY <1>5, <2>1, <2>2 DEF Asked, PinsOf, TimerOf
<1>8. ASSUME NEW r \in RoomNames, Pinned(r) PROVE Unmixed'
  <2>1. UNCHANGED <<room, mixed, pending, log, poll, panel>> /\ r \in pinsAsked
    BY <1>8 DEF Pinned
  <2>2. pinsAsked' \subseteq pinsAsked /\ pinned' = r /\ \A m \in jumps' : RoomOf[m] = r
    BY <1>8 DEF Pinned
  <2> QED
    BY <1>5, <2>1, <2>2 DEF Asked, PinsOf, Shows, TimerOf
<1>9. ASSUME NEW m \in Messages, Reveal(m) PROVE Unmixed'
  <2>1. UNCHANGED <<room, mixed, pending, poll, pinned, jumps, pinsAsked>> /\ panel /\ m \in jumps /\ ~panel'
    BY <1>9 DEF Reveal
  <2>2. Range(log') \subseteq Range(log) \cup {m}
    <3>1. log \in Seq(Messages)
      BY DEF TypeOK
    <3>2. log' = log \/ log' = Append(log, m)
      BY <1>9 DEF Reveal
    <3>3. /\ DOMAIN Append(log, m) = 1..(Len(log) + 1) /\ DOMAIN log = 1..Len(log) /\ Len(log) \in Nat
          /\ \A k \in 1..Len(log) : Append(log, m)[k] = log[k]
          /\ Append(log, m)[Len(log) + 1] = m
      BY <3>1, AppendProperties, LenProperties
    <3>4. \A k \in 1..(Len(log) + 1) : k \in 1..Len(log) \/ k = Len(log) + 1
      BY <3>3
    <3> QED
      BY <3>2, <3>3, <3>4 DEF Range
  <2> QED
    BY <1>5, <2>1, <2>2 DEF Asked, PinsOf, Shows, TimerOf
<1>10. ASSUME NEW i \in Ids, Fires(i) PROVE Unmixed'
  <2>1. /\ UNCHANGED <<room, mixed, log, pins, timerRoom>> /\ handle = "armed"
        /\ pending' = [pending EXCEPT ![i] = Poll(timerRoom, lastTs, "timer")]
    BY <1>10 DEF Fires
  <2>2. Asked(room) /\ TimerOf(room) => \A j \in Ids : pending'[j].kind \in {"join", "poll", "send"} => pending'[j].room = room
    <3> DEFINE x == Poll(timerRoom, lastTs, "timer")
    <3> SUFFICES ASSUME Asked(room), TimerOf(room)
                 PROVE  \A j \in Ids : pending'[j].kind \in {"join", "poll", "send"} => pending'[j].room = room
      OBVIOUS
    <3>1. x.room = room
      BY <2>1, Rows DEF TimerOf
    <3>2. pending' = [pending EXCEPT ![i] = x]
      BY <2>1
    <3> HIDE DEF x
    <3> QED
      BY <3>1, <3>2, AskedKept
  <2> QED
    BY <1>5, <2>1, <2>2 DEF PinsOf, Shows, TimerOf
<1>11. ASSUME NEW i \in Ids,
              \/ Joined(i) \/ SendFailed(i) \/ (\E m \in Messages : Sent(m, i))
              \/ (\E ok \in BOOLEAN : Created(i, ok))
              \/ Refresh(i) \/ Send(i) \/ Pin(i) \/ (\E r \in RoomNames : Create(r, i))
       PROVE  Unmixed'
  <2>1. UNCHANGED <<room, mixed, log, pins, poll>>
    BY <1>11 DEF Joined, SendFailed, Sent, Created, Refresh, Send, Pin, Create
  <2>2. \E x : /\ pending' = [pending EXCEPT ![i] = x]
               /\ \/ x.kind \notin {"join", "poll", "send"}
                  \/ x.room = room
                  \/ pending[i].kind \in {"join", "poll", "send"} /\ x.room = pending[i].room
    <3>1. CASE Joined(i) \/ \E m \in Messages : Sent(m, i)
      <4>1. PICK c : pending' = [pending EXCEPT ![i] = Poll(pending[i].room, lastTs, c)]
        BY <3>1 DEF Joined, Sent, TypeOK
      <4>2. pending[i].kind \in {"join", "poll", "send"}
        BY <3>1 DEF Joined, Sent
      <4> DEFINE x == Poll(pending[i].room, lastTs, c)
      <4>3. x.room = pending[i].room /\ pending' = [pending EXCEPT ![i] = x]
        BY <4>1, Rows
      <4> HIDE DEF x
      <4> QED
        BY <4>2, <4>3
    <3>2. CASE SendFailed(i) \/ \E ok \in BOOLEAN : Created(i, ok)
      <4>1. PICK x \in {Idle, Rooms(pending[i].cont)} : pending' = [pending EXCEPT ![i] = x]
        BY <3>2 DEF SendFailed, Created, TypeOK
      <4>2. x.kind \notin {"join", "poll", "send"}
        BY <4>1, Rows
      <4> QED
        BY <4>1, <4>2
    <3>3. CASE Refresh(i) \/ \E r \in RoomNames : Create(r, i)
      <4>1. \/ pending' = [pending EXCEPT ![i] = Rooms("start")]
            \/ \E r \in RoomNames : pending' = [pending EXCEPT ![i] = Creating(r)]
        BY <3>3 DEF Refresh, Create
      <4> QED
        BY <4>1, Rows
    <3>4. CASE Send(i) \/ Pin(i)
      BY <3>4, Rows DEF Send, Pin
    <3> QED
      BY <1>11, <3>1, <3>2, <3>3, <3>4
  <2>3. Asked(room) => \A j \in Ids : pending'[j].kind \in {"join", "poll", "send"} => pending'[j].room = room
    <3>1. SUFFICES ASSUME Asked(room) PROVE \A j \in Ids : pending'[j].kind \in {"join", "poll", "send"} => pending'[j].room = room
      OBVIOUS
    <3>2. PICK x : /\ pending' = [pending EXCEPT ![i] = x]
                   /\ \/ x.kind \notin {"join", "poll", "send"}
                      \/ x.room = room
                      \/ pending[i].kind \in {"join", "poll", "send"} /\ x.room = pending[i].room
      BY <2>2
    <3>3. x.kind \in {"join", "poll", "send"} => x.room = room
      BY <3>1, <3>2 DEF Asked
    <3> QED
      BY <3>1, <3>2, <3>3, AskedKept
  <2> QED
    BY <1>5, <2>1, <2>3 DEF PinsOf, Shows, TimerOf
<1>12. ASSUME NEW i \in Ids, NEW ok \in BOOLEAN, Polled(i, ok), pending[i].cont \notin RoomNames PROVE Unmixed'
  <2>1. /\ pending[i].kind = "poll" /\ UNCHANGED <<room, mixed, pins, hidden>>
        /\ pending' = [pending EXCEPT ![i] = Idle]
    BY <1>12 DEF Polled
  <2>2. Asked(room) => pending[i].room = room
    BY <2>1 DEF Asked
  <2>3. Asked(room) => \A j \in Ids : pending'[j].kind \in {"join", "poll", "send"} => pending'[j].room = room
    BY <2>1, AskedKept, Rows
  <2>4. Asked(room) /\ Shows(room) => \A n \in Range(log') : RoomOf[n] = room
    <3>1. CASE ok
      <4>1. PICK S \in Answer(pending[i].room, pending[i].after) : Ingest(S)
        BY <1>12, <3>1 DEF Polled
      <4>2. S \subseteq Messages /\ \A m \in S : RoomOf[m] = pending[i].room
        BY AnswerOf DEF TypeOK
      <4> QED
        BY <2>2, <4>1, <4>2, IngestShows
    <3>2. CASE ~ok
      BY <1>12, <3>2 DEF Polled, Shows
    <3> QED
      BY <3>1, <3>2
  <2>5. Asked(room) /\ TimerOf(room) => (handle' # "null" => timerRoom' = room)
    BY <1>12, <2>2 DEF Polled, StartPoll, TimerOf
  <2> QED
    BY <1>5, <2>1, <2>3, <2>4, <2>5 DEF PinsOf
<1>13. ASSUME NEW i \in Ids, RoomsFailed(i), pending[i].cont \notin RoomNames PROVE Unmixed'
  <2>1. UNCHANGED <<room, mixed, poll, pins>> /\ log' = <<>> /\ pending' = [pending EXCEPT ![i] = Idle]
    BY <1>13 DEF RoomsFailed
  <2>2. Range(log') = {}
    BY <2>1 DEF Range
  <2>3. Asked(room) => \A j \in Ids : pending'[j].kind \in {"join", "poll", "send"} => pending'[j].room = room
    BY <2>1, AskedKept, Rows
  <2> QED
    BY <1>5, <2>1, <2>2, <2>3 DEF PinsOf, TimerOf
<1>14. ASSUME NEW i \in Ids, ShowRooms(i) PROVE Unmixed'
  <2>1. UNCHANGED <<room, mixed, log, pins>>
    BY <1>14 DEF ShowRooms
  <2>2. TimerOf(room) => (handle' # "null" => timerRoom' = room)
    BY <1>14 DEF ShowRooms, StartPoll, TimerOf
  <2>3. Asked(room) => \A j \in Ids : pending'[j].kind \in {"join", "poll", "send"} => pending'[j].room = room
    <3>1. UNCHANGED pending \/ pending' = [pending EXCEPT ![i] = Rooms("load")]
      BY <1>14 DEF ShowRooms
    <3>2. CASE pending' = [pending EXCEPT ![i] = Rooms("load")]
      <4> DEFINE x == Rooms("load")
      <4>1. x.kind \notin {"join", "poll", "send"} /\ pending' = [pending EXCEPT ![i] = x]
        BY <3>2, Rows
      <4> HIDE DEF x
      <4> QED
        BY <4>1, AskedKept
    <3> QED
      BY <3>1, <3>2 DEF Asked
  <2> QED
    BY <1>5, <2>1, <2>2, <2>3 DEF PinsOf, Shows
<1> QED
  BY <1>1, <1>2, <1>3, <1>4, <1>6, <1>7, <1>8, <1>9, <1>10, <1>11, <1>12, <1>13, <1>14
     DEF Next, Happens, Acts, Returns

\* When no answer for another room was due as the selected room was opened,
\* everything on screen and the poll are of the room the composer sends to.
THEOREM NothingForeign == Spec => []OfTheRoom
<1>1. TypeOK /\ Creations /\ Unmixed /\ [Next]_vars => (TypeOK /\ Creations /\ Unmixed)'
  BY NextTyped, NextCreations, NextUnmixed
<1>2. Unmixed => OfTheRoom
  BY DEF Unmixed, OfTheRoom, Shows, TimerOf, PinsOf
<1>3. Init => Unmixed
  BY DEF Init, Unmixed
<1> QED
  BY InitTyped, InitCreations, <1>1, <1>2, <1>3, PTL DEF Spec

-----------------------------------------------------------------------------
(* No message is drawn again too early. *)

\* Two rows of one message are more than SeenCap apart.
FarApart == \A i, j \in 1..Len(log) : i < j /\ log[i] = log[j] => j - i > SeenCap

\* The ids remembered are those of the last rows of the log, as far as the cap
\* allows.
Newest ==
  /\ Len(seenOrder) = IF Len(log) > SeenCap THEN SeenCap ELSE Len(log)
  /\ \A k \in 1..Len(seenOrder) : /\ seenOrder[k] = log[Len(log) - Len(seenOrder) + k]
                                  /\ seenOrder[k] \in seen

\* They are while the list of rooms has not failed.
Remembered == ~locked => Newest /\ FarApart

\* A batch of messages that are not remembered, each once, is remembered.
LEMMA BatchRemembered ==
  ASSUME TypeOK, Newest, FarApart, NEW q \in Seq(Messages), log' = log \o q, Remember(q),
         \A a, b \in 1..Len(q) : q[a] = q[b] => a = b,
         \A k \in 1..Len(q), i \in 1..Len(seenOrder) : q[k] # seenOrder[i]
  PROVE  Newest' /\ FarApart'
<1> DEFINE order == seenOrder \o q
           drop == Overflow(Len(q))
           L == Len(log)
           S == Len(seenOrder)
           n == Len(q)
<1>1. log \in Seq(Messages) /\ seenOrder \in Seq(Messages) /\ seen \subseteq Messages
  BY DEF TypeOK
<1>2. L \in Nat /\ S \in Nat /\ n \in Nat /\ SeenCap \in Nat \ {0}
  BY <1>1, LenProperties, RoomsAssumption
<1>3. /\ Len(log') = L + n
      /\ \A k \in 1..L : log'[k] = log[k]
      /\ \A k \in 1..n : log'[L + k] = q[k]
  BY <1>1, ConcatProperties
<1>4. /\ \A k \in 1..S : order[k] = seenOrder[k]
      /\ \A k \in 1..n : order[S + k] = q[k]
  BY <1>1, ConcatProperties
<1>5. /\ drop \in 0..(S + n) /\ Len(seenOrder') = S + n - drop
      /\ \A k \in 1..Len(seenOrder') : seenOrder'[k] = order[drop + k]
      /\ \A x \in seen \cup Range(q) : x \in seen' \/ \E k \in 1..drop : order[k] = x
  BY <1>1, Remembering
<1>6. drop = IF S + n > SeenCap THEN S + n - SeenCap ELSE 0
  BY DEF Overflow
<1>7. /\ S = IF L > SeenCap THEN SeenCap ELSE L
      /\ \A k \in 1..S : seenOrder[k] = log[L - S + k] /\ seenOrder[k] \in seen
  BY DEF Newest
<1> HIDE DEF order, drop, L, S, n
<1>8. Len(seenOrder') = IF Len(log') > SeenCap THEN SeenCap ELSE Len(log')
  BY <1>2, <1>3, <1>5, <1>6, <1>7
<1>9. S <= L /\ S <= SeenCap /\ (S = L \/ S = SeenCap)
  BY <1>2, <1>7
\* The ids of the old ones and the batch are the last rows.
<1>10. \A p \in 1..(S + n) : order[p] = log'[L - S + p]
  <2> SUFFICES ASSUME NEW p \in 1..(S + n) PROVE order[p] = log'[L - S + p]
    OBVIOUS
  <2>1. CASE p <= S
    <3>1. p \in 1..S /\ L - S + p \in 1..L
      BY <1>2, <1>9, <2>1
    <3> QED
      BY <1>3, <1>4, <1>7, <3>1
  <2>2. CASE p > S
    <3>1. PICK a \in 1..n : p = S + a
      BY <1>2, <2>2
    <3>2. L - S + p = L + a
      BY <1>2, <3>1
    <3> QED
      BY <1>3, <1>4, <3>1, <3>2
  <2>3. p <= S \/ p > S
    BY <1>2
  <2> QED
    BY <2>1, <2>2, <2>3
<1>11. \A i, j \in 1..(L + n) : i < j /\ log'[i] = log'[j] => j - i > SeenCap
  <2> SUFFICES ASSUME NEW i \in 1..(L + n), NEW j \in 1..(L + n), i < j, log'[i] = log'[j]
               PROVE  j - i > SeenCap
    OBVIOUS
  <2>1. CASE j <= L
    <3>1. i \in 1..L /\ j \in 1..L
      BY <1>2, <2>1
    <3> QED
      BY <1>3, <3>1 DEF FarApart, L
  <2>2. CASE i > L
    <3>1. PICK a \in 1..n, b \in 1..n : i = L + a /\ j = L + b
      BY <1>2, <2>2
    <3>2. q[a] = q[b] /\ a # b
      BY <1>2, <1>3, <3>1
    <3> QED
      BY <3>2 DEF n
  <2>3. CASE i <= L /\ j > L
    <3>1. PICK b \in 1..n : i \in 1..L /\ j = L + b
      BY <1>2, <2>3
    <3>2. log[i] = q[b]
      BY <1>3, <3>1
    <3>3. i <= L - S
      <4> SUFFICES ASSUME i > L - S PROVE FALSE
        BY <1>2, <3>1
      <4>1. PICK a \in 1..S : L - S + a = i
        BY <1>2, <1>9, <3>1
      <4>2. seenOrder[a] = log[i]
        BY <1>7, <4>1
      <4>3. q[b] # seenOrder[a]
        BY DEF n, S
      <4> QED
        BY <3>2, <4>2, <4>3
    <3> QED
      BY <1>2, <1>9, <3>1, <3>3
  <2> QED
    BY <1>2, <2>1, <2>2, <2>3
<1>12. \A k \in 1..Len(seenOrder') : /\ drop + k \in 1..(S + n)
                                     /\ Len(log') - Len(seenOrder') + k = L - S + (drop + k)
  BY <1>2, <1>3, <1>5
<1>13. \A p \in 1..(S + n) : order[p] \in seen \cup Range(q)
  <2> SUFFICES ASSUME NEW p \in 1..(S + n) PROVE order[p] \in seen \cup Range(q)
    OBVIOUS
  <2>1. CASE p <= S
    <3>1. p \in 1..S
      BY <1>2, <2>1
    <3> QED
      BY <1>4, <1>7, <3>1
  <2>2. CASE p > S
    <3>1. PICK a \in 1..n : p = S + a
      BY <1>2, <2>2
    <3>2. DOMAIN q = 1..n
      BY LenProperties DEF n
    <3>3. q[a] \in Range(q)
      BY <3>1, <3>2 DEF Range
    <3> QED
      BY <1>4, <3>1, <3>3
  <2> QED
    BY <1>2, <2>1, <2>2
\* None of those kept is one of those forgotten: they are too close.
<1>14. \A k \in 1..Len(seenOrder') : seenOrder'[k] \in seen'
  <2> SUFFICES ASSUME NEW k \in 1..Len(seenOrder'), order[drop + k] \notin seen' PROVE FALSE
    BY <1>5
  <2>1. drop + k \in 1..(S + n)
    BY <1>12
  <2>2. PICK d \in 1..drop : order[d] = order[drop + k]
    BY <1>5, <1>13, <2>1
  <2>3. d \in 1..(S + n) /\ d < drop + k
    BY <1>2, <1>5, <2>1
  <2>4. /\ L - S + d \in 1..(L + n) /\ L - S + (drop + k) \in 1..(L + n)
        /\ L - S + d < L - S + (drop + k)
    BY <1>2, <1>5, <1>9, <2>1, <2>3
  <2>5. log'[L - S + d] = log'[L - S + (drop + k)]
    BY <1>10, <2>1, <2>2, <2>3
  <2>6. (L - S + (drop + k)) - (L - S + d) > SeenCap
    BY <1>11, <2>4, <2>5
  \* So the later one is of the batch, and the earlier one is not.
  <2>7. CASE drop + k <= S
    BY <1>2, <1>5, <1>9, <2>3, <2>6, <2>7
  <2>8. CASE d > S
    <3>1. PICK a \in 1..n, b \in 1..n : d = S + a /\ drop + k = S + b
      BY <1>2, <1>5, <2>1, <2>3, <2>8
    <3>2. q[a] = q[b]
      <4>1. order[S + a] = q[a] /\ order[S + b] = q[b]
        BY <1>4
      <4> QED
        BY <2>2, <3>1, <4>1
    <3>3. a # b
      BY <1>2, <2>3, <3>1
    <3> QED
      BY <3>2, <3>3 DEF n
  <2>9. CASE d <= S /\ drop + k > S
    <3>1. PICK b \in 1..n : d \in 1..S /\ drop + k = S + b
      BY <1>2, <1>5, <2>1, <2>3, <2>9
    <3>2. q[b] = seenOrder[d]
      BY <1>4, <2>2, <3>1
    <3> QED
      BY <3>1, <3>2 DEF n, S
  <2> QED
    BY <1>2, <1>5, <2>1, <2>3, <2>7, <2>8, <2>9
<1>15. ASSUME NEW k \in 1..Len(seenOrder') PROVE seenOrder'[k] = log'[Len(log') - Len(seenOrder') + k]
  <2>1. drop + k \in 1..(S + n) /\ Len(log') - Len(seenOrder') + k = L - S + (drop + k)
    BY <1>12
  <2>2. seenOrder'[k] = order[drop + k] /\ order[drop + k] = log'[L - S + (drop + k)]
    BY <1>5, <1>10, <2>1
  <2> QED
    BY <2>1, <2>2
<1>16. Newest'
  BY <1>8, <1>14, <1>15 DEF Newest
<1>17. FarApart'
  BY <1>3, <1>11 DEF FarApart
<1> QED
  BY <1>16, <1>17

\* An answer or an event leaves the ids of the newest rows remembered.
LEMMA IngestRemembered ==
  ASSUME TypeOK, Remembered, NEW answer, answer \subseteq Messages, Ingest(answer), UNCHANGED locked
  PROVE  Remembered'
<1> SUFFICES ASSUME ~locked' PROVE Newest' /\ FarApart'
  BY DEF Remembered, Newest, FarApart
<1>1. lastTs \in Nat /\ Newest /\ FarApart
  BY DEF TypeOK, Remembered
<1>2. PICK q \in Seq(Messages) :
        /\ log' = log \o q /\ Remember(q)
        /\ \A k \in 1..Len(q) : q[k] \in answer /\ q[k] \notin seen
        /\ \A a, b \in 1..Len(q) : q[a] = q[b] => a = b
  BY <1>1, Ingested
<1>3. \A k \in 1..Len(q), i \in 1..Len(seenOrder) : q[k] # seenOrder[i]
  BY <1>1, <1>2 DEF Newest
<1> QED
  BY <1>1, <1>2, <1>3, BatchRemembered

\* A room just opened has nothing to remember.
LEMMA OpenRemembered ==
  ASSUME NEW i \in Ids, NEW r, NEW value, NEW c, OpenRoom(r, value, i, c)
  PROVE  Remembered'
<1>1. log' = <<>> /\ seenOrder' = <<>> /\ Len(<<>>) = 0 /\ SeenCap \in Nat \ {0}
  BY RoomsAssumption DEF OpenRoom
<1>2. 1..0 = {}
  OBVIOUS
<1>3. Newest' /\ FarApart'
  BY <1>1, <1>2 DEF Newest, FarApart
<1> QED
  BY <1>3 DEF Remembered

\* Every step leaves the ids of the newest rows remembered.
LEMMA NextRemembered == TypeOK /\ Remembered /\ [Next]_vars => Remembered'
<1> SUFFICES ASSUME TypeOK, Remembered, [Next]_vars PROVE Remembered'
  OBVIOUS
<1> USE DEF page, poll, pins, server, tab, composer
<1>1. ASSUME UNCHANGED <<log, seen, seenOrder, locked>> PROVE Remembered'
  BY <1>1 DEF Remembered, Newest, FarApart
<1>2. CASE UNCHANGED vars \/ ShowOther \/ Hide \/ Unhide \/ TogglePins
  BY <1>1, <1>2 DEF vars, ShowOther, Hide, Unhide, TogglePins
<1>3. ASSUME NEW m \in Messages, Post(m) \/ Lost(m) PROVE Remembered'
  BY <1>1, <1>3 DEF Post, Lost
<1>4. ASSUME NEW r \in RoomNames, Pinned(r) PROVE Remembered'
  BY <1>1, <1>4 DEF Pinned
<1>5. ASSUME NEW i \in Ids,
             \/ Fires(i) \/ Joined(i) \/ SendFailed(i) \/ (\E m \in Messages : Sent(m, i))
             \/ (\E ok \in BOOLEAN : Created(i, ok)) \/ Refresh(i) \/ Send(i) \/ Pin(i)
             \/ (\E r \in RoomNames : Create(r, i)) \/ ShowRooms(i)
      PROVE  Remembered'
  <2>1. UNCHANGED <<log, seen, seenOrder, locked>>
    BY <1>5 DEF Fires, Joined, SendFailed, Sent, Created, Refresh, Send, Pin, Create, ShowRooms
  <2> QED
    BY <1>1, <2>1
<1>6. ASSUME NEW m \in Messages, Live(m) PROVE Remembered'
  <2>1. CASE RoomOf[m] = room
    <3>1. Ingest({m}) /\ {m} \subseteq Messages /\ UNCHANGED locked
      BY <1>6, <2>1 DEF Live
    <3> QED
      BY <3>1, IngestRemembered
  <2>2. CASE RoomOf[m] # room
    BY <1>1, <1>6, <2>2 DEF Live
  <2> QED
    BY <2>1, <2>2
<1>7. ASSUME NEW i \in Ids, RoomsListed(i) PROVE Remembered'
  BY <1>7, OpenRemembered DEF RoomsListed
<1>8. ASSUME NEW i \in Ids, RoomsFailed(i) PROVE Remembered'
  BY <1>8 DEF RoomsFailed, Remembered
<1>9. ASSUME NEW i \in Ids, NEW r \in RoomNames, PickRoom(r, i) PROVE Remembered'
  BY <1>9, OpenRemembered DEF PickRoom
<1>10. ASSUME NEW i \in Ids, NEW ok \in BOOLEAN, Polled(i, ok) PROVE Remembered'
  <2>1. CASE pending[i].cont \in RoomNames
    BY <1>10, <2>1, OpenRemembered DEF Polled
  <2>2. CASE pending[i].cont \notin RoomNames /\ ok
    <3>1. PICK S \in Answer(pending[i].room, pending[i].after) : Ingest(S)
      BY <1>10, <2>2 DEF Polled
    <3>2. S \subseteq Messages /\ UNCHANGED locked
      BY <1>10, <2>2, AnswerOf DEF Polled, TypeOK
    <3> QED
      BY <3>1, <3>2, IngestRemembered
  <2>3. CASE pending[i].cont \notin RoomNames /\ ~ok
    BY <1>1, <1>10, <2>3 DEF Polled
  <2> QED
    BY <2>1, <2>2, <2>3
<1>11. ASSUME NEW m \in Messages, Reveal(m) PROVE Remembered'
  <2>1. UNCHANGED locked
    BY <1>11 DEF Reveal
  <2>2. CASE m \in Range(log)
    BY <1>1, <1>11, <2>1, <2>2 DEF Reveal
  <2>3. CASE m \notin Range(log) /\ ~locked
    <3>1. /\ log \in Seq(Messages) /\ seenOrder \in Seq(Messages) /\ Newest /\ FarApart
          /\ log' = Append(log, m) /\ Remember(<<m>>)
      BY <1>11, <2>3 DEF TypeOK, Remembered, Reveal
    <3>2. <<m>> \in Seq(Messages) /\ Len(<<m>>) = 1 /\ <<m>>[1] = m /\ Append(log, m) = log \o <<m>>
      BY <3>1, AppendIsConcat
    <3>3. \A k \in 1..Len(<<m>>), i \in 1..Len(seenOrder) : <<m>>[k] # seenOrder[i]
      <4>1. ASSUME NEW i \in 1..Len(seenOrder) PROVE seenOrder[i] # m
        <5>1. /\ Len(log) \in Nat /\ Len(seenOrder) \in Nat /\ SeenCap \in Nat /\ DOMAIN log = 1..Len(log)
              /\ Len(seenOrder) <= Len(log)
          BY <3>1, LenProperties, RoomsAssumption DEF Newest
        <5>2. Len(log) - Len(seenOrder) + i \in DOMAIN log
          BY <5>1
        <5>3. seenOrder[i] \in Range(log)
          BY <3>1, <5>2 DEF Newest, Range
        <5> QED
          BY <2>3, <5>3
      <4> QED
        BY <3>2, <4>1
    <3>4. \A a, b \in 1..Len(<<m>>) : <<m>>[a] = <<m>>[b] => a = b
      BY <3>2
    <3>5. Newest' /\ FarApart'
      <4> DEFINE q == <<m>>
      <4>1. /\ q \in Seq(Messages) /\ log' = log \o q /\ Remember(q)
            /\ \A a, b \in 1..Len(q) : q[a] = q[b] => a = b
            /\ \A k \in 1..Len(q), i \in 1..Len(seenOrder) : q[k] # seenOrder[i]
        BY <3>1, <3>2, <3>3, <3>4
      <4> HIDE DEF q
      <4> QED
        BY <3>1, <4>1, BatchRemembered
    <3> QED
      BY <3>5 DEF Remembered
  <2>4. CASE locked
    BY <2>1, <2>4 DEF Remembered
  <2> QED
    BY <2>2, <2>3, <2>4
<1> QED
  BY <1>2, <1>3, <1>4, <1>5, <1>6, <1>7, <1>8, <1>9, <1>10, <1>11
     DEF Next, Happens, Acts, Returns

\* A message is drawn again only after at least SeenCap others, unless the
\* list of rooms has failed since the room was opened.
THEOREM RepeatsFarApart == Spec => []NoEarlyRepeat
<1>1. TypeOK /\ Creations /\ Remembered /\ [Next]_vars => (TypeOK /\ Creations /\ Remembered)'
  BY NextTyped, NextCreations, NextRemembered
<1>2. Remembered => NoEarlyRepeat
  BY DEF Remembered, NoEarlyRepeat, FarApart
<1>3. Init => Remembered
  <2>1. 1..0 = {} /\ Len(<<>>) = 0 /\ SeenCap \in Nat \ {0}
    BY RoomsAssumption
  <2> QED
    BY <2>1 DEF Init, Remembered, Newest, FarApart
<1> QED
  BY InitTyped, InitCreations, <1>1, <1>2, <1>3, PTL DEF Spec

=============================================================================
