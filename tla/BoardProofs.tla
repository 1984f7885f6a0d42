---------------------------- MODULE BoardProofs -----------------------------
(***************************************************************************)
(* Proofs about the board and the goals: their types, that no goal is kept *)
(* off the board, and that the board on screen is the room's when nothing  *)
(* is in flight.                                                           *)
(***************************************************************************)
EXTENDS Board, FiniteSetTheorems, SequenceTheorems, TLAPS

-----------------------------------------------------------------------------
(* The posts in flight.  Every step of the page takes one answer at most    *)
(* and adds posts at the end, so what a step does to the order of the posts *)
(* is said here once.                                                       *)

\* What the page asks, in the room it is in.
Asks == {r \in Posts : r.answer = Waiting /\ r.room = room}

\* A part of a sequence.
LEMMA Slice ==
  ASSUME NEW S, NEW q \in Seq(S), NEW m \in Nat, NEW n \in Nat, m <= n, n <= Len(q)
  PROVE  /\ SubSeq(q, m + 1, n) \in Seq(S)
         /\ Len(SubSeq(q, m + 1, n)) = n - m
         /\ \A k \in 1..(n - m) : SubSeq(q, m + 1, n)[k] = q[m + k]
<1> QED
  BY SMTT(30)

\* Where the posts are when the i-th is taken and others are added.
LEMMA Shifted ==
  ASSUME posts \in Seq(Posts), NEW i \in 1..Len(posts), NEW more \in Seq(Posts),
         posts' = RemoveAt(posts, i) \o more
  PROVE  /\ posts' \in Seq(Posts) /\ Len(posts') = Len(posts) - 1 + Len(more)
         /\ \A k \in 1..(i - 1) : posts'[k] = posts[k]
         /\ \A k \in i..(Len(posts) - 1) : posts'[k] = posts[k + 1]
         /\ \A k \in 1..Len(more) : posts'[Len(posts) - 1 + k] = more[k]
<1> DEFINE a == SubSeq(posts, 1, i - 1)
           b == SubSeq(posts, i + 1, Len(posts))
<1>0. Len(posts) \in Nat /\ i \in Nat /\ Len(more) \in Nat
  OBVIOUS
<1>1. a \in Seq(Posts) /\ Len(a) = i - 1 /\ \A k \in 1..(i - 1) : a[k] = posts[k]
  <2>1. 0 \in Nat /\ i - 1 \in Nat /\ 0 <= i - 1 /\ i - 1 <= Len(posts) /\ 0 + 1 = 1
    BY <1>0
  <2>2. /\ SubSeq(posts, 0 + 1, i - 1) \in Seq(Posts) /\ Len(SubSeq(posts, 0 + 1, i - 1)) = (i - 1) - 0
        /\ \A k \in 1..((i - 1) - 0) : SubSeq(posts, 0 + 1, i - 1)[k] = posts[0 + k]
    BY <2>1, Slice
  <2> QED
    BY <2>1, <2>2
<1>2. /\ b \in Seq(Posts) /\ Len(b) = Len(posts) - i
      /\ \A k \in 1..(Len(posts) - i) : b[k] = posts[i + k]
  <2>1. i \in Nat /\ Len(posts) \in Nat /\ i <= Len(posts) /\ Len(posts) <= Len(posts)
    BY <1>0
  <2> QED
    BY <2>1, Slice
<1>3. posts' = (a \o b) \o more
  BY DEF RemoveAt
<1> HIDE DEF a, b
<1>4. /\ a \o b \in Seq(Posts) /\ Len(a \o b) = Len(posts) - 1
      /\ \A k \in 1..(Len(posts) - 1) : (a \o b)[k] = IF k <= i - 1 THEN a[k] ELSE b[k - (i - 1)]
  <2>1. a \o b \in Seq(Posts) /\ Len(a \o b) = Len(a) + Len(b)
    BY <1>1, <1>2, ConcatProperties
  <2>2. \A k \in 1..(Len(a) + Len(b)) : (a \o b)[k] = IF k <= Len(a) THEN a[k] ELSE b[k - Len(a)]
    BY <1>1, <1>2, ConcatProperties
  <2>3. Len(a) + Len(b) = Len(posts) - 1
    BY <1>0, <1>1, <1>2
  <2> QED
    BY <1>1, <2>1, <2>2, <2>3
<1> DEFINE c == a \o b
<1>5. c \in Seq(Posts) /\ Len(c) = Len(posts) - 1 /\ posts' = c \o more
  BY <1>3, <1>4
<1>6. \A k \in 1..(i - 1) : c[k] = posts[k]
  BY <1>0, <1>1, <1>4
<1>7. \A k \in i..(Len(posts) - 1) : c[k] = posts[k + 1]
  <2> SUFFICES ASSUME NEW k \in i..(Len(posts) - 1) PROVE c[k] = posts[k + 1]
    OBVIOUS
  <2>1. k \in 1..(Len(posts) - 1) /\ ~(k <= i - 1) /\ k - (i - 1) \in 1..(Len(posts) - i) /\ i + (k - (i - 1)) = k + 1
    BY <1>0
  <2> QED
    BY <1>2, <1>4, <2>1
<1> HIDE DEF c
<1>8. /\ posts' \in Seq(Posts) /\ Len(posts') = Len(c) + Len(more)
      /\ \A k \in 1..(Len(c) + Len(more)) : posts'[k] = IF k <= Len(c) THEN c[k] ELSE more[k - Len(c)]
  <2>1. c \in Seq(Posts) /\ posts' = c \o more
    BY <1>5
  <2>2. /\ c \o more \in Seq(Posts) /\ Len(c \o more) = Len(c) + Len(more)
        /\ \A k \in 1..(Len(c) + Len(more)) :
             (c \o more)[k] = IF k <= Len(c) THEN c[k] ELSE more[k - Len(c)]
    BY <2>1, ConcatProperties
  <2> QED
    BY <2>1, <2>2
<1>9. \A k \in 1..Len(more) : posts'[Len(posts) - 1 + k] = more[k]
  <2> SUFFICES ASSUME NEW k \in 1..Len(more) PROVE posts'[Len(posts) - 1 + k] = more[k]
    OBVIOUS
  <2>1. /\ Len(c) + k \in 1..(Len(c) + Len(more)) /\ ~(Len(c) + k <= Len(c))
        /\ (Len(c) + k) - Len(c) = k /\ Len(c) + k = Len(posts) - 1 + k
    BY <1>0, <1>5
  <2> QED
    BY <1>8, <2>1
<1>10. \A k \in 1..(Len(posts) - 1) : posts'[k] = c[k]
  BY <1>0, <1>5, <1>8
<1> QED
  BY <1>0, <1>5, <1>6, <1>7, <1>8, <1>9, <1>10

\* A finite set as a sequence: all its members, and nothing else.
LEMMA AsSequence ==
  ASSUME NEW S, NEW T, T \subseteq S, IsFiniteSet(T)
  PROVE  /\ SetToSeq(T) \in Seq(S) /\ SetToSeq(T) \in Seq(T)
         /\ \A x \in T : \E k \in 1..Len(SetToSeq(T)) : SetToSeq(T)[k] = x
<1> DEFINE n == Cardinality(T)
           q == SetToSeq(T)
<1>1. n \in Nat /\ \E f : f \in Bijection(1..n, T)
  BY FS_CardinalityType DEF ExistsBijection
<1>2. q \in [1..n -> T] /\ IsInjective(q)
  <2>1. \E f \in [1..n -> T] : IsInjective(f)
    BY <1>1 DEF Bijection, Injection
  <2> QED
    BY <2>1 DEF SetToSeq
<1> HIDE DEF n, q
<1>3. q \in Seq(S) /\ q \in Seq(T) /\ Len(q) = n
  <2>1. q \in Seq(T) /\ Len(q) = n
    BY <1>1, <1>2, SeqDef, LenProperties
  <2> QED
    BY <1>1, <1>2, <2>1, SeqDef
<1>4. q \in Surjection(1..n, T)
  <2>1. IsFiniteSet(1..n) /\ Cardinality(1..n) = n
    <3>1. 1 \in Int /\ n \in Int
      BY <1>1
    <3>2. Cardinality(1..n) = IF 1 > n THEN 0 ELSE n - 1 + 1
      BY <3>1, FS_Interval
    <3> QED
      BY <1>1, <3>1, <3>2, FS_Interval
  <2>2. q \in Injection(1..n, T)
    BY <1>2 DEF Injection
  <2> QED
    BY <2>1, <2>2, FS_Injection DEF n
<1> QED
  BY <1>3, <1>4 DEF Surjection, q

\* The image of a finite set.
LEMMA FiniteImage ==
  ASSUME NEW S, IsFiniteSet(S), NEW f, f \in [S -> {f[x] : x \in S}]
  PROVE  IsFiniteSet({f[x] : x \in S})
<1>1. f \in Surjection(S, {f[x] : x \in S})
  BY DEF Surjection
<1> QED
  BY <1>1, FS_Surjection

-----------------------------------------------------------------------------
(* What the page sends.                                                     *)

\* One request is something the page asks.
LEMMA RequestAsks ==
  ASSUME TypeOK, NEW op \in Ops, NEW g \in Goals, NEW arg \in Columns \cup Statuses,
         NEW sync \in BOOLEAN, NEW then \in {"none", "goals", "mirror", "sync", "run"},
         op \in {"move", "create"} => arg \in Columns, op = "status" => arg \in Statuses,
         op = "new" => arg \in Columns \cup {"none"}
  PROVE  /\ Request(op, g, arg, sync, then) \in Asks
         /\ <<Request(op, g, arg, sync, then)>> \in Seq(Asks)
<1>1. Request(op, g, arg, sync, then) \in Requests
  BY DEF TypeOK, Request, Requests, Answers
<1>2. Request(op, g, arg, sync, then) \in Asks
  BY <1>1 DEF Asks, Posts, Request
<1> QED
  BY <1>2

\* A card with its column changed is a card.
LEMMA CardMoved ==
  ASSUME NEW card \in Cards, card # NoCard, NEW column \in Columns
  PROVE  /\ [card EXCEPT !.column = column] \in Cards \ {NoCard}
         /\ card.column \in Columns
<1>1. card \in [column : Columns, linked : BOOLEAN]
  BY DEF Cards
<1>2. "none" \notin Columns
  BY DEF Columns
<1> QED
  BY <1>1, <1>2 DEF Cards, NoCard

\* The posts that are one request at most.
LEMMA PlainAsks ==
  ASSUME TypeOK, NEW g \in Goals
  PROVE  /\ \A op \in Ops \ {"move", "create", "new", "status"} : <<Plain(op, g)>> \in Seq(Asks)
         /\ \A s \in Statuses, then \in {"none", "run"} : <<postGoal(g, s, then)>> \in Seq(Asks)
         /\ \A c \in Columns, sync \in BOOLEAN : <<postMove(g, c, sync)>> \in Seq(Asks)
         /\ \A then \in {"none", "goals", "mirror"} : <<loadBoard(then)>> \in Seq(Asks)
         /\ \A then \in {"none", "sync"} : <<loadGoals(then)>> \in Seq(Asks)
         /\ <<>> \in Seq(Asks)
<1>0. "none" \in Columns \cup Statuses /\ FALSE \in BOOLEAN
  BY DEF Statuses
<1>1. \A op \in Ops \ {"move", "create", "new", "status"} : <<Plain(op, g)>> \in Seq(Asks)
  BY <1>0, RequestAsks DEF Plain
<1>2. \A s \in Statuses, then \in {"none", "run"} : <<postGoal(g, s, then)>> \in Seq(Asks)
  <2>1. "status" \in Ops
    BY DEF Ops
  <2> QED
    BY <1>0, <2>1, RequestAsks DEF postGoal
<1>3. \A c \in Columns, sync \in BOOLEAN : <<postMove(g, c, sync)>> \in Seq(Asks)
  <2>1. "move" \in Ops
    BY DEF Ops
  <2> QED
    BY <2>1, RequestAsks DEF postMove
<1>4. anyGoal \in Goals
  BY BoardAssumption DEF anyGoal
<1>5. \A then \in {"none", "goals", "mirror"} : <<loadBoard(then)>> \in Seq(Asks)
  <2>1. "board" \in Ops
    BY DEF Ops
  <2> QED
    BY <1>0, <1>4, <2>1, RequestAsks DEF loadBoard
<1>6. \A then \in {"none", "sync"} : <<loadGoals(then)>> \in Seq(Asks)
  <2>1. "goals" \in Ops
    BY DEF Ops
  <2> QED
    BY <1>0, <1>4, <2>1, RequestAsks DEF loadGoals
<1> QED
  BY <1>1, <1>2, <1>3, <1>5, <1>6, EmptySeq

LEMMA MoveAsks ==
  ASSUME TypeOK, NEW board \in [Goals -> Cards], NEW g \in Goals, NEW c \in Columns
  PROVE  moveGoalCard(board, g, c) \in Seq(Asks)
<1> QED
  BY PlainAsks DEF moveGoalCard

\* One post after another.
LEMMA BothAsk ==
  ASSUME NEW a \in Seq(Asks), NEW b \in Seq(Asks)
  PROVE  a \o b \in Seq(Asks)
<1> QED
  BY ConcatProperties

LEMMA FollowAsks ==
  ASSUME TypeOK, NEW g \in Goals, NEW c \in Columns
  PROVE  followRun(g, c) \in Seq(Asks)
<1>1. moveGoalCard(shown.cards, g, c) \in Seq(Asks)
  <2>1. shown.cards \in [Goals -> Cards]
    BY DEF TypeOK
  <2> QED
    BY <2>1, MoveAsks
<1>2. logGoalRun(g) \in Seq(Asks)
  <2>1. "log" \in Ops \ {"move", "create", "new", "status"}
    BY DEF Ops
  <2> QED
    BY <2>1, PlainAsks DEF logGoalRun
<1> QED
  BY <1>1, <1>2, BothAsk DEF followRun

LEMMA Longer ==
  ASSUME NEW S, NEW a \in Seq(S), NEW b \in Seq(S)
  PROVE  /\ a \o b \in Seq(S) /\ Len(a \o b) = Len(a) + Len(b)
         /\ \A k \in 1..Len(a) : k \in 1..Len(a \o b) /\ (a \o b)[k] = a[k]
<1>1. /\ a \o b \in Seq(S) /\ Len(a \o b) = Len(a) + Len(b)
      /\ \A k \in 1..(Len(a) + Len(b)) : (a \o b)[k] = IF k <= Len(a) THEN a[k] ELSE b[k - Len(a)]
  BY ConcatProperties
<1>2. Len(a) \in Nat /\ Len(b) \in Nat
  BY LenProperties
<1> QED
  BY <1>1, <1>2

\* The posts of some goals.
LEMMA AllAsk ==
  ASSUME NEW S \in SUBSET Goals, NEW f \in [S -> Asks]
  PROVE  /\ SetToSeq({f[g] : g \in S}) \in Seq(Asks)
         /\ \A g \in S : \E k \in 1..Len(SetToSeq({f[h] : h \in S})) :
              SetToSeq({f[h] : h \in S})[k] = f[g]
<1>1. IsFiniteSet(S)
  BY BoardAssumption, FS_Subset
<1>2. IsFiniteSet({f[g] : g \in S})
  BY <1>1, FiniteImage
<1> DEFINE T == {f[g] : g \in S}
<1>3. T \subseteq Asks /\ \A g \in S : f[g] \in T
  OBVIOUS
<1>4. IsFiniteSet(T)
  BY <1>2
<1> HIDE DEF T
<1>5. /\ SetToSeq(T) \in Seq(Asks)
      /\ \A x \in T : \E k \in 1..Len(SetToSeq(T)) : SetToSeq(T)[k] = x
  BY <1>3, <1>4, AsSequence
<1>6. \A g \in S : \E k \in 1..Len(SetToSeq(T)) : SetToSeq(T)[k] = f[g]
  BY <1>3, <1>5
<1> QED
  BY <1>5, <1>6 DEF T

LEMMA PinnedColumn ==
  ASSUME NEW s, NEW isRunning
  PROVE  goalPinnedColumn(s, isRunning) \in Columns \cup {"none"}
<1> QED
  BY DEF goalPinnedColumn, Columns

\* The mirror asks, and asks for the card of every goal it remembers.
LEMMA MirrorAsks ==
  ASSUME TypeOK, NEW board \in [Goals -> Cards], NEW goals \in [Goals -> Statuses], NEW now
  PROVE  /\ Mirror(board, goals, now) \in Seq(Asks)
         /\ Asked(board, goals) \subseteq Goals
         /\ \A g \in Asked(board, goals) \ requested :
              \E k \in 1..Len(Mirror(board, goals, now)) :
                Mirror(board, goals, now)[k].op = "create" /\ Mirror(board, goals, now)[k].goal = g
<1> DEFINE pinned(g) == goalPinnedColumn(goals[g], isGoalRunning(g, now, runs))
           known == {g \in Goals : goals[g] \notin NoGoal}
           links == {g \in known : board[g] # NoCard /\ ~board[g].linked}
           moved == {g \in known : pinned(g) # "none" /\ moves(board, g, pinned(g))}
           missing == {g \in known \ requested : board[g] = NoCard}
           link == [g \in links |-> Plain("link", g)]
           move == [g \in moved |-> postMove(g, pinned(g), FALSE)]
           create == [g \in missing |->
                        Request("create", g, IF pinned(g) = "none" THEN "ready" ELSE pinned(g),
                                FALSE, "none")]
           a == SetToSeq({link[g] : g \in links})
           b == SetToSeq({move[g] : g \in moved})
           c == SetToSeq({create[g] : g \in missing})
<1>1. a \in Seq(Asks)
  <2>1. links \in SUBSET Goals
    OBVIOUS
  <2>2. \A g \in Goals : Plain("link", g) \in Asks
    <3>1. "link" \in Ops /\ "none" \in Columns \cup Statuses /\ FALSE \in BOOLEAN
      BY DEF Ops, Statuses
    <3> QED
      BY <3>1, RequestAsks DEF Plain
  <2>3. link \in [links -> Asks]
    BY <2>2
  <2> HIDE DEF link, links
  <2> QED
    BY <2>1, <2>3, AllAsk
<1>2. b \in Seq(Asks)
  <2>1. moved \in SUBSET Goals
    OBVIOUS
  <2>2. \A g \in Goals, col \in Columns : postMove(g, col, FALSE) \in Asks
    <3>1. "move" \in Ops
      BY DEF Ops
    <3> QED
      BY <3>1, RequestAsks DEF postMove
  <2>3. \A g \in moved : pinned(g) \in Columns
    BY PinnedColumn
  <2>4. move \in [moved -> Asks]
    BY <2>2, <2>3
  <2> HIDE DEF move, moved
  <2> QED
    BY <2>1, <2>4, AllAsk
<1>3. /\ c \in Seq(Asks)
      /\ \A g \in missing : \E k \in 1..Len(c) : c[k].op = "create" /\ c[k].goal = g
  <2>1. missing \in SUBSET Goals
    OBVIOUS
  <2>2. \A g \in Goals, col \in Columns : Request("create", g, col, FALSE, "none") \in Asks
    <3>1. "create" \in Ops
      BY DEF Ops
    <3> QED
      BY <3>1, RequestAsks
  <2>3. \A g \in missing : (IF pinned(g) = "none" THEN "ready" ELSE pinned(g)) \in Columns
    BY PinnedColumn DEF Columns
  <2>4. create \in [missing -> Asks]
    BY <2>2, <2>3
  <2>5. \A g \in missing : create[g].op = "create" /\ create[g].goal = g
    BY DEF Request
  <2> HIDE DEF create, missing
  <2>6. c \in Seq(Asks) /\ \A g \in missing : \E k \in 1..Len(c) : c[k] = create[g]
    BY <2>1, <2>4, AllAsk
  <2> HIDE DEF c
  <2> QED
    BY <2>5, <2>6
<1>4. Mirror(board, goals, now) = (a \o b) \o c
  <2>1. {link[g] : g \in links} = {Plain("link", g) : g \in links}
    OBVIOUS
  <2>2. {move[g] : g \in moved} = {postMove(g, pinned(g), FALSE) : g \in moved}
    OBVIOUS
  <2>3. {create[g] : g \in missing}
           = {Request("create", g, IF pinned(g) = "none" THEN "ready" ELSE pinned(g),
                      FALSE, "none") : g \in missing}
    OBVIOUS
  <2> QED
    BY <2>1, <2>2, <2>3 DEF Mirror
<1>5. Asked(board, goals) \subseteq Goals /\ Asked(board, goals) \ requested \subseteq missing
  BY DEF Asked, TypeOK
<1> HIDE DEF a, b, c, missing
<1> DEFINE p == a \o b
<1>6. p \in Seq(Asks) /\ Mirror(board, goals, now) = p \o c
  BY <1>1, <1>2, <1>4, BothAsk
<1> HIDE DEF p
<1>7. /\ p \o c \in Seq(Asks) /\ Len(p \o c) = Len(p) + Len(c)
      /\ \A k \in 1..(Len(p) + Len(c)) : (p \o c)[k] = IF k <= Len(p) THEN p[k] ELSE c[k - Len(p)]
  BY <1>3, <1>6, ConcatProperties
<1>8. \A k \in 1..Len(c) : /\ Len(p) + k \in 1..Len(p \o c) /\ (p \o c)[Len(p) + k] = c[k]
  <2>1. Len(p) \in Nat /\ Len(c) \in Nat
    BY <1>3, <1>6, LenProperties
  <2> SUFFICES ASSUME NEW k \in 1..Len(c)
               PROVE  Len(p) + k \in 1..Len(p \o c) /\ (p \o c)[Len(p) + k] = c[k]
    OBVIOUS
  <2>2. /\ Len(p) + k \in 1..(Len(p) + Len(c)) /\ ~(Len(p) + k <= Len(p))
        /\ (Len(p) + k) - Len(p) = k
    BY <2>1
  <2> QED
    BY <1>7, <2>2
<1>9. \A g \in Asked(board, goals) \ requested :
        \E k \in 1..Len(p \o c) : (p \o c)[k].op = "create" /\ (p \o c)[k].goal = g
  <2> SUFFICES ASSUME NEW g \in Asked(board, goals) \ requested
               PROVE  \E k \in 1..Len(p \o c) : (p \o c)[k].op = "create" /\ (p \o c)[k].goal = g
    OBVIOUS
  <2>1. PICK k \in 1..Len(c) : c[k].op = "create" /\ c[k].goal = g
    BY <1>3, <1>5
  <2> QED
    BY <1>8, <2>1
<1> QED
  BY <1>5, <1>6, <1>7, <1>9

LEMMA SyncAsks ==
  ASSUME TypeOK, NEW board \in [Goals -> Cards], NEW goals \in [Goals -> Statuses], NEW now
  PROVE  Sync(board, goals, now) \in Seq(Asks)
<1> DEFINE pinned(g) == goalPinnedColumn(goals[g], isGoalRunning(g, now, runs))
           target(g) == IF pinned(g) = "none" /\ goals[g] = "active" THEN "ready" ELSE pinned(g)
           moved == {g \in Goals : target(g) # "none" /\ moves(board, g, target(g))}
           move == [g \in moved |-> postMove(g, target(g), FALSE)]
<1>1. moved \in SUBSET Goals
  OBVIOUS
<1>2. \A g \in Goals, col \in Columns : postMove(g, col, FALSE) \in Asks
  <2>1. "move" \in Ops
    BY DEF Ops
  <2> QED
    BY <2>1, RequestAsks DEF postMove
<1>3. \A g \in moved : target(g) \in Columns
  BY PinnedColumn DEF Columns
<1>4. move \in [moved -> Asks]
  BY <1>2, <1>3
<1>5. Sync(board, goals, now) = SetToSeq({move[g] : g \in moved})
  <2>1. {move[g] : g \in moved} = {postMove(g, target(g), FALSE) : g \in moved}
    OBVIOUS
  <2> QED
    BY <2>1 DEF Sync
<1> HIDE DEF move, moved
<1> QED
  BY <1>1, <1>4, <1>5, AllAsk

-----------------------------------------------------------------------------
(* The invariants.                                                          *)

\* The requests whose answer is a board.
Carrying == {"board", "move", "link", "unlink", "log", "create"}
Calm == trouble \cap {"order", "loss"} = {}
Holds(i) == posts[i].op \in Carrying /\ posts[i].answer.is = "ok"

\* A card that was created is there.
Given ==
  \A i \in DOMAIN posts : posts[i].op = "create" /\ posts[i].answer.is = "ok" =>
                            cards[posts[i].room][posts[i].goal] # NoCard

\* Requests but runs are served in the order they were made.
InOrder ==
  \A i, j \in DOMAIN posts :
    i < j /\ posts[i].op # "run" /\ posts[j].op # "run" /\ posts[i].answer = Waiting
      => posts[j].answer = Waiting

\* The last of the boards on their way is the board as it is, and when there is
\* none the board on screen is.
Latest ==
  \A i \in DOMAIN posts : Holds(i) =>
    \/ posts[i].answer.cards = cards
    \/ \E j \in DOMAIN posts : i < j /\ Holds(j)
Current ==
  loaded /\ (\A i \in DOMAIN posts : ~Holds(i)) => shown.cards = cards[shown.room]

\* The board of another room is followed by one of the room chosen.
Follows(i) == \E j \in DOMAIN posts : i < j /\ posts[j].op = "board" /\ posts[j].room = room
Heading ==
  /\ \A i \in DOMAIN posts : posts[i].op \in Carrying /\ posts[i].room # room => Follows(i)
  /\ shown.room # room => Follows(0)

\* A board is not refused to anybody.
Welcome == \A i \in DOMAIN posts : posts[i].op = "board" => posts[i].answer.is # "refused"

-----------------------------------------------------------------------------
(* The kinds of step.                                                       *)

\* The types of all but the posts.
PageTyped ==
  /\ cards \in [Rooms -> [Goals -> Cards]]
  /\ status \in [Goals -> Statuses] /\ working \subseteq Goals
  /\ room \in Rooms
  /\ shown \in [room : Rooms, cards : [Goals -> Cards]]
  /\ loaded \in BOOLEAN /\ list \in [Goals -> Statuses]
  /\ running \subseteq Goals /\ requested \subseteq Goals
  /\ runs \in [Goals -> {"none", "running", "finished", "stopped", "failed"}]
  /\ acts \in 0..MaxActs
  /\ trouble \subseteq {"order", "loss", "room", "verdict", "overlap", "adopts", "checklist"}

\* The user asks for something.
Adds ==
  /\ \E more \in Seq(Asks) : posts' = posts \o more
  /\ UNCHANGED <<cards, shown, loaded, room, requested>>
  /\ trouble \subseteq trouble'

\* A run's request is answered, or goes on.
Marks ==
  /\ posts' \in Seq(Posts) /\ Len(posts') = Len(posts)
  /\ \A k \in 1..Len(posts) : \/ posts'[k] = posts[k]
                                 \/ (posts[k].op = "run" /\ posts'[k].op = "run")
  /\ UNCHANGED <<cards, shown, loaded, room, requested>>
  /\ trouble \subseteq trouble'

\* An answer is read, and draws the board it carries.
Draws(i) ==
  \/ /\ posts[i].op = "run" \/ posts[i].answer.is = "refused"
     /\ UNCHANGED <<shown, loaded>>
  \/ ~Calm'
  \/ /\ posts[i].op # "run" /\ posts[i].answer.is = "ok"
     /\ \A j \in 1..(i - 1) : posts[j].op = "run"
     /\ IF posts[i].op \in Carrying THEN shown' = BoardOf(posts[i])
                                    ELSE UNCHANGED <<shown, loaded>>

Takes(i) ==
  /\ \E more \in Seq(Asks) :
       /\ posts' = RemoveAt(posts, i) \o more
       /\ \A g \in requested' \ requested :
            \E k \in 1..Len(more) : more[k].op = "create" /\ more[k].goal = g
  /\ posts[i].op # "create" \/ posts[i].answer.is = "ok" \/ posts[i].goal \notin requested'
  /\ Draws(i)
  /\ UNCHANGED <<cards, room>>
  /\ trouble \subseteq trouble'

\* What the user's acts have in common.
Acts(more) ==
  /\ more \in Seq(Asks) /\ posts' = posts \o more
  /\ acts' \in 0..MaxActs
  /\ UNCHANGED <<cards, status, working, room, shown, loaded, list, running, requested>>
  /\ runs' \in [Goals -> {"none", "running", "finished", "stopped", "failed"}]
  /\ \E t \in SUBSET {"overlap", "adopts"} : trouble' = trouble \cup t

LEMMA ActsAdd ==
  ASSUME TypeOK, NEW more, Acts(more)
  PROVE  PageTyped' /\ Adds
<1> QED
  BY DEF TypeOK, PageTyped, Adds, Acts

LEMMA SentActs ==
  ASSUME TypeOK, NEW more \in Seq(Asks), Act, Sent(more),
         UNCHANGED <<room, shown, loaded, list, running, requested>>,
         runs' \in [Goals -> {"none", "running", "finished", "stopped", "failed"}]
  PROVE  Acts(more)
<1>1. acts' \in 0..MaxActs
  BY BoardAssumption DEF TypeOK, Act
<1>2. \E t \in SUBSET {"overlap", "adopts"} : trouble' = trouble \cup t
  <2>1. trouble' = trouble \cup {} \/ trouble' = trouble \cup {"overlap"}
    BY DEF Sent
  <2>2. {} \in SUBSET {"overlap", "adopts"} /\ {"overlap"} \in SUBSET {"overlap", "adopts"}
    OBVIOUS
  <2> QED
    BY <2>1, <2>2
<1> QED
  BY <1>1, <1>2 DEF Sent, Acts, Act, server

LEMMA ListTyped ==
  ASSUME TypeOK
  PROVE  /\ shown.cards \in [Goals -> Cards] /\ shown.room \in Rooms
         /\ runs \in [Goals -> {"none", "running", "finished", "stopped", "failed"}]
         /\ loaded \in BOOLEAN
<1> QED
  BY DEF TypeOK

\* The acts that ask for a list.
LEMMA Lists ==
  ASSUME TypeOK, Open \/ Refresh \/ Resync
  PROVE  PageTyped' /\ Adds
<1>0. anyGoal \in Goals
  BY BoardAssumption DEF anyGoal
<1>1. CASE Open
  <2>1. <<loadBoard("goals")>> \in Seq(Asks)
    BY <1>0, PlainAsks
  <2>2. posts' = posts \o <<loadBoard("goals")>>
    BY <1>1 DEF Open, Sent
  <2>3. trouble' = trouble \cup {} \/ trouble' = trouble \cup {"overlap"}
    BY <1>1 DEF Open, Sent
  <2>4. UNCHANGED <<server, page, acts>>
    BY <1>1 DEF Open
  <2> HIDE DEF loadBoard
  <2>5. PageTyped'
    BY <2>3, <2>4 DEF TypeOK, PageTyped, server, page
  <2> QED
    BY <2>1, <2>2, <2>3, <2>4, <2>5 DEF Adds, server, page
<1>2. CASE Refresh
  <2>1. <<loadGoals("none")>> \in Seq(Asks)
    BY <1>0, PlainAsks
  <2>2. Acts(<<loadGoals("none")>>)
    BY <1>2, <2>1, SentActs, ListTyped DEF Refresh, page
  <2> QED
    BY <2>2, ActsAdd
<1>3. CASE Resync
  <2>1. <<loadGoals("sync")>> \in Seq(Asks)
    BY <1>0, PlainAsks
  <2>2. Acts(<<loadGoals("sync")>>)
    BY <1>3, <2>1, SentActs, ListTyped DEF Resync, page
  <2> QED
    BY <2>2, ActsAdd
<1> QED
  BY <1>1, <1>2, <1>3

\* The acts that move a card or change a goal.
LEMMA MovesCards ==
  ASSUME TypeOK, NEW g \in Goals,
         \/ MarkDone(g) \/ Delete(g)
         \/ \E c \in Columns : MoveCard(g, c) \/ DropOnLane(g, c)
         \/ \E step \in {-1, 1} : MoveBeside(g, step)
         \/ \E s \in {"archived", "active"} : SetStatus(g, s)
  PROVE  PageTyped' /\ Adds
<1>0. /\ runs \in [Goals -> {"none", "running", "finished", "stopped", "failed"}]
      /\ "done" \in Columns /\ "done" \in Statuses /\ {"archived", "active"} \subseteq Statuses
      /\ "remove" \in Ops \ {"move", "create", "new", "status"}
  BY ListTyped DEF Columns, Statuses, Ops
<1>1. CASE MarkDone(g)
  <2>1. PICK more \in {<<postMove(g, "done", TRUE)>>, <<postGoal(g, "done", "none")>>} : Sent(more)
    BY <1>1 DEF MarkDone
  <2>2. more \in Seq(Asks)
    BY <1>0, <2>1, PlainAsks
  <2> HIDE DEF postMove, postGoal
  <2>3. Acts(more)
    BY <1>0, <1>1, <2>1, <2>2, SentActs DEF MarkDone, page
  <2> QED
    BY <2>3, ActsAdd
<1>2. CASE Delete(g)
  <2>1. <<Plain("remove", g)>> \in Seq(Asks)
    BY <1>0, PlainAsks
  <2>2. Acts(<<Plain("remove", g)>>)
    BY <1>0, <1>2, <2>1, SentActs DEF Delete, page
  <2> QED
    BY <2>2, ActsAdd
<1>3. ASSUME NEW c \in Columns, MoveCard(g, c) \/ DropOnLane(g, c) PROVE PageTyped' /\ Adds
  <2>1. <<postMove(g, c, TRUE)>> \in Seq(Asks)
    BY PlainAsks
  <2>2. Act /\ Sent(<<postMove(g, c, TRUE)>>) /\ UNCHANGED page
    BY <1>3 DEF MoveCard, DropOnLane
  <2>3. Acts(<<postMove(g, c, TRUE)>>)
    BY <1>0, <2>1, <2>2, SentActs DEF page
  <2> QED
    BY <2>3, ActsAdd
<1>4. ASSUME NEW step \in {-1, 1}, MoveBeside(g, step) PROVE PageTyped' /\ Adds
  <2>1. PICK i \in DOMAIN Lanes, j \in DOMAIN Lanes : Sent(<<postMove(g, Lanes[j], TRUE)>>)
    BY <1>4 DEF MoveBeside
  <2>2. Lanes[j] \in Columns
    <3>1. DOMAIN Lanes = 1..5
      BY DEF Lanes
    <3> QED
      BY <3>1 DEF Lanes, Columns
  <2>3. <<postMove(g, Lanes[j], TRUE)>> \in Seq(Asks)
    BY <2>2, PlainAsks
  <2>4. Act /\ UNCHANGED page
    BY <1>4 DEF MoveBeside
  <2>5. Acts(<<postMove(g, Lanes[j], TRUE)>>)
    BY <1>0, <2>1, <2>3, <2>4, SentActs DEF page
  <2> QED
    BY <2>5, ActsAdd
<1>5. ASSUME NEW s \in {"archived", "active"}, SetStatus(g, s) PROVE PageTyped' /\ Adds
  <2>1. <<postGoal(g, s, "none")>> \in Seq(Asks)
    BY <1>0, PlainAsks
  <2>2. Acts(<<postGoal(g, s, "none")>>)
    BY <1>0, <1>5, <2>1, SentActs DEF SetStatus, page
  <2> QED
    BY <2>2, ActsAdd
<1> QED
  BY <1>1, <1>2, <1>3, <1>4, <1>5

LEMMA NewGoals ==
  ASSUME TypeOK, NEW g \in Goals, NEW lane \in Columns \cup {"none"}, NEW then \in {"none", "run"},
         NewGoal(g, lane, then)
  PROVE  PageTyped' /\ Adds
<1> DEFINE new == Request("new", g, lane, FALSE, then)
<1>1. new \in Asks /\ <<new>> \in Seq(Asks)
  <2>1. "new" \in Ops /\ lane \in Columns \cup Statuses /\ FALSE \in BOOLEAN
    BY DEF Ops, Statuses
  <2> QED
    BY <2>1, RequestAsks
<1>2. posts' = posts \o <<new>>
  <2>1. posts' = Append(posts, new)
    BY DEF NewGoal
  <2>2. posts \in Seq(Posts) /\ new \in Posts
    BY <1>1 DEF TypeOK, Asks
  <2> HIDE DEF new
  <2> QED
    BY <2>1, <2>2, AppendIsConcat
<1> HIDE DEF new
<1>3. acts' \in 0..MaxActs
  BY BoardAssumption DEF TypeOK, NewGoal, Act
<1>4. \E t \in SUBSET {"overlap", "adopts"} : trouble' = trouble \cup t
  <2> DEFINE t == (IF Quiet THEN {} ELSE {"overlap"})
                    \cup (IF shown.cards[g].column \in Verdicts THEN {"adopts"} ELSE {})
  <2>1. trouble' = trouble \cup t
    BY DEF NewGoal
  <2>2. t \in SUBSET {"overlap", "adopts"}
    OBVIOUS
  <2> QED
    BY <2>1, <2>2
<1>5. UNCHANGED <<cards, status, working, room, shown, loaded, list, running, requested, runs>>
  BY DEF NewGoal, Act, server, page
<1>6. Acts(<<new>>)
  BY <1>1, <1>2, <1>3, <1>4, <1>5, ListTyped DEF Acts
<1> QED
  BY <1>6, ActsAdd

\* The acts that start a run.
LEMMA Works ==
  ASSUME TypeOK, NEW g \in Goals, Act, Work(g),
         UNCHANGED <<room, shown, loaded, list, running, requested>>
  PROVE  PageTyped' /\ Adds
<1>1. CASE list[g] = "active"
  <2> DEFINE a == followRun(g, "doing")
             b == <<Plain("run", g)>>
  <2>1. a \in Seq(Asks)
    <3>1. "doing" \in Columns
      BY DEF Columns
    <3> QED
      BY <3>1, FollowAsks
  <2>2. b \in Seq(Asks)
    <3>1. "run" \in Ops \ {"move", "create", "new", "status"}
      BY DEF Ops
    <3> QED
      BY <3>1, PlainAsks
  <2>3. runs' = [runs EXCEPT ![g] = "running"] /\ Sent(a \o b)
    BY <1>1 DEF Work
  <2> HIDE DEF a, b
  <2>4. a \o b \in Seq(Asks)
    BY <2>1, <2>2, BothAsk
  <2>5. runs' \in [Goals -> {"none", "running", "finished", "stopped", "failed"}]
    BY <2>3, ListTyped
  <2>6. Acts(a \o b)
    BY <2>3, <2>4, <2>5, SentActs
  <2> QED
    BY <2>6, ActsAdd
<1>2. CASE list[g] # "active"
  <2>1. <<postGoal(g, "active", "run")>> \in Seq(Asks)
    <3>1. "active" \in Statuses
      BY DEF Statuses
    <3> QED
      BY <3>1, PlainAsks
  <2>2. Sent(<<postGoal(g, "active", "run")>>) /\ UNCHANGED runs
    BY <1>2 DEF Work
  <2>3. Acts(<<postGoal(g, "active", "run")>>)
    BY <2>1, <2>2, ListTyped, SentActs
  <2> QED
    BY <2>3, ActsAdd
<1> QED
  BY <1>1, <1>2

LEMMA StartsRuns ==
  ASSUME TypeOK, NEW g \in Goals,
         SubmitGoal(g) \/ QuickAdd(g, "doing") \/ workOnGoal(g) \/ iterateGoal(g) \/ workCardAsGoal(g)
  PROVE  PageTyped' /\ Adds
<1>1. CASE SubmitGoal(g)
  BY <1>1, NewGoals DEF SubmitGoal
<1>2. CASE QuickAdd(g, "doing")
  <2>1. "doing" \in Columns
    BY DEF Columns
  <2> QED
    BY <1>2, <2>1, NewGoals DEF QuickAdd
<1>3. CASE workOnGoal(g)
  BY <1>3, Works DEF workOnGoal
<1>4. CASE iterateGoal(g)
  BY <1>4, Works DEF iterateGoal
<1>5. CASE workCardAsGoal(g)
  <2>1. CASE list[g] \in NoGoal
    BY <1>5, <2>1, NewGoals DEF workCardAsGoal
  <2>2. CASE list[g] \notin NoGoal
    BY <1>5, <2>2, Works DEF workCardAsGoal
  <2> QED
    BY <2>1, <2>2
<1> QED
  BY <1>1, <1>2, <1>3, <1>4, <1>5

-----------------------------------------------------------------------------
(* The answers.                                                             *)

LEMMA PostTyped ==
  ASSUME TypeOK, NEW i \in DOMAIN posts
  PROVE  /\ posts[i] \in Posts /\ posts[i].goal \in Goals /\ posts[i].room \in Rooms
         /\ posts[i].answer \in Answers /\ posts[i].op \in Ops /\ posts[i].arg \in Columns \cup Statuses
         /\ posts[i].answer.is = "ok" =>
              /\ posts[i].answer.cards \in [Rooms -> [Goals -> Cards]]
              /\ posts[i].answer.status \in [Goals -> Statuses]
              /\ posts[i].answer.working \subseteq Goals
              /\ BoardOf(posts[i]) \in [room : Rooms, cards : [Goals -> Cards]]
<1>1. posts[i] \in Posts
  BY DEF TypeOK
<1> DEFINE r == posts[i]
<1> HIDE DEF r
<1>2. r \in Requests
  BY <1>1 DEF Posts, r
<1>3. /\ r.goal \in Goals /\ r.room \in Rooms /\ r.answer \in Answers /\ r.op \in Ops
      /\ r.arg \in Columns \cup Statuses
  BY <1>2 DEF Requests
<1>4. ASSUME r.answer.is = "ok"
      PROVE  /\ r.answer.cards \in [Rooms -> [Goals -> Cards]]
             /\ r.answer.status \in [Goals -> Statuses]
             /\ r.answer.working \subseteq Goals
  <2>1. r.answer \notin {Waiting, [is |-> "refused"], [is |-> "working"], [is |-> "ended"]}
    BY <1>4 DEF Waiting
  <2>2. r.answer \in [is : {"ok"}, cards : [Rooms -> [Goals -> Cards]],
                      status : [Goals -> Statuses], working : SUBSET Goals]
    BY <1>3, <2>1 DEF Answers
  <2> QED
    BY <2>2
<1>5. r.answer.is = "ok" => BoardOf(r) \in [room : Rooms, cards : [Goals -> Cards]]
  BY <1>3, <1>4 DEF BoardOf
<1> QED
  BY <1>1, <1>3, <1>4, <1>5 DEF r

\* An answer read in its turn draws its board.
LEMMA ReadInTurn ==
  ASSUME TypeOK, NEW i \in DOMAIN posts, posts[i].op # "run", posts[i].answer.is = "ok", Late(i),
         IF posts[i].op \in Carrying THEN shown' = BoardOf(posts[i]) ELSE UNCHANGED <<shown, loaded>>
  PROVE  /\ Draws(i) /\ trouble \subseteq trouble'
         /\ trouble' \subseteq {"order", "loss", "room", "verdict", "overlap", "adopts", "checklist"}
<1>1. Calm' => \A j \in 1..(i - 1) : posts[j].op = "run"
  BY DEF Late, Calm
<1>2. Draws(i)
  BY <1>1 DEF Draws
<1> QED
  BY <1>2 DEF Late, TypeOK

\* What the answers read have in common.
Reads(i, more) ==
  /\ more \in Seq(Asks) /\ Sends(i, more)
  /\ Answered(i, Ops \ {"run"}) /\ Late(i)
  /\ IF posts[i].op \in Carrying THEN shown' = BoardOf(posts[i]) ELSE UNCHANGED <<shown, loaded>>
  /\ UNCHANGED <<cards, status, working, room, acts>>
  /\ requested' \subseteq Goals
  /\ \A g \in requested' \ requested :
       \E k \in 1..Len(more) : more[k].op = "create" /\ more[k].goal = g
  /\ loaded' \in BOOLEAN /\ list' \in [Goals -> Statuses] /\ running' \subseteq Goals
  /\ runs' \in [Goals -> {"none", "running", "finished", "stopped", "failed"}]

LEMMA ReadsTake ==
  ASSUME TypeOK, NEW i \in DOMAIN posts, NEW more, Reads(i, more)
  PROVE  PageTyped' /\ Takes(i)
<1>1. posts[i].op # "run" /\ posts[i].answer.is = "ok"
  BY DEF Reads, Answered
<1>2. /\ Draws(i) /\ trouble \subseteq trouble'
      /\ trouble' \subseteq {"order", "loss", "room", "verdict", "overlap", "adopts", "checklist"}
  BY <1>1, ReadInTurn DEF Reads
<1>3. shown' \in [room : Rooms, cards : [Goals -> Cards]]
  <2>1. CASE posts[i].op \in Carrying
    BY <1>1, <2>1, PostTyped DEF Reads
  <2>2. CASE posts[i].op \notin Carrying
    BY <2>2 DEF Reads, TypeOK
  <2> QED
    BY <2>1, <2>2
<1>4. PageTyped'
  <2>1. cards' = cards /\ status' = status /\ working' = working /\ room' = room /\ acts' = acts
    BY DEF Reads
  <2> QED
    BY <1>2, <1>3, <2>1 DEF Reads, TypeOK, PageTyped
<1>5. Takes(i)
  <2>1. posts' = RemoveAt(posts, i) \o more
    BY DEF Reads, Sends, Rest
  <2>2. \E m \in Seq(Asks) :
          /\ posts' = RemoveAt(posts, i) \o m
          /\ \A g \in requested' \ requested : \E k \in 1..Len(m) : m[k].op = "create" /\ m[k].goal = g
    BY <2>1 DEF Reads
  <2> QED
    BY <1>1, <1>2, <2>2 DEF Takes, Reads
<1> QED
  BY <1>4, <1>5

LEMMA BoardTakes ==
  ASSUME TypeOK, NEW i \in DOMAIN posts, BoardRead(i)
  PROVE  PageTyped' /\ Takes(i)
<1> DEFINE r == posts[i]
<1>0. r.op = "board" /\ r.answer.is = "ok" /\ anyGoal \in Goals
  BY BoardAssumption DEF BoardRead, Answered, anyGoal
<1>1. shown' = BoardOf(r) /\ loaded' = TRUE /\ Late(i) /\ shown'.cards \in [Goals -> Cards]
  <2>1. shown' = BoardOf(r) /\ loaded' = TRUE /\ Late(i)
    BY DEF BoardRead
  <2> QED
    BY <1>0, <2>1, PostTyped
<1>2. UNCHANGED <<cards, status, working, room, list, running, runs, acts>>
  BY DEF BoardRead, server
<1>3. list \in [Goals -> Statuses] /\ running \subseteq Goals /\ requested \subseteq Goals
  BY DEF TypeOK
<1>4. ASSUME NEW more \in Seq(Asks), Sends(i, more), requested' \subseteq Goals,
             \A g \in requested' \ requested :
               \E k \in 1..Len(more) : more[k].op = "create" /\ more[k].goal = g
      PROVE  PageTyped' /\ Takes(i)
  <2>1. Reads(i, more)
    BY <1>0, <1>1, <1>2, <1>3, <1>4, ListTyped DEF Reads, Answered, Carrying, Ops
  <2> QED
    BY <2>1, ReadsTake
<1>5. CASE r.then = "goals"
  <2>1. <<loadGoals("none")>> \in Seq(Asks)
    BY <1>0, PlainAsks
  <2>2. Sends(i, <<loadGoals("none")>>) /\ requested' = requested
    BY <1>5 DEF BoardRead
  <2> QED
    BY <1>3, <1>4, <2>1, <2>2
<1>6. CASE r.then = "mirror"
  <2> DEFINE more == Mirror(shown'.cards, list, running)
  <2>1. Sends(i, more) /\ requested' = Asked(shown'.cards, list)
    BY <1>6 DEF BoardRead
  <2>2. /\ more \in Seq(Asks) /\ Asked(shown'.cards, list) \subseteq Goals
        /\ \A g \in Asked(shown'.cards, list) \ requested :
             \E k \in 1..Len(more) : more[k].op = "create" /\ more[k].goal = g
    BY <1>1, <1>3, MirrorAsks
  <2> HIDE DEF more
  <2> QED
    BY <1>4, <2>1, <2>2
<1>7. CASE r.then \notin {"goals", "mirror"}
  <2>1. <<>> \in Seq(Asks)
    BY <1>0, PlainAsks
  <2>2. Sends(i, <<>>) /\ requested' = requested
    BY <1>7 DEF BoardRead
  <2> QED
    BY <1>3, <1>4, <2>1, <2>2
<1> QED
  BY <1>5, <1>6, <1>7

LEMMA GoalsTakes ==
  ASSUME TypeOK, NEW i \in DOMAIN posts, GoalsRead(i)
  PROVE  PageTyped' /\ Takes(i)
<1> DEFINE r == posts[i]
<1>0. r.op = "goals" /\ r.answer.is = "ok" /\ anyGoal \in Goals /\ Late(i)
  BY BoardAssumption DEF GoalsRead, Answered, anyGoal
<1>1. list' \in [Goals -> Statuses] /\ running' \subseteq Goals
  BY <1>0, PostTyped DEF GoalsRead
<1>2. UNCHANGED <<cards, status, working, room, shown, loaded, runs, acts>>
  BY DEF GoalsRead, server
<1>3. requested \subseteq Goals /\ shown.cards \in [Goals -> Cards]
  BY DEF TypeOK
<1>4. ASSUME NEW more \in Seq(Asks), Sends(i, more), requested' \subseteq Goals,
             \A g \in requested' \ requested :
               \E k \in 1..Len(more) : more[k].op = "create" /\ more[k].goal = g
      PROVE  PageTyped' /\ Takes(i)
  <2>1. Reads(i, more)
    BY <1>0, <1>1, <1>2, <1>4, ListTyped DEF Reads, Answered, Carrying, Ops
  <2> QED
    BY <2>1, ReadsTake
<1>5. CASE loaded
  <2> DEFINE a == Mirror(shown.cards, list', running')
             b == IF r.then # "sync" THEN <<>>
                    ELSE Sync(shown.cards, list', running') \o <<loadBoard("none")>>
  <2>1. Sends(i, a \o b) /\ requested' = Asked(shown.cards, list')
    BY <1>5 DEF GoalsRead
  <2>2. /\ a \in Seq(Asks) /\ Asked(shown.cards, list') \subseteq Goals
        /\ \A g \in Asked(shown.cards, list') \ requested :
             \E k \in 1..Len(a) : a[k].op = "create" /\ a[k].goal = g
    BY <1>1, <1>3, MirrorAsks
  <2>3. b \in Seq(Asks)
    <3>1. Sync(shown.cards, list', running') \in Seq(Asks)
      BY <1>1, <1>3, SyncAsks
    <3>2. <<loadBoard("none")>> \in Seq(Asks) /\ <<>> \in Seq(Asks)
      BY <1>0, PlainAsks
    <3>3. Sync(shown.cards, list', running') \o <<loadBoard("none")>> \in Seq(Asks)
      BY <3>1, <3>2, BothAsk
    <3> QED
      BY <3>2, <3>3
  <2> HIDE DEF a, b
  <2>4. /\ a \o b \in Seq(Asks) /\ Len(a \o b) = Len(a) + Len(b)
        /\ \A k \in 1..Len(a) : k \in 1..Len(a \o b) /\ (a \o b)[k] = a[k]
    BY <2>2, <2>3, Longer
  <2>5. \A g \in requested' \ requested :
          \E k \in 1..Len(a \o b) : (a \o b)[k].op = "create" /\ (a \o b)[k].goal = g
    BY <2>1, <2>2, <2>4
  <2> QED
    BY <1>4, <2>1, <2>2, <2>4, <2>5
<1>6. CASE ~loaded
  <2>1. <<loadBoard("mirror")>> \in Seq(Asks)
    BY <1>0, PlainAsks
  <2>2. Sends(i, <<loadBoard("mirror")>>) /\ requested' = requested
    BY <1>6 DEF GoalsRead
  <2> QED
    BY <1>3, <1>4, <2>1, <2>2
<1> QED
  BY <1>5, <1>6

LEMMA PostTakes ==
  ASSUME TypeOK, NEW i \in DOMAIN posts, PostRead(i)
  PROVE  PageTyped' /\ Takes(i)
<1> DEFINE r == posts[i]
           more == IF r.op = "move" THEN boardToGoal(r) ELSE <<>>
<1>0. /\ r.op \in {"move", "link", "unlink", "log", "create"} /\ r.answer.is = "ok" /\ r.goal \in Goals
      /\ Late(i) /\ Sends(i, more) /\ shown' = BoardOf(r)
  BY PostTyped DEF PostRead, Answered
<1>1. more \in Seq(Asks)
  <2>1. {"done", "review", "archived", "active"} \subseteq Statuses
    BY DEF Statuses
  <2>2. <<>> \in Seq(Asks) /\ \A s \in Statuses : <<postGoal(r.goal, s, "none")>> \in Seq(Asks)
    BY <1>0, PlainAsks
  <2>3. boardToGoal(r) = <<>> \/ \E s \in {"done", "review", "archived", "active"} :
                                   boardToGoal(r) = <<postGoal(r.goal, s, "none")>>
    BY DEF boardToGoal
  <2> QED
    BY <2>1, <2>2, <2>3
<1>2. UNCHANGED <<cards, status, working, room, loaded, list, running, runs, requested, acts>>
  BY DEF PostRead, server
<1> HIDE DEF more
<1>3. Reads(i, more)
  <2>1. /\ list \in [Goals -> Statuses] /\ running \subseteq Goals /\ requested \subseteq Goals
        /\ requested' \ requested = {}
    BY <1>2 DEF TypeOK
  <2> QED
    BY <1>0, <1>1, <1>2, <2>1, ListTyped DEF Reads, Answered, Carrying, Ops
<1> QED
  BY <1>3, ReadsTake

\* A run that may start after an answer.
LEMMA RunsAsk ==
  ASSUME TypeOK, NEW i \in DOMAIN posts, NEW g \in Goals, NEW more \in Seq(Asks), RunsNow(i, g, more)
  PROVE  /\ runs' \in [Goals -> {"none", "running", "finished", "stopped", "failed"}]
         /\ \E m \in Seq(Asks) :
              /\ Sends(i, m)
              /\ \A k \in 1..Len(more) : k \in 1..Len(m) /\ m[k] = more[k]
<1>1. CASE runs[g] = "running"
  <2>1. Sends(i, more) /\ runs' = runs
    BY <1>1 DEF RunsNow
  <2>2. \A k \in 1..Len(more) : k \in 1..Len(more) /\ more[k] = more[k]
    OBVIOUS
  <2> QED
    BY <2>1, <2>2, ListTyped
<1>2. CASE runs[g] # "running"
  <2> DEFINE a == followRun(g, "doing")
             b == <<Plain("run", g)>>
  <2>1. runs' = [runs EXCEPT ![g] = "running"] /\ Sends(i, more \o a \o b)
    BY <1>2 DEF RunsNow
  <2>2. a \in Seq(Asks)
    <3>1. "doing" \in Columns
      BY DEF Columns
    <3> QED
      BY <3>1, FollowAsks
  <2>3. b \in Seq(Asks)
    <3>1. "run" \in Ops \ {"move", "create", "new", "status"}
      BY DEF Ops
    <3> QED
      BY <3>1, PlainAsks
  <2> HIDE DEF a, b
  <2>4. /\ more \o a \in Seq(Asks)
        /\ \A k \in 1..Len(more) : k \in 1..Len(more \o a) /\ (more \o a)[k] = more[k]
    BY <2>2, Longer
  <2> DEFINE c == more \o a
  <2>5. c \in Seq(Asks) /\ \A k \in 1..Len(more) : k \in 1..Len(c) /\ c[k] = more[k]
    BY <2>4
  <2>6. Sends(i, c \o b)
    BY <2>1
  <2> HIDE DEF c
  <2>7. /\ c \o b \in Seq(Asks)
        /\ \A k \in 1..Len(c) : k \in 1..Len(c \o b) /\ (c \o b)[k] = c[k]
    BY <2>3, <2>5, Longer
  <2>8. \A k \in 1..Len(more) : k \in 1..Len(c \o b) /\ (c \o b)[k] = more[k]
    BY <2>5, <2>7
  <2>9. runs' \in [Goals -> {"none", "running", "finished", "stopped", "failed"}]
    BY <2>1, ListTyped
  <2> QED
    BY <2>6, <2>7, <2>8, <2>9
<1> QED
  BY <1>1, <1>2

LEMMA StatusTakes ==
  ASSUME TypeOK, NEW i \in DOMAIN posts, StatusRead(i)
  PROVE  PageTyped' /\ Takes(i)
<1> DEFINE r == posts[i]
           g == r.goal
           card == shown.cards[g]
           follow == CASE r.arg = "done" -> moveGoalCard(shown.cards, g, "done")
                       [] r.arg = "review" -> moveGoalCard(shown.cards, g, "review")
                       [] r.arg = "archived" -> moveGoalCard(shown.cards, g, "archive")
                       [] card # NoCard /\ card.column \in Verdicts ->
                            <<postMove(g, "ready", FALSE)>>
                       [] OTHER -> <<>>
<1>0. /\ r.op = "status" /\ r.answer.is = "ok" /\ g \in Goals /\ Late(i)
      /\ list' \in [Goals -> Statuses]
  BY PostTyped DEF StatusRead, Answered
<1>1. /\ UNCHANGED <<cards, status, working, room, shown, loaded, running, requested, acts>>
      /\ running \subseteq Goals /\ requested \subseteq Goals
  BY DEF StatusRead, server, TypeOK
<1>2. follow \in Seq(Asks)
  <2>1. \A c \in {"done", "review", "archive"} : moveGoalCard(shown.cards, g, c) \in Seq(Asks)
    <3>1. {"done", "review", "archive"} \subseteq Columns
      BY DEF Columns
    <3> QED
      BY <1>0, <3>1, ListTyped, MoveAsks
  <2>2. <<postMove(g, "ready", FALSE)>> \in Seq(Asks) /\ <<>> \in Seq(Asks)
    <3>1. "ready" \in Columns
      BY DEF Columns
    <3> QED
      BY <1>0, <3>1, PlainAsks
  <2> QED
    BY <2>1, <2>2
<1>3. IF r.then = "run" THEN RunsNow(i, g, follow) ELSE Sends(i, follow) /\ UNCHANGED runs
  BY DEF StatusRead
<1> HIDE DEF follow
<1>4. \E more \in Seq(Asks) :
        Sends(i, more) /\ runs' \in [Goals -> {"none", "running", "finished", "stopped", "failed"}]
  BY <1>0, <1>2, <1>3, RunsAsk, ListTyped
<1>5. PICK more \in Seq(Asks) :
        Sends(i, more) /\ runs' \in [Goals -> {"none", "running", "finished", "stopped", "failed"}]
  BY <1>4
<1>6. Reads(i, more)
  BY <1>0, <1>1, <1>5, ListTyped DEF Reads, Answered, Carrying, Ops
<1> QED
  BY <1>6, ReadsTake

LEMMA NewTakes ==
  ASSUME TypeOK, NEW i \in DOMAIN posts, NewRead(i)
  PROVE  PageTyped' /\ Takes(i)
<1> DEFINE r == posts[i]
           g == r.goal
           only == [h \in Goals |-> IF h = g THEN list'[g] ELSE "none"]
           lane == IF r.arg = "none" THEN <<>> ELSE moveGoalCard(shown.cards, g, r.arg)
           kept == IF loaded THEN Mirror(shown.cards, only, running)
                             ELSE <<loadBoard("mirror")>>
<1>0. /\ r.op = "new" /\ r.answer.is = "ok" /\ g \in Goals /\ Late(i)
      /\ list' \in [Goals -> Statuses]
  BY PostTyped DEF NewRead, Answered
<1>1. /\ UNCHANGED <<cards, status, working, room, shown, loaded, running, acts>>
      /\ running \subseteq Goals /\ requested \subseteq Goals
  BY DEF NewRead, server, TypeOK
<1>2. requested' = IF loaded THEN Asked(shown.cards, only) ELSE requested
  BY DEF NewRead
<1>3. only \in [Goals -> Statuses]
  BY <1>0 DEF Statuses
<1>4. lane \in Seq(Asks)
  <2>1. r.arg \in Columns \cup {"none"}
    BY <1>0, PostTyped DEF Posts
  <2> QED
    BY <1>0, <2>1, ListTyped, MoveAsks, PlainAsks
<1>5. IF r.then = "run" THEN RunsNow(i, g, kept) ELSE Sends(i, kept \o lane) /\ UNCHANGED runs
  BY DEF NewRead
<1> HIDE DEF only
<1>6. /\ kept \in Seq(Asks) /\ requested' \subseteq Goals
      /\ \A h \in requested' \ requested : \E k \in 1..Len(kept) : kept[k].op = "create" /\ kept[k].goal = h
  <2>1. CASE loaded
    <3> DEFINE m == Mirror(shown.cards, only, running)
    <3>1. /\ m \in Seq(Asks) /\ Asked(shown.cards, only) \subseteq Goals
          /\ \A h \in Asked(shown.cards, only) \ requested : \E k \in 1..Len(m) : m[k].op = "create" /\ m[k].goal = h
      <4> DEFINE board == shown.cards
      <4>1. board \in [Goals -> Cards]
        BY ListTyped
      <4> HIDE DEF board
      <4>2. /\ Mirror(board, only, running) \in Seq(Asks) /\ Asked(board, only) \subseteq Goals
            /\ \A h \in Asked(board, only) \ requested :
                 \E k \in 1..Len(Mirror(board, only, running)) :
                   /\ Mirror(board, only, running)[k].op = "create"
                   /\ Mirror(board, only, running)[k].goal = h
        <5>1. Mirror(board, only, running) \in Seq(Asks)
          BY <1>3, <4>1, MirrorAsks
        <5>2. Asked(board, only) \subseteq Goals
          BY <1>3, <4>1, MirrorAsks
        <5>3. \A h \in Asked(board, only) \ requested :
                 \E k \in 1..Len(Mirror(board, only, running)) :
                   /\ Mirror(board, only, running)[k].op = "create"
                   /\ Mirror(board, only, running)[k].goal = h
          BY <1>3, <4>1, MirrorAsks
        <5> QED
          BY <5>1, <5>2, <5>3
      <4> QED
        BY <4>2 DEF board
    <3>2. kept = m
      BY <2>1
    <3> HIDE DEF m, kept
    <3> QED
      BY <1>2, <2>1, <3>1, <3>2
  <2>2. CASE ~loaded
    <3>1. <<loadBoard("mirror")>> \in Seq(Asks)
      BY <1>0, PlainAsks
    <3> QED
      BY <1>1, <1>2, <2>2, <3>1
  <2> QED
    BY <2>1, <2>2
<1> HIDE DEF kept, lane
<1>7. PICK more \in Seq(Asks) :
        /\ Sends(i, more) /\ runs' \in [Goals -> {"none", "running", "finished", "stopped", "failed"}]
        /\ \A k \in 1..Len(kept) : k \in 1..Len(more) /\ more[k] = kept[k]
  <2>1. CASE r.then = "run"
    BY <1>0, <1>5, <1>6, <2>1, RunsAsk
  <2>2. CASE r.then # "run"
    <3>1. /\ kept \o lane \in Seq(Asks)
          /\ \A k \in 1..Len(kept) : k \in 1..Len(kept \o lane) /\ (kept \o lane)[k] = kept[k]
      BY <1>4, <1>6, Longer
    <3> QED
      BY <1>5, <2>2, <3>1, ListTyped
  <2> QED
    BY <2>1, <2>2
<1>8. \A h \in requested' \ requested : \E k \in 1..Len(more) : more[k].op = "create" /\ more[k].goal = h
  BY <1>6, <1>7
<1>9. Reads(i, more)
  BY <1>0, <1>1, <1>6, <1>7, <1>8, ListTyped DEF Reads, Answered, Carrying, Ops
<1> QED
  BY <1>9, ReadsTake

LEMMA RemoveTakes ==
  ASSUME TypeOK, NEW i \in DOMAIN posts, RemoveRead(i)
  PROVE  PageTyped' /\ Takes(i)
<1> DEFINE r == posts[i]
           more == IF r.op = "remove" /\ shown.cards[r.goal].linked
                     THEN <<Plain("unlink", r.goal)>> ELSE <<>>
<1>0. /\ r.op \in {"remove", "pause"} /\ r.answer.is = "ok" /\ r.goal \in Goals /\ Late(i)
      /\ list' \in [Goals -> Statuses] /\ Sends(i, more)
  BY PostTyped DEF RemoveRead, Answered
<1>1. /\ UNCHANGED <<cards, status, working, room, shown, loaded, running, runs, requested, acts>>
      /\ running \subseteq Goals /\ requested \subseteq Goals
  BY DEF RemoveRead, server, TypeOK
<1>2. more \in Seq(Asks)
  <2>1. "unlink" \in Ops \ {"move", "create", "new", "status"}
    BY DEF Ops
  <2> QED
    BY <1>0, <2>1, PlainAsks
<1> HIDE DEF more
<1>3. Reads(i, more)
  BY <1>0, <1>1, <1>2, ListTyped DEF Reads, Answered, Carrying, Ops
<1> QED
  BY <1>3, ReadsTake

\* A request that fails draws nothing; lost or refused, no card is waited for.
LEMMA FailsTakes ==
  ASSUME TypeOK, NEW i \in DOMAIN posts, Fails(i)
  PROVE  PageTyped' /\ Takes(i)
<1>1. /\ UNCHANGED <<cards, status, working, room, shown, loaded, list, running, runs, acts>>
      /\ posts' = RemoveAt(posts, i) \o <<>>
  BY DEF Fails, server, Sends, Rest
<1>2. requested' \subseteq requested
      /\ (posts[i].op = "create" => posts[i].goal \notin requested')
  BY DEF Fails
<1>3. /\ trouble \subseteq trouble' /\ (posts[i].answer.is = "refused" \/ ~Calm')
      /\ trouble' \subseteq {"order", "loss", "room", "verdict", "overlap", "adopts", "checklist"}
  <2>1. trouble' = IF posts[i].answer.is = "refused" THEN trouble ELSE trouble \cup {"loss"}
    BY DEF Fails
  <2> QED
    BY <2>1 DEF TypeOK, Calm
<1>4. PageTyped'
  BY <1>1, <1>2, <1>3 DEF TypeOK, PageTyped
<1>5. Draws(i)
  BY <1>1, <1>3 DEF Draws
<1>6. <<>> \in Seq(Asks)
  BY EmptySeq
<1> QED
  BY <1>1, <1>2, <1>3, <1>4, <1>5, <1>6 DEF Takes

\* The end of a run, and a run that is stopped.
LEMMA RunTakes ==
  ASSUME TypeOK, NEW i \in DOMAIN posts, NEW more \in Seq(Asks), posts[i].op = "run", Sends(i, more),
         UNCHANGED <<cards, status, working, room, shown, loaded, list, running, requested>>,
         runs' \in [Goals -> {"none", "running", "finished", "stopped", "failed"}],
         acts' \in 0..MaxActs, trouble \subseteq trouble', trouble' \subseteq trouble \cup {"loss", "overlap"}
  PROVE  PageTyped' /\ Takes(i)
<1>1. PageTyped'
  BY DEF TypeOK, PageTyped
<1>2. Draws(i)
  BY DEF Draws
<1>3. posts' = RemoveAt(posts, i) \o more /\ requested' \ requested = {}
  BY DEF Sends, Rest
<1>4. \E m \in Seq(Asks) :
        /\ posts' = RemoveAt(posts, i) \o m
        /\ \A g \in requested' \ requested : \E k \in 1..Len(m) : m[k].op = "create" /\ m[k].goal = g
  BY <1>3
<1> QED
  BY <1>1, <1>2, <1>4 DEF Takes

LEMMA EndTakes ==
  ASSUME TypeOK, NEW i \in DOMAIN posts, RunRead(i)
  PROVE  PageTyped' /\ Takes(i)
<1> DEFINE g == posts[i].goal
           ended == posts[i].answer.is = "ended"
           a == followRun(g, IF ended THEN "review" ELSE "ready")
           b == <<loadGoals("none")>>
<1>0. g \in Goals /\ posts[i].op = "run" /\ Sends(i, a \o b)
  BY PostTyped DEF RunRead
<1>1. a \in Seq(Asks)
  <2>1. (IF ended THEN "review" ELSE "ready") \in Columns
    BY DEF Columns
  <2> QED
    BY <1>0, <2>1, FollowAsks
<1>2. b \in Seq(Asks)
  BY <1>0, PlainAsks
<1>3. /\ UNCHANGED <<cards, status, working, room, shown, loaded, list, running, requested, acts>>
      /\ acts \in 0..MaxActs
  BY DEF RunRead, server, TypeOK
<1>4. runs' \in [Goals -> {"none", "running", "finished", "stopped", "failed"}]
  <2>1. runs' = [runs EXCEPT ![g] = IF ended THEN "finished" ELSE "failed"]
    BY DEF RunRead
  <2> QED
    BY <2>1, ListTyped
<1>5. trouble \subseteq trouble' /\ trouble' \subseteq trouble \cup {"loss", "overlap"}
  BY DEF RunRead
<1> HIDE DEF a, b
<1>6. a \o b \in Seq(Asks)
  BY <1>1, <1>2, BothAsk
<1> QED
  BY <1>0, <1>3, <1>4, <1>5, <1>6, RunTakes

LEMMA StopTakes ==
  ASSUME TypeOK, NEW g \in Goals, Stop(g)
  PROVE  PageTyped' /\ \E i \in DOMAIN posts : Takes(i)
<1> DEFINE a == followRun(g, "ready")
           b == <<Plain("pause", g), loadGoals("none")>>
<1>0. PICK i \in DOMAIN posts : posts[i].op = "run" /\ Sends(i, a \o b)
  BY DEF Stop
<1>1. a \in Seq(Asks)
  <2>1. "ready" \in Columns
    BY DEF Columns
  <2> QED
    BY <2>1, FollowAsks
<1>2. b \in Seq(Asks)
  <2>1. "pause" \in Ops \ {"move", "create", "new", "status"}
    BY DEF Ops
  <2> DEFINE x == Plain("pause", g)
             y == loadGoals("none")
  <2>2. <<x>> \in Seq(Asks) /\ <<y>> \in Seq(Asks)
    BY <2>1, PlainAsks
  <2> HIDE DEF x, y
  <2>3. <<x, y>> \in Seq(Asks)
    BY <2>2
  <2> QED
    BY <2>3 DEF x, y
<1>3. /\ UNCHANGED <<cards, status, working, room, shown, loaded, list, running, requested>>
      /\ acts' \in 0..MaxActs
  BY BoardAssumption DEF Stop, Act, server, TypeOK
<1>4. runs' \in [Goals -> {"none", "running", "finished", "stopped", "failed"}]
  <2>1. runs' = [runs EXCEPT ![g] = "stopped"]
    BY DEF Stop
  <2> QED
    BY <2>1, ListTyped
<1>5. trouble \subseteq trouble' /\ trouble' \subseteq trouble \cup {"loss", "overlap"}
  BY DEF Stop
<1> HIDE DEF a, b
<1>6. a \o b \in Seq(Asks)
  BY <1>1, <1>2, BothAsk
<1> QED
  BY <1>0, <1>3, <1>4, <1>5, <1>6, RunTakes

-----------------------------------------------------------------------------
(* The server.                                                              *)

\* A card that is served is a card, and is not taken away.
LEMMA CardsServed ==
  ASSUME TypeOK, NEW i \in DOMAIN posts, Serve(i)
  PROVE  /\ cards' \in [Rooms -> [Goals -> Cards]]
         /\ \A r \in Rooms, g \in Goals : cards[r][g] # NoCard => cards'[r][g] # NoCard
         /\ posts[i].op = "create" => cards'[posts[i].room][posts[i].goal] # NoCard
         /\ posts[i].op \notin Carrying \/ posts[i].op = "board" => cards' = cards
<1> DEFINE r == posts[i]
           old == cards[r.room][r.goal]
<1> PICK ticked \in BOOLEAN : Apply(i, ticked)
  BY DEF Serve
<1>0. r.room \in Rooms /\ r.goal \in Goals /\ r \in Posts
  BY PostTyped
<1>1. cards \in [Rooms -> [Goals -> Cards]] /\ old \in Cards
  BY <1>0 DEF TypeOK
<1>2. "none" \notin Columns /\ NoCard.linked = FALSE /\ NoCard.column = "none"
  BY DEF Columns, NoCard
<1>3. ASSUME NEW card \in Cards \ {NoCard}, cards' = [cards EXCEPT ![r.room][r.goal] = card]
      PROVE  /\ cards' \in [Rooms -> [Goals -> Cards]]
             /\ \A a \in Rooms, g \in Goals : cards[a][g] # NoCard => cards'[a][g] # NoCard
             /\ cards'[r.room][r.goal] # NoCard
  BY <1>0, <1>1, <1>3
<1>4. CASE cards' = cards
  <2>1. r.op = "create" => old.linked
    <3> SUFFICES ASSUME r.op = "create", ~old.linked PROVE FALSE
      OBVIOUS
    <3>1. Accepts(r, ticked) /\ r.arg \in Columns
      BY <1>0 DEF Accepts, Posts
    <3>2. cards' = [cards EXCEPT ![r.room][r.goal] = [column |-> r.arg, linked |-> TRUE]]
      BY <3>1 DEF Apply
    <3>3. cards'[r.room][r.goal] = [column |-> r.arg, linked |-> TRUE]
      BY <1>0, <1>1, <3>2
    <3>4. old.linked = TRUE
      BY <1>4, <3>3
    <3> QED
      BY <3>4
  <2>2. r.op = "create" => old # NoCard
    BY <1>2, <2>1
  <2> QED
    BY <1>1, <1>4, <2>2
<1>5. CASE cards' # cards
  <2>1. /\ Accepts(r, ticked)
        /\ cards' = CASE r.op = "move" -> [cards EXCEPT ![r.room][r.goal] = [old EXCEPT !.column = r.arg]]
                      [] r.op = "link" -> [cards EXCEPT ![r.room][r.goal] = [old EXCEPT !.linked = TRUE]]
                      [] r.op = "unlink" -> [cards EXCEPT ![r.room][r.goal] = [old EXCEPT !.linked = FALSE]]
                      [] r.op = "create" /\ ~old.linked ->
                           [cards EXCEPT ![r.room][r.goal] = [column |-> r.arg, linked |-> TRUE]]
                      [] OTHER -> cards
    BY <1>5 DEF Apply
  <2>2. CASE r.op \in {"move", "link", "unlink"}
    <3>1. old \in [column : Columns, linked : BOOLEAN]
      <4>1. old # NoCard
        BY <2>1, <2>2 DEF Accepts
      <4> QED
        BY <1>1, <4>1 DEF Cards
    <3>2. r.op = "move" => r.arg \in Columns
      BY <1>0 DEF Posts
    <3>3. PICK card \in [column : Columns, linked : BOOLEAN] :
            cards' = [cards EXCEPT ![r.room][r.goal] = card]
      <4>1. CASE r.op = "move"
        BY <2>1, <3>1, <3>2, <4>1
      <4>2. CASE r.op = "link"
        BY <2>1, <3>1, <4>2
      <4>3. CASE r.op = "unlink"
        BY <2>1, <3>1, <4>3
      <4> QED
        BY <2>2, <4>1, <4>2, <4>3
    <3>4. card \in Cards \ {NoCard}
      BY <1>2 DEF Cards
    <3> QED
      BY <1>3, <2>2, <3>3, <3>4 DEF Carrying
  <2>3. CASE r.op = "create"
    <3>1. r.arg \in Columns
      BY <1>0, <2>3 DEF Posts
    <3>2. cards' = [cards EXCEPT ![r.room][r.goal] = [column |-> r.arg, linked |-> TRUE]]
      BY <1>5, <2>1, <2>3
    <3>3. [column |-> r.arg, linked |-> TRUE] \in Cards \ {NoCard}
      BY <1>2, <3>1 DEF Cards
    <3> QED
      BY <1>3, <2>3, <3>2, <3>3 DEF Carrying
  <2>4. r.op \in {"move", "link", "unlink", "create"}
    BY <1>5, <2>1
  <2> QED
    BY <2>2, <2>3, <2>4
<1> QED
  BY <1>4, <1>5

\* A request is served: its post has the answer, a snapshot or a refusal.
LEMMA Serves ==
  ASSUME TypeOK, NEW i \in DOMAIN posts, Serve(i)
  PROVE  /\ PageTyped' /\ posts' \in Seq(Posts) /\ Len(posts') = Len(posts)
         /\ \A k \in 1..Len(posts) : k # i => posts'[k] = posts[k]
         /\ posts[i].answer = Waiting /\ posts[i].op # "run"
         /\ posts'[i].op = posts[i].op /\ posts'[i].goal = posts[i].goal /\ posts'[i].room = posts[i].room
         /\ \/ posts'[i].answer.is = "ok" /\ posts'[i].answer.cards = cards'
            \/ posts'[i].answer.is = "refused" /\ cards' = cards /\ posts[i].op \notin {"board", "create"}
         /\ UNCHANGED <<shown, loaded, room, requested>>
         /\ trouble \subseteq trouble' /\ (Calm' => ~Overtaking(i))
<1> PICK ticked \in BOOLEAN : Apply(i, ticked)
  BY DEF Serve
<1> DEFINE r == posts[i]
           a == IF Accepts(r, ticked) THEN Snapshot ELSE [is |-> "refused"]
<1>0. r.room \in Rooms /\ r.goal \in Goals /\ r \in Posts /\ posts \in Seq(Posts) /\ i \in 1..Len(posts)
  BY PostTyped DEF TypeOK
<1>1. r.answer = Waiting /\ r.op # "run"
  BY DEF Apply, Applied
<1>2. status' \in [Goals -> Statuses]
  <2>1. {"active", "gone"} \subseteq Statuses /\ (r.op = "status" => r.arg \in Statuses)
    BY <1>0 DEF Posts, Statuses
  <2>2. \/ status' = status
        \/ r.op = "status" /\ status' = [status EXCEPT ![r.goal] = r.arg]
        \/ status' = [status EXCEPT ![r.goal] = "active"]
        \/ status' = [status EXCEPT ![r.goal] = "gone"]
    BY DEF Apply
  <2>3. status \in [Goals -> Statuses]
    BY DEF TypeOK
  <2> QED
    BY <1>0, <2>1, <2>2, <2>3
<1>3. /\ working' = working /\ UNCHANGED <<room, shown, loaded, list, running, runs, requested, acts>>
      /\ trouble \subseteq trouble' /\ trouble' \subseteq trouble \cup {"order", "checklist"}
      /\ (Overtaking(i) => "order" \in trouble')
  BY DEF Apply, page
<1>4. PageTyped'
  BY <1>2, <1>3, CardsServed DEF PageTyped, TypeOK
<1>5. /\ a \in Answers
      /\ \/ a.is = "ok" /\ a.cards = cards'
         \/ a.is = "refused" /\ cards' = cards /\ r.op \notin {"board", "create"}
  <2>1. CASE Accepts(r, ticked)
    <3>1. Snapshot \in [is : {"ok"}, cards : [Rooms -> [Goals -> Cards]],
                        status : [Goals -> Statuses], working : SUBSET Goals]
      BY <1>4 DEF Snapshot, PageTyped
    <3> QED
      BY <2>1, <3>1 DEF Answers, Snapshot
  <2>2. CASE ~Accepts(r, ticked)
    <3>1. cards' = cards
      BY <2>2 DEF Apply
    <3>2. r.op \notin {"board", "create"}
      BY <2>2 DEF Accepts
    <3> QED
      BY <2>2, <3>1, <3>2 DEF Answers
  <2> QED
    BY <2>1, <2>2
<1>6. posts' = [posts EXCEPT ![i].answer = a]
  BY DEF Apply
<1> HIDE DEF a
<1> DEFINE s == [r EXCEPT !.answer = a]
<1>7. s \in Posts /\ s.op = r.op /\ s.goal = r.goal /\ s.room = r.room /\ s.answer = a
  <2>1. r \in Requests /\ s \in Requests
    <3>1. r \in Requests
      BY <1>0 DEF Posts
    <3> QED
      BY <1>5, <3>1 DEF Requests
  <2>2. s.op = r.op /\ s.goal = r.goal /\ s.room = r.room /\ s.arg = r.arg /\ s.answer = a
    BY <2>1 DEF Requests
  <2> QED
    BY <1>0, <2>1, <2>2 DEF Posts
<1>8. posts' = [posts EXCEPT ![i] = s]
  BY <1>0, <1>6
<1> HIDE DEF s
<1>9. /\ posts' \in Seq(Posts) /\ Len(posts') = Len(posts)
      /\ \A k \in 1..Len(posts) : posts'[k] = IF k = i THEN s ELSE posts[k]
  BY <1>0, <1>7, <1>8, ExceptSeq
<1>10. Calm' => ~Overtaking(i)
  BY <1>3 DEF Calm
<1> QED
  BY <1>0, <1>1, <1>3, <1>4, <1>5, <1>7, <1>9, <1>10

\* What the thread of a run does changes no card.
LEMMA RunsMark ==
  ASSUME TypeOK,
         \/ \E i \in DOMAIN posts : RunStarts(i)
         \/ \E g \in Goals : RunEnds(g)
  PROVE  PageTyped' /\ Marks
<1>0. posts \in Seq(Posts) /\ DOMAIN posts = 1..Len(posts) /\ Len(posts) \in Nat
  BY LenProperties DEF TypeOK
<1>1. ASSUME NEW p \in Posts, NEW a \in {[is |-> "working"], [is |-> "ended"]}
      PROVE  [p EXCEPT !.answer = a] \in Posts /\ [p EXCEPT !.answer = a].op = p.op
  <2> DEFINE s == [p EXCEPT !.answer = a]
  <2>1. p \in Requests
    BY DEF Posts
  <2>2. a \in Answers
    BY DEF Answers
  <2>3. s \in Requests /\ s.op = p.op /\ s.arg = p.arg
    BY <2>1, <2>2 DEF Requests
  <2> QED
    BY <2>3 DEF Posts
<1>2. ASSUME NEW i \in DOMAIN posts, RunStarts(i) PROVE PageTyped' /\ Marks
  <2> DEFINE s == [posts[i] EXCEPT !.answer = [is |-> "working"]]
  <2>1. posts[i].op = "run" /\ posts[i] \in Posts /\ posts[i].goal \in Goals
    BY <1>2, PostTyped DEF RunStarts
  <2>2. s \in Posts /\ s.op = "run"
    BY <1>1, <2>1
  <2>3. posts' = [posts EXCEPT ![i] = s]
    <3>1. posts' = [posts EXCEPT ![i].answer = [is |-> "working"]]
      BY <1>2 DEF RunStarts
    <3> QED
      BY <3>1
  <2> HIDE DEF s
  <2>4. /\ posts' \in Seq(Posts) /\ Len(posts') = Len(posts)
        /\ \A k \in 1..Len(posts) : posts'[k] = IF k = i THEN s ELSE posts[k]
    BY <1>0, <2>2, <2>3, ExceptSeq
  <2>5. working' = working \cup {posts[i].goal} /\ UNCHANGED <<cards, status, page, acts, trouble>>
    BY <1>2 DEF RunStarts
  <2>6. PageTyped'
    BY <2>1, <2>5 DEF TypeOK, PageTyped, page
  <2> QED
    BY <2>1, <2>2, <2>4, <2>5, <2>6 DEF Marks, page
<1>3. ASSUME NEW g \in Goals, RunEnds(g) PROVE PageTyped' /\ Marks
  <2>1. PICK v \in {"review", "blocked", "active"} :
          /\ working' = working \ {g}
          /\ status' = [status EXCEPT ![g] = IF @ = "active" THEN v ELSE @]
          /\ trouble' = trouble
                          \cup (IF status'[g] = "active" THEN {"verdict"} ELSE {})
                          \cup (IF Idle THEN {} ELSE {"overlap"})
          /\ posts' = [i \in DOMAIN posts |->
                         IF posts[i].op = "run" /\ posts[i].goal = g /\ posts[i].answer.is = "working"
                           THEN [posts[i] EXCEPT !.answer = [is |-> "ended"]] ELSE posts[i]]
          /\ UNCHANGED <<cards, page, acts>>
    BY <1>3 DEF RunEnds
  <2>2. \A k \in 1..Len(posts) : /\ posts'[k] \in Posts
                                 /\ \/ posts'[k] = posts[k]
                                    \/ (posts[k].op = "run" /\ posts'[k].op = "run")
    <3> SUFFICES ASSUME NEW k \in 1..Len(posts)
                 PROVE  posts'[k] \in Posts /\ (posts'[k] = posts[k] \/ (posts[k].op = "run" /\ posts'[k].op = "run"))
      OBVIOUS
    <3>1. posts[k] \in Posts
      BY <1>0, ElementOfSeq
    <3> QED
      BY <1>0, <1>1, <2>1, <3>1
  <2>3. posts' \in Seq(Posts) /\ Len(posts') = Len(posts)
    <3>1. posts' \in [1..Len(posts) -> Posts]
      BY <1>0, <2>1, <2>2
    <3>2. posts' \in Seq(Posts)
      BY <1>0, <3>1, SeqDef
    <3> QED
      BY <1>0, <3>1, <3>2, LenProperties
  <2>4. status' \in [Goals -> Statuses] /\ working' \subseteq Goals
    <3>1. {"review", "blocked", "active"} \subseteq Statuses
      BY DEF Statuses
    <3> QED
      BY <2>1, <3>1 DEF TypeOK
  <2>5. trouble \subseteq trouble' /\ trouble' \subseteq trouble \cup {"verdict", "overlap"}
    BY <2>1
  <2>6. PageTyped'
    BY <2>1, <2>4, <2>5 DEF TypeOK, PageTyped, page
  <2> QED
    BY <2>1, <2>2, <2>3, <2>5, <2>6 DEF Marks, page
<1> QED
  BY <1>2, <1>3

\* The picker: another room is chosen, and its board asked for.
Picks ==
  /\ \E r \in Posts : /\ posts' = Append(posts, r)
                       /\ r.op = "board" /\ r.room = room' /\ r.answer = Waiting
  /\ UNCHANGED <<cards, shown, loaded, requested>>
  /\ trouble \subseteq trouble'

LEMMA RoomPicked ==
  ASSUME TypeOK, NEW r \in Rooms, PickRoom(r)
  PROVE  PageTyped' /\ Picks
<1> DEFINE p == loadBoard("none")
           s == [p EXCEPT !.room = r]
<1>1. p \in Requests /\ p.op = "board" /\ p.answer = Waiting
  <2>1. anyGoal \in Goals /\ "board" \in Ops /\ "none" \in Columns \cup Statuses
    BY BoardAssumption DEF anyGoal, Ops, Statuses
  <2>2. p \in Asks
    BY <2>1, RequestAsks DEF loadBoard
  <2> QED
    BY <2>2 DEF Asks, Posts, loadBoard, Request
<1>2. posts' = posts \o <<s>> /\ room' = r
  BY DEF PickRoom
<1> HIDE DEF p
<1>3. s \in Posts /\ s.op = "board" /\ s.room = r /\ s.answer = Waiting
  <2>1. s \in Requests /\ s.op = "board" /\ s.room = r /\ s.answer = Waiting
    BY <1>1 DEF Requests
  <2> QED
    BY <2>1 DEF Posts
<1> HIDE DEF s
<1>4. posts' = Append(posts, s)
  <2>1. posts \in Seq(Posts)
    BY DEF TypeOK
  <2> QED
    BY <1>2, <1>3, <2>1, AppendIsConcat
<1>5. PageTyped'
  <2>1. acts' \in 0..MaxActs
    BY BoardAssumption DEF TypeOK, PickRoom, Act
  <2> QED
    BY <2>1 DEF TypeOK, PageTyped, PickRoom, Act, server
<1>6. UNCHANGED <<cards, shown, loaded, requested>> /\ trouble \subseteq trouble'
  BY DEF PickRoom, Act, server
<1> QED
  BY <1>2, <1>3, <1>4, <1>5, <1>6 DEF Picks

-----------------------------------------------------------------------------
(* Every step is of one of these kinds.                                     *)

Kinds == Adds \/ Marks \/ Picks \/ \E i \in DOMAIN posts : Takes(i) \/ Serve(i)

LEMMA Reached ==
  ASSUME TypeOK, NEW i \in 1..Min({Window, Len(posts)})
  PROVE  i \in DOMAIN posts
<1>1. Window \in Nat /\ Len(posts) \in Nat /\ DOMAIN posts = 1..Len(posts)
  BY BoardAssumption, LenProperties DEF TypeOK
<1>2. Min({Window, Len(posts)}) \in Nat /\ Min({Window, Len(posts)}) <= Len(posts)
  <2>1. \E x \in {Window, Len(posts)} : \A y \in {Window, Len(posts)} : x <= y
    BY <1>1
  <2>2. /\ Min({Window, Len(posts)}) \in {Window, Len(posts)}
        /\ \A y \in {Window, Len(posts)} : Min({Window, Len(posts)}) <= y
    BY <2>1 DEF Min
  <2> QED
    BY <1>1, <2>2
<1> QED
  BY <1>1, <1>2

LEMMA EveryStep ==
  ASSUME TypeOK, Next
  PROVE  PageTyped' /\ Kinds
<1>0. Step
  BY DEF Next
<1>1. CASE Open \/ Refresh \/ Resync
  BY <1>1, Lists DEF Kinds
<1>2. ASSUME NEW r \in Rooms, PickRoom(r) PROVE PageTyped' /\ Kinds
  BY <1>2, RoomPicked DEF Kinds
<1>3. ASSUME NEW g \in Goals,
             \/ MarkDone(g) \/ Delete(g) \/ Stop(g) \/ RunEnds(g) \/ SubmitGoal(g)
             \/ workOnGoal(g) \/ iterateGoal(g) \/ workCardAsGoal(g) \/ QuickAdd(g, "doing")
             \/ \E c \in Columns : MoveCard(g, c) \/ DropOnLane(g, c)
             \/ \E step \in {-1, 1} : MoveBeside(g, step)
             \/ \E s \in {"archived", "active"} : SetStatus(g, s)
      PROVE  PageTyped' /\ Kinds
  <2>1. CASE Stop(g)
    <3>1. PageTyped' /\ \E i \in DOMAIN posts : Takes(i)
      BY <2>1, StopTakes
    <3> QED
      BY <3>1 DEF Kinds
  <2>2. CASE RunEnds(g)
    <3>1. PageTyped' /\ Marks
      BY <2>2, RunsMark
    <3> QED
      BY <3>1 DEF Kinds
  <2>3. CASE SubmitGoal(g) \/ QuickAdd(g, "doing") \/ workOnGoal(g) \/ iterateGoal(g) \/ workCardAsGoal(g)
    BY <2>3, StartsRuns DEF Kinds
  <2>4. CASE \/ MarkDone(g) \/ Delete(g)
             \/ \E c \in Columns : MoveCard(g, c) \/ DropOnLane(g, c)
             \/ \E step \in {-1, 1} : MoveBeside(g, step)
             \/ \E s \in {"archived", "active"} : SetStatus(g, s)
    BY <2>4, MovesCards DEF Kinds
  <2> QED
    BY <1>3, <2>1, <2>2, <2>3, <2>4
<1>4. ASSUME NEW i \in 1..Min({Window, Len(posts)}),
             \/ Serve(i) \/ RunStarts(i) \/ BoardRead(i) \/ GoalsRead(i) \/ PostRead(i)
             \/ StatusRead(i) \/ NewRead(i) \/ RemoveRead(i) \/ Fails(i) \/ RunRead(i)
      PROVE  PageTyped' /\ Kinds
  <2>0. i \in DOMAIN posts
    BY Reached
  <2>1. CASE Serve(i)
    BY <2>0, <2>1, Serves DEF Kinds
  <2>2. CASE RunStarts(i)
    <3>1. PageTyped' /\ Marks
      BY <2>0, <2>2, RunsMark
    <3> QED
      BY <3>1 DEF Kinds
  <2>3. CASE BoardRead(i) \/ GoalsRead(i) \/ PostRead(i) \/ StatusRead(i)
    BY <2>0, <2>3, BoardTakes, GoalsTakes, PostTakes, StatusTakes DEF Kinds
  <2>4. CASE NewRead(i) \/ RemoveRead(i) \/ Fails(i) \/ RunRead(i)
    BY <2>0, <2>4, NewTakes, RemoveTakes, FailsTakes, EndTakes DEF Kinds
  <2> QED
    BY <1>4, <2>1, <2>2, <2>3, <2>4
<1> QED
  BY <1>0, <1>1, <1>2, <1>3, <1>4 DEF Step

\* A state's types are those of its page and of its posts.
LEMMA TypedWhole ==
  TypeOK <=> PageTyped /\ posts \in Seq(Posts)
<1> QED
  BY DEF TypeOK, PageTyped

\* Where the posts are after a step, by its kind.
LEMMA Added ==
  ASSUME TypeOK, NEW more \in Seq(Asks), posts' = posts \o more
  PROVE  /\ posts' \in Seq(Posts) /\ Len(posts') = Len(posts) + Len(more)
         /\ Len(posts) \in Nat /\ Len(more) \in Nat
         /\ DOMAIN posts = 1..Len(posts) /\ DOMAIN posts' = 1..(Len(posts) + Len(more))
         /\ \A k \in 1..Len(posts) : posts'[k] = posts[k]
         /\ \A k \in (Len(posts) + 1)..(Len(posts) + Len(more)) : posts'[k] \in Asks
<1>1. posts \in Seq(Posts) /\ more \in Seq(Posts)
  <2>1. Asks \subseteq Posts
    BY DEF Asks
  <2>2. \A S, T : S \subseteq T => \A q \in Seq(S) : q \in Seq(T)
    OBVIOUS
  <2> QED
    BY <2>1, <2>2 DEF TypeOK
<1>2. /\ posts' \in Seq(Posts) /\ Len(posts') = Len(posts) + Len(more)
      /\ \A k \in 1..(Len(posts) + Len(more)) :
           posts'[k] = IF k <= Len(posts) THEN posts[k] ELSE more[k - Len(posts)]
  BY <1>1, ConcatProperties
<1>3. /\ Len(posts) \in Nat /\ Len(more) \in Nat /\ DOMAIN posts = 1..Len(posts)
      /\ DOMAIN posts' = 1..Len(posts')
  BY <1>1, <1>2, LenProperties
<1>4. \A k \in (Len(posts) + 1)..(Len(posts) + Len(more)) : posts'[k] \in Asks
  <2> SUFFICES ASSUME NEW k \in (Len(posts) + 1)..(Len(posts) + Len(more)) PROVE posts'[k] \in Asks
    OBVIOUS
  <2>1. /\ k \in 1..(Len(posts) + Len(more)) /\ ~(k <= Len(posts)) /\ k - Len(posts) \in 1..Len(more)
    BY <1>3
  <2>2. more[k - Len(posts)] \in Asks
    BY <2>1, ElementOfSeq
  <2> QED
    BY <1>2, <2>1, <2>2
<1> QED
  BY <1>2, <1>3, <1>4

\* A post that is taken leaves a gap that the later ones close.
Place(i, k) == IF k < i THEN k ELSE k - 1

LEMMA Taken ==
  ASSUME TypeOK, NEW i \in DOMAIN posts, NEW more \in Seq(Asks), posts' = RemoveAt(posts, i) \o more
  PROVE  /\ posts' \in Seq(Posts) /\ Len(posts) \in Nat \ {0} /\ Len(more) \in Nat
         /\ DOMAIN posts = 1..Len(posts) /\ DOMAIN posts' = 1..(Len(posts) - 1 + Len(more))
         /\ \A k \in DOMAIN posts \ {i} :
              Place(i, k) \in 1..(Len(posts) - 1) /\ posts'[Place(i, k)] = posts[k]
         /\ \A n \in 1..(Len(posts) - 1) : \E k \in DOMAIN posts \ {i} : n = Place(i, k)
         /\ \A n \in Len(posts)..(Len(posts) - 1 + Len(more)) : posts'[n] \in Asks
         /\ \A k \in 1..Len(more) : Len(posts) - 1 + k \in DOMAIN posts'
                                     /\ posts'[Len(posts) - 1 + k] = more[k]
<1>1. posts \in Seq(Posts) /\ more \in Seq(Posts)
  <2>1. Asks \subseteq Posts
    BY DEF Asks
  <2>2. \A S, T : S \subseteq T => \A q \in Seq(S) : q \in Seq(T)
    OBVIOUS
  <2> QED
    BY <2>1, <2>2 DEF TypeOK
<1>2. Len(posts) \in Nat /\ Len(more) \in Nat /\ DOMAIN posts = 1..Len(posts) /\ i \in 1..Len(posts)
  BY <1>1, LenProperties
<1>3. /\ posts' \in Seq(Posts) /\ Len(posts') = Len(posts) - 1 + Len(more)
      /\ \A k \in 1..(i - 1) : posts'[k] = posts[k]
      /\ \A k \in i..(Len(posts) - 1) : posts'[k] = posts[k + 1]
      /\ \A k \in 1..Len(more) : posts'[Len(posts) - 1 + k] = more[k]
  BY <1>1, <1>2, Shifted
<1>4. DOMAIN posts' = 1..(Len(posts) - 1 + Len(more))
  BY <1>3, LenProperties
<1>5. ASSUME NEW k \in DOMAIN posts \ {i}
      PROVE  Place(i, k) \in 1..(Len(posts) - 1) /\ posts'[Place(i, k)] = posts[k]
  <2>1. CASE k < i
    <3>1. k \in 1..(i - 1) /\ k \in 1..(Len(posts) - 1) /\ Place(i, k) = k
      BY <1>2, <2>1 DEF Place
    <3> QED
      BY <1>3, <3>1
  <2>2. CASE ~(k < i)
    <3>1. k - 1 \in i..(Len(posts) - 1) /\ k - 1 \in 1..(Len(posts) - 1) /\ Place(i, k) = k - 1 /\ (k - 1) + 1 = k
      BY <1>2, <2>2 DEF Place
    <3> QED
      BY <1>3, <3>1
  <2> QED
    BY <2>1, <2>2
<1>6. ASSUME NEW n \in 1..(Len(posts) - 1) PROVE \E k \in DOMAIN posts \ {i} : n = Place(i, k)
  <2>1. CASE n < i
    <3>1. n \in DOMAIN posts \ {i} /\ n = Place(i, n)
      BY <1>2, <2>1 DEF Place
    <3> QED
      BY <3>1
  <2>2. CASE ~(n < i)
    <3>1. n + 1 \in DOMAIN posts \ {i} /\ n = Place(i, n + 1)
      BY <1>2, <2>2 DEF Place
    <3> QED
      BY <3>1
  <2> QED
    BY <2>1, <2>2
<1>7. ASSUME NEW n \in Len(posts)..(Len(posts) - 1 + Len(more)) PROVE posts'[n] \in Asks
  <2>1. n - (Len(posts) - 1) \in 1..Len(more) /\ Len(posts) - 1 + (n - (Len(posts) - 1)) = n
    BY <1>2
  <2>2. more[n - (Len(posts) - 1)] \in Asks
    BY <2>1, ElementOfSeq
  <2> QED
    BY <1>3, <2>1, <2>2
<1>8. ASSUME NEW k \in 1..Len(more)
      PROVE  Len(posts) - 1 + k \in DOMAIN posts' /\ posts'[Len(posts) - 1 + k] = more[k]
  BY <1>2, <1>3, <1>4
<1>9. Len(posts) \in Nat \ {0}
  BY <1>2
<1> QED
  BY <1>2, <1>3, <1>4, <1>5, <1>6, <1>7, <1>8, <1>9

\* Each of the posts was there or is new.
LEMMA Origins ==
  ASSUME TypeOK, NEW i \in DOMAIN posts, NEW more \in Seq(Asks), posts' = RemoveAt(posts, i) \o more
  PROVE  \A n \in DOMAIN posts' :
           \/ posts'[n] \in Asks
           \/ \E k \in DOMAIN posts \ {i} : n = Place(i, k) /\ posts'[n] = posts[k]
<1> SUFFICES ASSUME NEW n \in DOMAIN posts', posts'[n] \notin Asks
             PROVE  \E k \in DOMAIN posts \ {i} : n = Place(i, k) /\ posts'[n] = posts[k]
  OBVIOUS
<1>1. n \in 1..(Len(posts) - 1)
  <2>1. /\ DOMAIN posts' = 1..(Len(posts) - 1 + Len(more)) /\ Len(posts) \in Nat \ {0} /\ Len(more) \in Nat
        /\ \A x \in Len(posts)..(Len(posts) - 1 + Len(more)) : posts'[x] \in Asks
    BY Taken
  <2> QED
    BY <2>1
<1>2. PICK k \in DOMAIN posts \ {i} : n = Place(i, k)
  BY <1>1, Taken
<1>3. posts'[n] = posts[k]
  BY <1>2, Taken
<1> QED
  BY <1>2, <1>3

\* Every post but the one taken stays, in its order.
LEMMA Stays ==
  ASSUME TypeOK, NEW i \in DOMAIN posts, NEW more \in Seq(Asks), posts' = RemoveAt(posts, i) \o more
  PROVE  /\ \A k \in DOMAIN posts \ {i} : Place(i, k) \in DOMAIN posts' /\ posts'[Place(i, k)] = posts[k]
         /\ \A a, b \in DOMAIN posts \ {i} : Place(i, a) < Place(i, b) <=> a < b
<1>1. /\ DOMAIN posts' = 1..(Len(posts) - 1 + Len(more)) /\ Len(posts) \in Nat \ {0} /\ Len(more) \in Nat
      /\ DOMAIN posts = 1..Len(posts)
      /\ \A k \in DOMAIN posts \ {i} :
           Place(i, k) \in 1..(Len(posts) - 1) /\ posts'[Place(i, k)] = posts[k]
  BY Taken
<1>2. 1..(Len(posts) - 1) \subseteq DOMAIN posts'
  BY <1>1
<1>3. \A a, b \in DOMAIN posts \ {i} : Place(i, a) < Place(i, b) <=> a < b
  BY <1>1 DEF Place
<1> QED
  BY <1>1, <1>2, <1>3

LEMMA PickedPost ==
  ASSUME TypeOK, NEW r \in Posts, posts' = Append(posts, r)
  PROVE  /\ posts' \in Seq(Posts) /\ Len(posts) \in Nat
         /\ DOMAIN posts = 1..Len(posts) /\ DOMAIN posts' = 1..(Len(posts) + 1)
         /\ posts'[Len(posts) + 1] = r
         /\ \A k \in 1..Len(posts) : posts'[k] = posts[k]
<1>1. posts \in Seq(Posts)
  BY DEF TypeOK
<1>2. /\ posts' \in Seq(Posts) /\ Len(posts') = Len(posts) + 1
      /\ \A k \in 1..Len(posts) : posts'[k] = posts[k]
      /\ posts'[Len(posts) + 1] = r
  BY <1>1, AppendProperties
<1> QED
  BY <1>1, <1>2, LenProperties

LEMMA PostsTyped ==
  ASSUME TypeOK, Kinds
  PROVE  posts' \in Seq(Posts)
<1>1. CASE Adds
  BY <1>1, Added DEF Adds
<1>2. CASE Marks
  BY <1>2 DEF Marks
<1>3. CASE Picks
  BY <1>3, PickedPost DEF Picks
<1>4. ASSUME NEW i \in DOMAIN posts, Takes(i) PROVE posts' \in Seq(Posts)
  <2>1. PICK more \in Seq(Asks) : posts' = RemoveAt(posts, i) \o more
    BY <1>4 DEF Takes
  <2> QED
    BY <2>1, Taken
<1>5. ASSUME NEW i \in DOMAIN posts, Serve(i) PROVE posts' \in Seq(Posts)
  BY <1>5, Serves
<1> QED
  BY <1>1, <1>2, <1>3, <1>4, <1>5 DEF Kinds

-----------------------------------------------------------------------------
(* No goal is kept off the board.                                           *)

LEMMA AsksWait ==
  ASSUME NEW p \in Asks
  PROVE  p.answer = Waiting /\ p.answer.is = "waiting" /\ p.room = room
<1> QED
  BY DEF Asks, Waiting

LEMMA GivenStays ==
  ASSUME TypeOK, Given, Kinds
  PROVE  Given'
<1>1. CASE Adds
  <2>1. PICK more \in Seq(Asks) : posts' = posts \o more
    BY <1>1 DEF Adds
  <2>2. cards' = cards
    BY <1>1 DEF Adds
  <2> SUFFICES ASSUME NEW k \in DOMAIN posts', posts'[k].op = "create", posts'[k].answer.is = "ok"
               PROVE  cards'[posts'[k].room][posts'[k].goal] # NoCard
    BY DEF Given
  <2>3. k \in DOMAIN posts /\ posts'[k] = posts[k]
    <3>1. CASE k \in 1..Len(posts)
      BY <2>1, <3>1, Added
    <3>2. CASE k \in (Len(posts) + 1)..(Len(posts) + Len(more))
      <4>1. posts'[k] \in Asks
        BY <2>1, <3>2, Added
      <4> QED
        BY <4>1, AsksWait
    <3> QED
      BY <2>1, <3>1, <3>2, Added
  <2> QED
    BY <2>2, <2>3 DEF Given
<1>2. CASE Marks
  <2>1. DOMAIN posts' = DOMAIN posts /\ DOMAIN posts = 1..Len(posts)
    BY <1>2, LenProperties DEF Marks, TypeOK
  <2> QED
    BY <1>2, <2>1 DEF Marks, Given
<1>3. CASE Picks
  <2>1. PICK r \in Posts : posts' = Append(posts, r) /\ r.op = "board"
    BY <1>3 DEF Picks
  <2>2. cards' = cards
    BY <1>3 DEF Picks
  <2>3. /\ Len(posts) \in Nat /\ DOMAIN posts = 1..Len(posts) /\ DOMAIN posts' = 1..(Len(posts) + 1)
        /\ posts'[Len(posts) + 1] = r /\ \A k \in 1..Len(posts) : posts'[k] = posts[k]
    BY <2>1, PickedPost
  <2> QED
    BY <2>1, <2>2, <2>3 DEF Given
<1>4. ASSUME NEW i \in DOMAIN posts, Takes(i) PROVE Given'
  <2>1. PICK more \in Seq(Asks) : posts' = RemoveAt(posts, i) \o more
    BY <1>4 DEF Takes
  <2>2. cards' = cards
    BY <1>4 DEF Takes
  <2> SUFFICES ASSUME NEW n \in DOMAIN posts', posts'[n].op = "create", posts'[n].answer.is = "ok"
               PROVE  cards'[posts'[n].room][posts'[n].goal] # NoCard
    BY DEF Given
  <2>3. n \in 1..(Len(posts) - 1)
    <3>1. /\ DOMAIN posts' = 1..(Len(posts) - 1 + Len(more)) /\ Len(posts) \in Nat \ {0} /\ Len(more) \in Nat
          /\ \A x \in Len(posts)..(Len(posts) - 1 + Len(more)) : posts'[x] \in Asks
      BY <2>1, Taken
    <3>2. posts'[n] \notin Asks
      BY AsksWait
    <3> QED
      BY <3>1, <3>2
  <2>4. PICK k \in DOMAIN posts \ {i} : n = Place(i, k)
    BY <2>1, <2>3, Taken
  <2>5. posts'[n] = posts[k]
    BY <2>1, <2>4, Taken
  <2> QED
    BY <2>2, <2>5 DEF Given
<1>5. ASSUME NEW i \in DOMAIN posts, Serve(i) PROVE Given'
  <2>1. DOMAIN posts' = 1..Len(posts) /\ DOMAIN posts = 1..Len(posts)
    BY <1>5, Serves, LenProperties DEF TypeOK
  <2> SUFFICES ASSUME NEW k \in DOMAIN posts', posts'[k].op = "create", posts'[k].answer.is = "ok"
               PROVE  cards'[posts'[k].room][posts'[k].goal] # NoCard
    BY DEF Given
  <2>2. CASE k = i
    BY <1>5, <2>2, Serves, CardsServed
  <2>3. CASE k # i
    <3>1. posts'[k] = posts[k]
      BY <1>5, <2>1, <2>3, Serves
    <3>2. cards[posts[k].room][posts[k].goal] # NoCard /\ posts[k].room \in Rooms /\ posts[k].goal \in Goals
      BY <2>1, <3>1, PostTyped DEF Given
    <3> QED
      BY <1>5, <3>1, <3>2, CardsServed
  <2> QED
    BY <2>2, <2>3
<1> QED
  BY <1>1, <1>2, <1>3, <1>4, <1>5 DEF Kinds

LEMMA AskedOrGiven ==
  ASSUME TypeOK, Given, NeverKeptOff, Kinds
  PROVE  NeverKeptOff'
<1>0. requested \subseteq Goals
  BY DEF TypeOK
<1> DEFINE Out(g) == \E i \in DOMAIN posts : posts[i].op = "create" /\ posts[i].goal = g
           There(g) == \E r \in Rooms : cards[r][g] # NoCard
<1>1. \A g \in requested : Out(g) \/ There(g)
  BY DEF NeverKeptOff
<1>2. CASE Adds
  <2>1. PICK more \in Seq(Asks) : posts' = posts \o more
    BY <1>2 DEF Adds
  <2>2. \A k \in DOMAIN posts : k \in DOMAIN posts' /\ posts'[k] = posts[k]
    BY <2>1, Added
  <2>3. cards' = cards /\ requested' = requested
    BY <1>2 DEF Adds
  <2> QED
    BY <1>1, <2>2, <2>3 DEF NeverKeptOff
<1>3. CASE Marks
  <2>1. DOMAIN posts' = DOMAIN posts /\ DOMAIN posts = 1..Len(posts)
    BY <1>3, LenProperties DEF Marks, TypeOK
  <2>2. \A k \in DOMAIN posts : posts[k].op = "create" => posts'[k] = posts[k]
    BY <1>3, <2>1 DEF Marks
  <2>3. cards' = cards /\ requested' = requested
    BY <1>3 DEF Marks
  <2> QED
    BY <1>1, <2>1, <2>2, <2>3 DEF NeverKeptOff
<1>4. CASE Picks
  <2>1. PICK r \in Posts : posts' = Append(posts, r)
    BY <1>4 DEF Picks
  <2>2. \A k \in DOMAIN posts : k \in DOMAIN posts' /\ posts'[k] = posts[k]
    BY <2>1, PickedPost
  <2>3. cards' = cards /\ requested' = requested
    BY <1>4 DEF Picks
  <2> QED
    BY <1>1, <2>2, <2>3 DEF NeverKeptOff
<1>5. ASSUME NEW i \in DOMAIN posts, Takes(i) PROVE NeverKeptOff'
  <2>1. PICK more \in Seq(Asks) :
          /\ posts' = RemoveAt(posts, i) \o more
          /\ \A g \in requested' \ requested : \E k \in 1..Len(more) : more[k].op = "create" /\ more[k].goal = g
    BY <1>5 DEF Takes
  <2>2. cards' = cards /\ (posts[i].op # "create" \/ posts[i].answer.is = "ok" \/ posts[i].goal \notin requested')
    BY <1>5 DEF Takes
  <2>3. \A k \in DOMAIN posts \ {i} : \E n \in DOMAIN posts' : posts'[n] = posts[k]
    <3>1. /\ DOMAIN posts' = 1..(Len(posts) - 1 + Len(more)) /\ Len(posts) \in Nat \ {0} /\ Len(more) \in Nat
          /\ \A k \in DOMAIN posts \ {i} :
               Place(i, k) \in 1..(Len(posts) - 1) /\ posts'[Place(i, k)] = posts[k]
      BY <2>1, Taken
    <3>2. 1..(Len(posts) - 1) \subseteq DOMAIN posts'
      BY <3>1
    <3> QED
      BY <3>1, <3>2
  <2> SUFFICES ASSUME NEW g \in requested' PROVE Out(g)' \/ There(g)'
    BY DEF NeverKeptOff
  <2>4. CASE g \notin requested
    <3>1. PICK k \in 1..Len(more) : more[k].op = "create" /\ more[k].goal = g
      BY <2>1, <2>4
    <3>2. Len(posts) - 1 + k \in DOMAIN posts' /\ posts'[Len(posts) - 1 + k] = more[k]
      BY <2>1, Taken
    <3> QED
      BY <3>1, <3>2
  <2>5. CASE There(g)
    BY <2>2, <2>5
  <2>6. CASE g \in requested /\ Out(g)
    <3>1. PICK k \in DOMAIN posts : posts[k].op = "create" /\ posts[k].goal = g
      BY <2>6
    <3>2. CASE k = i
      <4>1. posts[i].answer.is = "ok" /\ posts[i].room \in Rooms
        BY <2>2, <3>1, <3>2, PostTyped
      <4>2. cards[posts[i].room][g] # NoCard
        BY <3>1, <3>2, <4>1 DEF Given
      <4> QED
        BY <2>5, <4>1, <4>2
    <3>3. CASE k # i
      BY <2>3, <3>1, <3>3
    <3> QED
      BY <3>2, <3>3
  <2> QED
    BY <1>1, <2>4, <2>5, <2>6
<1>6. ASSUME NEW i \in DOMAIN posts, Serve(i) PROVE NeverKeptOff'
  <2>1. DOMAIN posts' = 1..Len(posts) /\ DOMAIN posts = 1..Len(posts)
    BY <1>6, Serves, LenProperties DEF TypeOK
  <2>2. \A k \in DOMAIN posts : posts'[k].op = posts[k].op /\ posts'[k].goal = posts[k].goal
    BY <1>6, <2>1, Serves
  <2>3. \A r \in Rooms, g \in Goals : cards[r][g] # NoCard => cards'[r][g] # NoCard
    BY <1>6, CardsServed
  <2>4. requested' = requested
    BY <1>6, Serves
  <2> QED
    BY <1>0, <1>1, <2>1, <2>2, <2>3, <2>4 DEF NeverKeptOff
<1> QED
  BY <1>2, <1>3, <1>4, <1>5, <1>6 DEF Kinds

LEMMA WelcomeStays ==
  ASSUME TypeOK, Welcome, Kinds
  PROVE  Welcome'
<1>1. CASE Adds
  <2>1. PICK more \in Seq(Asks) : posts' = posts \o more
    BY <1>1 DEF Adds
  <2>2. \A k \in DOMAIN posts' : (k \in DOMAIN posts /\ posts'[k] = posts[k]) \/ posts'[k] \in Asks
    BY <2>1, Added
  <2> QED
    BY <2>2, AsksWait DEF Welcome
<1>2. CASE Marks
  <2>1. DOMAIN posts' = DOMAIN posts /\ DOMAIN posts = 1..Len(posts)
    BY <1>2, LenProperties DEF Marks, TypeOK
  <2> QED
    BY <1>2, <2>1 DEF Marks, Welcome
<1>3. CASE Picks
  <2>1. PICK r \in Posts : posts' = Append(posts, r) /\ r.answer = Waiting
    BY <1>3 DEF Picks
  <2>2. r.answer.is = "waiting"
    BY <2>1 DEF Waiting
  <2>3. \A k \in DOMAIN posts' : (k \in DOMAIN posts /\ posts'[k] = posts[k]) \/ posts'[k] = r
    BY <2>1, PickedPost
  <2> QED
    BY <2>2, <2>3 DEF Welcome
<1>4. ASSUME NEW i \in DOMAIN posts, Takes(i) PROVE Welcome'
  <2>1. PICK more \in Seq(Asks) : posts' = RemoveAt(posts, i) \o more
    BY <1>4 DEF Takes
  <2>2. \A n \in DOMAIN posts' : (\E k \in DOMAIN posts : posts'[n] = posts[k]) \/ posts'[n] \in Asks
    BY <2>1, Origins
  <2> QED
    BY <2>2, AsksWait DEF Welcome
<1>5. ASSUME NEW i \in DOMAIN posts, Serve(i) PROVE Welcome'
  <2>1. DOMAIN posts' = 1..Len(posts) /\ DOMAIN posts = 1..Len(posts)
    BY <1>5, Serves, LenProperties DEF TypeOK
  <2>2. posts'[i].op = "board" => posts'[i].answer.is # "refused"
    BY <1>5, Serves
  <2>3. \A k \in DOMAIN posts : k # i => posts'[k] = posts[k]
    BY <1>5, <2>1, Serves
  <2> QED
    BY <2>1, <2>2, <2>3 DEF Welcome
<1> QED
  BY <1>1, <1>2, <1>3, <1>4, <1>5 DEF Kinds

-----------------------------------------------------------------------------
(* The board on screen.  While nothing is overtaken or lost, the posts are  *)
(* served and answered in order, so the last board drawn is the latest one. *)

OnScreen == Calm => InOrder /\ Latest /\ Current /\ Heading

LEMMA CalmBefore ==
  ASSUME trouble \subseteq trouble', Calm'
  PROVE  Calm
<1> QED
  BY DEF Calm

\* What is asked for waits, for the room chosen.
LEMMA ScreenAdds ==
  ASSUME TypeOK, OnScreen, Adds
  PROVE  OnScreen'
<1> SUFFICES ASSUME Calm' PROVE InOrder' /\ Latest' /\ Current' /\ Heading'
  BY DEF OnScreen
<1>1. /\ UNCHANGED <<cards, shown, loaded, room, requested>>
      /\ InOrder /\ Latest /\ Current /\ Heading
  BY CalmBefore DEF Adds, OnScreen
<1>2. PICK more \in Seq(Asks) : posts' = posts \o more
  BY DEF Adds
<1>3. /\ Len(posts) \in Nat /\ Len(more) \in Nat
      /\ DOMAIN posts = 1..Len(posts) /\ DOMAIN posts' = 1..(Len(posts) + Len(more))
      /\ \A k \in 1..Len(posts) : posts'[k] = posts[k]
      /\ \A k \in (Len(posts) + 1)..(Len(posts) + Len(more)) : posts'[k] \in Asks
  BY <1>2, Added
<1>4. \A k \in DOMAIN posts : k \in DOMAIN posts' /\ posts'[k] = posts[k]
  BY <1>3
<1>5. \A k \in DOMAIN posts' \ DOMAIN posts :
        /\ posts'[k].answer = Waiting /\ posts'[k].answer.is = "waiting" /\ posts'[k].room = room
        /\ \A j \in DOMAIN posts : j < k
  <2> SUFFICES ASSUME NEW k \in DOMAIN posts' \ DOMAIN posts
               PROVE  /\ posts'[k].answer = Waiting /\ posts'[k].answer.is = "waiting" /\ posts'[k].room = room
                      /\ \A j \in DOMAIN posts : j < k
    OBVIOUS
  <2>1. k \in (Len(posts) + 1)..(Len(posts) + Len(more)) /\ \A j \in DOMAIN posts : j < k
    BY <1>3
  <2>2. posts'[k] \in Asks
    BY <1>3, <2>1
  <2> QED
    BY <2>1, <2>2, AsksWait
<1>6. InOrder'
  <2> SUFFICES ASSUME NEW a \in DOMAIN posts', NEW b \in DOMAIN posts',
                      a < b, posts'[a].op # "run", posts'[b].op # "run", posts'[a].answer = Waiting
               PROVE  posts'[b].answer = Waiting
    BY DEF InOrder
  <2>1. CASE b \notin DOMAIN posts
    BY <1>5, <2>1
  <2>2. CASE b \in DOMAIN posts
    <3>1. a \in DOMAIN posts
      BY <1>3, <2>2
    <3> QED
      BY <1>1, <1>4, <2>2, <3>1 DEF InOrder
  <2> QED
    BY <2>1, <2>2
<1>7. \A k \in DOMAIN posts' : Holds(k)' <=> k \in DOMAIN posts /\ Holds(k)
  BY <1>4, <1>5 DEF Holds
<1>8. Latest'
  BY <1>1, <1>4, <1>7 DEF Latest
<1>9. Current'
  BY <1>1, <1>4, <1>7 DEF Current
<1>10. Heading'
  <2>1. \A k : Follows(k) => Follows(k)'
    BY <1>1, <1>4 DEF Follows
  <2>2. \A k \in DOMAIN posts' : posts'[k].op \in Carrying /\ posts'[k].room # room' =>
          k \in DOMAIN posts /\ posts[k].op \in Carrying /\ posts[k].room # room
    BY <1>1, <1>4, <1>5
  <2> QED
    BY <1>1, <2>1, <2>2 DEF Heading
<1> QED
  BY <1>6, <1>8, <1>9, <1>10

LEMMA ScreenMarks ==
  ASSUME TypeOK, OnScreen, Marks
  PROVE  OnScreen'
<1> SUFFICES ASSUME Calm' PROVE InOrder' /\ Latest' /\ Current' /\ Heading'
  BY DEF OnScreen
<1>1. /\ UNCHANGED <<cards, shown, loaded, room, requested>>
      /\ InOrder /\ Latest /\ Current /\ Heading
  BY CalmBefore DEF Marks, OnScreen
<1>2. DOMAIN posts' = DOMAIN posts /\ DOMAIN posts = 1..Len(posts)
  BY LenProperties DEF Marks, TypeOK
<1>3. \A k \in DOMAIN posts : /\ posts'[k].op = posts[k].op
                              /\ posts[k].op # "run" => posts'[k] = posts[k]
  BY <1>2 DEF Marks
<1>4. \A k \in DOMAIN posts : Holds(k)' <=> Holds(k)
  BY <1>3 DEF Holds, Carrying
<1>5. InOrder'
  BY <1>1, <1>2, <1>3 DEF InOrder
<1>6. \A k \in DOMAIN posts : Holds(k) => posts'[k] = posts[k]
  BY <1>3 DEF Holds, Carrying
<1>7. Latest' /\ Current'
  BY <1>1, <1>2, <1>4, <1>6 DEF Latest, Current
<1>8. Heading'
  <2>1. \A k : Follows(k) => Follows(k)'
    BY <1>1, <1>2, <1>3 DEF Follows
  <2>2. \A k \in DOMAIN posts : posts[k].op \in Carrying => posts'[k] = posts[k]
    BY <1>3 DEF Carrying
  <2> QED
    BY <1>1, <1>2, <1>3, <2>1, <2>2 DEF Heading
<1> QED
  BY <1>5, <1>7, <1>8

\* The board of the room chosen is asked for last.
LEMMA ScreenPicks ==
  ASSUME TypeOK, OnScreen, Picks
  PROVE  OnScreen'
<1> SUFFICES ASSUME Calm' PROVE InOrder' /\ Latest' /\ Current' /\ Heading'
  BY DEF OnScreen
<1>1. /\ UNCHANGED <<cards, shown, loaded, requested>>
      /\ InOrder /\ Latest /\ Current
  BY CalmBefore DEF Picks, OnScreen
<1>2. PICK r \in Posts : /\ posts' = Append(posts, r)
                        /\ r.op = "board" /\ r.room = room' /\ r.answer = Waiting
  BY DEF Picks
<1> DEFINE n == Len(posts) + 1
<1>3. /\ Len(posts) \in Nat /\ DOMAIN posts = 1..Len(posts) /\ DOMAIN posts' = 1..n /\ posts'[n] = r
      /\ \A k \in 1..Len(posts) : posts'[k] = posts[k]
  BY <1>2, PickedPost
<1>4. /\ \A k \in DOMAIN posts : k \in DOMAIN posts' /\ posts'[k] = posts[k] /\ k < n
      /\ \A k \in DOMAIN posts' : k \in DOMAIN posts \/ k = n
      /\ n \in DOMAIN posts' /\ n \notin DOMAIN posts /\ 0 < n /\ n \in Nat
  BY <1>3
<1>5. posts'[n].op = "board" /\ posts'[n].room = room' /\ posts'[n].answer = Waiting /\ posts'[n].answer.is = "waiting"
  BY <1>2, <1>3 DEF Waiting
<1> HIDE DEF n
<1>6. InOrder'
  <2> SUFFICES ASSUME NEW a \in DOMAIN posts', NEW b \in DOMAIN posts',
                      a < b, posts'[a].op # "run", posts'[b].op # "run", posts'[a].answer = Waiting
               PROVE  posts'[b].answer = Waiting
    BY DEF InOrder
  <2>1. CASE b = n
    BY <1>5, <2>1
  <2>2. CASE b # n
    <3>1. b \in DOMAIN posts /\ a \in DOMAIN posts
      <4>1. b \in DOMAIN posts
        BY <1>4, <2>2
      <4>2. a # n
        BY <1>3, <1>4, <4>1
      <4> QED
        BY <1>4, <4>1, <4>2
    <3> QED
      BY <1>1, <1>4, <3>1 DEF InOrder
  <2> QED
    BY <2>1, <2>2
<1>7. \A k \in DOMAIN posts' : Holds(k)' <=> k \in DOMAIN posts /\ Holds(k)
  BY <1>4, <1>5 DEF Holds
<1>8. Latest'
  BY <1>1, <1>4, <1>7 DEF Latest
<1>9. Current'
  BY <1>1, <1>4, <1>7 DEF Current
<1>10. Heading'
  <2>1. \A k \in DOMAIN posts \cup {0} : Follows(k)'
    BY <1>4, <1>5 DEF Follows
  <2>2. \A k \in DOMAIN posts' : posts'[k].room # room' => k \in DOMAIN posts
    BY <1>4, <1>5
  <2> QED
    BY <2>1, <2>2 DEF Heading
<1> QED
  BY <1>6, <1>8, <1>9, <1>10

\* The answer read in its turn is the first of those due.
LEMMA FirstInTurn ==
  ASSUME TypeOK, Welcome, Calm', NEW i \in DOMAIN posts, Draws(i)
  PROVE  /\ posts[i].op = "board" => /\ shown' = BoardOf(posts[i])
                                     /\ \A j \in 1..(i - 1) : posts[j].op = "run"
         /\ Holds(i) => shown' = BoardOf(posts[i]) /\ \A j \in 1..(i - 1) : posts[j].op = "run"
         /\ ~Holds(i) => UNCHANGED <<shown, loaded>>
<1>1. posts[i].op = "board" => posts[i].answer.is # "refused"
  BY DEF Welcome
<1> QED
  BY <1>1 DEF Draws, Holds, Carrying

LEMMA ScreenTakes ==
  ASSUME TypeOK, Welcome, OnScreen, NEW i \in DOMAIN posts, Takes(i)
  PROVE  OnScreen'
<1> SUFFICES ASSUME Calm' PROVE InOrder' /\ Latest' /\ Current' /\ Heading'
  BY DEF OnScreen
<1>1. cards' = cards /\ room' = room /\ InOrder /\ Latest /\ Current /\ Heading
  BY CalmBefore DEF Takes, OnScreen
<1>2. PICK more \in Seq(Asks) : posts' = RemoveAt(posts, i) \o more
  BY DEF Takes
<1>3. \A n \in DOMAIN posts' :
        \/ posts'[n] \in Asks
        \/ \E k \in DOMAIN posts \ {i} : n = Place(i, k) /\ posts'[n] = posts[k]
  BY <1>2, Origins
<1>4. /\ \A k \in DOMAIN posts \ {i} : Place(i, k) \in DOMAIN posts' /\ posts'[Place(i, k)] = posts[k]
      /\ \A a, b \in DOMAIN posts \ {i} : Place(i, a) < Place(i, b) <=> a < b
  BY <1>2, Stays
<1>5. /\ posts[i].op = "board" => /\ shown' = BoardOf(posts[i])
                                  /\ \A j \in 1..(i - 1) : posts[j].op = "run"
      /\ Holds(i) => shown' = BoardOf(posts[i]) /\ \A j \in 1..(i - 1) : posts[j].op = "run"
      /\ ~Holds(i) => UNCHANGED <<shown, loaded>>
  BY FirstInTurn DEF Takes
<1>6. DOMAIN posts = 1..Len(posts) /\ Len(posts) \in Nat
  BY LenProperties DEF TypeOK
<1>7. \A n \in DOMAIN posts' :
        posts'[n] \notin Asks =>
          \E k \in DOMAIN posts \ {i} : n = Place(i, k) /\ posts'[n] = posts[k]
  BY <1>3
<1>8. \A p \in Asks : p.answer = Waiting /\ p.answer.is = "waiting" /\ p.room = room
  BY AsksWait
<1>9. InOrder'
  <2> SUFFICES ASSUME NEW a \in DOMAIN posts', NEW b \in DOMAIN posts',
                      a < b, posts'[a].op # "run", posts'[b].op # "run", posts'[a].answer = Waiting,
                      posts'[b].answer # Waiting
               PROVE  FALSE
    BY DEF InOrder
  <2>1. PICK y \in DOMAIN posts \ {i} : b = Place(i, y) /\ posts'[b] = posts[y]
    BY <1>7, <1>8
  <2>2. PICK x \in DOMAIN posts \ {i} : a = Place(i, x) /\ posts'[a] = posts[x]
    <3>1. Place(i, y) <= Len(posts) - 1 /\ a \in 1..(Len(posts) - 1)
      <4>1. Place(i, y) \in 1..(Len(posts) - 1) /\ a \in Nat \ {0}
        <5>1. /\ DOMAIN posts' = 1..(Len(posts) - 1 + Len(more))
              /\ Place(i, y) \in 1..(Len(posts) - 1)
          BY <1>2, Taken
        <5> QED
          BY <5>1
      <4> QED
        BY <1>6, <2>1, <4>1
    <3>2. PICK x \in DOMAIN posts \ {i} : a = Place(i, x)
      BY <1>2, <3>1, Taken
    <3> QED
      BY <1>4, <3>2
  <2>3. x < y
    BY <1>4, <2>1, <2>2
  <2> QED
    BY <1>1, <2>1, <2>2, <2>3 DEF InOrder
<1>10. /\ \A n \in DOMAIN posts' : Holds(n)' =>
            \E k \in DOMAIN posts \ {i} : n = Place(i, k) /\ posts'[n] = posts[k] /\ Holds(k)
       /\ \A k \in DOMAIN posts \ {i} : Holds(k) => Holds(Place(i, k))'
  <2>1. \A n \in DOMAIN posts' : Holds(n)' => posts'[n] \notin Asks
    BY <1>8 DEF Holds
  <2>2. \A n \in DOMAIN posts' : Holds(n)' =>
            \E k \in DOMAIN posts \ {i} : n = Place(i, k) /\ posts'[n] = posts[k] /\ Holds(k)
    BY <1>7, <2>1 DEF Holds
  <2>3. \A k \in DOMAIN posts \ {i} : Holds(k) => Holds(Place(i, k))'
    BY <1>4 DEF Holds
  <2> QED
    BY <2>2, <2>3
<1>11. Latest'
  <2> SUFFICES ASSUME NEW n \in DOMAIN posts', Holds(n)', posts'[n].answer.cards # cards'
               PROVE  \E m \in DOMAIN posts' : n < m /\ Holds(m)'
    BY DEF Latest
  <2>1. PICK k \in DOMAIN posts \ {i} : n = Place(i, k) /\ posts'[n] = posts[k] /\ Holds(k)
    BY <1>10
  <2>2. PICK j \in DOMAIN posts : k < j /\ Holds(j)
    BY <1>1, <2>1 DEF Latest
  <2>3. j # i
    <3> SUFFICES ASSUME j = i PROVE FALSE
      OBVIOUS
    <3>1. k \in 1..(i - 1)
      BY <1>6, <2>1, <2>2
    <3> QED
      BY <1>5, <2>1, <2>2, <3>1 DEF Holds, Carrying
  <2> QED
    BY <1>4, <1>10, <2>1, <2>2, <2>3
<1>12. Current'
  <2> SUFFICES ASSUME loaded', \A n \in DOMAIN posts' : ~Holds(n)'
               PROVE  shown'.cards = cards'[shown'.room]
    BY DEF Current
  <2>1. \A k \in DOMAIN posts \ {i} : ~Holds(k)
    BY <1>4, <1>10
  <2>2. CASE Holds(i)
    <3>1. posts[i].answer.cards = cards
      BY <1>1, <1>6, <2>1, <2>2 DEF Latest
    <3> QED
      BY <1>1, <1>5, <2>2, <3>1 DEF BoardOf
  <2>3. CASE ~Holds(i)
    BY <1>1, <1>5, <2>1, <2>3 DEF Current
  <2> QED
    BY <2>2, <2>3
<1>13. Heading'
  <2>1. \A k \in DOMAIN posts \ {i} : \A j \in DOMAIN posts \ {i} :
          k < j /\ posts[j].op = "board" /\ posts[j].room = room => Follows(Place(i, k))'
    BY <1>1, <1>4 DEF Follows
  <2>2. ASSUME NEW n \in DOMAIN posts', posts'[n].op \in Carrying, posts'[n].room # room'
        PROVE  Follows(n)'
    <3>1. PICK k \in DOMAIN posts \ {i} : n = Place(i, k) /\ posts'[n] = posts[k]
      BY <1>1, <1>7, <1>8, <2>2
    <3>2. PICK j \in DOMAIN posts : k < j /\ posts[j].op = "board" /\ posts[j].room = room
      BY <1>1, <2>2, <3>1 DEF Heading, Follows
    <3>3. j # i
      <4> SUFFICES ASSUME j = i PROVE FALSE
        OBVIOUS
      <4>1. k \in 1..(i - 1)
        BY <1>6, <3>1, <3>2
      <4> QED
        BY <1>5, <2>2, <3>1, <3>2, <4>1 DEF Carrying
    <3> QED
      BY <2>1, <3>1, <3>2, <3>3
  <2>3. ASSUME shown'.room # room' PROVE Follows(0)'
    <3>1. \A j \in DOMAIN posts \ {i} : posts[j].op = "board" /\ posts[j].room = room => Follows(0)'
      <4>1. \A j \in DOMAIN posts \ {i} : 0 < Place(i, j)
        <5>1. \A j \in DOMAIN posts \ {i} : Place(i, j) \in 1..(Len(posts) - 1)
          BY <1>2, Taken
        <5> QED
          BY <1>6, <5>1
      <4> QED
        BY <1>1, <1>4, <4>1 DEF Follows
    <3>2. CASE Holds(i)
      <4>1. shown'.room = posts[i].room /\ posts[i].op \in Carrying
        BY <1>5, <3>2 DEF BoardOf, Holds
      <4>2. PICK j \in DOMAIN posts : i < j /\ posts[j].op = "board" /\ posts[j].room = room
        BY <1>1, <2>3, <4>1 DEF Heading, Follows
      <4>3. j # i
        BY <1>6, <4>2
      <4> QED
        BY <3>1, <4>2, <4>3
    <3>3. CASE ~Holds(i)
      <4>1. shown' = shown
        BY <1>5, <3>3
      <4>2. PICK j \in DOMAIN posts : posts[j].op = "board" /\ posts[j].room = room
        BY <1>1, <2>3, <4>1 DEF Heading, Follows
      <4>3. j # i
        <5> SUFFICES ASSUME j = i PROVE FALSE
          OBVIOUS
        <5>1. shown'.room = posts[i].room
          BY <1>5, <4>2 DEF BoardOf
        <5> QED
          BY <1>1, <2>3, <4>2, <5>1
      <4> QED
        BY <3>1, <4>2, <4>3
    <3> QED
      BY <3>2, <3>3
  <2> QED
    BY <2>2, <2>3 DEF Heading
<1> QED
  BY <1>9, <1>11, <1>12, <1>13

LEMMA ScreenServes ==
  ASSUME TypeOK, OnScreen, NEW i \in DOMAIN posts, Serve(i)
  PROVE  OnScreen'
<1> SUFFICES ASSUME Calm' PROVE InOrder' /\ Latest' /\ Current' /\ Heading'
  BY DEF OnScreen
<1>1. /\ UNCHANGED <<shown, loaded, room, requested>> /\ trouble \subseteq trouble'
      /\ ~Overtaking(i) /\ posts[i].answer = Waiting /\ posts[i].op # "run"
  BY Serves
<1>2. InOrder /\ Latest /\ Current /\ Heading
  BY <1>1, CalmBefore DEF OnScreen
<1>3. DOMAIN posts' = DOMAIN posts /\ DOMAIN posts = 1..Len(posts) /\ Len(posts) \in Nat
  BY Serves, LenProperties DEF TypeOK
<1>4. \A k \in DOMAIN posts : /\ posts'[k].op = posts[k].op /\ posts'[k].room = posts[k].room
                              /\ k # i => posts'[k] = posts[k]
  BY <1>3, Serves
<1>5. /\ \/ posts'[i].answer.is = "ok" /\ posts'[i].answer.cards = cards'
         \/ posts'[i].answer.is = "refused" /\ cards' = cards
      /\ posts[i].op \notin Carrying => cards' = cards
      /\ posts'[i].answer # Waiting
  <2>1. \/ posts'[i].answer.is = "ok" /\ posts'[i].answer.cards = cards'
        \/ posts'[i].answer.is = "refused" /\ cards' = cards
    BY Serves
  <2>2. posts[i].op \notin Carrying => cards' = cards
    BY CardsServed
  <2>3. Waiting.is = "waiting"
    BY DEF Waiting
  <2>4. posts'[i].answer # Waiting
    BY <2>1, <2>3
  <2> QED
    BY <2>1, <2>2, <2>4
<1>6. InOrder'
  <2> SUFFICES ASSUME NEW a \in DOMAIN posts, NEW b \in DOMAIN posts,
                      a < b, posts'[a].op # "run", posts'[b].op # "run", posts'[a].answer = Waiting,
                      posts'[b].answer # Waiting
               PROVE  FALSE
    BY <1>3 DEF InOrder
  <2>1. a # i /\ posts'[a] = posts[a]
    BY <1>4, <1>5
  <2>2. posts[b].answer = Waiting
    BY <1>2, <1>4, <2>1 DEF InOrder
  <2>3. b = i
    BY <1>4, <2>2
  <2>4. a \in 1..(i - 1)
    BY <1>3, <2>3
  <2> QED
    BY <1>1, <2>1, <2>4 DEF Overtaking
<1>7. ~Holds(i) /\ \A k \in DOMAIN posts : Holds(k) => k < i /\ Holds(k)' /\ posts'[k] = posts[k]
  <2>1. ~Holds(i)
    BY <1>1 DEF Holds, Waiting
  <2> SUFFICES ASSUME NEW k \in DOMAIN posts, Holds(k)
               PROVE  k < i /\ Holds(k)' /\ posts'[k] = posts[k]
    BY <2>1
  <2>2. k # i /\ posts'[k] = posts[k]
    BY <1>4, <2>1
  <2>3. posts[k].op # "run" /\ posts[k].answer # Waiting
    BY DEF Holds, Carrying, Waiting
  <2>4. ~(i < k)
    BY <1>1, <1>2, <2>3 DEF InOrder
  <2> QED
    BY <1>3, <2>2, <2>4 DEF Holds
<1>8. \A k \in DOMAIN posts : Holds(k)' => k = i \/ Holds(k)
  BY <1>4 DEF Holds
<1>9. Holds(i)' \/ cards' = cards
  BY <1>4, <1>5 DEF Holds
<1>10. Latest'
  <2> SUFFICES ASSUME NEW k \in DOMAIN posts, Holds(k)', posts'[k].answer.cards # cards'
               PROVE  \E j \in DOMAIN posts : k < j /\ Holds(j)'
    BY <1>3 DEF Latest
  <2>1. k # i
    BY <1>5 DEF Holds
  <2>2. Holds(k)
    BY <1>8, <2>1
  <2>3. CASE Holds(i)'
    BY <1>7, <2>2, <2>3
  <2>4. CASE cards' = cards
    <3>1. PICK j \in DOMAIN posts : k < j /\ Holds(j)
      BY <1>2, <1>7, <2>2, <2>4 DEF Latest
    <3> QED
      BY <1>7, <3>1
  <2> QED
    BY <1>9, <2>3, <2>4
<1>11. Current'
  <2> SUFFICES ASSUME loaded', \A k \in DOMAIN posts' : ~Holds(k)'
               PROVE  shown'.cards = cards'[shown'.room]
    BY DEF Current
  <2>1. (\A k \in DOMAIN posts : ~Holds(k)) /\ cards' = cards
    BY <1>3, <1>7, <1>9
  <2> QED
    BY <1>1, <1>2, <2>1 DEF Current
<1>12. Heading'
  <2>1. \A k : Follows(k) => Follows(k)'
    BY <1>1, <1>3, <1>4 DEF Follows
  <2> QED
    BY <1>1, <1>2, <1>3, <1>4, <2>1 DEF Heading
<1> QED
  BY <1>6, <1>10, <1>11, <1>12

-----------------------------------------------------------------------------
(* The theorems.                                                            *)

BoardInv == TypeOK /\ Given /\ Welcome /\ NeverKeptOff /\ OnScreen

LEMMA BoardInit ==
  ASSUME Init
  PROVE  BoardInv
<1>0. /\ posts = <<>> /\ DOMAIN posts = {} /\ requested = {} /\ loaded = FALSE
      /\ shown = [room |-> room, cards |-> [g \in Goals |-> NoCard]] /\ room \in Rooms
  BY DEF Init
<1>1. TypeOK
  <2>1. {NoCard, [column |-> "ready", linked |-> FALSE], [column |-> "doing", linked |-> TRUE]} \subseteq Cards
    BY DEF Cards, Columns
  <2>2. cards \in [Rooms -> [Goals -> Cards]]
    <3>1. cards \in [Rooms -> [Goals -> {NoCard, [column |-> "ready", linked |-> FALSE],
                                         [column |-> "doing", linked |-> TRUE]}]]
      BY DEF Init
    <3> QED
      BY <2>1, <3>1
  <2>3. shown \in [room : Rooms, cards : [Goals -> Cards]]
    BY <1>0, <2>1
  <2>4. posts \in Seq(Posts)
    BY <1>0, EmptySeq
  <2>5. /\ status \in [Goals -> Statuses] /\ list \in [Goals -> Statuses]
        /\ runs \in [Goals -> {"none", "running", "finished", "stopped", "failed"}]
    BY DEF Init, Statuses
  <2>6. acts \in 0..MaxActs
    BY BoardAssumption DEF Init
  <2>7. working \subseteq Goals /\ running \subseteq Goals /\ trouble = {}
    BY DEF Init
  <2> QED
    BY <1>0, <2>2, <2>3, <2>4, <2>5, <2>6, <2>7 DEF TypeOK
<1>2. Given /\ Welcome /\ NeverKeptOff
  BY <1>0 DEF Given, Welcome, NeverKeptOff
<1>3. InOrder /\ Latest /\ Current /\ Heading
  BY <1>0 DEF InOrder, Latest, Current, Heading
<1> QED
  BY <1>1, <1>2, <1>3 DEF BoardInv, OnScreen

LEMMA BoardNext ==
  ASSUME BoardInv, [Next]_vars
  PROVE  BoardInv'
<1>1. CASE Next
  <2>0. TypeOK /\ Given /\ Welcome /\ NeverKeptOff /\ OnScreen
    BY DEF BoardInv
  <2>1. PageTyped' /\ Kinds
    BY <1>1, <2>0, EveryStep
  <2>2. posts' \in Seq(Posts)
    BY <2>0, <2>1, PostsTyped
  <2>3. TypeOK'
    BY <2>1, <2>2 DEF TypeOK, PageTyped
  <2>4. Given' /\ Welcome' /\ NeverKeptOff'
    BY <2>0, <2>1, GivenStays, WelcomeStays, AskedOrGiven
  <2>5. OnScreen'
    BY <2>0, <2>1, ScreenAdds, ScreenMarks, ScreenPicks, ScreenTakes, ScreenServes DEF Kinds
  <2> QED
    BY <2>3, <2>4, <2>5 DEF BoardInv
<1>2. CASE UNCHANGED vars
  <2>1. /\ UNCHANGED <<cards, status, working, room, shown, loaded, list, running, runs, requested>>
        /\ UNCHANGED <<posts, acts, trouble>>
    BY <1>2 DEF vars, server, page
  <2>2. TypeOK'
    BY <2>1 DEF BoardInv, TypeOK
  <2>3. Given' /\ Welcome' /\ NeverKeptOff'
    BY <2>1 DEF BoardInv, Given, Welcome, NeverKeptOff
  <2>4. OnScreen'
    BY <2>1 DEF BoardInv, OnScreen, Calm, InOrder, Latest, Current, Heading, Holds, Follows
  <2> QED
    BY <2>2, <2>3, <2>4 DEF BoardInv
<1> QED
  BY <1>1, <1>2

LEMMA BoardAlways ==
  Spec => []BoardInv
<1> QED
  BY BoardInit, BoardNext, PTL DEF Spec

\* The stores, the page's copies of them and the requests are what they should
\* be: in particular a move names a column and a status is one of the goals'.
THEOREM TypeCorrect == Spec => []TypeOK
<1>1. BoardInv => TypeOK
  BY DEF BoardInv
<1> QED
  BY <1>1, BoardAlways, PTL

\* A goal whose card the page asked for has the request in flight or a card,
\* whatever is lost, refused or overtaken (goals.js:281-286).
THEOREM CardOrRequest == Spec => []NeverKeptOff
<1>1. BoardInv => NeverKeptOff
  BY DEF BoardInv
<1> QED
  BY <1>1, BoardAlways, PTL

\* With nothing in flight, and nothing overtaken or lost, the board on screen is
\* that of the room the picker names, as the log has it (board.js:217).
THEOREM ScreenIsTheRooms == Spec => []ScreenTrue
<1>1. BoardInv => ScreenTrue
  <2> SUFFICES ASSUME BoardInv, Idle, loaded, trouble \cap {"order", "loss"} = {}
               PROVE  shown.room = room /\ shown.cards = cards[room]
    BY DEF ScreenTrue
  <2>1. Current /\ Heading
    BY DEF BoardInv, OnScreen, Calm
  <2>2. shown.cards = cards[shown.room]
    BY <2>1 DEF Current, Holds, Carrying, Idle
  <2>3. shown.room = room
    BY <2>1 DEF Heading, Follows, Idle
  <2> QED
    BY <2>2, <2>3
<1> QED
  BY <1>1, BoardAlways, PTL

=============================================================================
