---------------------------- MODULE PagesProofs -----------------------------
(***************************************************************************)
(* Theorems about the pages of the web UI that share nothing but the       *)
(* window, for any of their bounds: what the user did is kept, what is     *)
(* drawn is of what it is drawn for, pieces of state agree and no page     *)
(* waits in vain. The other pages come first (ViewProofs has the first     *)
(* ones).                                                                  *)
(***************************************************************************)
EXTENDS ViewProofs

-----------------------------------------------------------------------------
(* The schedule.  A load that read since the last change holds what the    *)
(* server does; so do the rows, but for the change out, unless changes     *)
(* crossed.                                                                *)

PlanShape ==
  DOMAIN view = {"srv", "entries", "rows", "shown", "loads", "busy", "post",
                 "crossed"}
PlanLoad == [read : BOOLEAN, at : SUBSET Things, fresh : BOOLEAN]
PlanSorts(s) ==
  /\ s.srv \in SUBSET Things /\ s.loads \in Seq(PlanLoad) /\ s.rows = s.entries
PlanPost(s) ==
  /\ DOMAIN s.post = {"id", "on", "done"} /\ s.busy = s.post.id
  /\ s.post.id = 0 \/ s.post.id \in Things
  /\ s.post.done => (s.post.id \in s.srv <=> s.post.on)
PlanFresh(s) ==
  \A i \in DOMAIN s.loads :
    s.loads[i].read /\ s.loads[i].fresh => s.loads[i].at = s.srv
PlanHeld(s) ==
  (s.shown = "rows" \/ s.post.id # 0) /\ ~s.crossed =>
    s.srv = IF s.post.id # 0 /\ s.post.done
            THEN ASchedulePage!With(s.entries, s.post.id, s.post.on)
            ELSE s.entries
PlanOk ==
  PlanSorts(view) /\ PlanPost(view) /\ PlanFresh(view) /\ PlanHeld(view)
PlanInv == PlanShape /\ PlanOk

\* A load is its fields, asked for, read or outdated.
LEMMA PlanLoads ==
  /\ \A l \in PlanLoad :
       l.read \in BOOLEAN /\ l.at \in SUBSET Things /\ l.fresh \in BOOLEAN
  /\ LET l == [read |-> FALSE, at |-> {}, fresh |-> TRUE]
     IN l \in PlanLoad /\ ~l.read
  /\ \A l \in PlanLoad, S \in SUBSET Things :
       LET k == [[l EXCEPT !.read = TRUE] EXCEPT !.at = S]
       IN k \in PlanLoad /\ k.at = S
  /\ \A l \in PlanLoad, f \in BOOLEAN :
       LET k == [l EXCEPT !.fresh = f]
       IN k \in PlanLoad /\ (k.fresh <=> f) /\ k.read = l.read
  <1> DEFINE no == FALSE
             yes == TRUE
  <1>1. no \in BOOLEAN /\ yes \in BOOLEAN /\ ~no /\ yes
    OBVIOUS
  <1> HIDE DEF no, yes
  <1>2. \A l \in PlanLoad :
          l.read \in BOOLEAN /\ l.at \in SUBSET Things /\ l.fresh \in BOOLEAN
    BY DEF PlanLoad
  <1>3. LET l == [read |-> no, at |-> {}, fresh |-> yes]
        IN l \in PlanLoad /\ ~l.read
    BY <1>1 DEF PlanLoad
  <1>4. \A l \in PlanLoad, S \in SUBSET Things :
          LET k == [[l EXCEPT !.read = yes] EXCEPT !.at = S]
          IN k \in PlanLoad /\ k.at = S
    BY <1>1 DEF PlanLoad
  <1>5. \A l \in PlanLoad, f \in BOOLEAN :
          LET k == [l EXCEPT !.fresh = f]
          IN k \in PlanLoad /\ (k.fresh <=> f) /\ k.read = l.read
    BY DEF PlanLoad
  <1> QED BY <1>2, <1>3, <1>4, <1>5, Zenon DEF no, yes

\* The schedule at the start.
LEMMA PlanInit == ASchedulePage!Init => PlanInv
  <1> SUFFICES ASSUME ASchedulePage!Init PROVE PlanInv
    OBVIOUS
  <1> DEFINE no == FALSE
             n == [read |-> FALSE, at |-> {}, fresh |-> TRUE]
             q == <<n>>
             p == [id |-> 0, on |-> no, done |-> no]
  <1>1. ~no /\ n \in PlanLoad /\ ~n.read
    BY PlanLoads
  <1>2. PICK s \in SUBSET Things :
          view = [srv |-> s, entries |-> {}, rows |-> {}, shown |-> "loading",
                  loads |-> q, busy |-> 0, post |-> p, crossed |-> no]
    BY DEF ASchedulePage!Init, ASchedulePage!None
  <1> HIDE DEF no, n
  <1>3. q \in Seq(PlanLoad) /\ DOMAIN q = {1} /\ q[1] = n
    BY <1>1
  <1>4. DOMAIN p = {"id", "on", "done"} /\ p.id = 0 /\ ~p.done
    BY <1>1
  <1> HIDE DEF q, p
  <1>5. /\ PlanShape /\ view.srv \in SUBSET Things /\ view.entries = {}
        /\ view.rows = {} /\ view.shown = "loading" /\ view.loads = q
        /\ view.busy = 0 /\ view.post = p
    BY <1>2 DEF PlanShape
  <1> QED
    BY <1>1, <1>3, <1>4, <1>5
       DEF PlanInv, PlanOk, PlanSorts, PlanPost, PlanFresh, PlanHeld

\* Every step of it keeps what is said of it.
LEMMA PlanStep == ASSUME PlanInv, ASchedulePage!Next PROVE PlanInv'
  <1>1. CASE ASchedulePage!load
    <2> DEFINE n == [read |-> FALSE, at |-> {}, fresh |-> TRUE]
               q == Append(view.loads, n)
    <2>a. view' = [view EXCEPT !.loads = q]
      BY <1>1 DEF ASchedulePage!load
    <2>b. n \in PlanLoad /\ ~n.read
      BY PlanLoads
    <2> HIDE DEF n
    <2>c. /\ q \in Seq(PlanLoad) /\ DOMAIN q = 1..(Len(view.loads) + 1)
          /\ q[Len(view.loads) + 1] = n /\ Len(view.loads) \in Nat
          /\ DOMAIN view.loads = 1..Len(view.loads)
          /\ \A i \in 1..Len(view.loads) : q[i] = view.loads[i]
      BY <2>b, ListAppended, ListOf DEF PlanInv, PlanOk, PlanSorts
    <2> HIDE DEF q
    <2>d. /\ DOMAIN view' = DOMAIN view /\ view'.srv = view.srv
          /\ view'.entries = view.entries /\ view'.rows = view.rows
          /\ view'.shown = view.shown /\ view'.loads = q
          /\ view'.busy = view.busy /\ view'.post = view.post
          /\ view'.crossed = view.crossed
      BY <2>a DEF PlanInv, PlanShape
    <2>1. PlanSorts(view')
      BY <2>c, <2>d DEF PlanInv, PlanOk, PlanSorts
    <2>2. PlanPost(view') /\ PlanHeld(view')
      BY <2>d DEF PlanInv, PlanOk, PlanPost, PlanHeld
    <2>3. PlanFresh(view')
      <3>1. \A i \in DOMAIN q :
              (i \in DOMAIN view.loads /\ q[i] = view.loads[i]) \/ ~q[i].read
        BY <2>b, <2>c
      <3> QED BY <2>d, <3>1 DEF PlanInv, PlanOk, PlanFresh
    <2> QED BY <2>d, <2>1, <2>2, <2>3 DEF PlanInv, PlanShape, PlanOk
  <1>2. CASE ASchedulePage!Sets
    <2> DEFINE p == [view.post EXCEPT !.done = TRUE]
               w == ASchedulePage!With(view.srv, view.post.id, view.post.on)
               q == [i \in DOMAIN view.loads |->
                       [view.loads[i] EXCEPT
                          !.fresh = view.loads[i].fresh /\ ~view.loads[i].read]]
    <2>a. /\ view' = [[[view EXCEPT !.loads = q] EXCEPT !.post.done = TRUE]
                        EXCEPT !.srv = ASchedulePage!With(@, view.post.id,
                                                          view.post.on)]
          /\ view.post.id # 0 /\ ~view.post.done
      BY <1>2 DEF ASchedulePage!Sets, ASchedulePage!Written, ASchedulePage!None
    <2>b. /\ DOMAIN view' = DOMAIN view /\ view'.srv = w
          /\ view'.entries = view.entries /\ view'.rows = view.rows
          /\ view'.shown = view.shown /\ view'.loads = q
          /\ view'.busy = view.busy /\ view'.post = p
          /\ view'.crossed = view.crossed
      <3> HIDE DEF q
      <3> QED BY <2>a DEF PlanInv, PlanShape
    <2>c. /\ DOMAIN p = {"id", "on", "done"} /\ p.id = view.post.id
          /\ p.on = view.post.on /\ p.done
      <3> DEFINE yes == TRUE
      <3>1. yes
        OBVIOUS
      <3>2. p = [view.post EXCEPT !.done = yes]
        OBVIOUS
      <3> HIDE DEF yes, p
      <3> QED BY <3>1, <3>2 DEF PlanInv, PlanOk, PlanPost
    <2>d. q \in Seq(PlanLoad) /\ \A i \in DOMAIN q : ~(q[i].read /\ q[i].fresh)
      <3>1. view.loads \in Seq(PlanLoad)
        BY DEF PlanInv, PlanOk, PlanSorts
      <3>2. ASSUME NEW l \in PlanLoad
            PROVE  LET k == [l EXCEPT !.fresh = l.fresh /\ ~l.read]
                   IN k \in PlanLoad /\ ~(k.read /\ k.fresh)
        <4> DEFINE f == l.fresh /\ ~l.read
        <4>1. f \in BOOLEAN /\ (f => ~l.read)
          OBVIOUS
        <4> HIDE DEF f
        <4>2. LET k == [l EXCEPT !.fresh = f] IN k \in PlanLoad /\ ~(k.read /\ k.fresh)
          BY <4>1, PlanLoads
        <4> QED BY <4>2 DEF f
      <3>3. \A i \in DOMAIN view.loads :
              q[i] \in PlanLoad /\ ~(q[i].read /\ q[i].fresh)
        BY <3>1, <3>2, ListOf
      <3>4. q = [i \in DOMAIN view.loads |-> q[i]] /\ DOMAIN q = DOMAIN view.loads
        OBVIOUS
      <3> HIDE DEF q
      <3> QED BY <3>1, <3>3, <3>4, ListMapped
    <2>e. w \in SUBSET Things /\ (view.post.id \in w <=> view.post.on)
      BY <2>a DEF PlanInv, PlanOk, PlanSorts, PlanPost, ASchedulePage!With
    <2> HIDE DEF q, p
    <2>1. PlanSorts(view')
      BY <2>b, <2>d, <2>e DEF PlanInv, PlanOk, PlanSorts
    <2>2. PlanPost(view')
      BY <2>b, <2>c, <2>e DEF PlanInv, PlanOk, PlanPost
    <2>3. PlanFresh(view')
      BY <2>b, <2>d DEF PlanFresh
    <2>4. PlanHeld(view')
      BY <2>a, <2>b, <2>c DEF PlanInv, PlanOk, PlanHeld
    <2> QED BY <2>b, <2>1, <2>2, <2>3, <2>4 DEF PlanInv, PlanShape, PlanOk
  <1>3. ASSUME NEW i \in 1..MaxOut, ASchedulePage!Reads(i) PROVE PlanInv'
    <2> DEFINE m == view.loads[i]
               l == [[m EXCEPT !.read = TRUE] EXCEPT !.at = view.srv]
               q == [view.loads EXCEPT ![i] = l]
    <2>b. i \in 1..Len(view.loads) /\ view.loads \in Seq(PlanLoad)
          /\ m \in PlanLoad /\ view.srv \in SUBSET Things
          /\ DOMAIN view.loads = 1..Len(view.loads)
      BY <1>3, ListOf DEF PlanInv, PlanOk, PlanSorts, ASchedulePage!Reads
    <2>a. /\ DOMAIN view' = DOMAIN view /\ view'.srv = view.srv
          /\ view'.entries = view.entries /\ view'.rows = view.rows
          /\ view'.shown = view.shown /\ view'.loads = q
          /\ view'.busy = view.busy /\ view'.post = view.post
          /\ view'.crossed = view.crossed
      BY <1>3, <2>b DEF PlanInv, PlanShape, ASchedulePage!Reads
    <2> HIDE DEF m
    <2>c. l \in PlanLoad /\ l.at = view.srv
      <3> DEFINE S == view.srv
                 yes == TRUE
      <3>1. S \in SUBSET Things /\ m \in PlanLoad
        BY <2>b
      <3>2. l = [[m EXCEPT !.read = yes] EXCEPT !.at = S]
        OBVIOUS
      <3>3. LET k == [[m EXCEPT !.read = yes] EXCEPT !.at = S]
            IN k \in PlanLoad /\ k.at = S
        <4> HIDE DEF S, l
        <4> QED BY <3>1, PlanLoads
      <3> QED BY <3>2, <3>3
    <2> HIDE DEF l
    <2>d. /\ q \in Seq(PlanLoad) /\ DOMAIN q = DOMAIN view.loads /\ q[i] = l
          /\ \A k \in DOMAIN view.loads : k # i => q[k] = view.loads[k]
      BY <2>b, <2>c
    <2> HIDE DEF q
    <2>1. PlanSorts(view')
      BY <2>a, <2>d DEF PlanInv, PlanOk, PlanSorts
    <2>2. PlanPost(view') /\ PlanHeld(view')
      BY <2>a DEF PlanInv, PlanOk, PlanPost, PlanHeld
    <2>3. PlanFresh(view')
      BY <2>a, <2>c, <2>d DEF PlanInv, PlanOk, PlanFresh
    <2> QED BY <2>a, <2>1, <2>2, <2>3 DEF PlanInv, PlanShape, PlanOk
  <1>4. ASSUME NEW i \in 1..MaxOut, ASchedulePage!LoadRead(i) PROVE PlanInv'
    <2> DEFINE q == ASchedulePage!Without(view.loads, i)
               l == view.loads[i]
               b == ~l.fresh
               x == "rows"
    <2>a. /\ view' = [[view EXCEPT !.loads = q, !.entries = l.at, !.crossed = b]
                        EXCEPT !.rows = [view EXCEPT !.loads = q, !.entries = l.at,
                                                     !.crossed = b].entries,
                               !.shown = x]
          /\ i \in DOMAIN view.loads /\ l.read
      BY <1>4 DEF ASchedulePage!LoadRead, ASchedulePage!render
    <2>b. b <=> ~l.fresh
      OBVIOUS

    <2>c. /\ q \in Seq(PlanLoad)
          /\ \A k \in DOMAIN q :
               \E j \in DOMAIN view.loads : q[k] = view.loads[j]
      <3>1. q = Without(view.loads, i)
        BY DEF ASchedulePage!Without, Without
      <3>2. i \in 1..Len(view.loads) /\ view.loads \in Seq(PlanLoad)
        BY <2>a, ListOf DEF PlanInv, PlanOk, PlanSorts
      <3> HIDE DEF q
      <3> QED BY <3>1, <3>2, ListShorter
    <2> HIDE DEF q
    <2> HIDE DEF b, x
    <2>d. /\ DOMAIN view' = DOMAIN view /\ view'.srv = view.srv
          /\ view'.entries = l.at /\ view'.rows = l.at /\ view'.loads = q
          /\ view'.busy = view.busy /\ view'.post = view.post
          /\ view'.crossed = b
      BY <2>a DEF PlanInv, PlanShape
    <2>e. l.fresh => l.at = view.srv
      BY <2>a DEF PlanInv, PlanOk, PlanFresh
    <2> HIDE DEF l
    <2>1. PlanSorts(view')
      BY <2>c, <2>d DEF PlanInv, PlanOk, PlanSorts
    <2>2. PlanPost(view')
      BY <2>d DEF PlanInv, PlanOk, PlanPost
    <2>3. PlanFresh(view')
      BY <2>c, <2>d DEF PlanInv, PlanOk, PlanFresh
    <2>4. PlanHeld(view')
      BY <2>b, <2>d, <2>e
         DEF PlanInv, PlanOk, PlanPost, PlanHeld, ASchedulePage!With
    <2> QED BY <2>d, <2>1, <2>2, <2>3, <2>4 DEF PlanInv, PlanShape, PlanOk
  <1>5. ASSUME NEW i \in 1..MaxOut, ASchedulePage!LoadFails(i) PROVE PlanInv'
    <2> DEFINE q == ASchedulePage!Without(view.loads, i)
    <2>a. view' = [view EXCEPT !.loads = q, !.shown = "failed"]
          /\ i \in DOMAIN view.loads
      BY <1>5 DEF ASchedulePage!LoadFails

    <2>c. /\ q \in Seq(PlanLoad)
          /\ \A k \in DOMAIN q :
               \E j \in DOMAIN view.loads : q[k] = view.loads[j]
      <3>1. q = Without(view.loads, i)
        BY DEF ASchedulePage!Without, Without
      <3>2. i \in 1..Len(view.loads) /\ view.loads \in Seq(PlanLoad)
        BY <2>a, ListOf DEF PlanInv, PlanOk, PlanSorts
      <3> HIDE DEF q
      <3> QED BY <3>1, <3>2, ListShorter
    <2> HIDE DEF q
    <2>d. /\ DOMAIN view' = DOMAIN view /\ view'.srv = view.srv
          /\ view'.entries = view.entries /\ view'.rows = view.rows
          /\ view'.shown = "failed" /\ view'.loads = q
          /\ view'.busy = view.busy /\ view'.post = view.post
          /\ view'.crossed = view.crossed
      BY <2>a DEF PlanInv, PlanShape
    <2>1. PlanSorts(view') /\ PlanPost(view')
      BY <2>c, <2>d DEF PlanInv, PlanOk, PlanSorts, PlanPost
    <2>3. PlanFresh(view')
      BY <2>c, <2>d DEF PlanInv, PlanOk, PlanFresh
    <2>4. PlanHeld(view')
      BY <2>d DEF PlanInv, PlanOk, PlanHeld
    <2> QED BY <2>d, <2>1, <2>3, <2>4 DEF PlanInv, PlanShape, PlanOk
  <1>6. ASSUME NEW e \in Things, ASchedulePage!setEnabled(e) PROVE PlanInv'
    <2> DEFINE b == e \notin view.rows
               no == FALSE
               p == [id |-> e, on |-> b, done |-> no]
               s == [view EXCEPT !.busy = e, !.post = p]
    <2>a. /\ view' = [s EXCEPT !.rows = s.entries, !.shown = "rows"]
          /\ view.shown = "rows" /\ view.busy = 0
      BY <1>6 DEF ASchedulePage!setEnabled, ASchedulePage!render, ASchedulePage!None
    <2>b. ~no
      OBVIOUS
    <2> HIDE DEF b, no
    <2>c. DOMAIN p = {"id", "on", "done"} /\ p.id = e /\ ~p.done
      BY <2>b
    <2> HIDE DEF p
    <2>d. /\ DOMAIN s = DOMAIN view /\ s.srv = view.srv
          /\ s.entries = view.entries /\ s.rows = view.rows
          /\ s.shown = view.shown /\ s.loads = view.loads /\ s.busy = e
          /\ s.post = p /\ s.crossed = view.crossed
      BY DEF PlanInv, PlanShape
    <2> HIDE DEF s
    <2>e. /\ DOMAIN view' = DOMAIN view /\ view'.srv = view.srv
          /\ view'.entries = view.entries /\ view'.rows = view.entries
          /\ view'.shown = "rows" /\ view'.loads = view.loads /\ view'.busy = e
          /\ view'.post = p /\ view'.crossed = view.crossed
      BY <2>a, <2>d DEF PlanInv, PlanShape
    <2>1. PlanSorts(view') /\ PlanPost(view')
      BY <2>c, <2>e DEF PlanInv, PlanOk, PlanSorts, PlanPost
    <2>3. PlanFresh(view')
      BY <2>e DEF PlanInv, PlanOk, PlanFresh
    <2>4. PlanHeld(view')
      BY <2>a, <2>c, <2>e DEF PlanInv, PlanOk, PlanPost, PlanHeld
    <2> QED BY <2>e, <2>1, <2>3, <2>4 DEF PlanInv, PlanShape, PlanOk
  <1>7. ASSUME NEW ok \in BOOLEAN, ASchedulePage!SetAnswered(ok) PROVE PlanInv'
    <2> DEFINE p == view.post
               no == FALSE
               n == [[[p EXCEPT !.id = 0] EXCEPT !.on = no] EXCEPT !.done = no]
               s == [view EXCEPT !.busy = 0, !.post = n]
               w == ASchedulePage!With(view.entries, p.id, p.on)
               b == view.crossed \/ p.done
               r == IF ok THEN [s EXCEPT !.entries = w] ELSE [s EXCEPT !.crossed = b]
    <2>a. /\ view' = [r EXCEPT !.rows = r.entries, !.shown = "rows"]
          /\ p.id # 0 /\ (ok => p.done)
      <3> DEFINE z == [view EXCEPT !.busy = 0, !.post.id = 0, !.post.on = no,
                                   !.post.done = no]
                 y == IF ok THEN [z EXCEPT !.entries = ASchedulePage!With(@, p.id, p.on)]
                      ELSE [z EXCEPT !.crossed = @ \/ p.done]
      <3>1. view' = [y EXCEPT !.rows = y.entries, !.shown = "rows"]
            /\ p.id # 0 /\ (ok => p.done)
        BY <1>7 DEF ASchedulePage!SetAnswered, ASchedulePage!render, ASchedulePage!None
      <3> HIDE DEF no
      <3>2. z = s /\ z.entries = view.entries /\ z.crossed = view.crossed
        BY DEF PlanInv, PlanShape
      <3>3. "entries" \in DOMAIN z /\ "crossed" \in DOMAIN z
        BY DEF PlanInv, PlanShape
      <3> HIDE DEF z, s
      <3>4. y = r
        BY <3>2, <3>3
      <3> QED BY <3>1, <3>4
    <2>b. ~no /\ (b <=> view.crossed \/ p.done)
      OBVIOUS
    <2> HIDE DEF b, no
    <2>c. DOMAIN n = {"id", "on", "done"} /\ n.id = 0 /\ ~n.done
      BY <2>b DEF PlanInv, PlanOk, PlanPost
    <2> HIDE DEF n
    <2>d. /\ DOMAIN s = DOMAIN view /\ s.srv = view.srv
          /\ s.entries = view.entries /\ s.rows = view.rows
          /\ s.shown = view.shown /\ s.loads = view.loads /\ s.busy = 0
          /\ s.post = n /\ s.crossed = view.crossed
      BY DEF PlanInv, PlanShape
    <2> HIDE DEF s, w
    <2>e. /\ r.entries = IF ok THEN w ELSE view.entries
          /\ r.crossed = IF ok THEN view.crossed ELSE b
          /\ DOMAIN r = DOMAIN view /\ r.srv = s.srv /\ r.rows = s.rows
          /\ r.shown = s.shown /\ r.loads = s.loads /\ r.busy = s.busy
          /\ r.post = s.post
      BY <2>d DEF PlanInv, PlanShape
    <2> HIDE DEF r
    <2>f. /\ DOMAIN view' = DOMAIN view /\ view'.srv = r.srv
          /\ view'.entries = r.entries /\ view'.rows = r.entries
          /\ view'.shown = "rows" /\ view'.loads = r.loads
          /\ view'.busy = r.busy /\ view'.post = r.post
          /\ view'.crossed = r.crossed
      BY <2>a, <2>e DEF PlanInv, PlanShape
    <2>1. PlanSorts(view')
      BY <2>d, <2>e, <2>f DEF PlanInv, PlanOk, PlanSorts
    <2>2. PlanPost(view')
      BY <2>c, <2>d, <2>e, <2>f DEF PlanPost
    <2>3. PlanFresh(view')
      BY <2>d, <2>e, <2>f DEF PlanInv, PlanOk, PlanFresh
    <2>4. PlanHeld(view')
      <3>1. /\ view'.srv = view.srv /\ view'.post.id = 0
            /\ view'.entries = IF ok THEN w ELSE view.entries
            /\ (view'.crossed <=> IF ok THEN view.crossed ELSE b)
        BY <2>c, <2>d, <2>e, <2>f
      <3>2. ~view.crossed => view.srv = IF p.done THEN w ELSE view.entries
        BY <2>a DEF PlanInv, PlanOk, PlanHeld, w
      <3> QED BY <2>a, <2>b, <3>1, <3>2 DEF PlanHeld
    <2> QED BY <2>d, <2>e, <2>f, <2>1, <2>2, <2>3, <2>4 DEF PlanInv, PlanShape, PlanOk
  <1> QED BY <1>1, <1>2, <1>3, <1>4, <1>5, <1>6, <1>7 DEF ASchedulePage!Next

\* That gives the properties of ASchedulePage.
LEMMA PlanHolds == PlanInv => ASchedulePage!Settled /\ ASchedulePage!InStep
  <1> SUFFICES ASSUME PlanInv PROVE ASchedulePage!Settled /\ ASchedulePage!InStep
    OBVIOUS
  <1>1. ASchedulePage!Settled
    BY DEF PlanInv, PlanOk, PlanPost, ASchedulePage!Settled
  <1>2. ASchedulePage!InStep
    BY DEF PlanInv, PlanOk, PlanSorts, PlanHeld, ASchedulePage!InStep,
           ASchedulePage!None
  <1> QED BY <1>1, <1>2

\* It holds from the first state on when the page is this one.
LEMMA PlanStays ==
  /\ Init => (subject = "schedule" => PlanInv)
  /\ (subject = "schedule" => PlanInv) /\ [Next]_vars
       => (subject = "schedule" => PlanInv)'
  <1>1. Init => (subject = "schedule" => PlanInv)
    BY PlanInit DEF Init
  <1>2. (subject = "schedule" => PlanInv) /\ [Next]_vars
          => (subject = "schedule" => PlanInv)'
    <2>1. ASSUME PlanInv, view' = view PROVE PlanInv'
      BY <2>1 DEF PlanInv, PlanShape, PlanOk, PlanSorts, PlanPost, PlanFresh,
          PlanHeld
    <2> QED BY <2>1, PlanStep DEF Next, vars
  <1> QED BY <1>1, <1>2

-----------------------------------------------------------------------------
(* The popup of the composer: what is said of it is as strong as its steps *)
(* need.                                                                   *)

SayShape ==
  DOMAIN view = {"text", "list", "kb", "out", "table", "files", "chosen",
                 "busy", "sent", "strayed"}
SayFor(s) ==
  \/ s.list \in {AMentions!Hidden, s.text} \/ s.strayed
  \/ \E o \in s.out : o.last /\ o.of = s.text
SayRows ==
  SayFor(view)
SayInv == SayShape /\ SayRows

\* The popup hidden, rows shown, a listing asked for, the commands drawn.
LEMMA SayHidden ==
  ASSUME SayShape, NEW s, DOMAIN s = DOMAIN view
  PROVE  LET t == AMentions!hidePromptList(s)
         IN DOMAIN t = DOMAIN view /\ SayFor(t)
  <1> DEFINE no == FALSE
             h == AMentions!Hidden
             t == [s EXCEPT !.list = h, !.kb = no, !.strayed = no]
  <1>1. AMentions!hidePromptList(s) = t
    BY DEF AMentions!hidePromptList
  <1> HIDE DEF no
  <1>2. DOMAIN t = DOMAIN view /\ t.list = AMentions!Hidden
    BY DEF SayShape
  <1> HIDE DEF t
  <1> QED BY <1>1, <1>2 DEF SayFor

\* What the page does when it lists something for a text.
LEMMA SayShown ==
  ASSUME SayShape, NEW s, DOMAIN s = DOMAIN view, NEW k
  PROVE  LET t == AMentions!Shown(s, k)
         IN /\ DOMAIN t = DOMAIN view /\ t.text = s.text /\ t.list = k
            /\ t.kb = s.kb /\ t.out = s.out /\ t.table = s.table
            /\ t.files = s.files /\ t.chosen = s.chosen /\ t.busy = s.busy
            /\ t.sent = s.sent
            /\ (t.strayed <=> k # s.text) /\ SayFor(t)
  <1> DEFINE b == k # s.text
             t == [s EXCEPT !.list = k, !.strayed = b]
  <1>1. AMentions!Shown(s, k) = t
    BY DEF AMentions!Shown
  <1>2. b <=> k # s.text
    OBVIOUS
  <1> HIDE DEF b
  <1>3. /\ DOMAIN t = DOMAIN view /\ t.text = s.text /\ t.list = k
        /\ t.kb = s.kb /\ t.out = s.out /\ t.table = s.table
        /\ t.files = s.files /\ t.chosen = s.chosen /\ t.busy = s.busy
        /\ t.sent = s.sent /\ t.strayed = b
    BY DEF SayShape
  <1> HIDE DEF t
  <1> QED BY <1>1, <1>2, <1>3 DEF SayFor

\* A list for the text that is typed is right.
LEMMA SayListed ==
  ASSUME SayShape, NEW s, DOMAIN s = DOMAIN view
  PROVE  LET t == AMentions!Lists(s, s.text)
         IN DOMAIN t = DOMAIN view /\ SayFor(t)
  <1> DEFINE k == s.text
             n == [of |-> k, last |-> TRUE]
             old == {[o EXCEPT !.last = o.last
                                /\ AMentions!Kind(o.of) # AMentions!Kind(k)] :
                       o \in s.out}
             t == [s EXCEPT !.out = old \cup {n}]
  <1>1. AMentions!Lists(s, k) = t
    BY DEF AMentions!Lists
  <1>2. n.of = s.text /\ n.last
    OBVIOUS
  <1> HIDE DEF old, n
  <1>3. DOMAIN t = DOMAIN view /\ t.out = old \cup {n} /\ t.text = s.text
    BY DEF SayShape
  <1> HIDE DEF t
  <1>4. n \in t.out /\ n.of = t.text /\ n.last
    BY <1>2, <1>3
  <1> QED BY <1>1, <1>3, <1>4 DEF SayFor, k

\* So is the list of slash commands, or the lack of one.
LEMMA SaySlash ==
  ASSUME SayShape, NEW s, DOMAIN s = DOMAIN view
  PROVE  LET t == AMentions!renderSlashList(s)
         IN DOMAIN t = DOMAIN view /\ SayFor(t)
  <1> DEFINE a == IF s.table = "none" THEN "out" ELSE s.table
             r == [s EXCEPT !.table = a]
  <1>1. AMentions!renderSlashList(s)
          = IF s.table = "there" THEN AMentions!Shown(s, AMentions!Slash)
            ELSE AMentions!hidePromptList(r)
    BY DEF AMentions!renderSlashList
  <1>2. DOMAIN r = DOMAIN view
    OBVIOUS
  <1> HIDE DEF r
  <1>3. LET t == AMentions!Shown(s, AMentions!Slash)
        IN DOMAIN t = DOMAIN view /\ SayFor(t)
    BY SayShown
  <1>4. LET t == AMentions!hidePromptList(r)
        IN DOMAIN t = DOMAIN view /\ SayFor(t)
    BY <1>2, SayHidden
  <1> QED BY <1>1, <1>3, <1>4

\* Whatever was typed.
LEMMA SayTyped ==
  ASSUME SayShape, NEW s, DOMAIN s = DOMAIN view
  PROVE  LET t == AMentions!integratedTaskInputHandler(s)
         IN DOMAIN t = DOMAIN view /\ SayFor(t)
  <1> DEFINE r == [s EXCEPT !.kb = FALSE]
             t == AMentions!integratedTaskInputHandler(s)
  <1>1. \/ t = AMentions!Lists(s, s.text) \/ t = AMentions!renderSlashList(r)
        \/ t = AMentions!hidePromptList(r)
    BY DEF AMentions!integratedTaskInputHandler, AMentions!taskInputHandler
  <1>2. DOMAIN r = DOMAIN view
    OBVIOUS
  <1> HIDE DEF r, t
  <1>3. LET u == AMentions!Lists(s, s.text) IN DOMAIN u = DOMAIN view /\ SayFor(u)
    BY SayListed
  <1>4. LET u == AMentions!renderSlashList(r) IN DOMAIN u = DOMAIN view /\ SayFor(u)
    BY <1>2, SaySlash
  <1>5. LET u == AMentions!hidePromptList(r) IN DOMAIN u = DOMAIN view /\ SayFor(u)
    BY <1>2, SayHidden
  <1> QED BY <1>1, <1>3, <1>4, <1>5 DEF t

\* The popup at the start.
LEMMA SayInit == AMentions!Init => SayInv
  <1> SUFFICES ASSUME AMentions!Init PROVE SayInv
    OBVIOUS
  <1> DEFINE no == FALSE
             h == AMentions!Hidden
             w == AMentions!Words
  <1>1. view = [text |-> w, list |-> h, kb |-> no, out |-> {},
                table |-> "none", files |-> {}, chosen |-> {}, busy |-> no,
                sent |-> {}, strayed |-> no]
    BY DEF AMentions!Init
  <1> HIDE DEF no, h, w
  <1>2. SayShape /\ view.list = h
    BY <1>1 DEF SayShape
  <1> QED BY <1>2 DEF SayInv, SayRows, SayFor, h

\* Every step of it keeps what is said of it.
LEMMA SayStep == ASSUME SayInv, AMentions!Next PROVE SayInv'
  <1>1. ASSUME NEW t \in AMentions!Texts, AMentions!Type(t) PROVE SayInv'
    <2> DEFINE b == \/ view.strayed
                    \/ /\ view.list # AMentions!Hidden
                       /\ AMentions!Kind(view.list) # AMentions!Kind(t)
               s == [view EXCEPT !.text = t, !.strayed = b]
               r == AMentions!integratedTaskInputHandler(s)
    <2>a. view' = r
      BY <1>1 DEF AMentions!Type
    <2>b. DOMAIN s = DOMAIN view
      OBVIOUS
    <2> HIDE DEF s
    <2>z. DOMAIN r = DOMAIN view /\ SayFor(r)
      BY <2>b, SayTyped DEF SayInv
    <2> HIDE DEF r
    <2> QED BY <2>a, <2>z DEF SayInv, SayShape, SayRows
  <1>2. CASE AMentions!Blur
    <2> DEFINE s == view
               t == AMentions!hidePromptList(s)
    <2>a. view' = t
      BY <1>2 DEF AMentions!Blur
    <2>b. DOMAIN s = DOMAIN view
      OBVIOUS
    <2> HIDE DEF s
    <2>z. DOMAIN t = DOMAIN view /\ SayFor(t)
      BY <2>b, SayHidden DEF SayInv
    <2> HIDE DEF t
    <2> QED BY <2>a, <2>z DEF SayInv, SayShape, SayRows
  <1>3. ASSUME NEW o \in view.out, NEW some \in BOOLEAN, AMentions!FileRead(o, some) PROVE SayInv'
    <2> DEFINE s == [view EXCEPT !.out = @ \ {o}]
               h == AMentions!hidePromptList(s)
               r == AMentions!Shown(s, o.of)
    <2>a. view' = IF ~o.last THEN s ELSE IF some THEN r ELSE h
      BY <1>3 DEF AMentions!FileRead
    <2>b. /\ DOMAIN s = DOMAIN view /\ s.text = view.text /\ s.list = view.list
          /\ s.kb = view.kb /\ s.out = view.out \ {o} /\ s.table = view.table
          /\ s.files = view.files /\ s.chosen = view.chosen
          /\ s.busy = view.busy /\ s.sent = view.sent
          /\ s.strayed = view.strayed
      BY DEF SayInv, SayShape
    <2> HIDE DEF s
    <2>c. DOMAIN h = DOMAIN view /\ SayFor(h)
      BY <2>b, SayHidden DEF SayInv
    <2> HIDE DEF h
    <2>d. DOMAIN r = DOMAIN view /\ SayFor(r)
      BY <2>b, SayShown DEF SayInv
    <2> HIDE DEF r
    <2>e. ~o.last => SayFor(s)
      BY <2>b DEF SayInv, SayRows, SayFor
    <2>z. \/ (view' = s /\ ~o.last) \/ view' = h \/ view' = r
      BY <2>a
    <2> QED BY <2>b, <2>c, <2>e, <2>z, <2>d DEF SayInv, SayShape, SayRows
  <1>4. ASSUME NEW o \in view.out, NEW some \in BOOLEAN, AMentions!KbRead(o, some) PROVE SayInv'
    <2> DEFINE s == [view EXCEPT !.out = @ \ {o}]
               h == AMentions!hidePromptList(s)
               yes == TRUE
               u == AMentions!Shown(s, o.of)
               r == [u EXCEPT !.kb = yes]
    <2>a. view' = IF ~o.last THEN s ELSE IF some THEN r ELSE h
      BY <1>4 DEF AMentions!KbRead
    <2>b. /\ DOMAIN s = DOMAIN view /\ s.text = view.text /\ s.list = view.list
          /\ s.kb = view.kb /\ s.out = view.out \ {o} /\ s.table = view.table
          /\ s.files = view.files /\ s.chosen = view.chosen
          /\ s.busy = view.busy /\ s.sent = view.sent
          /\ s.strayed = view.strayed
      BY DEF SayInv, SayShape
    <2> HIDE DEF s
    <2>c. DOMAIN h = DOMAIN view /\ SayFor(h)
      BY <2>b, SayHidden DEF SayInv
    <2> HIDE DEF h
    <2> HIDE DEF yes
    <2>d. DOMAIN r = DOMAIN view /\ SayFor(r)
      <3>1. /\ DOMAIN u = DOMAIN view /\ u.text = s.text /\ u.list = o.of
            /\ u.kb = s.kb /\ u.out = s.out /\ u.table = s.table
            /\ u.files = s.files /\ u.chosen = s.chosen /\ u.busy = s.busy
            /\ u.sent = s.sent
            /\ SayFor(u)
        BY <2>b, SayShown DEF SayInv
      <3> HIDE DEF u
      <3>2. /\ DOMAIN r = DOMAIN view /\ r.list = u.list /\ r.text = u.text
            /\ r.strayed = u.strayed /\ r.out = u.out
        BY <3>1 DEF SayInv, SayShape
      <3> HIDE DEF r
      <3> QED BY <3>1, <3>2 DEF SayFor
    <2> HIDE DEF r
    <2>e. ~o.last => SayFor(s)
      BY <2>b DEF SayInv, SayRows, SayFor
    <2>z. \/ (view' = s /\ ~o.last) \/ view' = h \/ view' = r
      BY <2>a
    <2> QED BY <2>b, <2>c, <2>e, <2>z, <2>d DEF SayInv, SayShape, SayRows
  <1>5. ASSUME NEW o \in view.out, AMentions!ListFails(o) PROVE SayInv'
    <2> DEFINE s == [view EXCEPT !.out = @ \ {o}]
               h == AMentions!hidePromptList(s)
    <2>a. view' = IF o.last THEN h ELSE s
      BY <1>5 DEF AMentions!ListFails
    <2>b. /\ DOMAIN s = DOMAIN view /\ s.text = view.text /\ s.list = view.list
          /\ s.kb = view.kb /\ s.out = view.out \ {o} /\ s.table = view.table
          /\ s.files = view.files /\ s.chosen = view.chosen
          /\ s.busy = view.busy /\ s.sent = view.sent
          /\ s.strayed = view.strayed
      BY DEF SayInv, SayShape
    <2> HIDE DEF s
    <2>c. DOMAIN h = DOMAIN view /\ SayFor(h)
      BY <2>b, SayHidden DEF SayInv
    <2> HIDE DEF h
    <2>e. ~o.last => SayFor(s)
      BY <2>b DEF SayInv, SayRows, SayFor
    <2>z. \/ (view' = s /\ ~o.last) \/ view' = h
      BY <2>a
    <2> QED BY <2>b, <2>c, <2>e, <2>z DEF SayInv, SayShape, SayRows
  <1>6. ASSUME NEW ok \in BOOLEAN, AMentions!slashReady(ok) PROVE SayInv'
    <2> DEFINE a == IF ok THEN "there" ELSE "failed"
               s == [view EXCEPT !.table = a]
               t == AMentions!renderSlashList(s)
    <2>a. view' = t \/ view' = s
      BY <1>6 DEF AMentions!slashReady
    <2> HIDE DEF a
    <2>b. /\ DOMAIN s = DOMAIN view /\ s.text = view.text /\ s.list = view.list
          /\ s.kb = view.kb /\ s.out = view.out /\ s.table = a
          /\ s.files = view.files /\ s.chosen = view.chosen
          /\ s.busy = view.busy /\ s.sent = view.sent
          /\ s.strayed = view.strayed
      BY DEF SayInv, SayShape
    <2> HIDE DEF s
    <2>c. DOMAIN t = DOMAIN view /\ SayFor(t)
      BY <2>b, SaySlash DEF SayInv
    <2> HIDE DEF t
    <2>d. SayFor(s)
      BY <2>b DEF SayInv, SayRows, SayFor
    <2> QED BY <2>a, <2>b, <2>c, <2>d DEF SayInv, SayShape, SayRows
  <1>7. CASE AMentions!PickFile
    <2> DEFINE s == [[view EXCEPT !.files = @ \cup {view.list[2]}]
                      EXCEPT !.text = AMentions!Words]
               t == AMentions!hidePromptList(s)
    <2>a. view' = t
      BY <1>7 DEF AMentions!PickFile, AMentions!Cut
    <2>b. DOMAIN s = DOMAIN view
      OBVIOUS
    <2> HIDE DEF s
    <2>z. DOMAIN t = DOMAIN view /\ SayFor(t)
      BY <2>b, SayHidden DEF SayInv
    <2> HIDE DEF t
    <2> QED BY <2>a, <2>z DEF SayInv, SayShape, SayRows
  <1>8. CASE AMentions!PickKb
    <2> DEFINE s == [[view EXCEPT !.chosen = @ \cup {view.list[2]}]
                      EXCEPT !.text = AMentions!Words]
               t == AMentions!hidePromptList(s)
    <2>a. view' = t
      BY <1>8 DEF AMentions!PickKb, AMentions!Cut
    <2>b. DOMAIN s = DOMAIN view
      OBVIOUS
    <2> HIDE DEF s
    <2>z. DOMAIN t = DOMAIN view /\ SayFor(t)
      BY <2>b, SayHidden DEF SayInv
    <2> HIDE DEF t
    <2> QED BY <2>a, <2>z DEF SayInv, SayShape, SayRows
  <1>9. CASE AMentions!useSlash
    <2> DEFINE h == AMentions!Hidden
               no == FALSE
               w == AMentions!Words
               s == [view EXCEPT !.list = h, !.kb = no, !.strayed = no]
    <2>a. view' = [s EXCEPT !.text = w]
      BY <1>9 DEF AMentions!useSlash, AMentions!hidePromptList
    <2> HIDE DEF h, no, w
    <2>b. DOMAIN s = DOMAIN view /\ s.list = h
      BY DEF SayInv, SayShape
    <2> HIDE DEF s
    <2>c. DOMAIN view' = DOMAIN view /\ view'.list = h
      BY <2>a, <2>b DEF SayInv, SayShape
    <2> QED BY <2>c DEF SayInv, SayShape, SayRows, SayFor, h
  <1>10. ASSUME NEW f \in Things, AMentions!Unfile(f) PROVE SayInv'
    <2> DEFINE k == view.files \ {f}
    <2>a. view' = [view EXCEPT !.files = k]
      BY <1>10 DEF AMentions!Unfile
    <2> HIDE DEF k
    <2>b. /\ DOMAIN view' = DOMAIN view /\ view'.text = view.text
          /\ view'.list = view.list /\ view'.kb = view.kb
          /\ view'.out = view.out /\ view'.table = view.table
          /\ view'.files = k /\ view'.chosen = view.chosen
          /\ view'.busy = view.busy /\ view'.sent = view.sent
          /\ view'.strayed = view.strayed
      BY <2>a DEF SayInv, SayShape
    <2> QED BY <2>b DEF SayInv, SayShape, SayRows, SayFor
  <1>11. CASE AMentions!prependPendingFiles
    <2> DEFINE yes == TRUE
    <2>a. view' = [view EXCEPT !.busy = yes, !.sent = view.files, !.files = {}]
      BY <1>11 DEF AMentions!prependPendingFiles
    <2> HIDE DEF yes
    <2>b. /\ DOMAIN view' = DOMAIN view /\ view'.text = view.text
          /\ view'.list = view.list /\ view'.kb = view.kb
          /\ view'.out = view.out /\ view'.table = view.table
          /\ view'.files = {} /\ view'.chosen = view.chosen /\ view'.busy = yes
          /\ view'.sent = view.files /\ view'.strayed = view.strayed
      BY <2>a DEF SayInv, SayShape
    <2> QED BY <2>b DEF SayInv, SayShape, SayRows, SayFor
  <1>12. ASSUME NEW ok \in BOOLEAN, AMentions!RunEnds(ok) PROVE SayInv'
    <2> DEFINE no == FALSE
               x == IF ok THEN AMentions!Words ELSE view.text
               b == view.strayed \/ (ok /\ view.list # AMentions!Hidden)
    <2>a. view' = [view EXCEPT !.busy = no, !.sent = {}, !.text = x, !.strayed = b]
      BY <1>12 DEF AMentions!RunEnds
    <2>c. /\ ~ok => x = view.text
          /\ b <=> view.strayed \/ (ok /\ view.list # AMentions!Hidden)
      OBVIOUS
    <2> HIDE DEF no, x, b
    <2>b. /\ DOMAIN view' = DOMAIN view /\ view'.text = x
          /\ view'.list = view.list /\ view'.kb = view.kb
          /\ view'.out = view.out /\ view'.table = view.table
          /\ view'.files = view.files /\ view'.chosen = view.chosen
          /\ view'.busy = no /\ view'.sent = {} /\ view'.strayed = b
      BY <2>a DEF SayInv, SayShape
    <2> QED BY <2>b, <2>c DEF SayInv, SayShape, SayRows, SayFor
  <1> QED
    BY <1>1, <1>2, <1>3, <1>4, <1>5, <1>6, <1>7, <1>8, <1>9, <1>10, <1>11,
       <1>12 DEF AMentions!Next

\* That gives the properties of AMentions.
LEMMA SayHolds == SayInv => AMentions!InStep
  BY DEF SayInv, SayRows, SayFor, AMentions!InStep

\* It holds from the first state on when the page is this one.
LEMMA SayStays ==
  /\ Init => (subject = "mentions" => SayInv)
  /\ (subject = "mentions" => SayInv) /\ [Next]_vars
       => (subject = "mentions" => SayInv)'
  <1>1. Init => (subject = "mentions" => SayInv)
    BY SayInit DEF Init
  <1>2. (subject = "mentions" => SayInv) /\ [Next]_vars
          => (subject = "mentions" => SayInv)'
    <2>1. ASSUME SayInv, view' = view PROVE SayInv'
      BY <2>1 DEF SayInv, SayShape, SayRows, SayFor
    <2> QED BY <2>1, SayStep DEF Next, vars
  <1> QED BY <1>1, <1>2

-----------------------------------------------------------------------------
(* The picker.  What was chosen is what is remembered; the index is what   *)
(* the select offers, unless it was never read or the last load failed.    *)

PickShape ==
  DOMAIN view = {"srv", "loads", "options", "value", "index", "open",
                 "query", "rows", "active", "saved", "chosen"}
PickDrawn(s) ==
  /\ s.rows \subseteq s.index
  /\ s.active = 0 <=> s.rows = {}
  /\ s.active \in s.rows \cup {0}
PickSorts ==
  /\ view.srv \subseteq Things
  /\ \A l \in view.loads : l = {-1} \/ l \subseteq Things
  /\ view.options = {0} \/ view.options \subseteq Things
  /\ view.index \subseteq Things
  /\ view.open \in BOOLEAN
PickSaved ==
  /\ view.saved = view.chosen
  /\ view.chosen \in view.options \ {0} => view.value = view.chosen
PickIndex ==
  /\ \/ view.options = {0} \/ view.index = view.options \/ view.index = {}
  /\ view.open => PickDrawn(view)
PickInv ==
  /\ PickShape /\ PickSorts /\ PickSaved /\ PickIndex

\* The rows are hits of the index, and one of them is highlighted if any.
LEMMA PickRows ==
  ASSUME PickShape, NEW s, NEW q, DOMAIN s = DOMAIN view,
         s.index \subseteq Things
  PROVE  LET t == APicker!renderList(s, q)
         IN /\ DOMAIN t = DOMAIN view /\ PickDrawn(t)
            /\ t.srv = s.srv /\ t.loads = s.loads /\ t.options = s.options
            /\ t.value = s.value /\ t.index = s.index /\ t.open = s.open
            /\ t.saved = s.saved /\ t.chosen = s.chosen
  <1> DEFINE h == {m \in s.index : q \in {0, m}}
             a == IF h = {} THEN 0
                  ELSE IF s.value \in h THEN s.value ELSE APicker!Least(h)
  <1>1. h \subseteq s.index /\ h \subseteq Nat /\ 0 \notin h
    BY Bounds
  <1>2. APicker!renderList(s, q)
          = [s EXCEPT !.query = q, !.rows = h, !.active = a]
    BY DEF APicker!renderList, APicker!None
  <1>3. (a = 0 <=> h = {}) /\ a \in h \cup {0}
    <2> HIDE DEF h
    <2>1. h # {} => APicker!Least(h) \in h
      <3>1. h # {} => \E m \in h : \A n \in h : m <= n
        BY <1>1, LeastOf
      <3> QED BY <3>1 DEF APicker!Least
    <2> QED BY <1>1, <2>1
  <1> HIDE DEF h, a
  <1> QED BY <1>1, <1>2, <1>3 DEF PickShape, PickDrawn

\* What is remembered is selected where it is offered.
LEMMA PickSelected ==
  ASSUME PickShape, NEW s, DOMAIN s = DOMAIN view
  PROVE  LET t == APicker!Selected(s)
         IN /\ DOMAIN t = DOMAIN view
            /\ t.srv = s.srv /\ t.loads = s.loads /\ t.options = s.options
            /\ t.index = s.index /\ t.open = s.open /\ t.rows = s.rows
            /\ t.active = s.active /\ t.saved = s.saved /\ t.chosen = s.chosen
            /\ s.saved \in s.options => t.value = s.saved
  BY DEF PickShape, APicker!Selected

\* The picker at the start.
LEMMA PickInit == APicker!Init => PickInv
  BY Bounds
  DEF PickInv, PickShape, PickSorts, PickSaved, PickIndex, APicker!Init,
      APicker!None, APicker!Unread, PickDrawn

\* Every step of it keeps what is said of it.
LEMMA PickStep == ASSUME PickInv, APicker!Next PROVE PickInv'
  <1>1. CASE APicker!Reads
    BY <1>1, Bounds
       DEF PickInv, PickShape, PickSorts, PickSaved, PickIndex,
           APicker!Reads, APicker!None, APicker!Unread, PickDrawn
  <1>2. CASE APicker!openModelPicker
    <2> DEFINE i == IF view.index = {} THEN view.options \ {0} ELSE view.index
               s == [view EXCEPT !.open = TRUE, !.index = i]
               t == APicker!renderList(s, 0)
    <2>a. view' = t
      BY <1>2 DEF APicker!openModelPicker, APicker!None
    <2>b. /\ DOMAIN s = DOMAIN view /\ s.open = TRUE /\ s.index = i
          /\ s.srv = view.srv /\ s.loads = view.loads
          /\ s.options = view.options /\ s.value = view.value
          /\ s.saved = view.saved /\ s.chosen = view.chosen
      BY DEF PickInv, PickShape
    <2> HIDE DEF s
    <2>c. /\ i \subseteq Things
          /\ \/ view.options = {0} \/ i = view.options \/ i = {}
      BY Bounds DEF PickInv, PickSorts, PickIndex
    <2> HIDE DEF i
    <2>d. /\ DOMAIN t = DOMAIN view /\ PickDrawn(t)
          /\ t.srv = s.srv /\ t.loads = s.loads
          /\ t.options = s.options /\ t.value = s.value
          /\ t.index = s.index /\ t.open = s.open
          /\ t.saved = s.saved /\ t.chosen = s.chosen
      BY <2>b, <2>c, PickRows DEF PickInv
    <2> HIDE DEF t
    <2>1. PickShape'
      BY <2>a, <2>b, <2>c, <2>d, Bounds
         DEF PickInv, PickShape, APicker!None, APicker!Unread, PickDrawn
    <2>2. PickSorts'
      BY <2>a, <2>b, <2>c, <2>d, Bounds
         DEF PickInv, PickShape, PickSorts, APicker!None, APicker!Unread,
             PickDrawn
    <2>3. PickSaved'
      BY <2>a, <2>b, <2>c, <2>d, Bounds
         DEF PickInv, PickShape, PickSorts, PickSaved, APicker!None,
             APicker!Unread, PickDrawn
    <2>4. PickIndex'
      BY <2>a, <2>b, <2>c, <2>d, Bounds
         DEF PickInv, PickShape, PickSorts, PickIndex, APicker!None,
             APicker!Unread, PickDrawn
    <2> QED BY <2>1, <2>2, <2>3, <2>4 DEF PickInv
  <1>3. CASE APicker!dismissModelPicker
    BY <1>3, Bounds
       DEF PickInv, PickShape, PickSorts, PickSaved, PickIndex,
           APicker!dismissModelPicker, APicker!closeModelPicker,
           APicker!None, APicker!Unread, PickDrawn
  <1>4. CASE APicker!Enter
    BY <1>4, Bounds
       DEF PickInv, PickShape, PickSorts, PickSaved, PickIndex,
           APicker!Enter, APicker!selectValue, APicker!closeModelPicker,
           APicker!None, APicker!Unread, PickDrawn
  <1>5. ASSUME NEW m \in Things, APicker!Visibility(m) PROVE PickInv'
    BY <1>5, Bounds
       DEF PickInv, PickShape, PickSorts, PickSaved, PickIndex,
           APicker!Visibility, APicker!loadProviders, APicker!None,
           APicker!Unread, PickDrawn
  <1>6. ASSUME NEW m \in Things, APicker!moveActive(m) PROVE PickInv'
    BY <1>6, Bounds
       DEF PickInv, PickShape, PickSorts, PickSaved, PickIndex,
           APicker!moveActive, APicker!None, APicker!Unread, PickDrawn
  <1>7. ASSUME NEW m \in Things, APicker!selectValue(m) PROVE PickInv'
    BY <1>7, Bounds
       DEF PickInv, PickShape, PickSorts, PickSaved, PickIndex,
           APicker!selectValue, APicker!closeModelPicker, APicker!None,
           APicker!Unread, PickDrawn
  <1>8. ASSUME NEW l \in view.loads, APicker!ListRead(l) PROVE PickInv'
    <2> DEFINE r == [view EXCEPT !.loads = @ \ {l}, !.options = l, !.index = l]
               s == APicker!Selected(r)
               t == APicker!renderList(s, s.query)
    <2>a. view' = (IF s.open THEN t ELSE s) /\ l \in view.loads /\ l # {-1}
      BY <1>8 DEF APicker!ListRead, APicker!Unread
    <2>b. l \subseteq Things
      BY <2>a DEF PickInv, PickSorts
    <2>c. /\ DOMAIN r = DOMAIN view /\ r.loads = view.loads \ {l}
          /\ r.options = l /\ r.index = l /\ r.open = view.open
          /\ r.srv = view.srv /\ r.saved = view.saved /\ r.chosen = view.chosen
      BY DEF PickInv, PickShape
    <2> HIDE DEF r
    <2>d. /\ DOMAIN s = DOMAIN view
          /\ s.srv = r.srv /\ s.loads = r.loads /\ s.options = r.options
          /\ s.index = r.index /\ s.open = r.open
          /\ s.saved = r.saved /\ s.chosen = r.chosen
          /\ r.saved \in r.options => s.value = r.saved
      BY <2>c, PickSelected DEF PickInv
    <2> HIDE DEF s
    <2>e. /\ DOMAIN t = DOMAIN view /\ PickDrawn(t)
          /\ t.srv = s.srv /\ t.loads = s.loads
          /\ t.options = s.options /\ t.value = s.value
          /\ t.index = s.index /\ t.open = s.open
          /\ t.saved = s.saved /\ t.chosen = s.chosen
      BY <2>b, <2>c, <2>d, PickRows DEF PickInv
    <2> HIDE DEF t
    <2>1. PickShape'
      BY <2>a, <2>b, <2>c, <2>d, <2>e, Bounds
         DEF PickInv, PickShape, APicker!None, APicker!Unread, PickDrawn
    <2>2. PickSorts'
      BY <2>a, <2>b, <2>c, <2>d, <2>e, Bounds
         DEF PickInv, PickShape, PickSorts, APicker!None, APicker!Unread,
             PickDrawn
    <2>3. PickSaved'
      BY <2>a, <2>b, <2>c, <2>d, <2>e, Bounds
         DEF PickInv, PickShape, PickSorts, PickSaved, APicker!None,
             APicker!Unread, PickDrawn
    <2>4. PickIndex'
      BY <2>a, <2>b, <2>c, <2>d, <2>e, Bounds
         DEF PickInv, PickShape, PickSorts, PickIndex, APicker!None,
             APicker!Unread, PickDrawn
    <2> QED BY <2>1, <2>2, <2>3, <2>4 DEF PickInv
  <1>9. ASSUME NEW l \in view.loads, APicker!ListFails(l) PROVE PickInv'
    BY <1>9, Bounds
       DEF PickInv, PickShape, PickSorts, PickSaved, PickIndex,
           APicker!ListFails, APicker!None, APicker!Unread, PickDrawn
  <1>10. ASSUME NEW q \in Things \cup {APicker!None}, APicker!Search(q) PROVE PickInv'
    <2> DEFINE t == APicker!renderList(view, q)
    <2>a. view' = t /\ view.open
      BY <1>10 DEF APicker!Search
    <2>b. /\ DOMAIN t = DOMAIN view /\ PickDrawn(t)
          /\ t.srv = view.srv /\ t.loads = view.loads
          /\ t.options = view.options /\ t.value = view.value
          /\ t.index = view.index /\ t.open = view.open
          /\ t.saved = view.saved /\ t.chosen = view.chosen
      BY PickRows DEF PickInv, PickSorts
    <2> HIDE DEF t
    <2>1. PickShape'
      BY <2>a, <2>b, Bounds
         DEF PickInv, PickShape, APicker!None, APicker!Unread, PickDrawn
    <2>2. PickSorts'
      BY <2>a, <2>b, Bounds
         DEF PickInv, PickShape, PickSorts, APicker!None, APicker!Unread,
             PickDrawn
    <2>3. PickSaved'
      BY <2>a, <2>b, Bounds
         DEF PickInv, PickShape, PickSorts, PickSaved, APicker!None,
             APicker!Unread, PickDrawn
    <2>4. PickIndex'
      BY <2>a, <2>b, Bounds
         DEF PickInv, PickShape, PickSorts, PickIndex, APicker!None,
             APicker!Unread, PickDrawn
    <2> QED BY <2>1, <2>2, <2>3, <2>4 DEF PickInv
  <1> QED
    BY <1>1, <1>2, <1>3, <1>4, <1>5, <1>6, <1>7, <1>8, <1>9, <1>10 DEF
       APicker!Next

\* That gives the properties of APicker.
LEMMA PickHolds == PickInv => APicker!Kept /\ APicker!InStep
  BY DEF PickInv, PickShape, PickSorts, PickSaved, PickIndex, APicker!Kept,
      APicker!InStep, APicker!None, APicker!Unread, PickDrawn

\* It holds from the first state on when the page is this one.
LEMMA PickStays ==
  /\ Init => (subject = "picker" => PickInv)
  /\ (subject = "picker" => PickInv) /\ [Next]_vars
       => (subject = "picker" => PickInv)'
  <1>1. Init => (subject = "picker" => PickInv)
    BY PickInit DEF Init
  <1>2. (subject = "picker" => PickInv) /\ [Next]_vars
          => (subject = "picker" => PickInv)'
    <2>1. ASSUME PickInv, view' = view PROVE PickInv'
      BY <2>1 DEF PickInv, PickShape, PickSorts, PickSaved, PickIndex, PickDrawn
    <2> QED BY <2>1, PickStep DEF Next, vars
  <1> QED BY <1>1, <1>2

-----------------------------------------------------------------------------
(* The list of conversations.  No id is listed twice, none that is not     *)
(* saved; what is drawn is of what is known.                               *)

RailShape ==
  DOMAIN view = {"srv", "known", "changes", "cur", "ws", "busy", "pins",
                 "folded", "query", "archived", "rows", "loads", "post",
                 "failed", "emptied", "crossed", "strayed"}
RailUnique(S) == \A e, f \in S : e[1] = f[1] => e = f
RailWithin(S, T) == \A e \in S : \E f \in T : e[1] = f[1]
RailNamed(s) ==
  /\ RailUnique(s.srv) /\ RailUnique(s.known) /\ RailWithin(s.known, s.srv)
  /\ \A e \in s.srv : e[1] # 0
  /\ \A l \in s.loads :
       l.at # ARail!Unread => RailUnique(l.at) /\ RailWithin(l.at, s.srv)
RailDrawn(s) ==
  /\ s.rows \subseteq s.known
  /\ s.strayed \/ s.rows = ARail!Shown(s)
  /\ s.strayed \/ ~ARail!Elsewhere(s)
RailPosted(s) == "took" \in DOMAIN s.post
RailTold(s) ==
  \/ s.loads # {} \/ s.post.took
  \/ s.failed \/ s.emptied \/ s.crossed \/ s.known = s.srv
RailOk ==
  RailNamed(view) /\ RailDrawn(view) /\ RailTold(view) /\ RailPosted(view)
RailInv == RailShape /\ RailOk

\* What is shown, and whether the conversation is of another workspace, is a
\* matter of these fields.
LEMMA RailSame ==
  ASSUME NEW s, NEW t, t.known = s.known, t.ws = s.ws
  PROVE  /\ /\ t.archived = s.archived /\ t.query = s.query
            /\ t.folded = s.folded /\ t.pins = s.pins
            => ARail!Shown(t) = ARail!Shown(s)
         /\ t.cur = s.cur => ARail!Elsewhere(t) = ARail!Elsewhere(s)
  BY DEF ARail!Shown, ARail!Elsewhere, ARail!currentSessionMeta

\* A redraw draws what is known and changes nothing else.
LEMMA RailRendered ==
  ASSUME RailShape, NEW s, DOMAIN s = DOMAIN view
  PROVE  LET t == ARail!renderSessionOptions(s)
         IN /\ DOMAIN t = DOMAIN view /\ t.srv = s.srv /\ t.known = s.known
            /\ t.changes = s.changes /\ t.cur = s.cur /\ t.ws = s.ws
            /\ t.busy = s.busy /\ t.pins = s.pins /\ t.folded = s.folded
            /\ t.query = s.query /\ t.archived = s.archived
            /\ t.rows = ARail!Shown(s) /\ t.loads = s.loads /\ t.post = s.post
            /\ t.failed = s.failed /\ t.emptied = s.emptied
            /\ t.crossed = s.crossed /\ t.strayed = s.strayed
            /\ t.rows = ARail!Shown(t) /\ t.rows \subseteq t.known
            /\ ARail!Elsewhere(t) = ARail!Elsewhere(s)
  <1> DEFINE r == ARail!Shown(s)
             t == ARail!renderSessionOptions(s)
  <1>1. r \subseteq s.known
    BY DEF ARail!Shown
  <1>2. t = [s EXCEPT !.rows = r]
    BY DEF ARail!renderSessionOptions
  <1> HIDE DEF r
  <1>3. /\ DOMAIN t = DOMAIN view /\ t.srv = s.srv /\ t.known = s.known
        /\ t.changes = s.changes /\ t.cur = s.cur /\ t.ws = s.ws
        /\ t.busy = s.busy /\ t.pins = s.pins /\ t.folded = s.folded
        /\ t.query = s.query /\ t.archived = s.archived /\ t.rows = r
        /\ t.loads = s.loads /\ t.post = s.post /\ t.failed = s.failed
        /\ t.emptied = s.emptied /\ t.crossed = s.crossed
        /\ t.strayed = s.strayed
    BY <1>2 DEF RailShape
  <1> HIDE DEF t
  <1>4. ARail!Shown(t) = ARail!Shown(s) /\ ARail!Elsewhere(t) = ARail!Elsewhere(s)
    BY <1>3, RailSame
  <1> QED BY <1>1, <1>3, <1>4 DEF t, r

\* Another load is asked for.
LEMMA RailLoads ==
  ASSUME RailShape, NEW s, DOMAIN s = DOMAIN view, NEW go, RailNamed(s),
         RailDrawn(s), RailPosted(s)
  PROVE  LET t == ARail!loadSessions(s, go)
         IN /\ DOMAIN t = DOMAIN view /\ RailNamed(t) /\ RailDrawn(t)
            /\ RailTold(t) /\ RailPosted(t)
  <1> DEFINE n == [at |-> ARail!Unread, go |-> go]
             t == ARail!loadSessions(s, go)
  <1>1. n.at = ARail!Unread
    OBVIOUS
  <1>2. t = [s EXCEPT !.loads = @ \cup {n}]
    BY DEF ARail!loadSessions
  <1> HIDE DEF n
  <1>3. /\ DOMAIN t = DOMAIN view /\ t.srv = s.srv /\ t.known = s.known
        /\ t.changes = s.changes /\ t.cur = s.cur /\ t.ws = s.ws
        /\ t.busy = s.busy /\ t.pins = s.pins /\ t.folded = s.folded
        /\ t.query = s.query /\ t.archived = s.archived /\ t.rows = s.rows
        /\ t.loads = s.loads \cup {n} /\ t.post = s.post
        /\ t.failed = s.failed /\ t.emptied = s.emptied
        /\ t.crossed = s.crossed /\ t.strayed = s.strayed
    BY <1>2 DEF RailShape
  <1> HIDE DEF t
  <1>4. ARail!Shown(t) = ARail!Shown(s) /\ ARail!Elsewhere(t) = ARail!Elsewhere(s)
    BY <1>3, RailSame
  <1>5. RailNamed(t)
    BY <1>1, <1>3 DEF RailNamed
  <1>6. RailDrawn(t) /\ RailTold(t) /\ RailPosted(t)
    BY <1>3, <1>4 DEF RailDrawn, RailTold, RailPosted
  <1> QED BY <1>3, <1>5, <1>6 DEF t

\* A change that is not out has not been taken.
LEMMA RailNoPost ==
  ARail!NoPost.took = FALSE /\ "took" \in DOMAIN ARail!NoPost
  BY DEF ARail!NoPost

\* The post of an archived conversation changes nothing else.
LEMMA RailPosts ==
  ASSUME RailShape, NEW s, DOMAIN s = DOMAIN view
  PROVE  LET t == ARail!PostArchive(s)
         IN /\ DOMAIN t = DOMAIN view /\ t.srv = s.srv /\ t.known = s.known
            /\ t.changes = s.changes /\ t.cur = s.cur /\ t.ws = s.ws
            /\ t.busy = s.busy /\ t.pins = s.pins /\ t.folded = s.folded
            /\ t.query = s.query /\ t.archived = s.archived /\ t.rows = s.rows
            /\ t.loads = s.loads /\ t.failed = s.failed /\ t.emptied = s.emptied
            /\ t.crossed = s.crossed /\ t.strayed = s.strayed
            /\ RailPosted(t)
  <1> DEFINE p == [kind |-> "archive", id |-> s.cur,
                   to |-> IF (CHOOSE e \in ARail!currentSessionMeta(s) : TRUE)[3]
                          THEN 0 ELSE 1,
                   took |-> FALSE]
  <1>1. ARail!PostArchive(s) = [s EXCEPT !.post = p]
    BY DEF ARail!PostArchive
  <1>2. "took" \in DOMAIN p
    OBVIOUS
  <1> HIDE DEF p
  <1> QED BY <1>1, <1>2 DEF RailShape, RailPosted

\* What follows a load, and what is noted of it.
LEMMA RailFollowed ==
  ASSUME RailShape, NEW s, DOMAIN s = DOMAIN view, NEW go,
         RailNamed(s), RailPosted(s), s.rows = ARail!Shown(s), s.rows \subseteq s.known,
         s.failed \/ s.crossed \/ s.known = s.srv
  PROVE  LET t == ARail!Strays(ARail!Followed(s, go))
         IN /\ DOMAIN t = DOMAIN view /\ RailNamed(t) /\ RailDrawn(t)
            /\ RailTold(t) /\ RailPosted(t)
  <1> DEFINE r == [s EXCEPT !.ws = go]
             f == ARail!Followed(s, go)
             b == ARail!Elsewhere(f)
             t == ARail!Strays(f)
  <1>1. \/ f = s \/ f = ARail!PostArchive(s)
        \/ f = ARail!renderSessionOptions(r)
    BY DEF ARail!Followed
  <1>2. /\ DOMAIN r = DOMAIN view /\ r.srv = s.srv /\ r.known = s.known
        /\ r.changes = s.changes /\ r.cur = s.cur /\ r.ws = go
        /\ r.busy = s.busy /\ r.pins = s.pins /\ r.folded = s.folded
        /\ r.query = s.query /\ r.archived = s.archived /\ r.rows = s.rows
        /\ r.loads = s.loads /\ r.post = s.post /\ r.failed = s.failed
        /\ r.emptied = s.emptied /\ r.crossed = s.crossed
        /\ r.strayed = s.strayed
    BY DEF RailShape
  <1> HIDE DEF r, f
  <1>3. /\ DOMAIN f = DOMAIN view /\ f.srv = s.srv /\ f.known = s.known
        /\ f.changes = s.changes /\ f.cur = s.cur /\ f.busy = s.busy
        /\ f.pins = s.pins /\ f.folded = s.folded /\ f.query = s.query
        /\ f.archived = s.archived /\ f.loads = s.loads
        /\ f.failed = s.failed /\ f.emptied = s.emptied
        /\ f.crossed = s.crossed /\ f.strayed = s.strayed
        /\ f.rows = ARail!Shown(f) /\ f.rows \subseteq f.known
        /\ RailPosted(f)
    <2>1. CASE f = s
      BY <2>1
    <2>2. CASE f = ARail!PostArchive(s)
      <3> DEFINE a == ARail!PostArchive(s)
      <3>1. /\ DOMAIN a = DOMAIN view /\ a.srv = s.srv /\ a.known = s.known
            /\ a.changes = s.changes /\ a.cur = s.cur /\ a.ws = s.ws
            /\ a.busy = s.busy /\ a.pins = s.pins /\ a.folded = s.folded
            /\ a.query = s.query /\ a.archived = s.archived /\ a.rows = s.rows
            /\ a.loads = s.loads /\ a.failed = s.failed /\ a.emptied = s.emptied
            /\ a.crossed = s.crossed /\ a.strayed = s.strayed
            /\ RailPosted(a)
        BY RailPosts
      <3> HIDE DEF a
      <3>2. ARail!Shown(a) = ARail!Shown(s)
        BY <3>1, RailSame
      <3>3. f = a
        BY <2>2 DEF a
      <3> QED BY <3>1, <3>2, <3>3
    <2>3. CASE f = ARail!renderSessionOptions(r)
      <3> DEFINE a == ARail!renderSessionOptions(r)
      <3>1. /\ DOMAIN a = DOMAIN view /\ a.srv = r.srv /\ a.known = r.known
            /\ a.changes = r.changes /\ a.cur = r.cur /\ a.ws = r.ws
            /\ a.busy = r.busy /\ a.pins = r.pins /\ a.folded = r.folded
            /\ a.query = r.query /\ a.archived = r.archived /\ a.loads = r.loads
            /\ a.post = r.post /\ a.failed = r.failed /\ a.emptied = r.emptied
            /\ a.crossed = r.crossed /\ a.strayed = r.strayed
            /\ a.rows = ARail!Shown(a) /\ a.rows \subseteq a.known
        BY <1>2, RailRendered
      <3> HIDE DEF a
      <3>3. f = a
        BY <2>3 DEF a
      <3> QED BY <1>2, <3>1, <3>3 DEF RailPosted
    <2> QED BY <1>1, <2>1, <2>2, <2>3
  <1>4. t = [f EXCEPT !.strayed = b]
    BY DEF ARail!Strays
  <1>5. b \in BOOLEAN /\ (b <=> ARail!Elsewhere(f))
    BY DEF ARail!Elsewhere
  <1> HIDE DEF b
  <1>6. /\ DOMAIN t = DOMAIN view /\ t.srv = f.srv /\ t.known = f.known
        /\ t.changes = f.changes /\ t.cur = f.cur /\ t.ws = f.ws
        /\ t.busy = f.busy /\ t.pins = f.pins /\ t.folded = f.folded
        /\ t.query = f.query /\ t.archived = f.archived /\ t.rows = f.rows
        /\ t.loads = f.loads /\ t.post = f.post /\ t.failed = f.failed
        /\ t.emptied = f.emptied /\ t.crossed = f.crossed /\ t.strayed = b
    BY <1>3, <1>4 DEF RailShape
  <1> HIDE DEF t
  <1>7. ARail!Shown(t) = ARail!Shown(f) /\ ARail!Elsewhere(t) = ARail!Elsewhere(f)
    BY <1>6, RailSame
  <1>8. RailNamed(t)
    BY <1>3, <1>6 DEF RailNamed
  <1>9. RailDrawn(t)
    BY <1>3, <1>5, <1>6, <1>7 DEF RailDrawn
  <1>10. RailTold(t) /\ RailPosted(t)
    BY <1>3, <1>6 DEF RailTold, RailPosted
  <1> QED BY <1>3, <1>6, <1>8, <1>9, <1>10 DEF t, f

\* New chat forgets the list.
LEMMA RailNewChat ==
  ASSUME RailShape, NEW s, DOMAIN s = DOMAIN view, RailNamed(s), RailPosted(s)
  PROVE  LET t == ARail!newChat(s)
         IN /\ DOMAIN t = DOMAIN view /\ RailNamed(t) /\ RailDrawn(t)
            /\ RailTold(t) /\ RailPosted(t)
  <1> DEFINE no == FALSE
             yes == TRUE
             k == [s EXCEPT !.cur = 0, !.known = {}, !.emptied = yes,
                            !.strayed = no]
             t == ARail!newChat(s)
  <1>1. t = ARail!renderSessionOptions(k)
    BY DEF ARail!newChat, ARail!None
  <1>2. yes /\ ~no
    OBVIOUS
  <1> HIDE DEF yes, no
  <1>3. /\ DOMAIN k = DOMAIN view /\ k.srv = s.srv /\ k.known = {}
        /\ k.changes = s.changes /\ k.cur = 0 /\ k.ws = s.ws
        /\ k.busy = s.busy /\ k.pins = s.pins /\ k.folded = s.folded
        /\ k.query = s.query /\ k.archived = s.archived /\ k.rows = s.rows
        /\ k.loads = s.loads /\ k.post = s.post /\ k.failed = s.failed
        /\ k.emptied = yes /\ k.crossed = s.crossed /\ k.strayed = no
    BY DEF RailShape
  <1> HIDE DEF k
  <1>4. /\ DOMAIN t = DOMAIN view /\ t.srv = k.srv /\ t.known = k.known
        /\ t.changes = k.changes /\ t.cur = k.cur /\ t.ws = k.ws
        /\ t.busy = k.busy /\ t.pins = k.pins /\ t.folded = k.folded
        /\ t.query = k.query /\ t.archived = k.archived /\ t.loads = k.loads
        /\ t.post = k.post /\ t.failed = k.failed /\ t.emptied = k.emptied
        /\ t.crossed = k.crossed /\ t.strayed = k.strayed
        /\ t.rows = ARail!Shown(t) /\ t.rows \subseteq t.known
        /\ ARail!Elsewhere(t) = ARail!Elsewhere(k)
    BY <1>1, <1>3, RailRendered
  <1>5. ~ARail!Elsewhere(k)
    BY <1>3 DEF ARail!Elsewhere, ARail!currentSessionMeta
  <1> HIDE DEF t
  <1>6. RailNamed(t)
    BY <1>3, <1>4 DEF RailNamed, RailUnique, RailWithin
  <1>7. RailDrawn(t) /\ RailTold(t) /\ RailPosted(t)
    BY <1>2, <1>3, <1>4, <1>5 DEF RailDrawn, RailTold, RailPosted
  <1> QED BY <1>4, <1>3, <1>6, <1>7 DEF t

\* The list of conversations at the start.
LEMMA RailInit == ARail!Init => RailInv
  <1> SUFFICES ASSUME ARail!Init PROVE RailInv
    OBVIOUS
  <1> DEFINE c == CHOOSE x \in Things : TRUE
             e == <<c, 0, FALSE>>
             n == [at |-> ARail!Unread, go |-> ARail!Stay]
  <1>1. c \in Things /\ c # 0
    BY Bounds
  <1>2. e[1] = c /\ n.at = ARail!Unread
    OBVIOUS
  <1>3. PICK s \in {{}, {e}} :
          view = [srv |-> s, known |-> {}, changes |-> 0, cur |-> 0, ws |-> 0,
                  busy |-> -1, pins |-> {}, folded |-> FALSE, query |-> 0,
                  archived |-> FALSE, rows |-> {}, loads |-> {n},
                  post |-> ARail!NoPost, failed |-> FALSE, emptied |-> FALSE,
                  crossed |-> FALSE, strayed |-> FALSE]
    BY DEF ARail!Init, ARail!None, ARail!Here, ARail!Idle
  <1> HIDE DEF c, e, n
  <1>4. /\ DOMAIN view = {"srv", "known", "changes", "cur", "ws", "busy",
                          "pins", "folded", "query", "archived", "rows",
                          "loads", "post", "failed", "emptied", "crossed",
                          "strayed"}
        /\ view.srv = s /\ view.known = {} /\ view.rows = {}
        /\ view.loads = {n} /\ view.post = ARail!NoPost
    BY <1>3
  <1>5. RailNamed(view)
    BY <1>1, <1>2, <1>4 DEF RailNamed, RailUnique, RailWithin
  <1>6. ARail!Shown(view) = {} /\ ~ARail!Elsewhere(view)
    BY <1>4 DEF ARail!Shown, ARail!Elsewhere, ARail!currentSessionMeta
  <1>7. RailDrawn(view) /\ RailTold(view) /\ RailPosted(view)
    BY <1>4, <1>6, RailNoPost DEF RailDrawn, RailTold, RailPosted
  <1> QED BY <1>4, <1>5, <1>7 DEF RailInv, RailShape, RailOk

\* Every step of it keeps what is said of it.
LEMMA RailStep == ASSUME RailInv, ARail!Next PROVE RailInv'
  <1>1. CASE ARail!Load
    <2>z. DOMAIN view' = DOMAIN view
          /\ RailNamed(view') /\ RailDrawn(view') /\ RailTold(view')
          /\ RailPosted(view')
      BY <1>1, RailLoads DEF RailInv, RailOk, ARail!Load
    <2> QED
      BY <2>z DEF RailInv, RailShape, RailOk
  <1>2. CASE ARail!NewChat
    <2>z. DOMAIN view' = DOMAIN view
          /\ RailNamed(view') /\ RailDrawn(view') /\ RailTold(view')
          /\ RailPosted(view')
      BY <1>2, RailNewChat DEF RailInv, RailOk, ARail!NewChat
    <2> QED
      BY <2>z DEF RailInv, RailShape, RailOk
  <1>3. CASE ARail!toggleCollapsedGroup
    <2> DEFINE s == [view EXCEPT !.folded = ~@]
               t == ARail!renderSessionOptions(s)
    <2>1. view' = t
      BY <1>3 DEF ARail!toggleCollapsedGroup
    <2>2. /\ DOMAIN s = DOMAIN view /\ s.srv = view.srv /\ s.known = view.known
          /\ s.changes = view.changes /\ s.cur = view.cur /\ s.ws = view.ws
          /\ s.busy = view.busy /\ s.pins = view.pins /\ s.query = view.query
          /\ s.archived = view.archived /\ s.rows = view.rows
          /\ s.loads = view.loads /\ s.post = view.post
          /\ s.failed = view.failed /\ s.emptied = view.emptied
          /\ s.crossed = view.crossed /\ s.strayed = view.strayed
      BY DEF RailInv, RailShape
    <2> HIDE DEF s
    <2>3. /\ DOMAIN t = DOMAIN view /\ t.srv = s.srv /\ t.known = s.known
          /\ t.changes = s.changes /\ t.cur = s.cur /\ t.ws = s.ws
          /\ t.busy = s.busy /\ t.pins = s.pins /\ t.folded = s.folded
          /\ t.query = s.query /\ t.archived = s.archived /\ t.loads = s.loads
          /\ t.post = s.post /\ t.failed = s.failed /\ t.emptied = s.emptied
          /\ t.crossed = s.crossed /\ t.strayed = s.strayed
          /\ t.rows = ARail!Shown(t) /\ t.rows \subseteq t.known
          /\ ARail!Elsewhere(t) = ARail!Elsewhere(s)
      BY <2>2, RailRendered DEF RailInv
    <2>4. ARail!Elsewhere(s) = ARail!Elsewhere(view)
      BY <2>2, RailSame
    <2> HIDE DEF t
    <2>z. DOMAIN view' = DOMAIN view
          /\ RailNamed(view') /\ RailDrawn(view') /\ RailTold(view')
          /\ RailPosted(view')
      BY <2>1, <2>2, <2>3, <2>4
         DEF RailInv, RailOk, RailNamed, RailDrawn, RailTold,
             RailPosted
    <2> QED
      BY <2>z DEF RailInv, RailShape, RailOk
  <1>4. CASE ARail!showArchived
    <2> DEFINE s == [view EXCEPT !.archived = ~@]
               t == ARail!renderSessionOptions(s)
    <2>1. view' = t
      BY <1>4 DEF ARail!showArchived
    <2>2. /\ DOMAIN s = DOMAIN view /\ s.srv = view.srv /\ s.known = view.known
          /\ s.changes = view.changes /\ s.cur = view.cur /\ s.ws = view.ws
          /\ s.busy = view.busy /\ s.pins = view.pins /\ s.folded = view.folded
          /\ s.query = view.query /\ s.rows = view.rows /\ s.loads = view.loads
          /\ s.post = view.post /\ s.failed = view.failed
          /\ s.emptied = view.emptied /\ s.crossed = view.crossed
          /\ s.strayed = view.strayed
      BY DEF RailInv, RailShape
    <2> HIDE DEF s
    <2>3. /\ DOMAIN t = DOMAIN view /\ t.srv = s.srv /\ t.known = s.known
          /\ t.changes = s.changes /\ t.cur = s.cur /\ t.ws = s.ws
          /\ t.busy = s.busy /\ t.pins = s.pins /\ t.folded = s.folded
          /\ t.query = s.query /\ t.archived = s.archived /\ t.loads = s.loads
          /\ t.post = s.post /\ t.failed = s.failed /\ t.emptied = s.emptied
          /\ t.crossed = s.crossed /\ t.strayed = s.strayed
          /\ t.rows = ARail!Shown(t) /\ t.rows \subseteq t.known
          /\ ARail!Elsewhere(t) = ARail!Elsewhere(s)
      BY <2>2, RailRendered DEF RailInv
    <2>4. ARail!Elsewhere(s) = ARail!Elsewhere(view)
      BY <2>2, RailSame
    <2> HIDE DEF t
    <2>z. DOMAIN view' = DOMAIN view
          /\ RailNamed(view') /\ RailDrawn(view') /\ RailTold(view')
          /\ RailPosted(view')
      BY <2>1, <2>2, <2>3, <2>4
         DEF RailInv, RailOk, RailNamed, RailDrawn, RailTold,
             RailPosted
    <2> QED
      BY <2>z DEF RailInv, RailShape, RailOk
  <1>5. CASE ARail!Archive
    <2> DEFINE p == ARail!PostArchive(view)
    <2>1. \/ view' = ARail!loadSessions(view, ARail!ThenArchive) \/ view' = p
      BY <1>5 DEF ARail!Archive
    <2>2. /\ DOMAIN p = DOMAIN view /\ p.srv = view.srv /\ p.known = view.known
          /\ p.changes = view.changes /\ p.cur = view.cur /\ p.ws = view.ws
          /\ p.busy = view.busy /\ p.pins = view.pins /\ p.folded = view.folded
          /\ p.query = view.query /\ p.archived = view.archived
          /\ p.rows = view.rows /\ p.loads = view.loads
          /\ p.failed = view.failed /\ p.emptied = view.emptied
          /\ p.crossed = view.crossed /\ p.strayed = view.strayed
          /\ RailPosted(p)
      BY RailPosts DEF RailInv
    <2> HIDE DEF p
    <2>3. ARail!Shown(p) = ARail!Shown(view)
          /\ ARail!Elsewhere(p) = ARail!Elsewhere(view)
      BY <2>2, RailSame
    <2>4. ~view.post.took
      BY <1>5, RailNoPost DEF ARail!Archive
    <2>5. RailNamed(p) /\ RailDrawn(p) /\ RailTold(p)
      BY <2>2, <2>3, <2>4 DEF RailInv, RailOk, RailNamed, RailDrawn, RailTold,
             RailPosted
    <2>z. DOMAIN view' = DOMAIN view
          /\ RailNamed(view') /\ RailDrawn(view') /\ RailTold(view')
          /\ RailPosted(view')
      BY <2>1, <2>2, <2>5, RailLoads DEF RailInv, RailOk
    <2> QED
      BY <2>z DEF RailInv, RailShape, RailOk
  <1>6. CASE ARail!Takes
    <2> DEFINE p == view.post
               yes == TRUE
               b == p.to = 1
               Set(e) == IF e[1] # p.id THEN e
                         ELSE IF p.kind = "move" THEN <<e[1], p.to, e[3]>>
                         ELSE <<e[1], e[2], b>>
               q == [p EXCEPT !.took = yes]
               S == {Set(e) : e \in view.srv}
    <2>1. view' = [view EXCEPT !.post.took = yes, !.changes = @ + 1, !.srv = S]
      BY <1>6 DEF ARail!Takes
    <2>2. view'.post.took /\ "took" \in DOMAIN view'.post
          /\ DOMAIN view' = DOMAIN view /\ view'.srv = S
          /\ view'.known = view.known /\ view'.cur = view.cur
          /\ view'.ws = view.ws /\ view'.busy = view.busy
          /\ view'.pins = view.pins /\ view'.folded = view.folded
          /\ view'.query = view.query /\ view'.archived = view.archived
          /\ view'.rows = view.rows /\ view'.loads = view.loads
          /\ view'.failed = view.failed /\ view'.emptied = view.emptied
          /\ view'.crossed = view.crossed /\ view'.strayed = view.strayed
      <3> HIDE DEF S
      <3>1. "took" \in DOMAIN view.post
        BY DEF RailInv, RailOk, RailPosted
      <3> QED BY <2>1, <3>1 DEF RailInv, RailShape
    <2> HIDE DEF b
    <2>3. \A e : Set(e)[1] = e[1]
      OBVIOUS
    <2> HIDE DEF Set
    <2>4. RailUnique(S) /\ (\A e \in S : e[1] # 0) /\ RailWithin(view.srv, S)
      BY <2>3 DEF RailInv, RailOk, RailNamed, RailUnique, RailWithin
    <2> HIDE DEF S
    <2>5. ARail!Shown(view') = ARail!Shown(view)
          /\ ARail!Elsewhere(view') = ARail!Elsewhere(view)
      BY <2>2, RailSame
    <2>6. \A T : RailWithin(T, view.srv) => RailWithin(T, S)
      BY <2>4 DEF RailWithin
    <2>7. RailNamed(view')
      BY <2>2, <2>4, <2>6 DEF RailInv, RailOk, RailNamed
    <2>z. DOMAIN view' = DOMAIN view
          /\ RailNamed(view') /\ RailDrawn(view') /\ RailTold(view')
          /\ RailPosted(view')
      BY <2>2, <2>5, <2>7 DEF RailInv, RailOk, RailDrawn, RailTold,
             RailPosted
    <2> QED
      BY <2>z DEF RailInv, RailShape, RailOk
  <1>7. CASE ARail!PostRead
    <2> DEFINE s == [view EXCEPT !.post = ARail!NoPost]
               go == IF view.post.kind = "move" THEN view.post.to ELSE ARail!Stay
    <2>1. view' = ARail!loadSessions(s, go)
      BY <1>7 DEF ARail!PostRead
    <2>2. /\ DOMAIN s = DOMAIN view /\ s.srv = view.srv /\ s.known = view.known
          /\ s.changes = view.changes /\ s.cur = view.cur /\ s.ws = view.ws
          /\ s.busy = view.busy /\ s.pins = view.pins /\ s.folded = view.folded
          /\ s.query = view.query /\ s.archived = view.archived
          /\ s.rows = view.rows /\ s.loads = view.loads
          /\ s.post = ARail!NoPost /\ s.failed = view.failed
          /\ s.emptied = view.emptied /\ s.crossed = view.crossed
          /\ s.strayed = view.strayed
      BY DEF RailInv, RailShape
    <2> HIDE DEF s, go
    <2>3. ARail!Shown(s) = ARail!Shown(view)
          /\ ARail!Elsewhere(s) = ARail!Elsewhere(view)
      BY <2>2, RailSame
    <2>4. RailNamed(s) /\ RailDrawn(s) /\ RailPosted(s)
      BY <2>2, <2>3, RailNoPost
         DEF RailInv, RailOk, RailNamed, RailDrawn, RailPosted
    <2>z. DOMAIN view' = DOMAIN view
          /\ RailNamed(view') /\ RailDrawn(view') /\ RailTold(view')
          /\ RailPosted(view')
      BY <2>1, <2>2, <2>4, RailLoads DEF RailInv
    <2> QED
      BY <2>z DEF RailInv, RailShape, RailOk
  <1>8. CASE ARail!PostFails
    <2> DEFINE b == view.crossed \/ view.post.took
    <2>1. view' = [view EXCEPT !.post = ARail!NoPost, !.crossed = b]
      BY <1>8 DEF ARail!PostFails
    <2>5. b <=> view.crossed \/ view.post.took
      OBVIOUS
    <2> HIDE DEF b
    <2>2. /\ DOMAIN view' = DOMAIN view /\ view'.srv = view.srv
          /\ view'.known = view.known /\ view'.changes = view.changes
          /\ view'.cur = view.cur /\ view'.ws = view.ws
          /\ view'.busy = view.busy /\ view'.pins = view.pins
          /\ view'.folded = view.folded /\ view'.query = view.query
          /\ view'.archived = view.archived /\ view'.rows = view.rows
          /\ view'.loads = view.loads /\ view'.post = ARail!NoPost
          /\ view'.failed = view.failed /\ view'.emptied = view.emptied
          /\ view'.crossed = b /\ view'.strayed = view.strayed
      BY <2>1 DEF RailInv, RailShape
    <2>3. ARail!Shown(view') = ARail!Shown(view)
          /\ ARail!Elsewhere(view') = ARail!Elsewhere(view)
      BY <2>2, RailSame
    <2>z. DOMAIN view' = DOMAIN view
          /\ RailNamed(view') /\ RailDrawn(view') /\ RailTold(view')
          /\ RailPosted(view')
      BY <2>2, <2>3, <2>5, RailNoPost
         DEF RailInv, RailOk, RailNamed, RailDrawn, RailTold,
             RailPosted
    <2> QED
      BY <2>z DEF RailInv, RailShape, RailOk
  <1>9. CASE ARail!RunStarts
    <2>2. /\ DOMAIN view' = DOMAIN view /\ view'.srv = view.srv
          /\ view'.known = view.known /\ view'.changes = view.changes
          /\ view'.cur = view.cur /\ view'.ws = view.ws
          /\ view'.pins = view.pins /\ view'.folded = view.folded
          /\ view'.query = view.query /\ view'.archived = view.archived
          /\ view'.rows = view.rows /\ view'.loads = view.loads
          /\ view'.post = view.post /\ view'.failed = view.failed
          /\ view'.emptied = view.emptied /\ view'.crossed = view.crossed
          /\ view'.strayed = view.strayed
      BY <1>9 DEF RailInv, RailShape, ARail!RunStarts
    <2>3. ARail!Shown(view') = ARail!Shown(view)
          /\ ARail!Elsewhere(view') = ARail!Elsewhere(view)
      BY <2>2, RailSame

    <2>z. DOMAIN view' = DOMAIN view
          /\ RailNamed(view') /\ RailDrawn(view') /\ RailTold(view')
          /\ RailPosted(view')
      BY <2>2, <2>3 DEF RailInv, RailOk, RailNamed, RailDrawn, RailTold,
             RailPosted
    <2> QED
      BY <2>z DEF RailInv, RailShape, RailOk
  <1>10. ASSUME NEW l \in view.loads, ARail!Reads(l) PROVE RailInv'
    <2> DEFINE n == [at |-> view.srv, go |-> l.go]
    <2>1. n.at = view.srv
      OBVIOUS
    <2>2. /\ DOMAIN view' = DOMAIN view /\ view'.srv = view.srv
          /\ view'.known = view.known /\ view'.changes = view.changes
          /\ view'.cur = view.cur /\ view'.ws = view.ws
          /\ view'.busy = view.busy /\ view'.pins = view.pins
          /\ view'.folded = view.folded /\ view'.query = view.query
          /\ view'.archived = view.archived /\ view'.rows = view.rows
          /\ view'.loads = (view.loads \ {l}) \cup {n}
          /\ view'.post = view.post /\ view'.failed = view.failed
          /\ view'.emptied = view.emptied /\ view'.crossed = view.crossed
          /\ view'.strayed = view.strayed
      BY <1>10 DEF RailInv, RailShape, ARail!Reads
    <2> HIDE DEF n
    <2>3. ARail!Shown(view') = ARail!Shown(view)
          /\ ARail!Elsewhere(view') = ARail!Elsewhere(view)
      BY <2>2, RailSame
    <2>4. RailWithin(view.srv, view.srv)
      BY DEF RailWithin
    <2>5. RailNamed(view')
      BY <2>1, <2>2, <2>4 DEF RailInv, RailOk, RailNamed
    <2>z. DOMAIN view' = DOMAIN view
          /\ RailNamed(view') /\ RailDrawn(view') /\ RailTold(view')
          /\ RailPosted(view')
      BY <2>2, <2>3, <2>5, RailNoPost
         DEF RailInv, RailOk, RailDrawn, RailTold,
             RailPosted
    <2> QED
      BY <2>z DEF RailInv, RailShape, RailOk
  <1>11. ASSUME NEW l \in view.loads, ARail!ListRead(l) PROVE RailInv'
    <2> DEFINE no == FALSE
               yes == TRUE
               b == l.at # view.srv
               k == [view EXCEPT !.loads = @ \ {l}, !.known = l.at, !.failed = no,
                               !.emptied = no, !.crossed = b]
               s == ARail!renderSessionOptions(k)
    <2>1. view' = ARail!Strays(ARail!Followed(s, l.go)) /\ l.at # ARail!Unread
      BY <1>11 DEF ARail!ListRead
    <2>2. yes /\ ~no /\ (b <=> l.at # view.srv)
      OBVIOUS
    <2> HIDE DEF yes, no, b
    <2>3. /\ DOMAIN k = DOMAIN view /\ k.srv = view.srv /\ k.known = l.at
          /\ k.changes = view.changes /\ k.cur = view.cur /\ k.ws = view.ws
          /\ k.busy = view.busy /\ k.pins = view.pins /\ k.folded = view.folded
          /\ k.query = view.query /\ k.archived = view.archived
          /\ k.rows = view.rows /\ k.loads = view.loads \ {l}
          /\ k.post = view.post /\ k.failed = no /\ k.emptied = no
          /\ k.crossed = b /\ k.strayed = view.strayed
      BY DEF RailInv, RailShape
    <2> HIDE DEF k
    <2>4. /\ DOMAIN s = DOMAIN view /\ s.srv = k.srv /\ s.known = k.known
          /\ s.changes = k.changes /\ s.cur = k.cur /\ s.ws = k.ws
          /\ s.busy = k.busy /\ s.pins = k.pins /\ s.folded = k.folded
          /\ s.query = k.query /\ s.archived = k.archived /\ s.loads = k.loads
          /\ s.post = k.post /\ s.failed = k.failed /\ s.emptied = k.emptied
          /\ s.crossed = k.crossed /\ s.strayed = k.strayed
          /\ s.rows = ARail!Shown(s) /\ s.rows \subseteq s.known
      BY <2>3, RailRendered DEF RailInv
    <2> HIDE DEF s
    <2>5. RailNamed(s) /\ RailPosted(s)
      BY <2>1, <2>3, <2>4
         DEF RailInv, RailOk, RailNamed, RailUnique, RailWithin, RailPosted
    <2>6. s.failed \/ s.crossed \/ s.known = s.srv
      BY <2>2, <2>3, <2>4
    <2>z. DOMAIN view' = DOMAIN view
          /\ RailNamed(view') /\ RailDrawn(view') /\ RailTold(view')
          /\ RailPosted(view')
      BY <2>1, <2>3, <2>4, <2>5, <2>6, RailFollowed DEF RailInv
    <2> QED
      BY <2>z DEF RailInv, RailShape, RailOk
  <1>12. ASSUME NEW l \in view.loads, ARail!ListFails(l) PROVE RailInv'
    <2> DEFINE no == FALSE
               yes == TRUE
               b == l.at # view.srv
               k == [view EXCEPT !.loads = @ \ {l}, !.known = {}, !.failed = yes]
               s == ARail!renderSessionOptions(k)
    <2>1. view' = ARail!Strays(ARail!Followed(s, l.go))
      BY <1>12 DEF ARail!ListFails
    <2>2. yes /\ ~no /\ (b <=> l.at # view.srv)
      OBVIOUS
    <2> HIDE DEF yes, no, b
    <2>3. /\ DOMAIN k = DOMAIN view /\ k.srv = view.srv /\ k.known = {}
          /\ k.changes = view.changes /\ k.cur = view.cur /\ k.ws = view.ws
          /\ k.busy = view.busy /\ k.pins = view.pins /\ k.folded = view.folded
          /\ k.query = view.query /\ k.archived = view.archived
          /\ k.rows = view.rows /\ k.loads = view.loads \ {l}
          /\ k.post = view.post /\ k.failed = yes /\ k.emptied = view.emptied
          /\ k.crossed = view.crossed /\ k.strayed = view.strayed
      BY DEF RailInv, RailShape
    <2> HIDE DEF k
    <2>4. /\ DOMAIN s = DOMAIN view /\ s.srv = k.srv /\ s.known = k.known
          /\ s.changes = k.changes /\ s.cur = k.cur /\ s.ws = k.ws
          /\ s.busy = k.busy /\ s.pins = k.pins /\ s.folded = k.folded
          /\ s.query = k.query /\ s.archived = k.archived /\ s.loads = k.loads
          /\ s.post = k.post /\ s.failed = k.failed /\ s.emptied = k.emptied
          /\ s.crossed = k.crossed /\ s.strayed = k.strayed
          /\ s.rows = ARail!Shown(s) /\ s.rows \subseteq s.known
      BY <2>3, RailRendered DEF RailInv
    <2> HIDE DEF s
    <2>5. RailNamed(s) /\ RailPosted(s)
      BY <2>1, <2>3, <2>4
         DEF RailInv, RailOk, RailNamed, RailUnique, RailWithin, RailPosted
    <2>6. s.failed \/ s.crossed \/ s.known = s.srv
      BY <2>2, <2>3, <2>4
    <2>z. DOMAIN view' = DOMAIN view
          /\ RailNamed(view') /\ RailDrawn(view') /\ RailTold(view')
          /\ RailPosted(view')
      BY <2>1, <2>3, <2>4, <2>5, <2>6, RailFollowed DEF RailInv
    <2> QED
      BY <2>z DEF RailInv, RailShape, RailOk
  <1>13. ASSUME NEW e \in view.rows, ARail!railRowFor(e) PROVE RailInv'
    <2> DEFINE no == FALSE
               k == [view EXCEPT !.cur = e[1], !.ws = e[2], !.strayed = no]
               r == ARail!renderSessionOptions(view)
               t == ARail!renderSessionOptions(k)
    <2>1. view' = view \/ view' = r \/ view' = t
      BY <1>13 DEF ARail!railRowFor, ARail!switchSession
    <2>2. ~no
      OBVIOUS
    <2> HIDE DEF no
    <2>3. /\ DOMAIN k = DOMAIN view /\ k.srv = view.srv /\ k.known = view.known
          /\ k.changes = view.changes /\ k.cur = e[1] /\ k.ws = e[2]
          /\ k.busy = view.busy /\ k.pins = view.pins /\ k.folded = view.folded
          /\ k.query = view.query /\ k.archived = view.archived
          /\ k.rows = view.rows /\ k.loads = view.loads /\ k.post = view.post
          /\ k.failed = view.failed /\ k.emptied = view.emptied
          /\ k.crossed = view.crossed /\ k.strayed = no
      BY DEF RailInv, RailShape
    <2> HIDE DEF k
    <2>4. /\ DOMAIN r = DOMAIN view /\ r.srv = view.srv /\ r.known = view.known
          /\ r.changes = view.changes /\ r.cur = view.cur /\ r.ws = view.ws
          /\ r.busy = view.busy /\ r.pins = view.pins /\ r.folded = view.folded
          /\ r.query = view.query /\ r.archived = view.archived
          /\ r.loads = view.loads /\ r.post = view.post
          /\ r.failed = view.failed /\ r.emptied = view.emptied
          /\ r.crossed = view.crossed /\ r.strayed = view.strayed
          /\ r.rows = ARail!Shown(r) /\ r.rows \subseteq r.known
          /\ ARail!Elsewhere(r) = ARail!Elsewhere(view)
      BY RailRendered DEF RailInv
    <2>5. /\ DOMAIN t = DOMAIN view /\ t.srv = k.srv /\ t.known = k.known
          /\ t.changes = k.changes /\ t.cur = k.cur /\ t.ws = k.ws
          /\ t.busy = k.busy /\ t.pins = k.pins /\ t.folded = k.folded
          /\ t.query = k.query /\ t.archived = k.archived /\ t.loads = k.loads
          /\ t.post = k.post /\ t.failed = k.failed /\ t.emptied = k.emptied
          /\ t.crossed = k.crossed /\ t.strayed = k.strayed
          /\ t.rows = ARail!Shown(t) /\ t.rows \subseteq t.known
          /\ ARail!Elsewhere(t) = ARail!Elsewhere(k)
      BY <2>3, RailRendered DEF RailInv
    <2> HIDE DEF r, t
    <2>6. ~ARail!Elsewhere(k)
      <3>1. \A f \in view.known : f[1] = e[1] => f = e
        BY DEF RailInv, RailOk, RailNamed, RailDrawn, RailUnique
      <3> QED BY <2>3, <3>1 DEF ARail!Elsewhere, ARail!currentSessionMeta
    <2>z. DOMAIN view' = DOMAIN view
          /\ RailNamed(view') /\ RailDrawn(view') /\ RailTold(view')
          /\ RailPosted(view')
      <3>1. CASE view' = view
        BY <3>1 DEF RailInv, RailOk
      <3>2. CASE view' = r
        BY <2>4, <3>2 DEF RailInv, RailOk, RailNamed, RailDrawn, RailTold,
             RailPosted
      <3>3. CASE view' = t
        BY <2>3, <2>5, <2>6, <3>3
           DEF RailInv, RailOk, RailNamed, RailDrawn, RailTold,
             RailPosted
      <3> QED BY <2>1, <3>1, <3>2, <3>3
    <2> QED
      BY <2>z DEF RailInv, RailShape, RailOk
  <1>14. ASSUME NEW id \in Things, ARail!togglePin(id) PROVE RailInv'
    <2> DEFINE s == [view EXCEPT !.pins = IF id \in @ THEN @ \ {id} ELSE @ \cup {id}]
               t == ARail!renderSessionOptions(s)
    <2>1. view' = t
      BY <1>14 DEF ARail!togglePin
    <2>2. /\ DOMAIN s = DOMAIN view /\ s.srv = view.srv /\ s.known = view.known
          /\ s.changes = view.changes /\ s.cur = view.cur /\ s.ws = view.ws
          /\ s.busy = view.busy /\ s.folded = view.folded
          /\ s.query = view.query /\ s.archived = view.archived
          /\ s.rows = view.rows /\ s.loads = view.loads /\ s.post = view.post
          /\ s.failed = view.failed /\ s.emptied = view.emptied
          /\ s.crossed = view.crossed /\ s.strayed = view.strayed
      BY DEF RailInv, RailShape
    <2> HIDE DEF s
    <2>3. /\ DOMAIN t = DOMAIN view /\ t.srv = s.srv /\ t.known = s.known
          /\ t.changes = s.changes /\ t.cur = s.cur /\ t.ws = s.ws
          /\ t.busy = s.busy /\ t.pins = s.pins /\ t.folded = s.folded
          /\ t.query = s.query /\ t.archived = s.archived /\ t.loads = s.loads
          /\ t.post = s.post /\ t.failed = s.failed /\ t.emptied = s.emptied
          /\ t.crossed = s.crossed /\ t.strayed = s.strayed
          /\ t.rows = ARail!Shown(t) /\ t.rows \subseteq t.known
          /\ ARail!Elsewhere(t) = ARail!Elsewhere(s)
      BY <2>2, RailRendered DEF RailInv
    <2>4. ARail!Elsewhere(s) = ARail!Elsewhere(view)
      BY <2>2, RailSame
    <2> HIDE DEF t
    <2>z. DOMAIN view' = DOMAIN view
          /\ RailNamed(view') /\ RailDrawn(view') /\ RailTold(view')
          /\ RailPosted(view')
      BY <2>1, <2>2, <2>3, <2>4
         DEF RailInv, RailOk, RailNamed, RailDrawn, RailTold,
             RailPosted
    <2> QED
      BY <2>z DEF RailInv, RailShape, RailOk
  <1>15. ASSUME NEW q \in {ARail!None} \cup Things, ARail!Filter(q) PROVE RailInv'
    <2> DEFINE s == [view EXCEPT !.query = q]
               t == ARail!renderSessionOptions(s)
    <2>1. view' = t
      BY <1>15 DEF ARail!Filter
    <2>2. /\ DOMAIN s = DOMAIN view /\ s.srv = view.srv /\ s.known = view.known
          /\ s.changes = view.changes /\ s.cur = view.cur /\ s.ws = view.ws
          /\ s.busy = view.busy /\ s.pins = view.pins /\ s.folded = view.folded
          /\ s.archived = view.archived /\ s.rows = view.rows
          /\ s.loads = view.loads /\ s.post = view.post
          /\ s.failed = view.failed /\ s.emptied = view.emptied
          /\ s.crossed = view.crossed /\ s.strayed = view.strayed
      BY DEF RailInv, RailShape
    <2> HIDE DEF s
    <2>3. /\ DOMAIN t = DOMAIN view /\ t.srv = s.srv /\ t.known = s.known
          /\ t.changes = s.changes /\ t.cur = s.cur /\ t.ws = s.ws
          /\ t.busy = s.busy /\ t.pins = s.pins /\ t.folded = s.folded
          /\ t.query = s.query /\ t.archived = s.archived /\ t.loads = s.loads
          /\ t.post = s.post /\ t.failed = s.failed /\ t.emptied = s.emptied
          /\ t.crossed = s.crossed /\ t.strayed = s.strayed
          /\ t.rows = ARail!Shown(t) /\ t.rows \subseteq t.known
          /\ ARail!Elsewhere(t) = ARail!Elsewhere(s)
      BY <2>2, RailRendered DEF RailInv
    <2>4. ARail!Elsewhere(s) = ARail!Elsewhere(view)
      BY <2>2, RailSame
    <2> HIDE DEF t
    <2>z. DOMAIN view' = DOMAIN view
          /\ RailNamed(view') /\ RailDrawn(view') /\ RailTold(view')
          /\ RailPosted(view')
      BY <2>1, <2>2, <2>3, <2>4
         DEF RailInv, RailOk, RailNamed, RailDrawn, RailTold,
             RailPosted
    <2> QED
      BY <2>z DEF RailInv, RailShape, RailOk
  <1>16. ASSUME NEW q \in {ARail!None} \cup Things, ARail!RunEnds(q) PROVE RailInv'
    <2> DEFINE e == <<q, view.busy, FALSE>>
               S == IF q = 0 THEN view.srv ELSE view.srv \cup {e}
               c == IF q = 0 THEN view.cur ELSE q
               n == IF q = 0 THEN view.changes ELSE view.changes + 1
               s == [view EXCEPT !.busy = ARail!Idle, !.cur = c, !.changes = n,
                                 !.srv = S]
    <2>1. /\ view' = ARail!loadSessions(s, ARail!Stay)
          /\ q = 0 \/ (view.cur = 0 /\ ARail!Saved(view, q) = {})
      BY <1>16 DEF ARail!RunEnds, ARail!None
    <2>2. e[1] = q
      OBVIOUS
    <2> HIDE DEF e
    <2>3. q # 0 => \A f \in view.srv : f[1] # q
      BY <2>1 DEF ARail!Saved
    <2>4. RailUnique(S) /\ (\A f \in S : f[1] # 0) /\ view.srv \subseteq S
      BY <2>2, <2>3 DEF RailInv, RailOk, RailNamed, RailUnique
    <2> HIDE DEF S
    <2>5. /\ DOMAIN s = DOMAIN view /\ s.srv = S /\ s.known = view.known
          /\ s.cur = c /\ s.ws = view.ws /\ s.pins = view.pins
          /\ s.folded = view.folded /\ s.query = view.query
          /\ s.archived = view.archived /\ s.rows = view.rows
          /\ s.loads = view.loads /\ s.post = view.post
          /\ s.failed = view.failed /\ s.emptied = view.emptied
          /\ s.crossed = view.crossed /\ s.strayed = view.strayed
      <3> HIDE DEF c, n
      <3> QED BY DEF RailInv, RailShape
    <2> HIDE DEF s
    <2>6. RailNamed(s) /\ RailPosted(s)
      BY <2>4, <2>5 DEF RailInv, RailOk, RailNamed, RailWithin, RailPosted
    <2>7. RailDrawn(s)
      <3>1. ARail!Shown(s) = ARail!Shown(view)
        BY <2>5, RailSame
      <3>2. ~ARail!Elsewhere(view) => ~ARail!Elsewhere(s)
        <4>1. CASE q = 0
          BY <2>5, <4>1, RailSame
        <4>2. CASE q # 0
          <5>1. \A f \in view.known : f[1] # q
            BY <2>3, <4>2 DEF RailInv, RailOk, RailNamed, RailWithin
          <5> QED
            BY <2>5, <4>2, <5>1 DEF ARail!Elsewhere, ARail!currentSessionMeta
        <4> QED BY <4>1, <4>2
      <3> QED BY <2>5, <3>1, <3>2 DEF RailInv, RailOk, RailDrawn
    <2>z. DOMAIN view' = DOMAIN view
          /\ RailNamed(view') /\ RailDrawn(view') /\ RailTold(view')
          /\ RailPosted(view')
      BY <2>1, <2>5, <2>6, <2>7, RailLoads DEF RailInv
    <2> QED
      BY <2>z DEF RailInv, RailShape, RailOk
  <1>17. ASSUME NEW w \in ARail!Workspaces, ARail!setCurrentWorkspace(w) PROVE RailInv'
    <2> DEFINE s == [view EXCEPT !.ws = w]
               N == {e \in s.known : e[2] = w /\ (s.archived \/ ~e[3])}
               c == CHOOSE e \in N : TRUE
               no == FALSE
               k == [s EXCEPT !.cur = c[1], !.ws = c[2], !.strayed = no]
               r == ARail!renderSessionOptions(s)
               o == IF c[1] = s.cur THEN s ELSE IF s.busy # ARail!Idle THEN r
                    ELSE ARail!renderSessionOptions(k)
    <2>1. \/ ~ARail!Elsewhere(s) /\ view' = r
          \/ ARail!Elsewhere(s) /\ view' = ARail!Strays(s)
          \/ ARail!Elsewhere(s) /\ view' = ARail!Strays(o)
          \/ view' = ARail!newChat(s)
      BY <1>17 DEF ARail!setCurrentWorkspace, ARail!switchSession
    <2>2. /\ DOMAIN s = DOMAIN view /\ s.srv = view.srv /\ s.known = view.known
          /\ s.changes = view.changes /\ s.cur = view.cur /\ s.ws = w
          /\ s.busy = view.busy /\ s.pins = view.pins /\ s.folded = view.folded
          /\ s.query = view.query /\ s.archived = view.archived
          /\ s.rows = view.rows /\ s.loads = view.loads /\ s.post = view.post
          /\ s.failed = view.failed /\ s.emptied = view.emptied
          /\ s.crossed = view.crossed /\ s.strayed = view.strayed
      BY DEF RailInv, RailShape
    <2> HIDE DEF s, N, c, no
    <2>3. /\ DOMAIN k = DOMAIN view /\ k.srv = s.srv /\ k.known = s.known
          /\ k.changes = s.changes /\ k.busy = s.busy /\ k.pins = s.pins
          /\ k.folded = s.folded /\ k.query = s.query
          /\ k.archived = s.archived /\ k.rows = s.rows /\ k.loads = s.loads
          /\ k.post = s.post /\ k.failed = s.failed /\ k.emptied = s.emptied
          /\ k.crossed = s.crossed
      BY <2>2 DEF RailInv, RailShape
    <2> HIDE DEF k
    <2>4. /\ DOMAIN r = DOMAIN view /\ r.srv = s.srv /\ r.known = s.known
          /\ r.changes = s.changes /\ r.cur = s.cur /\ r.ws = s.ws
          /\ r.busy = s.busy /\ r.pins = s.pins /\ r.folded = s.folded
          /\ r.query = s.query /\ r.archived = s.archived /\ r.loads = s.loads
          /\ r.post = s.post /\ r.failed = s.failed /\ r.emptied = s.emptied
          /\ r.crossed = s.crossed /\ r.strayed = s.strayed
          /\ r.rows = ARail!Shown(r) /\ r.rows \subseteq r.known
          /\ ARail!Elsewhere(r) = ARail!Elsewhere(s)
      BY <2>2, RailRendered DEF RailInv
    <2> HIDE DEF r
    <2>5. /\ DOMAIN o = DOMAIN view /\ o.srv = s.srv /\ o.known = s.known
          /\ o.changes = s.changes /\ o.busy = s.busy /\ o.pins = s.pins
          /\ o.folded = s.folded /\ o.query = s.query
          /\ o.archived = s.archived /\ o.loads = s.loads /\ o.post = s.post
          /\ o.failed = s.failed /\ o.emptied = s.emptied
          /\ o.crossed = s.crossed
          /\ o.rows \subseteq o.known
          /\ o.rows = ARail!Shown(o) \/ o = s
      <3> DEFINE t == ARail!renderSessionOptions(k)
      <3>1. /\ DOMAIN t = DOMAIN view /\ t.srv = k.srv /\ t.known = k.known
            /\ t.changes = k.changes /\ t.cur = k.cur /\ t.ws = k.ws
            /\ t.busy = k.busy /\ t.pins = k.pins /\ t.folded = k.folded
            /\ t.query = k.query /\ t.archived = k.archived /\ t.loads = k.loads
            /\ t.post = k.post /\ t.failed = k.failed /\ t.emptied = k.emptied
            /\ t.crossed = k.crossed /\ t.strayed = k.strayed
            /\ t.rows = ARail!Shown(t) /\ t.rows \subseteq t.known
        BY <2>2, <2>3, RailRendered DEF RailInv
      <3>2. o = s \/ o = r \/ o = t
        OBVIOUS
      <3> HIDE DEF o, t
      <3>3. s.rows \subseteq s.known
        BY <2>2 DEF RailInv, RailOk, RailDrawn
      <3> QED BY <2>2, <2>3, <2>4, <3>1, <3>2, <3>3
    <2> HIDE DEF o
    <2>6. RailNamed(s) /\ s.rows \subseteq s.known /\ RailTold(s)
          /\ RailPosted(s)
      BY <2>2 DEF RailInv, RailOk, RailNamed, RailDrawn, RailTold,
             RailPosted
    <2>7. \A x : DOMAIN x = DOMAIN view =>
            LET t == ARail!Strays(x)
            IN /\ DOMAIN t = DOMAIN view /\ t.srv = x.srv /\ t.known = x.known
               /\ t.changes = x.changes /\ t.cur = x.cur /\ t.ws = x.ws
               /\ t.busy = x.busy /\ t.pins = x.pins /\ t.folded = x.folded
               /\ t.query = x.query /\ t.archived = x.archived /\ t.rows = x.rows
               /\ t.loads = x.loads /\ t.post = x.post /\ t.failed = x.failed
               /\ t.emptied = x.emptied /\ t.crossed = x.crossed
               /\ t.strayed = ARail!Elsewhere(x)
               /\ ARail!Shown(t) = ARail!Shown(x)
               /\ ARail!Elsewhere(t) = ARail!Elsewhere(x)
      <3> SUFFICES ASSUME NEW x, DOMAIN x = DOMAIN view
                   PROVE  LET t == ARail!Strays(x)
            IN /\ DOMAIN t = DOMAIN view /\ t.srv = x.srv /\ t.known = x.known
               /\ t.changes = x.changes /\ t.cur = x.cur /\ t.ws = x.ws
               /\ t.busy = x.busy /\ t.pins = x.pins /\ t.folded = x.folded
               /\ t.query = x.query /\ t.archived = x.archived /\ t.rows = x.rows
               /\ t.loads = x.loads /\ t.post = x.post /\ t.failed = x.failed
               /\ t.emptied = x.emptied /\ t.crossed = x.crossed
               /\ t.strayed = ARail!Elsewhere(x)
               /\ ARail!Shown(t) = ARail!Shown(x)
               /\ ARail!Elsewhere(t) = ARail!Elsewhere(x)
        OBVIOUS
      <3> DEFINE b == ARail!Elsewhere(x)
                 t == ARail!Strays(x)
      <3>1. t = [x EXCEPT !.strayed = b]
        BY DEF ARail!Strays
      <3> HIDE DEF b
      <3>2. /\ DOMAIN t = DOMAIN view /\ t.srv = x.srv /\ t.known = x.known
            /\ t.changes = x.changes /\ t.cur = x.cur /\ t.ws = x.ws
            /\ t.busy = x.busy /\ t.pins = x.pins /\ t.folded = x.folded
            /\ t.query = x.query /\ t.archived = x.archived /\ t.rows = x.rows
            /\ t.loads = x.loads /\ t.post = x.post /\ t.failed = x.failed
            /\ t.emptied = x.emptied /\ t.crossed = x.crossed /\ t.strayed = b
        BY <3>1 DEF RailInv, RailShape
      <3> HIDE DEF t
      <3>3. ARail!Shown(t) = ARail!Shown(x) /\ ARail!Elsewhere(t) = ARail!Elsewhere(x)
        BY <3>2, RailSame
      <3> QED BY <3>2, <3>3 DEF t, b
    <2>z. DOMAIN view' = DOMAIN view
          /\ RailNamed(view') /\ RailDrawn(view') /\ RailTold(view')
          /\ RailPosted(view')
      <3>1. CASE ~ARail!Elsewhere(s) /\ view' = r
        BY <2>2, <2>4, <2>6, <3>1 DEF RailNamed, RailDrawn, RailTold,
             RailPosted
      <3>2. CASE ARail!Elsewhere(s) /\ view' = ARail!Strays(s)
        BY <2>2, <2>6, <2>7, <3>2 DEF RailNamed, RailDrawn, RailTold,
             RailPosted
      <3>3. CASE ARail!Elsewhere(s) /\ view' = ARail!Strays(o)
        BY <2>2, <2>5, <2>6, <2>7, <3>3 DEF RailNamed, RailDrawn, RailTold,
             RailPosted
      <3>4. CASE view' = ARail!newChat(s)
        BY <2>2, <2>6, <3>4, RailNewChat DEF RailInv
      <3> QED BY <2>1, <3>1, <3>2, <3>3, <3>4
    <2> QED
      BY <2>z DEF RailInv, RailShape, RailOk
  <1>18. ASSUME NEW w \in ARail!Workspaces, ARail!sessionMove(w) PROVE RailInv'
    <2>2. /\ DOMAIN view' = DOMAIN view /\ view'.srv = view.srv
          /\ view'.known = view.known /\ view'.changes = view.changes
          /\ view'.cur = view.cur /\ view'.ws = view.ws
          /\ view'.busy = view.busy /\ view'.pins = view.pins
          /\ view'.folded = view.folded /\ view'.query = view.query
          /\ view'.archived = view.archived /\ view'.rows = view.rows
          /\ view'.loads = view.loads /\ view'.failed = view.failed
          /\ view'.emptied = view.emptied /\ view'.crossed = view.crossed
          /\ view'.strayed = view.strayed
      BY <1>18 DEF RailInv, RailShape, ARail!sessionMove
    <2>3. ARail!Shown(view') = ARail!Shown(view)
          /\ ARail!Elsewhere(view') = ARail!Elsewhere(view)
      BY <2>2, RailSame
    <2>4. ~view.post.took /\ "took" \in DOMAIN view'.post
      BY <1>18, RailNoPost DEF RailInv, RailShape, ARail!sessionMove

    <2>z. DOMAIN view' = DOMAIN view
          /\ RailNamed(view') /\ RailDrawn(view') /\ RailTold(view')
          /\ RailPosted(view')
      BY <2>2, <2>3, <2>4 DEF RailInv, RailOk, RailNamed, RailDrawn, RailTold,
             RailPosted
    <2> QED
      BY <2>z DEF RailInv, RailShape, RailOk
  <1> QED
    BY <1>1, <1>2, <1>3, <1>4, <1>5, <1>6, <1>7, <1>8, <1>9, <1>10, <1>11,
       <1>12, <1>13, <1>14, <1>15, <1>16, <1>17, <1>18 DEF ARail!Next

\* That gives the properties of ARail.
LEMMA RailHolds == RailInv => ARail!Truthful /\ ARail!InStep /\ ARail!Kept
  BY RailNoPost
     DEF RailInv, RailOk, RailDrawn, RailTold, ARail!Truthful, ARail!InStep,
         ARail!Kept

\* It holds from the first state on when the page is this one.
LEMMA RailStays ==
  /\ Init => (subject = "rail" => RailInv)
  /\ (subject = "rail" => RailInv) /\ [Next]_vars
       => (subject = "rail" => RailInv)'
  <1>1. Init => (subject = "rail" => RailInv)
    BY RailInit DEF Init
  <1>2. (subject = "rail" => RailInv) /\ [Next]_vars
          => (subject = "rail" => RailInv)'
    <2>1. ASSUME RailInv, view' = view PROVE RailInv'
      BY <2>1 DEF RailInv, RailShape, RailOk, RailNamed, RailDrawn, RailTold,
          RailPosted
    <2> QED BY <2>1, RailStep DEF Next, vars
  <1> QED BY <1>1, <1>2

-----------------------------------------------------------------------------
(* The editor of the config files.  A read that is fresh, and a save that  *)
(* was written and not since over, hold what the file does; so does what   *)
(* the editor takes for saved, unless answers crossed.                     *)

SysShape ==
  DOMAIN view = {"disk", "run", "file", "text", "saved", "ask", "loads",
                 "post", "crossed", "list", "lists", "form", "add", "cut",
                 "clicks"}
SysLoad ==
  [file : {1, 2}, read : BOOLEAN, text : SUBSET {1}, fresh : BOOLEAN]
SysPost ==
  [file : {0, 1, 2}, text : SUBSET {1}, done : BOOLEAN, fresh : BOOLEAN]
SysCall == [name : {0, 1}, done : BOOLEAN]
SysSorts(s) ==
  /\ s.disk \in [{1, 2} -> SUBSET {1}] /\ s.file \in {1, 2}
  /\ s.text \in SUBSET {1} /\ s.ask \in {0, 1, 2}
  /\ s.loads \in Seq(SysLoad) /\ s.post \in SysPost /\ s.form \in {0, 1}
  /\ s.add \in SysCall /\ s.cut \in SysCall
SysFresh(s) ==
  \A i \in DOMAIN s.loads :
    s.loads[i].read /\ s.loads[i].fresh
      => s.loads[i].text = s.disk[s.loads[i].file]
SysSave(s) ==
  /\ s.post.done /\ s.post.fresh => s.post.text = s.disk[s.post.file]
  /\ s.post.done => s.post.file # 0
  /\ s.post.file # 0 => s.post.file = s.file /\ s.ask = 0
SysSaved(s) == ~s.crossed => s.saved = s.disk[s.file]
SysAll(s) == SysSorts(s) /\ SysFresh(s) /\ SysSave(s) /\ SysSaved(s)
SysOk ==
  SysAll(view)
SysInv == SysShape /\ SysOk

\* A read, a save and a call are their fields, and what they are turned into.
LEMMA SysLoads ==
  /\ \A l \in SysLoad : /\ l.file \in {1, 2} /\ l.read \in BOOLEAN
                        /\ l.text \in SUBSET {1} /\ l.fresh \in BOOLEAN
  /\ \A f \in {1, 2} :
       ASettings!Out(f) \in SysLoad /\ ~ASettings!Out(f).read
  /\ \A l \in SysLoad, T \in SUBSET {1} :
       LET k == [[l EXCEPT !.read = TRUE] EXCEPT !.text = T]
       IN k \in SysLoad /\ k.text = T /\ k.file = l.file
  <1> DEFINE no == FALSE
             yes == TRUE
  <1>1. no \in BOOLEAN /\ yes \in BOOLEAN /\ ~no /\ yes
    OBVIOUS
  <1> HIDE DEF no, yes
  <1>2. \A l \in SysLoad : /\ l.file \in {1, 2} /\ l.read \in BOOLEAN
                           /\ l.text \in SUBSET {1} /\ l.fresh \in BOOLEAN
    BY DEF SysLoad
  <1>3. ASSUME NEW f \in {1, 2}
        PROVE  ASettings!Out(f) \in SysLoad /\ ~ASettings!Out(f).read
    <2> DEFINE n == [file |-> f, read |-> no, text |-> {}, fresh |-> yes]
    <2>1. n \in SysLoad /\ ~n.read
      BY <1>1 DEF SysLoad
    <2>2. ASettings!Out(f) = n
      BY DEF ASettings!Out, no, yes
    <2> HIDE DEF n
    <2> QED BY <2>1, <2>2
  <1>4. \A l \in SysLoad, T \in SUBSET {1} :
          LET k == [[l EXCEPT !.read = yes] EXCEPT !.text = T]
          IN k \in SysLoad /\ k.text = T /\ k.file = l.file
    BY <1>1 DEF SysLoad
  <1> QED BY <1>2, <1>3, <1>4, Zenon DEF no, yes

\* A load fresh or not is a load of the same file.
LEMMA SysOlder ==
  ASSUME NEW l \in SysLoad, NEW b \in BOOLEAN
  PROVE  LET k == [l EXCEPT !.fresh = b]
         IN /\ k \in SysLoad /\ k.text = l.text /\ k.file = l.file
            /\ (k.read <=> l.read) /\ (k.fresh <=> b)
  BY DEF SysLoad

\* What a save is, and none.
LEMMA SysPosts ==
  /\ \A p \in SysPost : /\ p.file \in {0, 1, 2} /\ p.text \in SUBSET {1}
                        /\ p.done \in BOOLEAN /\ p.fresh \in BOOLEAN
  /\ \A f \in {1, 2}, T \in SUBSET {1} :
       LET p == [file |-> f, text |-> T, done |-> FALSE, fresh |-> FALSE]
       IN p \in SysPost /\ p.file = f /\ ~p.done
  /\ /\ ASettings!NoPost \in SysPost /\ ASettings!NoPost.file = 0
     /\ ~ASettings!NoPost.done
  <1> DEFINE no == FALSE
  <1>1. no \in BOOLEAN /\ ~no
    OBVIOUS
  <1>2. ASettings!NoPost = [file |-> 0, text |-> {}, done |-> no, fresh |-> no]
    BY DEF ASettings!NoPost
  <1> HIDE DEF no
  <1>3. \A p \in SysPost : /\ p.file \in {0, 1, 2} /\ p.text \in SUBSET {1}
                           /\ p.done \in BOOLEAN /\ p.fresh \in BOOLEAN
    BY DEF SysPost
  <1>4. \A f \in {1, 2}, T \in SUBSET {1} :
          LET p == [file |-> f, text |-> T, done |-> no, fresh |-> no]
          IN p \in SysPost /\ p.file = f /\ ~p.done
    BY <1>1 DEF SysPost
  <1>5. /\ ASettings!NoPost \in SysPost /\ ASettings!NoPost.file = 0
        /\ ~ASettings!NoPost.done
    BY <1>1, <1>2 DEF SysPost
  <1> QED BY <1>3, <1>4, <1>5, Zenon DEF no

\* A save written or over is one of the same text.
LEMMA SysPostTurned ==
  ASSUME NEW p \in SysPost, NEW b \in BOOLEAN
  PROVE  /\ LET q == [p EXCEPT !.fresh = b]
            IN /\ q \in SysPost /\ q.file = p.file /\ q.text = p.text
               /\ (q.done <=> p.done) /\ (q.fresh <=> b)
         /\ LET q == [[p EXCEPT !.done = TRUE] EXCEPT !.fresh = TRUE]
            IN /\ q \in SysPost /\ q.file = p.file /\ q.text = p.text
  <1> DEFINE yes == TRUE
  <1>1. yes \in BOOLEAN
    OBVIOUS
  <1> HIDE DEF yes
  <1>2. LET q == [p EXCEPT !.fresh = b]
        IN /\ q \in SysPost /\ q.file = p.file /\ q.text = p.text
           /\ (q.done <=> p.done) /\ (q.fresh <=> b)
    BY DEF SysPost
  <1>3. LET q == [[p EXCEPT !.done = yes] EXCEPT !.fresh = yes]
        IN q \in SysPost /\ q.file = p.file /\ q.text = p.text
    BY <1>1 DEF SysPost
  <1> QED BY <1>2, <1>3 DEF yes

\* What a call is, and none.
LEMMA SysCalls ==
  /\ ASettings!NoCall \in SysCall
  /\ \A c \in SysCall : c.name \in {0, 1}
  /\ \A c \in SysCall, n \in {0, 1} : [c EXCEPT !.name = n] \in SysCall
  /\ \A c \in SysCall : [c EXCEPT !.done = TRUE] \in SysCall
  BY DEF SysCall, ASettings!NoCall

\* What the rest of the record holds does not matter.
LEMMA SysSame ==
  ASSUME NEW s, NEW t, SysAll(s),
         /\ TRUE /\ t.disk = s.disk /\ t.file = s.file
         /\ t.text = s.text /\ t.saved = s.saved /\ t.ask = s.ask
         /\ t.loads = s.loads /\ t.post = s.post /\ t.crossed = s.crossed
         /\ t.form = s.form /\ t.add = s.add /\ t.cut = s.cut
  PROVE  SysAll(t)
  BY DEF SysAll, SysSorts, SysFresh, SysSave, SysSaved

\* A click that changes no more than its count keeps the invariant.
LEMMA SysClicked ==
  ASSUME SysShape, NEW s, DOMAIN s = DOMAIN view, SysAll(s), ASettings!Clicks(s)
  PROVE  SysInv'
  <1> DEFINE n == s.clicks + 1
  <1>1. view' = [s EXCEPT !.clicks = n]
    BY DEF ASettings!Clicks
  <1> HIDE DEF n
  <1>2. /\ DOMAIN view' = DOMAIN view /\ view'.disk = s.disk
        /\ view'.run = s.run /\ view'.file = s.file /\ view'.text = s.text
        /\ view'.saved = s.saved /\ view'.ask = s.ask
        /\ view'.loads = s.loads /\ view'.post = s.post
        /\ view'.crossed = s.crossed /\ view'.list = s.list
        /\ view'.lists = s.lists /\ view'.form = s.form /\ view'.add = s.add
        /\ view'.cut = s.cut /\ view'.clicks = n
    BY <1>1 DEF SysShape
  <1>3. SysAll(view')
    BY <1>2, SysSame
  <1> QED BY <1>2, <1>3 DEF SysInv, SysShape, SysOk

\* Another read of a file.
LEMMA SysLoading ==
  ASSUME SysShape, NEW s, DOMAIN s = DOMAIN view, SysAll(s), NEW f \in {1, 2},
         s.post.file = 0
  PROVE  LET t == ASettings!load(s, f)
         IN DOMAIN t = DOMAIN view /\ SysAll(t)
  <1> DEFINE n == ASettings!Out(f)
             q == Append(s.loads, n)
             b == s.crossed \/ f # s.file
             t == [s EXCEPT !.file = f, !.ask = 0, !.loads = q, !.crossed = b]
  <1>1. ASettings!load(s, f) = t
    BY DEF ASettings!load
  <1>2. n \in SysLoad /\ ~n.read
    BY SysLoads
  <1> HIDE DEF n
  <1>3. /\ q \in Seq(SysLoad) /\ DOMAIN q = 1..(Len(s.loads) + 1)
        /\ q[Len(s.loads) + 1] = n /\ Len(s.loads) \in Nat
        /\ DOMAIN s.loads = 1..Len(s.loads)
        /\ \A i \in 1..Len(s.loads) : q[i] = s.loads[i]
    BY <1>2, ListAppended, ListOf DEF SysAll, SysSorts
  <1> HIDE DEF q
  <1>4. b <=> s.crossed \/ f # s.file
    OBVIOUS
  <1> HIDE DEF b
  <1>5. /\ DOMAIN t = DOMAIN view /\ t.disk = s.disk /\ t.run = s.run
        /\ t.file = f /\ t.text = s.text /\ t.saved = s.saved /\ t.ask = 0
        /\ t.loads = q /\ t.post = s.post /\ t.crossed = b /\ t.list = s.list
        /\ t.lists = s.lists /\ t.form = s.form /\ t.add = s.add
        /\ t.cut = s.cut /\ t.clicks = s.clicks
    BY DEF SysShape
  <1> HIDE DEF t
  <1>6. SysSorts(t)
    BY <1>3, <1>5 DEF SysAll, SysSorts
  <1>7. SysFresh(t)
    <2>1. \A i \in DOMAIN q :
            (i \in DOMAIN s.loads /\ q[i] = s.loads[i]) \/ ~q[i].read
      BY <1>2, <1>3
    <2> QED BY <1>5, <2>1 DEF SysAll, SysFresh
  <1>8. SysSave(t) /\ SysSaved(t)
    BY <1>4, <1>5 DEF SysAll, SysSave, SysSaved
  <1> QED BY <1>1, <1>5, <1>6, <1>7, <1>8 DEF SysAll

\* A file is written.
LEMMA SysWritten ==
  ASSUME SysInv, NEW f \in {1, 2}, NEW T \in SUBSET {1}
  PROVE  LET t == ASettings!Written(f, T)
         IN /\ DOMAIN t = DOMAIN view /\ t.disk = [view.disk EXCEPT ![f] = T]
            /\ t.run = view.run /\ t.file = view.file /\ t.text = view.text
            /\ t.saved = view.saved /\ t.ask = view.ask /\ t.list = view.list
            /\ t.lists = view.lists /\ t.form = view.form /\ t.add = view.add
            /\ t.cut = view.cut /\ t.clicks = view.clicks
            /\ t.post.file = view.post.file /\ t.post.text = view.post.text
            /\ (t.post.done <=> view.post.done)
            /\ SysAll(t) /\ (f = view.file => t.crossed)
  <1> DEFINE p == view.post
             e == p.fresh /\ p.file # f
             r == [p EXCEPT !.fresh = e]
             d == [view.disk EXCEPT ![f] = T]
             q == [i \in DOMAIN view.loads |->
                     [view.loads[i] EXCEPT
                        !.fresh = /\ view.loads[i].fresh
                                  /\ ~(/\ view.loads[i].read
                                       /\ view.loads[i].file = f)]]
             c == view.crossed \/ f = view.file
             t == ASettings!Written(f, T)
  <1>1. t = [view EXCEPT !.disk = d, !.loads = q, !.post = r, !.crossed = c]
    <2> HIDE DEF q
    <2>1. t = [view EXCEPT !.disk[f] = T, !.loads = q, !.post.fresh = e,
                           !.crossed = view.crossed \/ f = view.file]
      BY DEF ASettings!Written, q
    <2> QED BY <2>1 DEF SysInv, SysShape
  <1>2. /\ r \in SysPost /\ r.file = p.file /\ r.text = p.text
        /\ (r.done <=> p.done) /\ (r.fresh <=> e)
    <2>1. p \in SysPost /\ e \in BOOLEAN
      BY DEF SysInv, SysOk, SysAll, SysSorts
    <2> HIDE DEF p, e
    <2> QED BY <2>1, SysPostTurned
  <1>3. /\ q \in Seq(SysLoad)
        /\ DOMAIN q = DOMAIN view.loads
        /\ \A i \in DOMAIN q :
             /\ q[i].text = view.loads[i].text
             /\ q[i].file = view.loads[i].file /\ q[i].file \in {1, 2}
             /\ q[i].read /\ q[i].fresh
                  => /\ view.loads[i].read /\ view.loads[i].fresh
                     /\ q[i].file # f
    <2>1. view.loads \in Seq(SysLoad)
      BY DEF SysInv, SysOk, SysAll, SysSorts
    <2>2. ASSUME NEW l \in SysLoad
          PROVE  LET k == [l EXCEPT !.fresh = l.fresh /\ ~(l.read /\ l.file = f)]
                 IN /\ k \in SysLoad /\ k.text = l.text /\ k.file = l.file
                    /\ k.file \in {1, 2}
                    /\ k.read /\ k.fresh => l.read /\ l.fresh /\ k.file # f
      <3> DEFINE b == l.fresh /\ ~(l.read /\ l.file = f)
      <3>1. b \in BOOLEAN /\ (b <=> l.fresh /\ ~(l.read /\ l.file = f))
        OBVIOUS
      <3> HIDE DEF b
      <3>2. LET k == [l EXCEPT !.fresh = b]
            IN /\ k \in SysLoad /\ k.text = l.text /\ k.file = l.file
               /\ (k.read <=> l.read) /\ (k.fresh <=> b)
        BY <3>1, SysOlder
      <3>3. l.file \in {1, 2}
        BY SysLoads
      <3> QED BY <3>1, <3>2, <3>3 DEF b
    <2>b. \A i \in DOMAIN view.loads :
            LET l == view.loads[i]
            IN /\ l \in SysLoad
               /\ q[i] = [l EXCEPT !.fresh = l.fresh /\ ~(l.read /\ l.file = f)]
      BY <2>1, ListOf
    <2>3. ASSUME NEW i \in DOMAIN view.loads
          PROVE
             /\ q[i] \in SysLoad /\ q[i].text = view.loads[i].text
             /\ q[i].file = view.loads[i].file /\ q[i].file \in {1, 2}
             /\ q[i].read /\ q[i].fresh
                  => /\ view.loads[i].read /\ view.loads[i].fresh
                     /\ q[i].file # f
      <3> DEFINE l == view.loads[i]
                 k == [l EXCEPT !.fresh = l.fresh /\ ~(l.read /\ l.file = f)]
      <3>1. l \in SysLoad /\ q[i] = k
        BY <2>b
      <3> HIDE DEF q, l
      <3>2. /\ k \in SysLoad /\ k.text = l.text /\ k.file = l.file
            /\ k.file \in {1, 2}
            /\ k.read /\ k.fresh => l.read /\ l.fresh /\ k.file # f
        BY <2>2, <3>1
      <3> HIDE DEF k
      <3> QED BY <3>1, <3>2 DEF l
    <2>4. q = [i \in DOMAIN view.loads |-> q[i]] /\ DOMAIN q = DOMAIN view.loads
      OBVIOUS
    <2> HIDE DEF q
    <2> QED BY <2>1, <2>3, <2>4, ListMapped
  <1>4. /\ d \in [{1, 2} -> SUBSET {1}] /\ d[f] = T
        /\ \A g \in {1, 2} : g # f => d[g] = view.disk[g]
    BY DEF SysInv, SysOk, SysAll, SysSorts
  <1>5. c <=> view.crossed \/ f = view.file
    OBVIOUS
  <1> HIDE DEF c, q, r
  <1>6. /\ DOMAIN t = DOMAIN view /\ t.disk = d /\ t.run = view.run
        /\ t.file = view.file /\ t.text = view.text /\ t.saved = view.saved
        /\ t.ask = view.ask /\ t.loads = q /\ t.post = r /\ t.crossed = c
        /\ t.list = view.list /\ t.lists = view.lists /\ t.form = view.form
        /\ t.add = view.add /\ t.cut = view.cut /\ t.clicks = view.clicks
    BY <1>1 DEF SysInv, SysShape
  <1> HIDE DEF t
  <1>7. SysSorts(t)
    BY <1>2, <1>3, <1>4, <1>6 DEF SysInv, SysOk, SysAll, SysSorts
  <1> HIDE DEF d
  <1>8. SysFresh(t)
    BY <1>3, <1>4, <1>6 DEF SysInv, SysOk, SysAll, SysFresh
  <1>9. SysSave(t)
    <2>1. p.file \in {0, 1, 2}
      BY SysPosts DEF SysInv, SysOk, SysAll, SysSorts
    <2>2. /\ p.done /\ p.fresh => p.text = view.disk[p.file]
          /\ p.done => p.file # 0
          /\ p.file # 0 => p.file = view.file /\ view.ask = 0
      BY DEF SysInv, SysOk, SysAll, SysSave
    <2> HIDE DEF p
    <2>3. r.done /\ r.fresh => r.text = d[r.file]
      BY <1>2, <1>4, <2>1, <2>2
    <2> QED BY <1>2, <1>6, <2>2, <2>3 DEF SysSave
  <1>10. SysSaved(t)
    BY <1>4, <1>5, <1>6 DEF SysInv, SysOk, SysAll, SysSorts, SysSaved
  <1> QED BY <1>2, <1>5, <1>6, <1>7, <1>8, <1>9, <1>10 DEF SysAll, d, t

\* Another reading of the list of servers.
LEMMA SysListing ==
  ASSUME SysShape, NEW s, DOMAIN s = DOMAIN view, SysAll(s)
  PROVE  LET t == ASettings!listing(s)
         IN DOMAIN t = DOMAIN view /\ SysAll(t)
  <1> DEFINE q == Append(s.lists, [read |-> FALSE, at |-> {}])
             t == [s EXCEPT !.lists = q]
  <1>1. ASettings!listing(s) = t
    BY DEF ASettings!listing
  <1> HIDE DEF q
  <1>2. /\ DOMAIN t = DOMAIN view /\ t.disk = s.disk /\ t.run = s.run
        /\ t.file = s.file /\ t.text = s.text /\ t.saved = s.saved
        /\ t.ask = s.ask /\ t.loads = s.loads /\ t.post = s.post
        /\ t.crossed = s.crossed /\ t.list = s.list /\ t.lists = q
        /\ t.form = s.form /\ t.add = s.add /\ t.cut = s.cut
        /\ t.clicks = s.clicks
    BY DEF SysShape
  <1> HIDE DEF t
  <1>3. SysAll(t)
    BY <1>2, SysSame
  <1> QED BY <1>1, <1>2, <1>3

\* The number no file and no server has.
LEMMA SysFiles == ASettings!TomlFiles = {1, 2}
  BY DEF ASettings!TomlFiles, ASettings!Local, ASettings!Shared

\* The config editor at the start.
LEMMA SysInit == ASettings!Init => SysInv
  <1> SUFFICES ASSUME ASettings!Init PROVE SysInv
    OBVIOUS
  <1> DEFINE n == ASettings!Out(1)
             q == <<n>>
             p == ASettings!NoPost
             c == ASettings!NoCall
             yes == TRUE
             e == <<[read |-> FALSE, at |-> {}]>>
  <1>1. n \in SysLoad /\ ~n.read /\ yes
    BY SysLoads
  <1>2. PICK d \in [{1, 2} -> SUBSET {1}] :
          view = [disk |-> d, run |-> d[1] \cup d[2],
                  file |-> 1, text |-> {}, saved |-> {}, ask |-> 0,
                  loads |-> q, post |-> p, crossed |-> yes,
                  list |-> {}, lists |-> e,
                  form |-> 0, add |-> c, cut |-> c, clicks |-> 0]
    BY DEF ASettings!Init, ASettings!TomlFiles, ASettings!Local, ASettings!Shared
  <1> HIDE DEF n, yes, e
  <1>3. q \in Seq(SysLoad) /\ DOMAIN q = {1} /\ q[1] = n
    BY <1>1
  <1>4. p \in SysPost /\ p.file = 0 /\ ~p.done /\ c \in SysCall
    BY SysPosts, SysCalls
  <1> HIDE DEF q, p, c
  <1>5. /\ SysShape /\ view.disk = d /\ view.file = 1 /\ view.text = {}
        /\ view.ask = 0 /\ view.loads = q /\ view.post = p
        /\ view.crossed = yes /\ view.form = 0 /\ view.add = c /\ view.cut = c
    BY <1>2 DEF SysShape
  <1>6. SysSorts(view)
    BY <1>3, <1>4, <1>5 DEF SysSorts
  <1> QED
    BY <1>1, <1>3, <1>4, <1>5, <1>6
       DEF SysInv, SysOk, SysAll, SysFresh, SysSave, SysSaved

\* Every step of it keeps what is said of it.
LEMMA SysStep == ASSUME SysInv, ASettings!Next PROVE SysInv'
  <1>1. CASE ASettings!save
    <2> DEFINE p == [file |-> view.file, text |-> view.text, done |-> FALSE,
                     fresh |-> FALSE]
               s == [view EXCEPT !.post = p]
    <2>a. ASettings!Clicks(s)
      BY <1>1 DEF ASettings!save, ASettings!Clicks
    <2>c. p \in SysPost /\ p.file = view.file /\ ~p.done /\ view.ask = 0
      BY <1>1, SysPosts DEF SysInv, SysOk, SysAll, SysSorts, ASettings!save, ASettings!Clicks
    <2> HIDE DEF p
    <2>b. /\ DOMAIN s = DOMAIN view /\ s.disk = view.disk /\ s.run = view.run
          /\ s.file = view.file /\ s.text = view.text /\ s.saved = view.saved
          /\ s.ask = view.ask /\ s.loads = view.loads /\ s.post = p
          /\ s.crossed = view.crossed /\ s.list = view.list
          /\ s.lists = view.lists /\ s.form = view.form /\ s.add = view.add
          /\ s.cut = view.cut /\ s.clicks = view.clicks
      BY DEF SysInv, SysShape
    <2> HIDE DEF s
    <2>z. SysAll(s)
      BY <2>a, <2>b, <2>c
         DEF SysInv, SysOk, SysAll, SysSorts, SysFresh, SysSave, SysSaved
    <2> QED BY <2>a, <2>b, <2>z, SysClicked DEF SysInv
  <1>2. CASE ASettings!Saves
    <2> DEFINE p == view.post
               w == ASettings!Written(p.file, p.text)
               n == [[w.post EXCEPT !.done = TRUE] EXCEPT !.fresh = TRUE]
    <2>a. /\ view' = [[w EXCEPT !.post.done = TRUE] EXCEPT !.post.fresh = TRUE]
          /\ p.file # 0 /\ ~p.done
      BY <1>2 DEF ASettings!Saves
    <2>b. p.file \in {1, 2} /\ p.text \in SUBSET {1}
      BY <2>a, SysPosts DEF SysInv, SysOk, SysAll, SysSorts
    <2>c. /\ DOMAIN w = DOMAIN view
          /\ w.disk = [view.disk EXCEPT ![p.file] = p.text] /\ w.run = view.run
          /\ w.file = view.file /\ w.text = view.text /\ w.saved = view.saved
          /\ w.ask = view.ask /\ w.list = view.list /\ w.lists = view.lists
          /\ w.form = view.form /\ w.add = view.add /\ w.cut = view.cut
          /\ w.clicks = view.clicks
          /\ w.post.file = p.file /\ w.post.text = p.text
          /\ SysAll(w)
      BY <2>b, SysWritten
    <2> HIDE DEF w
    <2>d. /\ DOMAIN view' = DOMAIN view /\ view'.disk = w.disk
          /\ view'.run = w.run /\ view'.file = w.file /\ view'.text = w.text
          /\ view'.saved = w.saved /\ view'.ask = w.ask
          /\ view'.loads = w.loads /\ view'.post = n
          /\ view'.crossed = w.crossed /\ view'.list = w.list
          /\ view'.lists = w.lists /\ view'.form = w.form /\ view'.add = w.add
          /\ view'.cut = w.cut /\ view'.clicks = w.clicks
      BY <2>a, <2>c DEF SysInv, SysShape
    <2>e. n \in SysPost /\ n.file = p.file /\ n.text = p.text
      BY <2>c, SysPostTurned DEF SysAll, SysSorts
    <2> HIDE DEF n
    <2>f. view.disk \in [{1, 2} -> SUBSET {1}] /\ p.file = view.file /\ view.ask = 0
      BY <2>a DEF SysInv, SysOk, SysAll, SysSorts, SysSave
    <2>1. SysSorts(view') /\ SysFresh(view') /\ SysSaved(view')
      BY <2>c, <2>d, <2>e DEF SysAll, SysSorts, SysFresh, SysSaved
    <2>2. n.text = view'.disk[n.file]
      BY <2>b, <2>c, <2>d, <2>e, <2>f
    <2>3. SysSave(view')
      BY <2>a, <2>c, <2>d, <2>e, <2>f, <2>2 DEF SysSave
    <2> QED BY <2>c, <2>d, <2>1, <2>3 DEF SysInv, SysShape, SysOk, SysAll
  <1>3. CASE ASettings!SaveRead
    <2> DEFINE n == ASettings!NoPost
               b == ~view.post.fresh
    <2>a. view' = [view EXCEPT !.saved = view.post.text, !.post = n, !.crossed = b]
          /\ view.post.done
      BY <1>3 DEF ASettings!SaveRead
    <2>b. (b <=> ~view.post.fresh) /\ n \in SysPost /\ n.file = 0 /\ ~n.done
      BY SysPosts
    <2> HIDE DEF n, b
    <2>c. /\ DOMAIN view' = DOMAIN view /\ view'.disk = view.disk
          /\ view'.run = view.run /\ view'.file = view.file
          /\ view'.text = view.text /\ view'.saved = view.post.text
          /\ view'.ask = view.ask /\ view'.loads = view.loads /\ view'.post = n
          /\ view'.crossed = b /\ view'.list = view.list
          /\ view'.lists = view.lists /\ view'.form = view.form
          /\ view'.add = view.add /\ view'.cut = view.cut
          /\ view'.clicks = view.clicks
      BY <2>a DEF SysInv, SysShape
    <2>d. view.post.fresh => view.post.text = view.disk[view.file]
      BY <2>a DEF SysInv, SysOk, SysAll, SysSave
    <2>1. SysSorts(view') /\ SysFresh(view')
      BY <2>b, <2>c DEF SysInv, SysOk, SysAll, SysSorts, SysFresh
    <2>2. SysSave(view') /\ SysSaved(view')
      BY <2>b, <2>c, <2>d DEF SysSave, SysSaved
    <2> QED BY <2>c, <2>1, <2>2 DEF SysInv, SysShape, SysOk, SysAll
  <1>4. CASE ASettings!SaveFails
    <2> DEFINE n == ASettings!NoPost
    <2>a. view' = [view EXCEPT !.post = n]
      BY <1>4 DEF ASettings!SaveFails
    <2>b. n \in SysPost /\ n.file = 0 /\ ~n.done
      BY SysPosts
    <2> HIDE DEF n
    <2>c. /\ DOMAIN view' = DOMAIN view /\ view'.disk = view.disk
          /\ view'.run = view.run /\ view'.file = view.file
          /\ view'.text = view.text /\ view'.saved = view.saved
          /\ view'.ask = view.ask /\ view'.loads = view.loads /\ view'.post = n
          /\ view'.crossed = view.crossed /\ view'.list = view.list
          /\ view'.lists = view.lists /\ view'.form = view.form
          /\ view'.add = view.add /\ view'.cut = view.cut
          /\ view'.clicks = view.clicks
      BY <2>a DEF SysInv, SysShape
    <2>1. SysAll(view')
      BY <2>b, <2>c DEF SysInv, SysOk, SysAll, SysSorts, SysFresh, SysSave, SysSaved
    <2> QED BY <2>c, <2>1 DEF SysInv, SysShape, SysOk
  <1>5. CASE ASettings!Refresh
    <2> DEFINE s == ASettings!listing(view)
    <2>a. ASettings!Clicks(s)
      BY <1>5 DEF ASettings!Refresh
    <2>z. DOMAIN s = DOMAIN view /\ SysAll(s)
      BY SysListing DEF SysInv, SysOk
    <2> HIDE DEF s
    <2> QED BY <2>a, <2>z, SysClicked DEF SysInv
  <1>6. CASE ASettings!Restart
    <2> DEFINE q == view.disk[ASettings!Local] \cup view.disk[ASettings!Shared]
    <2>a. view' = [view EXCEPT !.run = q]
      BY <1>6 DEF ASettings!Restart
    <2> HIDE DEF q
    <2>b. /\ DOMAIN view' = DOMAIN view /\ view'.disk = view.disk
          /\ view'.run = q /\ view'.file = view.file /\ view'.text = view.text
          /\ view'.saved = view.saved /\ view'.ask = view.ask
          /\ view'.loads = view.loads /\ view'.post = view.post
          /\ view'.crossed = view.crossed /\ view'.list = view.list
          /\ view'.lists = view.lists /\ view'.form = view.form
          /\ view'.add = view.add /\ view'.cut = view.cut
          /\ view'.clicks = view.clicks
      BY <2>a DEF SysInv, SysShape
    <2>c. SysAll(view')
      BY <2>b, SysSame DEF SysInv, SysOk
    <2> QED BY <2>b, <2>c DEF SysInv, SysShape, SysOk
  <1>7. CASE ASettings!Close
    <2> DEFINE s == [view EXCEPT !.form = 0]
    <2>a. ASettings!Clicks(s)
      BY <1>7 DEF ASettings!Close, ASettings!Clicks
    <2>b. /\ DOMAIN s = DOMAIN view /\ s.disk = view.disk /\ s.run = view.run
          /\ s.file = view.file /\ s.text = view.text /\ s.saved = view.saved
          /\ s.ask = view.ask /\ s.loads = view.loads /\ s.post = view.post
          /\ s.crossed = view.crossed /\ s.list = view.list
          /\ s.lists = view.lists /\ s.form = 0 /\ s.add = view.add
          /\ s.cut = view.cut /\ s.clicks = view.clicks
      BY DEF SysInv, SysShape
    <2> HIDE DEF s
    <2>z. SysAll(s)
      BY <2>a, <2>b, SysPosts
         DEF SysInv, SysOk, SysAll, SysSorts, SysFresh, SysSave, SysSaved
    <2> QED BY <2>a, <2>b, <2>z, SysClicked DEF SysInv
  <1>8. CASE ASettings!saveServer
    <2> DEFINE c == [view.add EXCEPT !.name = view.form]
               s == [view EXCEPT !.add = c]
    <2>a. ASettings!Clicks(s)
      <3> DEFINE r == [view EXCEPT !.add.name = view.form]
      <3>1. ASettings!Clicks(r)
        BY <1>8 DEF ASettings!saveServer
      <3>2. r = s
        BY DEF SysInv, SysShape
      <3> HIDE DEF r, s
      <3> QED BY <3>1, <3>2
    <2>c. c \in SysCall
      BY SysCalls DEF SysInv, SysOk, SysAll, SysSorts
    <2> HIDE DEF c
    <2>b. /\ DOMAIN s = DOMAIN view /\ s.disk = view.disk /\ s.run = view.run
          /\ s.file = view.file /\ s.text = view.text /\ s.saved = view.saved
          /\ s.ask = view.ask /\ s.loads = view.loads /\ s.post = view.post
          /\ s.crossed = view.crossed /\ s.list = view.list
          /\ s.lists = view.lists /\ s.form = view.form /\ s.add = c
          /\ s.cut = view.cut /\ s.clicks = view.clicks
      BY DEF SysInv, SysShape
    <2> HIDE DEF s
    <2>z. SysAll(s)
      BY <2>a, <2>b, <2>c
         DEF SysInv, SysOk, SysAll, SysSorts, SysFresh, SysSave, SysSaved
    <2> QED BY <2>a, <2>b, <2>z, SysClicked DEF SysInv
  <1>9. CASE ASettings!removeServer
    <2> DEFINE c == [view.cut EXCEPT !.name = view.form]
               s == [view EXCEPT !.cut = c]
    <2>a. ASettings!Clicks(s)
      <3> DEFINE r == [view EXCEPT !.cut.name = view.form]
      <3>1. ASettings!Clicks(r)
        BY <1>9 DEF ASettings!removeServer
      <3>2. r = s
        BY DEF SysInv, SysShape
      <3> HIDE DEF r, s
      <3> QED BY <3>1, <3>2
    <2>c. c \in SysCall
      BY SysCalls DEF SysInv, SysOk, SysAll, SysSorts
    <2> HIDE DEF c
    <2>b. /\ DOMAIN s = DOMAIN view /\ s.disk = view.disk /\ s.run = view.run
          /\ s.file = view.file /\ s.text = view.text /\ s.saved = view.saved
          /\ s.ask = view.ask /\ s.loads = view.loads /\ s.post = view.post
          /\ s.crossed = view.crossed /\ s.list = view.list
          /\ s.lists = view.lists /\ s.form = view.form /\ s.add = view.add
          /\ s.cut = c /\ s.clicks = view.clicks
      BY DEF SysInv, SysShape
    <2> HIDE DEF s
    <2>z. SysAll(s)
      BY <2>a, <2>b, <2>c
         DEF SysInv, SysOk, SysAll, SysSorts, SysFresh, SysSave, SysSaved
    <2> QED BY <2>a, <2>b, <2>z, SysClicked DEF SysInv
  <1>10. CASE ASettings!Adds
    <2> DEFINE T == view.disk[1] \cup {view.add.name}
               w == ASettings!Written(1, T)
               c == [w.add EXCEPT !.done = TRUE]
    <2>a. /\ view' = [w EXCEPT !.add.done = TRUE]
          /\ view.add.name # 0
      BY <1>10 DEF ASettings!Adds, ASettings!Local
    <2>b. T \in SUBSET {1}
      BY <2>a, SysCalls DEF SysInv, SysOk, SysAll, SysSorts
    <2> HIDE DEF T
    <2>c. /\ DOMAIN w = DOMAIN view /\ SysAll(w)
      BY <2>b, SysWritten
    <2> HIDE DEF w
    <2>d. /\ DOMAIN view' = DOMAIN view /\ view'.disk = w.disk
          /\ view'.run = w.run /\ view'.file = w.file /\ view'.text = w.text
          /\ view'.saved = w.saved /\ view'.ask = w.ask
          /\ view'.loads = w.loads /\ view'.post = w.post
          /\ view'.crossed = w.crossed /\ view'.list = w.list
          /\ view'.lists = w.lists /\ view'.form = w.form /\ view'.add = c
          /\ view'.cut = w.cut /\ view'.clicks = w.clicks
      BY <2>a, <2>c DEF SysInv, SysShape
    <2>e. c \in SysCall
      BY <2>c, SysCalls DEF SysAll, SysSorts
    <2> HIDE DEF c
    <2>1. SysAll(view')
      BY <2>c, <2>d, <2>e DEF SysAll, SysSorts, SysFresh, SysSave, SysSaved
    <2> QED BY <2>c, <2>d, <2>1 DEF SysInv, SysShape, SysOk
  <1>11. CASE ASettings!Cuts
    <2> DEFINE T == view.disk[1] \ {view.cut.name}
               w == ASettings!Written(1, T)
               c == [w.cut EXCEPT !.done = TRUE]
    <2>a. /\ view' = [w EXCEPT !.cut.done = TRUE]
          /\ view.cut.name # 0
      BY <1>11 DEF ASettings!Cuts, ASettings!Local
    <2>b. T \in SUBSET {1}
      BY <2>a, SysCalls DEF SysInv, SysOk, SysAll, SysSorts
    <2> HIDE DEF T
    <2>c. /\ DOMAIN w = DOMAIN view /\ SysAll(w)
      BY <2>b, SysWritten
    <2> HIDE DEF w
    <2>d. /\ DOMAIN view' = DOMAIN view /\ view'.disk = w.disk
          /\ view'.run = w.run /\ view'.file = w.file /\ view'.text = w.text
          /\ view'.saved = w.saved /\ view'.ask = w.ask
          /\ view'.loads = w.loads /\ view'.post = w.post
          /\ view'.crossed = w.crossed /\ view'.list = w.list
          /\ view'.lists = w.lists /\ view'.form = w.form /\ view'.add = w.add
          /\ view'.cut = c /\ view'.clicks = w.clicks
      BY <2>a, <2>c DEF SysInv, SysShape
    <2>e. c \in SysCall
      BY <2>c, SysCalls DEF SysAll, SysSorts
    <2> HIDE DEF c
    <2>1. SysAll(view')
      BY <2>c, <2>d, <2>e DEF SysAll, SysSorts, SysFresh, SysSave, SysSaved
    <2> QED BY <2>c, <2>d, <2>1 DEF SysInv, SysShape, SysOk
  <1>12. CASE ASettings!AddRead
    <2> DEFINE n == ASettings!NoCall
               s == [view EXCEPT !.add = n]
               t == ASettings!listing(s)
    <2>a. view' = t
      BY <1>12 DEF ASettings!AddRead
    <2>b. n \in SysCall
      BY SysCalls
    <2> HIDE DEF n
    <2>c. /\ DOMAIN s = DOMAIN view /\ s.disk = view.disk /\ s.run = view.run
          /\ s.file = view.file /\ s.text = view.text /\ s.saved = view.saved
          /\ s.ask = view.ask /\ s.loads = view.loads /\ s.post = view.post
          /\ s.crossed = view.crossed /\ s.list = view.list
          /\ s.lists = view.lists /\ s.form = view.form /\ s.add = n
          /\ s.cut = view.cut /\ s.clicks = view.clicks
      BY DEF SysInv, SysShape
    <2> HIDE DEF s
    <2>d. SysAll(s)
      BY <2>b, <2>c DEF SysInv, SysOk, SysAll, SysSorts, SysFresh, SysSave, SysSaved
    <2>z. DOMAIN t = DOMAIN view /\ SysAll(t)
      BY <2>c, <2>d, SysListing DEF SysInv
    <2> HIDE DEF t
    <2> QED BY <2>a, <2>z DEF SysInv, SysShape, SysOk
  <1>13. CASE ASettings!CutRead
    <2> DEFINE n == ASettings!NoCall
               s == [view EXCEPT !.cut = n, !.form = 0]
               t == ASettings!listing(s)
    <2>a. view' = t
      BY <1>13 DEF ASettings!CutRead
    <2>b. n \in SysCall
      BY SysCalls
    <2> HIDE DEF n
    <2>c. /\ DOMAIN s = DOMAIN view /\ s.disk = view.disk /\ s.run = view.run
          /\ s.file = view.file /\ s.text = view.text /\ s.saved = view.saved
          /\ s.ask = view.ask /\ s.loads = view.loads /\ s.post = view.post
          /\ s.crossed = view.crossed /\ s.list = view.list
          /\ s.lists = view.lists /\ s.form = 0 /\ s.add = view.add
          /\ s.cut = n /\ s.clicks = view.clicks
      BY DEF SysInv, SysShape
    <2> HIDE DEF s
    <2>d. SysAll(s)
      BY <2>b, <2>c DEF SysInv, SysOk, SysAll, SysSorts, SysFresh, SysSave, SysSaved
    <2>z. DOMAIN t = DOMAIN view /\ SysAll(t)
      BY <2>c, <2>d, SysListing DEF SysInv
    <2> HIDE DEF t
    <2> QED BY <2>a, <2>z DEF SysInv, SysShape, SysOk
  <1>14. CASE ASettings!CallFails
    <2> DEFINE n == ASettings!NoCall
               s == [view EXCEPT !.add = n]
               t == [view EXCEPT !.cut = n]
    <2>a. view' = s \/ view' = t
      BY <1>14 DEF ASettings!CallFails
    <2>b. n \in SysCall
      BY SysCalls
    <2> HIDE DEF n
    <2>c. /\ DOMAIN s = DOMAIN view /\ s.disk = view.disk /\ s.run = view.run
          /\ s.file = view.file /\ s.text = view.text /\ s.saved = view.saved
          /\ s.ask = view.ask /\ s.loads = view.loads /\ s.post = view.post
          /\ s.crossed = view.crossed /\ s.list = view.list
          /\ s.lists = view.lists /\ s.form = view.form /\ s.add = n
          /\ s.cut = view.cut /\ s.clicks = view.clicks
      BY DEF SysInv, SysShape
    <2>d. /\ DOMAIN t = DOMAIN view /\ t.disk = view.disk /\ t.run = view.run
          /\ t.file = view.file /\ t.text = view.text /\ t.saved = view.saved
          /\ t.ask = view.ask /\ t.loads = view.loads /\ t.post = view.post
          /\ t.crossed = view.crossed /\ t.list = view.list
          /\ t.lists = view.lists /\ t.form = view.form /\ t.add = view.add
          /\ t.cut = n /\ t.clicks = view.clicks
      BY DEF SysInv, SysShape
    <2> HIDE DEF s, t
    <2>e. SysAll(s)
      BY <2>b, <2>c DEF SysInv, SysOk, SysAll, SysSorts, SysFresh, SysSave, SysSaved
    <2>f. SysAll(t)
      BY <2>b, <2>d DEF SysInv, SysOk, SysAll, SysSorts, SysFresh, SysSave, SysSaved
    <2> QED BY <2>a, <2>c, <2>d, <2>e, <2>f DEF SysInv, SysShape, SysOk
  <1>15. ASSUME NEW f \in ASettings!TomlFiles, ASettings!Choose(f) PROVE SysInv'
    <2> DEFINE a == [view EXCEPT !.ask = f]
               l == ASettings!load(view, f)
               s == IF ASettings!isDirty THEN a ELSE l
    <2>a. ASettings!Clicks(s) /\ view.post.file = 0
      BY <1>15 DEF ASettings!Choose
    <2>b. f \in {1, 2}
      BY SysFiles
    <2>c. DOMAIN l = DOMAIN view /\ SysAll(l)
      BY <2>a, <2>b, SysLoading DEF SysInv, SysOk
    <2> HIDE DEF l
    <2>d. /\ DOMAIN a = DOMAIN view /\ a.disk = view.disk /\ a.run = view.run
          /\ a.file = view.file /\ a.text = view.text /\ a.saved = view.saved
          /\ a.ask = f /\ a.loads = view.loads /\ a.post = view.post
          /\ a.crossed = view.crossed /\ a.list = view.list
          /\ a.lists = view.lists /\ a.form = view.form /\ a.add = view.add
          /\ a.cut = view.cut /\ a.clicks = view.clicks
      BY DEF SysInv, SysShape
    <2> HIDE DEF a
    <2>e. SysSorts(a) /\ SysSave(a)
      BY <2>a, <2>b, <2>d DEF SysInv, SysOk, SysAll, SysSorts, SysSave
    <2>f. SysFresh(a) /\ SysSaved(a)
      BY <2>d DEF SysInv, SysOk, SysAll, SysFresh, SysSaved
    <2>z. DOMAIN s = DOMAIN view /\ SysAll(s)
      BY <2>c, <2>d, <2>e, <2>f DEF SysAll
    <2> HIDE DEF s
    <2> QED BY <2>a, <2>z, SysClicked DEF SysInv
  <1>16. ASSUME NEW yes \in BOOLEAN, ASettings!confirmDiscard(yes) PROVE SysInv'
    <2> DEFINE a == [view EXCEPT !.ask = 0]
               l == ASettings!load(view, view.ask)
    <2>a. /\ view' = IF yes THEN l ELSE a
          /\ view.ask # 0
      BY <1>16 DEF ASettings!confirmDiscard
    <2>b. view.ask \in {1, 2} /\ view.post.file = 0
      BY <2>a, SysPosts DEF SysInv, SysOk, SysAll, SysSorts, SysSave
    <2>c. DOMAIN l = DOMAIN view /\ SysAll(l)
      BY <2>b, SysLoading DEF SysInv, SysOk
    <2> HIDE DEF l
    <2>d. /\ DOMAIN a = DOMAIN view /\ a.disk = view.disk /\ a.run = view.run
          /\ a.file = view.file /\ a.text = view.text /\ a.saved = view.saved
          /\ a.ask = 0 /\ a.loads = view.loads /\ a.post = view.post
          /\ a.crossed = view.crossed /\ a.list = view.list
          /\ a.lists = view.lists /\ a.form = view.form /\ a.add = view.add
          /\ a.cut = view.cut /\ a.clicks = view.clicks
      BY DEF SysInv, SysShape
    <2> HIDE DEF a
    <2>e. SysSorts(a) /\ SysSave(a)
      BY <2>d DEF SysInv, SysOk, SysAll, SysSorts, SysSave
    <2>f. SysFresh(a) /\ SysSaved(a)
      BY <2>d DEF SysInv, SysOk, SysAll, SysFresh, SysSaved
    <2> QED BY <2>a, <2>c, <2>d, <2>e, <2>f DEF SysAll, SysInv, SysShape, SysOk
  <1>17. ASSUME NEW i \in 1..MaxOut, ASettings!Reads(i) PROVE SysInv'
    <2> DEFINE m == view.loads[i]
               T == view.disk[m.file]
               l == [[m EXCEPT !.read = TRUE] EXCEPT !.text = T]
               q == [view.loads EXCEPT ![i] = l]
    <2>a. i \in 1..Len(view.loads) /\ view.loads \in Seq(SysLoad)
          /\ m \in SysLoad /\ DOMAIN view.loads = 1..Len(view.loads)
      BY <1>17, ListOf DEF SysInv, SysOk, SysAll, SysSorts, ASettings!Reads
    <2>b. /\ DOMAIN view' = DOMAIN view /\ view'.disk = view.disk
          /\ view'.run = view.run /\ view'.file = view.file
          /\ view'.text = view.text /\ view'.saved = view.saved
          /\ view'.ask = view.ask /\ view'.loads = q /\ view'.post = view.post
          /\ view'.crossed = view.crossed /\ view'.list = view.list
          /\ view'.lists = view.lists /\ view'.form = view.form
          /\ view'.add = view.add /\ view'.cut = view.cut
          /\ view'.clicks = view.clicks
      BY <1>17, <2>a DEF SysInv, SysShape, ASettings!Reads
    <2> HIDE DEF m
    <2>c. T \in SUBSET {1}
      BY <2>a, SysLoads DEF SysInv, SysOk, SysAll, SysSorts
    <2>d. l \in SysLoad /\ l.text = T /\ l.file = m.file
      <3> DEFINE yes == TRUE
      <3>1. l = [[m EXCEPT !.read = yes] EXCEPT !.text = T]
        OBVIOUS
      <3>2. LET k == [[m EXCEPT !.read = yes] EXCEPT !.text = T]
            IN k \in SysLoad /\ k.text = T /\ k.file = m.file
        <4> HIDE DEF T, l
        <4> QED BY <2>a, <2>c, SysLoads
      <3> QED BY <3>1, <3>2
    <2> HIDE DEF l
    <2>e. /\ q \in Seq(SysLoad) /\ DOMAIN q = DOMAIN view.loads /\ q[i] = l
          /\ \A k \in DOMAIN view.loads : k # i => q[k] = view.loads[k]
      BY <2>a, <2>d
    <2> HIDE DEF q
    <2>1. SysSorts(view') /\ SysSave(view') /\ SysSaved(view')
      BY <2>b, <2>e DEF SysInv, SysOk, SysAll, SysSorts, SysSave, SysSaved
    <2>2. SysFresh(view')
      BY <2>b, <2>d, <2>e DEF SysInv, SysOk, SysAll, SysFresh
    <2> QED BY <2>b, <2>1, <2>2 DEF SysInv, SysShape, SysOk, SysAll
  <1>18. ASSUME NEW i \in 1..MaxOut, ASettings!LoadRead(i) PROVE SysInv'
    <2> DEFINE q == ASettings!Without(view.loads, i)
               l == view.loads[i]
               b == l.file # view.file \/ ~l.fresh
    <2>a. /\ view' = [view EXCEPT !.loads = q, !.text = l.text, !.saved = l.text,
                                  !.crossed = b]
          /\ i \in DOMAIN view.loads /\ l.read
      BY <1>18 DEF ASettings!LoadRead
    <2>b. b <=> l.file # view.file \/ ~l.fresh
      OBVIOUS
    <2> HIDE DEF b

    <2>c. /\ q \in Seq(SysLoad)
          /\ \A k \in DOMAIN q :
               \E j \in DOMAIN view.loads : q[k] = view.loads[j]
      <3>1. q = Without(view.loads, i)
        BY DEF ASettings!Without, Without
      <3>2. i \in 1..Len(view.loads) /\ view.loads \in Seq(SysLoad)
        BY <2>a, ListOf DEF SysInv, SysOk, SysAll, SysSorts
      <3> HIDE DEF q
      <3> QED BY <3>1, <3>2, ListShorter
    <2> HIDE DEF q
    <2>d. /\ DOMAIN view' = DOMAIN view /\ view'.disk = view.disk
          /\ view'.run = view.run /\ view'.file = view.file
          /\ view'.text = l.text /\ view'.saved = l.text
          /\ view'.ask = view.ask /\ view'.loads = q /\ view'.post = view.post
          /\ view'.crossed = b /\ view'.list = view.list
          /\ view'.lists = view.lists /\ view'.form = view.form
          /\ view'.add = view.add /\ view'.cut = view.cut
          /\ view'.clicks = view.clicks
      BY <2>a DEF SysInv, SysShape
    <2>e. l.fresh => l.text = view.disk[l.file]
      BY <2>a DEF SysInv, SysOk, SysAll, SysFresh
    <2>f. l.text \in SUBSET {1}
      <3>1. l \in SysLoad
        BY <2>a, ListOf DEF SysInv, SysOk, SysAll, SysSorts
      <3> HIDE DEF l
      <3> QED BY <3>1, SysLoads
    <2> HIDE DEF l
    <2>1. SysSorts(view') /\ SysSave(view')
      BY <2>c, <2>d, <2>f DEF SysInv, SysOk, SysAll, SysSorts, SysSave
    <2>2. SysFresh(view')
      BY <2>c, <2>d DEF SysInv, SysOk, SysAll, SysFresh
    <2>3. SysSaved(view')
      BY <2>b, <2>d, <2>e DEF SysSaved
    <2> QED BY <2>d, <2>1, <2>2, <2>3 DEF SysInv, SysShape, SysOk, SysAll
  <1>19. ASSUME NEW i \in 1..MaxOut, ASettings!LoadFails(i) PROVE SysInv'
    <2> DEFINE q == ASettings!Without(view.loads, i)
    <2>a. view' = [view EXCEPT !.loads = q] /\ i \in DOMAIN view.loads
      BY <1>19 DEF ASettings!LoadFails

    <2>c. /\ q \in Seq(SysLoad)
          /\ \A k \in DOMAIN q :
               \E j \in DOMAIN view.loads : q[k] = view.loads[j]
      <3>1. q = Without(view.loads, i)
        BY DEF ASettings!Without, Without
      <3>2. i \in 1..Len(view.loads) /\ view.loads \in Seq(SysLoad)
        BY <2>a, ListOf DEF SysInv, SysOk, SysAll, SysSorts
      <3> HIDE DEF q
      <3> QED BY <3>1, <3>2, ListShorter
    <2> HIDE DEF q
    <2>d. /\ DOMAIN view' = DOMAIN view /\ view'.disk = view.disk
          /\ view'.run = view.run /\ view'.file = view.file
          /\ view'.text = view.text /\ view'.saved = view.saved
          /\ view'.ask = view.ask /\ view'.loads = q /\ view'.post = view.post
          /\ view'.crossed = view.crossed /\ view'.list = view.list
          /\ view'.lists = view.lists /\ view'.form = view.form
          /\ view'.add = view.add /\ view'.cut = view.cut
          /\ view'.clicks = view.clicks
      BY <2>a DEF SysInv, SysShape
    <2>1. SysSorts(view') /\ SysSave(view') /\ SysSaved(view')
      BY <2>c, <2>d DEF SysInv, SysOk, SysAll, SysSorts, SysSave, SysSaved
    <2>2. SysFresh(view')
      BY <2>c, <2>d DEF SysInv, SysOk, SysAll, SysFresh
    <2> QED BY <2>d, <2>1, <2>2 DEF SysInv, SysShape, SysOk, SysAll
  <1>20. ASSUME NEW i \in 1..MaxLoads, ASettings!Serves(i) PROVE SysInv'
    <2> DEFINE q == [[view.lists EXCEPT ![i].read = TRUE] EXCEPT ![i].at = view.run]
    <2>a. view' = [[view EXCEPT !.lists[i].read = TRUE] EXCEPT !.lists[i].at = view.run]
      BY <1>20 DEF ASettings!Serves
    <2>b. /\ DOMAIN view' = DOMAIN view /\ view'.disk = view.disk
          /\ view'.run = view.run /\ view'.file = view.file
          /\ view'.text = view.text /\ view'.saved = view.saved
          /\ view'.ask = view.ask /\ view'.loads = view.loads
          /\ view'.post = view.post /\ view'.crossed = view.crossed
          /\ view'.list = view.list /\ view'.form = view.form
          /\ view'.add = view.add /\ view'.cut = view.cut
          /\ view'.clicks = view.clicks
      BY <2>a DEF SysInv, SysShape
    <2>c. SysAll(view')
      BY <2>b, SysSame DEF SysInv, SysOk
    <2> QED BY <2>b, <2>c DEF SysInv, SysShape, SysOk
  <1>21. ASSUME NEW i \in 1..MaxLoads, ASettings!ListRead(i) PROVE SysInv'
    <2> DEFINE q == ASettings!Without(view.lists, i)
               l == view.lists[i].at
    <2>a. view' = [view EXCEPT !.lists = q, !.list = l]
      BY <1>21 DEF ASettings!ListRead
    <2> HIDE DEF q, l
    <2>b. /\ DOMAIN view' = DOMAIN view /\ view'.disk = view.disk
          /\ view'.run = view.run /\ view'.file = view.file
          /\ view'.text = view.text /\ view'.saved = view.saved
          /\ view'.ask = view.ask /\ view'.loads = view.loads
          /\ view'.post = view.post /\ view'.crossed = view.crossed
          /\ view'.list = l /\ view'.lists = q /\ view'.form = view.form
          /\ view'.add = view.add /\ view'.cut = view.cut
          /\ view'.clicks = view.clicks
      BY <2>a DEF SysInv, SysShape
    <2>c. SysAll(view')
      BY <2>b, SysSame DEF SysInv, SysOk
    <2> QED BY <2>b, <2>c DEF SysInv, SysShape, SysOk
  <1>22. ASSUME NEW i \in 1..MaxLoads, ASettings!ListFails(i) PROVE SysInv'
    <2> DEFINE q == ASettings!Without(view.lists, i)
               l == {}
    <2>a. view' = [view EXCEPT !.lists = q, !.list = l]
      BY <1>22 DEF ASettings!ListFails
    <2> HIDE DEF q, l
    <2>b. /\ DOMAIN view' = DOMAIN view /\ view'.disk = view.disk
          /\ view'.run = view.run /\ view'.file = view.file
          /\ view'.text = view.text /\ view'.saved = view.saved
          /\ view'.ask = view.ask /\ view'.loads = view.loads
          /\ view'.post = view.post /\ view'.crossed = view.crossed
          /\ view'.list = l /\ view'.lists = q /\ view'.form = view.form
          /\ view'.add = view.add /\ view'.cut = view.cut
          /\ view'.clicks = view.clicks
      BY <2>a DEF SysInv, SysShape
    <2>c. SysAll(view')
      BY <2>b, SysSame DEF SysInv, SysOk
    <2> QED BY <2>b, <2>c DEF SysInv, SysShape, SysOk
  <1>23. ASSUME NEW t \in SUBSET {1}, ASettings!Type(t) PROVE SysInv'
    <2>a. view' = [view EXCEPT !.text = t]
      BY <1>23 DEF ASettings!Type
    <2>b. /\ DOMAIN view' = DOMAIN view /\ view'.disk = view.disk
          /\ view'.run = view.run /\ view'.file = view.file /\ view'.text = t
          /\ view'.saved = view.saved /\ view'.ask = view.ask
          /\ view'.loads = view.loads /\ view'.post = view.post
          /\ view'.crossed = view.crossed /\ view'.list = view.list
          /\ view'.lists = view.lists /\ view'.form = view.form
          /\ view'.add = view.add /\ view'.cut = view.cut
          /\ view'.clicks = view.clicks
      BY <2>a DEF SysInv, SysShape
    <2>c. SysAll(view')
      BY <2>b DEF SysInv, SysOk, SysAll, SysSorts, SysFresh, SysSave, SysSaved
    <2> QED BY <2>b, <2>c DEF SysInv, SysShape, SysOk
  <1>24. ASSUME NEW s \in {1}, ASettings!openEdit(s) PROVE SysInv'
    <2> DEFINE s0 == [view EXCEPT !.form = s]
    <2>a. ASettings!Clicks(s0)
      BY <1>24 DEF ASettings!openEdit, ASettings!Clicks
    <2>b. /\ DOMAIN s0 = DOMAIN view /\ s0.disk = view.disk
          /\ s0.run = view.run /\ s0.file = view.file /\ s0.text = view.text
          /\ s0.saved = view.saved /\ s0.ask = view.ask
          /\ s0.loads = view.loads /\ s0.post = view.post
          /\ s0.crossed = view.crossed /\ s0.list = view.list
          /\ s0.lists = view.lists /\ s0.form = s /\ s0.add = view.add
          /\ s0.cut = view.cut /\ s0.clicks = view.clicks
      BY DEF SysInv, SysShape
    <2> HIDE DEF s0
    <2>z. SysAll(s0)
      BY <2>a, <2>b, SysPosts
         DEF SysInv, SysOk, SysAll, SysSorts, SysFresh, SysSave, SysSaved
    <2> QED BY <2>a, <2>b, <2>z, SysClicked DEF SysInv
  <1> QED
    BY <1>1, <1>2, <1>3, <1>4, <1>5, <1>6, <1>7, <1>8, <1>9, <1>10, <1>11,
       <1>12, <1>13, <1>14, <1>15, <1>16, <1>17, <1>18, <1>19, <1>20, <1>21,
       <1>22, <1>23, <1>24, SysFiles DEF ASettings!Next

\* That gives the properties of ASettings.
LEMMA SysHolds == SysInv => ASettings!Truthful
  BY DEF SysInv, SysOk, SysAll, SysSaved, ASettings!Truthful,
         ASettings!isDirty

\* It holds from the first state on when the page is this one.
LEMMA SysStays ==
  /\ Init => (subject = "system" => SysInv)
  /\ (subject = "system" => SysInv) /\ [Next]_vars
       => (subject = "system" => SysInv)'
  <1>1. Init => (subject = "system" => SysInv)
    BY SysInit DEF Init
  <1>2. (subject = "system" => SysInv) /\ [Next]_vars
          => (subject = "system" => SysInv)'
    <2>1. ASSUME SysInv, view' = view PROVE SysInv'
      BY <2>1 DEF SysInv, SysShape, SysOk, SysAll, SysSorts, SysFresh, SysSave,
          SysSaved
    <2> QED BY <2>1, SysStep DEF Next, vars
  <1> QED BY <1>1, <1>2

-----------------------------------------------------------------------------
(* The mesh.  A load since which nothing changed has read what the server  *)
(* holds; whatever is said to be under way is.                             *)

MeshShape ==
  DOMAIN view = {"members", "pending", "status", "asking", "busy", "failed",
                 "loads", "acts", "asked", "fresh"}
MeshLoad ==
  [members : SUBSET {0, 1}, asking : SUBSET {0, 1}, fresh : BOOLEAN]
MeshAct == [verb : AMesh!Verbs, peer : {1}, done : BOOLEAN]
MeshSorts(s) ==
  /\ s.members \in SUBSET {1} /\ s.pending \in SUBSET {1}
  /\ s.loads \in Seq(MeshLoad) /\ s.acts \in Seq(MeshAct)
  /\ s.asked \subseteq AMesh!Verbs
MeshFresh(s) ==
  \A i \in DOMAIN s.loads :
    s.loads[i].fresh => /\ s.loads[i].members \in {{0}, s.members}
                        /\ s.loads[i].asking \in {{0}, s.pending}
MeshDrawn(s) == s.fresh => s.status = s.members /\ s.asking = s.pending
MeshBusy(s) ==
  /\ s.busy = "" \/ (s.busy = "Loading" /\ s.loads # <<>>)
     \/ (s.busy = "Working" /\ s.acts # <<>>)
  /\ s.status = {-1} /\ s.loads = <<>> => s.failed
MeshAll(s) == MeshSorts(s) /\ MeshFresh(s) /\ MeshDrawn(s) /\ MeshBusy(s)
MeshOk ==
  MeshAll(view)
MeshInv == MeshShape /\ MeshOk

\* A load and a verb are their fields, and what they are turned into.
LEMMA MeshLoads ==
  /\ \A l \in MeshLoad : /\ l.members \in SUBSET {0, 1}
                         /\ l.asking \in SUBSET {0, 1} /\ l.fresh \in BOOLEAN
  /\ /\ AMesh!NewLoad \in MeshLoad /\ AMesh!NewLoad.members = {0}
     /\ AMesh!NewLoad.asking = {0}
  <1>1. \A l \in MeshLoad : /\ l.members \in SUBSET {0, 1}
                            /\ l.asking \in SUBSET {0, 1} /\ l.fresh \in BOOLEAN
    BY DEF MeshLoad
  <1> DEFINE yes == TRUE
  <1>2. AMesh!NewLoad = [members |-> {0}, asking |-> {0}, fresh |-> yes]
        /\ yes \in BOOLEAN
    BY DEF AMesh!NewLoad, AMesh!Unread
  <1> HIDE DEF yes
  <1>3. /\ AMesh!NewLoad \in MeshLoad /\ AMesh!NewLoad.members = {0}
        /\ AMesh!NewLoad.asking = {0}
    BY <1>2 DEF MeshLoad
  <1> QED BY <1>1, <1>3

\* A load that has read the members, or who asks, is a load.
LEMMA MeshRead ==
  ASSUME NEW l \in MeshLoad, NEW S \in SUBSET {1}
  PROVE  /\ LET k == [l EXCEPT !.members = S]
            IN /\ k \in MeshLoad /\ k.members = S /\ k.asking = l.asking
               /\ (k.fresh <=> l.fresh)
         /\ LET k == [l EXCEPT !.asking = S]
            IN /\ k \in MeshLoad /\ k.asking = S /\ k.members = l.members
               /\ (k.fresh <=> l.fresh)
  BY DEF MeshLoad

\* A load something changed under is a load.
LEMMA MeshOlder ==
  ASSUME NEW l \in MeshLoad
  PROVE  LET k == [l EXCEPT !.fresh = FALSE]
         IN k \in MeshLoad /\ ~k.fresh
  <1> DEFINE no == FALSE
  <1>1. no \in BOOLEAN /\ ~no
    OBVIOUS
  <1> HIDE DEF no
  <1>2. LET k == [l EXCEPT !.fresh = no] IN k \in MeshLoad /\ ~k.fresh
    BY <1>1 DEF MeshLoad
  <1> QED BY <1>2 DEF no

\* What an action is, new and done.
LEMMA MeshActs ==
  /\ \A a \in MeshAct : a.peer \in {1}
  /\ \A v \in AMesh!Verbs : [verb |-> v, peer |-> 1, done |-> FALSE] \in MeshAct
  /\ \A a \in MeshAct : [a EXCEPT !.done = TRUE] \in MeshAct
  BY DEF MeshAct

\* What both lists hold may be another thing from now on.
LEMMA MeshChanged ==
  ASSUME MeshInv, NEW m \in SUBSET {1}, NEW p \in SUBSET {1}
  PROVE  LET t == AMesh!Changed(view, m, p)
         IN /\ DOMAIN t = DOMAIN view /\ t.members = m /\ t.pending = p
            /\ t.status = view.status /\ t.asking = view.asking
            /\ t.busy = view.busy /\ t.failed = view.failed /\ t.acts = view.acts
            /\ t.asked = view.asked
            /\ MeshAll(t)
  <1> DEFINE q == [i \in DOMAIN view.loads |->
                     [view.loads[i] EXCEPT !.fresh = FALSE]]
             no == FALSE
             t == AMesh!Changed(view, m, p)
  <1>1. t = [view EXCEPT !.members = m, !.pending = p, !.fresh = no, !.loads = q]
    BY DEF AMesh!Changed
  <1>2. /\ q \in Seq(MeshLoad) /\ (q = <<>> <=> view.loads = <<>>)
        /\ \A i \in DOMAIN q : ~q[i].fresh
    <2>1. view.loads \in Seq(MeshLoad)
      BY DEF MeshInv, MeshOk, MeshAll, MeshSorts
    <2>2. \A i \in DOMAIN view.loads : q[i] \in MeshLoad /\ ~q[i].fresh
      BY <2>1, ListOf, MeshOlder
    <2>3. q = [i \in DOMAIN view.loads |-> q[i]] /\ DOMAIN q = DOMAIN view.loads
      OBVIOUS
    <2> HIDE DEF q
    <2>4. q \in Seq(MeshLoad) /\ Len(q) = Len(view.loads)
      BY <2>1, <2>2, <2>3, ListMapped
    <2> QED BY <2>1, <2>2, <2>3, <2>4, ListOf
  <1>3. ~no
    OBVIOUS
  <1> HIDE DEF q, no
  <1>4. /\ DOMAIN t = DOMAIN view /\ t.members = m /\ t.pending = p
        /\ t.status = view.status /\ t.asking = view.asking
        /\ t.busy = view.busy /\ t.failed = view.failed /\ t.loads = q
        /\ t.acts = view.acts /\ t.asked = view.asked /\ t.fresh = no
    BY <1>1 DEF MeshInv, MeshShape
  <1> HIDE DEF t
  <1>5. MeshSorts(t) /\ MeshFresh(t)
    BY <1>2, <1>4 DEF MeshInv, MeshOk, MeshAll, MeshSorts, MeshFresh
  <1>6. MeshDrawn(t) /\ MeshBusy(t)
    BY <1>2, <1>3, <1>4 DEF MeshInv, MeshOk, MeshAll, MeshDrawn, MeshBusy
  <1> QED BY <1>4, <1>5, <1>6 DEF MeshAll, t

\* Another load.
LEMMA MeshLoading ==
  ASSUME MeshShape, NEW s, DOMAIN s = DOMAIN view, MeshSorts(s), MeshFresh(s)
  PROVE  LET t == AMesh!load(s) IN DOMAIN t = DOMAIN view /\ MeshAll(t)
  <1> DEFINE n == AMesh!NewLoad
             q == Append(s.loads, n)
             no == FALSE
             t == AMesh!load(s)
  <1>1. t = [s EXCEPT !.busy = "Loading", !.failed = no, !.fresh = no,
                      !.loads = q]
    BY DEF AMesh!load
  <1>2. n \in MeshLoad /\ n.members = {0} /\ n.asking = {0} /\ ~no
    BY MeshLoads
  <1> HIDE DEF n, no
  <1>3. /\ q \in Seq(MeshLoad) /\ DOMAIN q = 1..(Len(s.loads) + 1)
        /\ q[Len(s.loads) + 1] = n /\ Len(s.loads) \in Nat
        /\ DOMAIN s.loads = 1..Len(s.loads) /\ Len(q) = Len(s.loads) + 1
        /\ \A i \in 1..Len(s.loads) : q[i] = s.loads[i]
    BY <1>2, ListAppended, ListOf DEF MeshSorts
  <1> HIDE DEF q
  <1>4. /\ DOMAIN t = DOMAIN view /\ t.members = s.members
        /\ t.pending = s.pending /\ t.status = s.status
        /\ t.asking = s.asking /\ t.busy = "Loading" /\ t.failed = no
        /\ t.loads = q /\ t.acts = s.acts /\ t.asked = s.asked
        /\ t.fresh = no
    BY <1>1 DEF MeshShape
  <1> HIDE DEF t
  <1>5. q # <<>>
    BY <1>3, ListOf
  <1>6. MeshSorts(t)
    BY <1>3, <1>4 DEF MeshSorts
  <1>7. MeshFresh(t)
    <2>1. \A i \in DOMAIN q :
            \/ i \in DOMAIN s.loads /\ q[i] = s.loads[i]
            \/ q[i].members = {0} /\ q[i].asking = {0}
      BY <1>2, <1>3
    <2> QED BY <1>4, <2>1 DEF MeshFresh
  <1>8. MeshDrawn(t) /\ MeshBusy(t)
    BY <1>2, <1>4, <1>5 DEF MeshDrawn, MeshBusy
  <1> QED BY <1>4, <1>6, <1>7, <1>8 DEF MeshAll, t

\* A verb goes out unless one is.
LEMMA MeshActing ==
  ASSUME MeshShape, NEW s, DOMAIN s = DOMAIN view, MeshAll(s),
         NEW v \in AMesh!Verbs
  PROVE  LET t == AMesh!act(s, v, 1) IN DOMAIN t = DOMAIN view /\ MeshAll(t)
  <1> DEFINE n == [verb |-> v, peer |-> 1, done |-> FALSE]
             q == Append(s.acts, n)
             t == [s EXCEPT !.busy = "Working", !.acts = q]
  <1>1. AMesh!act(s, v, 1) = s \/ AMesh!act(s, v, 1) = t
    BY DEF AMesh!act
  <1>2. n \in MeshAct
    BY MeshActs
  <1> HIDE DEF n
  <1>3. q \in Seq(MeshAct) /\ q # <<>>
    <2>1. q \in Seq(MeshAct) /\ Len(q) = Len(s.acts) + 1 /\ Len(s.acts) \in Nat
      BY <1>2, ListAppended, ListOf DEF MeshAll, MeshSorts
    <2> QED BY <2>1, ListOf
  <1> HIDE DEF q
  <1>4. /\ DOMAIN t = DOMAIN view /\ t.members = s.members
        /\ t.pending = s.pending /\ t.status = s.status
        /\ t.asking = s.asking /\ t.busy = "Working" /\ t.failed = s.failed
        /\ t.loads = s.loads /\ t.acts = q /\ t.asked = s.asked
        /\ t.fresh = s.fresh
    BY DEF MeshShape
  <1> HIDE DEF t
  <1>5. MeshAll(t)
    BY <1>3, <1>4 DEF MeshAll, MeshSorts, MeshFresh, MeshDrawn, MeshBusy
  <1> QED BY <1>1, <1>4, <1>5

\* One read of a load.
LEMMA MeshReads ==
  ASSUME MeshInv, NEW i \in DOMAIN view.loads, NEW l \in MeshLoad,
         l.fresh => /\ l.members \in {{0}, view.members}
                    /\ l.asking \in {{0}, view.pending}
  PROVE  LET t == [view EXCEPT !.loads = [view.loads EXCEPT ![i] = l]]
         IN DOMAIN t = DOMAIN view /\ MeshAll(t)
  <1> DEFINE q == [view.loads EXCEPT ![i] = l]
             t == [view EXCEPT !.loads = q]
  <1>1. /\ q \in Seq(MeshLoad) /\ DOMAIN q = DOMAIN view.loads /\ q[i] = l
        /\ \A k \in DOMAIN view.loads : k # i => q[k] = view.loads[k]
    BY DEF MeshInv, MeshOk, MeshAll, MeshSorts
  <1>2. q # <<>> /\ view.loads # <<>>
    <2>1. i \in DOMAIN q
      BY <1>1
    <2> HIDE DEF q
    <2> QED BY <2>1
  <1> HIDE DEF q
  <1>3. /\ DOMAIN t = DOMAIN view /\ t.members = view.members
        /\ t.pending = view.pending /\ t.status = view.status
        /\ t.asking = view.asking /\ t.busy = view.busy
        /\ t.failed = view.failed /\ t.loads = q /\ t.acts = view.acts
        /\ t.asked = view.asked /\ t.fresh = view.fresh
    BY DEF MeshInv, MeshShape
  <1> HIDE DEF t
  <1>4. MeshSorts(t) /\ MeshFresh(t)
    BY <1>1, <1>3 DEF MeshInv, MeshOk, MeshAll, MeshSorts, MeshFresh
  <1>5. MeshDrawn(t) /\ MeshBusy(t)
    BY <1>2, <1>3 DEF MeshInv, MeshOk, MeshAll, MeshDrawn, MeshBusy
  <1> QED BY <1>3, <1>4, <1>5 DEF MeshAll, t, q

\* The mesh page at the start.
LEMMA MeshInit == AMesh!Init => MeshInv
  <1> SUFFICES ASSUME AMesh!Init PROVE MeshInv
    OBVIOUS
  <1> DEFINE no == FALSE
             n == AMesh!NewLoad
             q == <<n>>
  <1>1. PICK m \in SUBSET {1}, p \in SUBSET {1} :
          view = AMesh!load([members |-> m, pending |-> p, status |-> {-1},
                   asking |-> {}, busy |-> "", failed |-> no, loads |-> <<>>,
                   acts |-> <<>>, asked |-> {}, fresh |-> no])
    BY DEF AMesh!Init, AMesh!Unset
  <1>2. /\ ~no /\ n \in MeshLoad /\ n.members = {0} /\ n.asking = {0}
        /\ <<>> \in Seq(MeshAct)
    BY MeshLoads
  <1> DEFINE e == [members |-> m, pending |-> p, status |-> {-1},
                   asking |-> {}, busy |-> "", failed |-> no, loads |-> <<>>,
                   acts |-> <<>>, asked |-> {}, fresh |-> no]
  <1>3. view = [e EXCEPT !.busy = "Loading", !.failed = no, !.fresh = no,
                         !.loads = Append(<<>>, n)]
    BY <1>1 DEF AMesh!load
  <1>4. Append(<<>>, n) = q
    OBVIOUS
  <1> HIDE DEF no, n
  <1>5. q \in Seq(MeshLoad) /\ DOMAIN q = {1} /\ q[1] = n /\ q # <<>>
    BY <1>2
  <1> HIDE DEF q
  <1>6. /\ MeshShape /\ view.members = m /\ view.pending = p
        /\ view.loads = q /\ view.acts = <<>> /\ view.asked = {}
        /\ view.busy = "Loading" /\ view.fresh = no
    BY <1>3, <1>4 DEF MeshShape
  <1>7. MeshSorts(view)
    BY <1>2, <1>5, <1>6 DEF MeshSorts
  <1> QED
    BY <1>2, <1>5, <1>6, <1>7
       DEF MeshInv, MeshOk, MeshAll, MeshFresh, MeshDrawn, MeshBusy

\* Every step of it keeps what is said of it.
LEMMA MeshStep == ASSUME MeshInv, AMesh!Next PROVE MeshInv'
  <1>1. ASSUME NEW x \in {1}, AMesh!PeerMoves(x) PROVE MeshInv'
    <2>a. PICK m \in {view.members \ {x}, view.members \cup {x}} :
            \E p \in {view.pending \ {x}, view.pending \cup {x}} :
              view' = AMesh!Changed(view, m, p)
      BY <1>1 DEF AMesh!PeerMoves
    <2>b. PICK p \in {view.pending \ {x}, view.pending \cup {x}} :
            view' = AMesh!Changed(view, m, p)
      BY <2>a
    <2>c. m \in SUBSET {1} /\ p \in SUBSET {1}
      BY DEF MeshInv, MeshOk, MeshAll, MeshSorts
    <2> DEFINE t == AMesh!Changed(view, m, p)
    <2>z. DOMAIN t = DOMAIN view /\ MeshAll(t)
      BY <2>c, MeshChanged
    <2>d. view' = t
      BY <2>b
    <2> HIDE DEF t
    <2> QED BY <2>d, <2>z DEF MeshInv, MeshShape, MeshOk
  <1>2. ASSUME NEW x \in {1}, AMesh!Answer(x) PROVE MeshInv'
    <2>a. PICK v \in {"admit", "deny"} : view' = AMesh!act(view, v, x)
      BY <1>2 DEF AMesh!Answer
    <2> DEFINE t == AMesh!act(view, v, x)
    <2>z. DOMAIN t = DOMAIN view /\ MeshAll(t)
      <3>1. v \in AMesh!Verbs /\ x = 1
        BY DEF AMesh!Verbs
      <3> QED BY <3>1, MeshActing DEF MeshInv, MeshOk
    <2>d. view' = t
      BY <2>a
    <2> HIDE DEF t
    <2> QED BY <2>d, <2>z DEF MeshInv, MeshShape, MeshOk
  <1>3. ASSUME NEW x \in {1}, AMesh!Join(x) PROVE MeshInv'
    <2> DEFINE t == AMesh!act(view, "join", x)
    <2>a. view' = t
      BY <1>3 DEF AMesh!Join
    <2>z. DOMAIN t = DOMAIN view /\ MeshAll(t)
      <3>1. "join" \in AMesh!Verbs /\ x = 1
        BY DEF AMesh!Verbs
      <3> QED BY <3>1, MeshActing DEF MeshInv, MeshOk
    <2> HIDE DEF t
    <2> QED BY <2>a, <2>z DEF MeshInv, MeshShape, MeshOk
  <1>4. ASSUME NEW x \in {1}, AMesh!AskLeave(x) PROVE MeshInv'
    <2>a. PICK v \in {"leave", "leave all"} : view' = [view EXCEPT !.asked = {v}]
      BY <1>4 DEF AMesh!AskLeave
    <2> DEFINE q == {v}
    <2>b. q \subseteq AMesh!Verbs /\ view' = [view EXCEPT !.asked = q]
      BY <2>a DEF AMesh!Verbs
    <2> HIDE DEF q
    <2>c. /\ DOMAIN view' = DOMAIN view /\ view'.members = view.members
          /\ view'.pending = view.pending /\ view'.status = view.status
          /\ view'.asking = view.asking /\ view'.busy = view.busy
          /\ view'.failed = view.failed /\ view'.loads = view.loads
          /\ view'.acts = view.acts /\ view'.asked = q
          /\ view'.fresh = view.fresh
      BY <2>b DEF MeshInv, MeshShape
    <2>d. MeshAll(view')
      BY <2>b, <2>c
         DEF MeshInv, MeshOk, MeshAll, MeshSorts, MeshFresh, MeshDrawn, MeshBusy
    <2> QED BY <2>c, <2>d DEF MeshInv, MeshShape, MeshOk
  <1>5. ASSUME NEW yes \in BOOLEAN, NEW x \in {1}, AMesh!Confirm(yes, x) PROVE MeshInv'
    <2> DEFINE s == [view EXCEPT !.asked = {}]
    <2>a. PICK v \in view.asked : view' = IF yes THEN AMesh!act(s, v, x) ELSE s
      BY <1>5 DEF AMesh!Confirm
    <2>b. /\ DOMAIN s = DOMAIN view /\ s.members = view.members
          /\ s.pending = view.pending /\ s.status = view.status
          /\ s.asking = view.asking /\ s.busy = view.busy
          /\ s.failed = view.failed /\ s.loads = view.loads
          /\ s.acts = view.acts /\ s.asked = {} /\ s.fresh = view.fresh
      BY DEF MeshInv, MeshShape
    <2> HIDE DEF s
    <2>c. MeshAll(s)
      BY <2>b DEF MeshInv, MeshOk, MeshAll, MeshSorts, MeshFresh, MeshDrawn, MeshBusy
    <2>d. v \in AMesh!Verbs /\ x = 1
      BY DEF MeshInv, MeshOk, MeshAll, MeshSorts
    <2> DEFINE t == AMesh!act(s, v, x)
    <2>z. DOMAIN t = DOMAIN view /\ MeshAll(t)
      BY <2>b, <2>c, <2>d, MeshActing DEF MeshInv
    <2>e. view' = t \/ view' = s
      BY <2>a
    <2> HIDE DEF t
    <2> QED BY <2>b, <2>c, <2>e, <2>z DEF MeshInv, MeshShape, MeshOk
  <1>6. ASSUME NEW i \in 1..MaxOut, AMesh!ReadsMembers(i) PROVE MeshInv'
    <2> DEFINE m == view.loads[i]
               l == [m EXCEPT !.members = view.members]
               t == [view EXCEPT !.loads = [view.loads EXCEPT ![i] = l]]
    <2>a. view' = t /\ i \in DOMAIN view.loads
      BY <1>6 DEF AMesh!ReadsMembers, MeshInv, MeshShape
    <2>b. m \in MeshLoad /\ view.members \in SUBSET {1}
      BY <2>a, ListOf DEF MeshInv, MeshOk, MeshAll, MeshSorts
    <2>c. m.fresh => m.asking \in {{0}, view.pending}
      BY <2>a DEF MeshInv, MeshOk, MeshAll, MeshFresh
    <2> HIDE DEF m
    <2>d. /\ l \in MeshLoad /\ l.members = view.members /\ l.asking = m.asking
          /\ (l.fresh <=> m.fresh)
      BY <2>b, MeshRead
    <2> HIDE DEF l
    <2>z. DOMAIN t = DOMAIN view /\ MeshAll(t)
      BY <2>a, <2>c, <2>d, MeshReads
    <2> HIDE DEF t
    <2> QED BY <2>a, <2>z DEF MeshInv, MeshShape, MeshOk
  <1>7. ASSUME NEW i \in 1..MaxOut, AMesh!ReadsPending(i) PROVE MeshInv'
    <2> DEFINE m == view.loads[i]
               l == [m EXCEPT !.asking = view.pending]
               o == [m EXCEPT !.asking = {}]
               k == [o EXCEPT !.fresh = FALSE]
               t == [view EXCEPT !.loads = [view.loads EXCEPT ![i] = l]]
               u == [view EXCEPT !.loads = [view.loads EXCEPT ![i] = k]]
    <2>a. i \in DOMAIN view.loads
      BY <1>7 DEF AMesh!ReadsPending
    <2>e. view' = t \/ view' = u
      <3> DEFINE y == [view EXCEPT !.loads[i].asking = {}, !.loads[i].fresh = FALSE]
                 w == [view EXCEPT !.loads[i].asking = view.pending]
      <3>1. view' = w \/ view' = y
        BY <1>7 DEF AMesh!ReadsPending
      <3>2. w = t
        BY <2>a DEF MeshInv, MeshShape
      <3>3. y = u
        BY <2>a DEF MeshInv, MeshShape
      <3> QED BY <3>1, <3>2, <3>3
    <2>b. m \in MeshLoad /\ view.pending \in SUBSET {1} /\ {} \in SUBSET {1}
      BY <2>a, ListOf DEF MeshInv, MeshOk, MeshAll, MeshSorts
    <2>c. m.fresh => m.members \in {{0}, view.members}
      BY <2>a DEF MeshInv, MeshOk, MeshAll, MeshFresh
    <2> HIDE DEF m
    <2>d. /\ l \in MeshLoad /\ l.asking = view.pending /\ l.members = m.members
          /\ (l.fresh <=> m.fresh)
      BY <2>b, MeshRead
    <2>f. o \in MeshLoad
      BY <2>b, MeshRead
    <2> HIDE DEF l, o
    <2>g. k \in MeshLoad /\ ~k.fresh
      BY <2>f, MeshOlder
    <2> HIDE DEF k
    <2>1. DOMAIN t = DOMAIN view /\ MeshAll(t)
      BY <2>a, <2>c, <2>d, MeshReads
    <2>2. DOMAIN u = DOMAIN view /\ MeshAll(u)
      BY <2>a, <2>g, MeshReads
    <2> HIDE DEF t, u
    <2> QED BY <2>e, <2>1, <2>2 DEF MeshInv, MeshShape, MeshOk
  <1>8. ASSUME NEW i \in 1..MaxOut, AMesh!Obeys(i) PROVE MeshInv'
    <2> DEFINE a == view.acts[i]
               m == CASE a.verb \in {"join", "admit"} -> view.members \cup {a.peer}
                      [] a.verb = "leave" -> view.members \ {a.peer}
                      [] a.verb = "leave all" -> {}
                      [] OTHER -> view.members
               p == view.pending \ {a.peer}
               w == AMesh!Changed(view, m, p)
               e == [a EXCEPT !.done = TRUE]
               q == [view.acts EXCEPT ![i] = e]
    <2>a. /\ \/ view' = [w EXCEPT !.acts[i].done = TRUE]
             \/ view' = [view EXCEPT !.acts[i].done = TRUE]
          /\ i \in DOMAIN view.acts
      BY <1>8 DEF AMesh!Obeys
    <2>b. a \in MeshAct /\ view.acts \in Seq(MeshAct)
      BY <2>a, ListOf DEF MeshInv, MeshOk, MeshAll, MeshSorts
    <2>c. m \in SUBSET {1} /\ p \in SUBSET {1}
      <3>1. a.peer \in {1} /\ view.members \in SUBSET {1} /\ view.pending \in SUBSET {1}
        BY <2>b, MeshActs DEF MeshInv, MeshOk, MeshAll, MeshSorts
      <3>2. /\ view.members \cup {a.peer} \in SUBSET {1}
            /\ view.members \ {a.peer} \in SUBSET {1} /\ {} \in SUBSET {1}
        BY <3>1
      <3> QED BY <3>1, <3>2
    <2> HIDE DEF m, p
    <2>d. /\ DOMAIN w = DOMAIN view /\ w.members = m /\ w.pending = p
          /\ w.status = view.status /\ w.asking = view.asking
          /\ w.busy = view.busy /\ w.failed = view.failed /\ w.acts = view.acts
          /\ w.asked = view.asked
          /\ MeshAll(w)
      BY <2>c, MeshChanged
    <2> HIDE DEF w
    <2>e. \/ view' = [w EXCEPT !.acts = q]
          \/ view' = [view EXCEPT !.acts = q]
      <3> DEFINE x == [w EXCEPT !.acts[i].done = TRUE]
                 y == [view EXCEPT !.acts[i].done = TRUE]
      <3>1. x = [w EXCEPT !.acts = q]
        BY <2>d DEF MeshInv, MeshShape
      <3>2. y = [view EXCEPT !.acts = q]
        BY DEF MeshInv, MeshShape
      <3>3. view' = x \/ view' = y
        BY <2>a
      <3> HIDE DEF x, y
      <3> QED BY <3>1, <3>2, <3>3
    <2>f. q \in Seq(MeshAct) /\ q # <<>>
      <3>1. e \in MeshAct
        <4> HIDE DEF a
        <4> QED BY <2>b, MeshActs
      <3> HIDE DEF e
      <3>2. q \in Seq(MeshAct) /\ i \in DOMAIN q
        BY <2>a, <2>b, <3>1
      <3> HIDE DEF q
      <3> QED BY <3>2
    <2> HIDE DEF q
    <2>1. ASSUME NEW s, DOMAIN s = DOMAIN view, MeshAll(s)
          PROVE  LET t == [s EXCEPT !.acts = q] IN DOMAIN t = DOMAIN view /\ MeshAll(t)
      <3> DEFINE t == [s EXCEPT !.acts = q]
      <3>1. /\ DOMAIN t = DOMAIN view /\ t.members = s.members
            /\ t.pending = s.pending /\ t.status = s.status
            /\ t.asking = s.asking /\ t.busy = s.busy /\ t.failed = s.failed
            /\ t.loads = s.loads /\ t.acts = q /\ t.asked = s.asked
            /\ t.fresh = s.fresh
        BY <2>1 DEF MeshInv, MeshShape
      <3> HIDE DEF t
      <3>2. MeshAll(t)
        BY <2>1, <2>f, <3>1 DEF MeshAll, MeshSorts, MeshFresh, MeshDrawn, MeshBusy
      <3> QED BY <3>1, <3>2 DEF t
    <2>2. CASE view' = [w EXCEPT !.acts = q]
      <3>1. DOMAIN view' = DOMAIN view /\ MeshAll(view')
        BY <2>1, <2>2, <2>d
      <3> QED BY <3>1 DEF MeshInv, MeshShape, MeshOk
    <2>3. CASE view' = [view EXCEPT !.acts = q]
      <3>1. DOMAIN view' = DOMAIN view /\ MeshAll(view')
        BY <2>1, <2>3 DEF MeshInv, MeshOk
      <3> QED BY <3>1 DEF MeshInv, MeshShape, MeshOk
    <2> QED BY <2>e, <2>2, <2>3
  <1>9. ASSUME NEW i \in 1..MaxOut, AMesh!LoadRead(i) PROVE MeshInv'
    <2> DEFINE l == view.loads[i]
               q == AMesh!Without(view.loads, i)
               b == l.fresh /\ i = Len(view.loads)
    <2>a. /\ view' = [view EXCEPT !.loads = q, !.status = l.members,
                                  !.asking = l.asking, !.busy = "", !.fresh = b]
          /\ i \in DOMAIN view.loads /\ l.members # {0} /\ l.asking # {0}
      BY <1>9 DEF AMesh!LoadRead, AMesh!Unread
    <2>b. b => l.fresh
      OBVIOUS
    <2> HIDE DEF b

    <2>c. /\ q \in Seq(MeshLoad)
          /\ \A k \in DOMAIN q :
               \E j \in DOMAIN view.loads : q[k] = view.loads[j]
      <3>1. q = Without(view.loads, i)
        BY DEF AMesh!Without, Without
      <3>2. i \in 1..Len(view.loads) /\ view.loads \in Seq(MeshLoad)
        BY <2>a, ListOf DEF MeshInv, MeshOk, MeshAll, MeshSorts
      <3> HIDE DEF q
      <3> QED BY <3>1, <3>2, ListShorter
    <2> HIDE DEF q

    <2>d. /\ DOMAIN view' = DOMAIN view /\ view'.members = view.members
          /\ view'.pending = view.pending /\ view'.status = l.members
          /\ view'.asking = l.asking /\ view'.busy = ""
          /\ view'.failed = view.failed /\ view'.loads = q
          /\ view'.acts = view.acts /\ view'.asked = view.asked
          /\ view'.fresh = b
      BY <2>a DEF MeshInv, MeshShape
    <2>e. l.members \in SUBSET {0, 1}
      <3>1. l \in MeshLoad
        BY <2>a, ListOf DEF MeshInv, MeshOk, MeshAll, MeshSorts
      <3> HIDE DEF l
      <3> QED BY <3>1, MeshLoads
    <2>f. l.fresh => l.members = view.members /\ l.asking = view.pending
      BY <2>a DEF MeshInv, MeshOk, MeshAll, MeshFresh
    <2> HIDE DEF l
    <2>1. MeshSorts(view') /\ MeshFresh(view')
      BY <2>c, <2>d DEF MeshInv, MeshOk, MeshAll, MeshSorts, MeshFresh
    <2>2. MeshDrawn(view')
      BY <2>b, <2>d, <2>f DEF MeshDrawn
    <2>3. MeshBusy(view')
      <3>1. l.members # {-1}
        BY <2>e
      <3> QED BY <2>d, <3>1 DEF MeshBusy
    <2> QED BY <2>d, <2>1, <2>2, <2>3 DEF MeshInv, MeshShape, MeshOk, MeshAll
  <1>10. ASSUME NEW i \in 1..MaxOut, AMesh!LoadFails(i) PROVE MeshInv'
    <2> DEFINE q == AMesh!Without(view.loads, i)
               no == FALSE
               yes == TRUE
    <2>a. /\ view' = [view EXCEPT !.loads = q, !.status = {-1}, !.asking = {},
                                  !.busy = "", !.failed = yes, !.fresh = no]
          /\ i \in DOMAIN view.loads
      BY <1>10 DEF AMesh!LoadFails, AMesh!Unset
    <2>b. yes /\ ~no
      OBVIOUS
    <2> HIDE DEF yes, no

    <2>c. /\ q \in Seq(MeshLoad)
          /\ \A k \in DOMAIN q :
               \E j \in DOMAIN view.loads : q[k] = view.loads[j]
      <3>1. q = Without(view.loads, i)
        BY DEF AMesh!Without, Without
      <3>2. i \in 1..Len(view.loads) /\ view.loads \in Seq(MeshLoad)
        BY <2>a, ListOf DEF MeshInv, MeshOk, MeshAll, MeshSorts
      <3> HIDE DEF q
      <3> QED BY <3>1, <3>2, ListShorter
    <2> HIDE DEF q

    <2>d. /\ DOMAIN view' = DOMAIN view /\ view'.members = view.members
          /\ view'.pending = view.pending /\ view'.status = {-1}
          /\ view'.asking = {} /\ view'.busy = "" /\ view'.failed = yes
          /\ view'.loads = q /\ view'.acts = view.acts
          /\ view'.asked = view.asked /\ view'.fresh = no
      BY <2>a DEF MeshInv, MeshShape
    <2>1. MeshSorts(view') /\ MeshFresh(view')
      BY <2>c, <2>d DEF MeshInv, MeshOk, MeshAll, MeshSorts, MeshFresh
    <2>2. MeshDrawn(view') /\ MeshBusy(view')
      BY <2>b, <2>d DEF MeshDrawn, MeshBusy
    <2> QED BY <2>d, <2>1, <2>2 DEF MeshInv, MeshShape, MeshOk, MeshAll
  <1>11. ASSUME NEW i \in 1..MaxOut, AMesh!ActEnds(i) PROVE MeshInv'
    <2> DEFINE q == AMesh!Without(view.acts, i)
               s == [view EXCEPT !.acts = q]
               t == AMesh!load(s)
    <2>a. view' = t /\ i \in DOMAIN view.acts
      BY <1>11 DEF AMesh!ActEnds
    <2>b. q \in Seq(MeshAct)
      <3>1. q = Without(view.acts, i)
        BY DEF AMesh!Without, Without
      <3>2. i \in 1..Len(view.acts) /\ view.acts \in Seq(MeshAct)
        BY <2>a, ListOf DEF MeshInv, MeshOk, MeshAll, MeshSorts
      <3> HIDE DEF q
      <3> QED BY <3>1, <3>2, ListShorter
    <2> HIDE DEF q
    <2>c. /\ DOMAIN s = DOMAIN view /\ s.members = view.members
          /\ s.pending = view.pending /\ s.status = view.status
          /\ s.asking = view.asking /\ s.busy = view.busy
          /\ s.failed = view.failed /\ s.loads = view.loads /\ s.acts = q
          /\ s.asked = view.asked /\ s.fresh = view.fresh
      BY DEF MeshInv, MeshShape
    <2> HIDE DEF s
    <2>d. MeshSorts(s) /\ MeshFresh(s)
      BY <2>b, <2>c DEF MeshInv, MeshOk, MeshAll, MeshSorts, MeshFresh
    <2>z. DOMAIN t = DOMAIN view /\ MeshAll(t)
      BY <2>c, <2>d, MeshLoading DEF MeshInv
    <2> HIDE DEF t
    <2> QED BY <2>a, <2>z DEF MeshInv, MeshShape, MeshOk
  <1>12. CASE AMesh!Refresh
    <2> DEFINE t == AMesh!load(view)
    <2>a. view' = t
      BY <1>12 DEF AMesh!Refresh
    <2>z. DOMAIN t = DOMAIN view /\ MeshAll(t)
      BY MeshLoading DEF MeshInv, MeshOk, MeshAll
    <2> HIDE DEF t
    <2> QED BY <2>a, <2>z DEF MeshInv, MeshShape, MeshOk
  <1>13. CASE AMesh!Polls
    <2> DEFINE t == AMesh!load(view)
    <2>a. view' = t
      BY <1>13 DEF AMesh!Polls
    <2>z. DOMAIN t = DOMAIN view /\ MeshAll(t)
      BY MeshLoading DEF MeshInv, MeshOk, MeshAll
    <2> HIDE DEF t
    <2> QED BY <2>a, <2>z DEF MeshInv, MeshShape, MeshOk
  <1>14. CASE AMesh!Live
    <2> DEFINE t == AMesh!load(view)
    <2>a. view' = t
      BY <1>14 DEF AMesh!Live
    <2>z. DOMAIN t = DOMAIN view /\ MeshAll(t)
      BY MeshLoading DEF MeshInv, MeshOk, MeshAll
    <2> HIDE DEF t
    <2> QED BY <2>a, <2>z DEF MeshInv, MeshShape, MeshOk
  <1> QED
    BY <1>1, <1>2, <1>3, <1>4, <1>5, <1>6, <1>7, <1>8, <1>9, <1>10, <1>11,
       <1>12, <1>13, <1>14 DEF AMesh!Next

\* That gives the properties of AMesh.
LEMMA MeshHolds == MeshInv => AMesh!Settled /\ AMesh!Truthful
  <1> SUFFICES ASSUME MeshInv PROVE AMesh!Settled /\ AMesh!Truthful
    OBVIOUS
  <1>1. AMesh!Settled
    BY DEF MeshInv, MeshOk, MeshAll, MeshBusy, AMesh!Settled, AMesh!Unset
  <1>2. AMesh!Truthful
    BY DEF MeshInv, MeshOk, MeshAll, MeshDrawn, AMesh!Truthful
  <1> QED BY <1>1, <1>2

\* It holds from the first state on when the page is this one.
LEMMA MeshStays ==
  /\ Init => (subject = "mesh" => MeshInv)
  /\ (subject = "mesh" => MeshInv) /\ [Next]_vars
       => (subject = "mesh" => MeshInv)'
  <1>1. Init => (subject = "mesh" => MeshInv)
    BY MeshInit DEF Init
  <1>2. (subject = "mesh" => MeshInv) /\ [Next]_vars
          => (subject = "mesh" => MeshInv)'
    <2>1. ASSUME MeshInv, view' = view PROVE MeshInv'
      BY <2>1 DEF MeshInv, MeshShape, MeshOk, MeshAll, MeshSorts, MeshFresh,
          MeshDrawn, MeshBusy
    <2> QED BY <2>1, MeshStep DEF Next, vars
  <1> QED BY <1>1, <1>2

-----------------------------------------------------------------------------
(* The attachments.  What is drawn is what the list begins with; it is not *)
(* all of it only while a video gives its frames or after one broke off.   *)

ClipShape ==
  DOMAIN view = {"images", "drawn", "reading", "videos", "busy", "given",
                 "cut"}
ClipVideo == [of : Things, left : Nat]
ClipSorts ==
  /\ view.images \in Seq(Things) /\ view.drawn \in Seq(Things)
  /\ view.videos \subseteq ClipVideo /\ view.reading \subseteq Things
ClipCap ==
  /\ Len(view.images) <= MaxOut /\ view.given \in 0..MaxOut
ClipBegins ==
  /\ Len(view.drawn) <= Len(view.images)
  /\ \A i \in DOMAIN view.drawn : view.drawn[i] = view.images[i]
ClipEnds ==
  \/ view.drawn = view.images \/ view.cut
  \/ \E v \in view.videos : v.left # 0
ClipInv ==
  /\ ClipShape /\ ClipSorts /\ ClipCap /\ ClipBegins /\ ClipEnds

\* A video is its fields.
LEMMA ClipVideos ==
  /\ \A v \in ClipVideo : v.of \in Things /\ v.left \in Nat
  /\ \A v \in ClipVideo, n \in Nat :
       [v EXCEPT !.left = n] \in ClipVideo /\ [v EXCEPT !.left = n].left = n
  /\ \A f \in Things : [of |-> f, left |-> 0] \in ClipVideo
  BY DEF ClipVideo

\* Drawn again, the list is as it is.
LEMMA ClipDrawn ==
  ASSUME ClipShape, NEW s, DOMAIN s = DOMAIN view
  PROVE  LET t == AnAttach!renderAttachments(s)
         IN /\ DOMAIN t = DOMAIN view /\ t.images = s.images
            /\ t.drawn = s.images /\ t.reading = s.reading
            /\ t.videos = s.videos /\ t.busy = s.busy /\ t.given = s.given
  <1> DEFINE no == FALSE
  <1>1. AnAttach!renderAttachments(s)
          = [s EXCEPT !.drawn = s.images, !.cut = no]
    BY DEF AnAttach!renderAttachments
  <1> HIDE DEF no
  <1> QED BY <1>1 DEF ClipShape

\* One more image, where there is room for it.
LEMMA ClipPushed ==
  ASSUME ClipShape, ClipSorts, NEW s, DOMAIN s = DOMAIN view, NEW f \in Things,
         s.images = view.images, Len(view.images) <= MaxOut
  PROVE  LET t == AnAttach!Pushes(s, f)
         IN /\ DOMAIN t = DOMAIN view /\ t.images \in Seq(Things)
            /\ Len(t.images) = Len(view.images) + 1
            /\ ~AnAttach!Full(s) => Len(t.images) <= MaxOut
            /\ \A i \in 1..Len(view.images) : t.images[i] = view.images[i]
            /\ t.drawn = s.drawn /\ t.reading = s.reading
            /\ t.videos = s.videos /\ t.busy = s.busy /\ t.given = s.given
            /\ t.cut = s.cut
  <1> DEFINE q == Append(s.images, f)
  <1>1. AnAttach!Pushes(s, f) = [s EXCEPT !.images = q]
    BY DEF AnAttach!Pushes
  <1>2. /\ q \in Seq(Things) /\ Len(q) = Len(view.images) + 1
        /\ Len(view.images) \in Nat
        /\ \A i \in 1..Len(view.images) : q[i] = view.images[i]
    BY ListOf, ListAppended DEF ClipSorts
  <1> HIDE DEF q
  <1>3. ~AnAttach!Full(s) => Len(q) <= MaxOut
    BY <1>2, Bounds DEF AnAttach!Full
  <1> QED BY <1>1, <1>2, <1>3 DEF ClipShape

\* The attachments at the start.
LEMMA ClipInit == AnAttach!Init => ClipInv
  BY Bounds
  DEF ClipInv, ClipShape, ClipSorts, ClipCap, ClipBegins, ClipEnds,
      AnAttach!Init

\* Every step of it keeps what is said of it.
LEMMA ClipStep == ASSUME ClipInv, AnAttach!Next PROVE ClipInv'
  <1>1. CASE AnAttach!Submit
    <2> DEFINE b == TRUE
               n == Len(view.images)
    <2>a. view' = [view EXCEPT !.busy = b, !.given = n]
      BY <1>1 DEF AnAttach!Submit
    <2>b. n \in 0..MaxOut
      BY Bounds, ListOf DEF ClipInv, ClipSorts, ClipCap
    <2> HIDE DEF b, n
    <2>1. ClipShape'
      BY <2>a, <2>b, Bounds, ClipVideos
         DEF ClipInv, ClipShape, AnAttach!Off
    <2>2. ClipSorts'
      BY <2>a, <2>b, Bounds, ClipVideos
         DEF ClipInv, ClipShape, ClipSorts, AnAttach!Off
    <2>3. ClipCap'
      BY <2>a, <2>b, Bounds, ClipVideos
         DEF ClipInv, ClipShape, ClipSorts, ClipCap, AnAttach!Off
    <2>4. ClipBegins'
      BY <2>a, <2>b, Bounds, ClipVideos
         DEF ClipInv, ClipShape, ClipSorts, ClipBegins, AnAttach!Off
    <2>5. ClipEnds'
      BY <2>a, <2>b, Bounds, ClipVideos
         DEF ClipInv, ClipShape, ClipSorts, ClipEnds, AnAttach!Off
    <2> QED BY <2>1, <2>2, <2>3, <2>4, <2>5 DEF ClipInv
  <1>2. ASSUME NEW f \in Things, AnAttach!addImageFile(f) PROVE ClipInv'
    BY <1>2, Bounds, ClipVideos
       DEF ClipInv, ClipShape, ClipSorts, ClipCap, ClipBegins, ClipEnds,
           AnAttach!addImageFile, AnAttach!Off
  <1>3. ASSUME NEW f \in Things, AnAttach!addVideoFile(f) PROVE ClipInv'
    <2> DEFINE e == [of |-> f, left |-> 0]
    <2>a. view' = [view EXCEPT !.videos = @ \cup {e}] /\ e \in ClipVideo
      BY <1>3, ClipVideos DEF AnAttach!addVideoFile, AnAttach!Off
    <2> HIDE DEF e
    <2>1. ClipShape'
      BY <2>a, Bounds, ClipVideos
         DEF ClipInv, ClipShape, AnAttach!Off
    <2>2. ClipSorts'
      BY <2>a, Bounds, ClipVideos
         DEF ClipInv, ClipShape, ClipSorts, AnAttach!Off
    <2>3. ClipCap'
      BY <2>a, Bounds, ClipVideos
         DEF ClipInv, ClipShape, ClipSorts, ClipCap, AnAttach!Off
    <2>4. ClipBegins'
      BY <2>a, Bounds, ClipVideos
         DEF ClipInv, ClipShape, ClipSorts, ClipBegins, AnAttach!Off
    <2>5. ClipEnds'
      BY <2>a, Bounds, ClipVideos
         DEF ClipInv, ClipShape, ClipSorts, ClipEnds, AnAttach!Off
    <2> QED BY <2>1, <2>2, <2>3, <2>4, <2>5 DEF ClipInv
  <1>4. ASSUME NEW f \in view.reading, NEW fits \in BOOLEAN, AnAttach!Onload(f, fits) PROVE ClipInv'
    <2> DEFINE s == [view EXCEPT !.reading = @ \ {f}]
               p == AnAttach!Pushes(s, f)
               t == AnAttach!renderAttachments(p)
    <2>a. view' = IF fits /\ ~AnAttach!Full(s) THEN t ELSE s
      BY <1>4 DEF AnAttach!Onload
    <2>b. /\ DOMAIN s = DOMAIN view /\ s.images = view.images
          /\ s.drawn = view.drawn /\ s.reading = view.reading \ {f}
          /\ s.videos = view.videos /\ s.busy = view.busy
          /\ s.given = view.given /\ s.cut = view.cut /\ f \in Things
      BY DEF ClipInv, ClipShape, ClipSorts
    <2> HIDE DEF s
    <2>c. /\ DOMAIN p = DOMAIN view /\ p.images \in Seq(Things)
          /\ Len(p.images) = Len(view.images) + 1
          /\ ~AnAttach!Full(s) => Len(p.images) <= MaxOut
          /\ \A i \in 1..Len(view.images) : p.images[i] = view.images[i]
          /\ p.drawn = s.drawn /\ p.reading = s.reading
          /\ p.videos = s.videos /\ p.busy = s.busy
          /\ p.given = s.given /\ p.cut = s.cut
      BY <2>b, ClipPushed DEF ClipInv, ClipCap
    <2> HIDE DEF p
    <2>d. /\ DOMAIN t = DOMAIN view /\ t.images = p.images
          /\ t.drawn = p.images /\ t.reading = p.reading
          /\ t.videos = p.videos /\ t.busy = p.busy
          /\ t.given = p.given
      BY <2>c, ClipDrawn DEF ClipInv
    <2> HIDE DEF t
    <2>1. ClipShape'
      BY <2>a, <2>b, <2>c, <2>d, Bounds, ClipVideos
         DEF ClipInv, ClipShape, AnAttach!Off
    <2>2. ClipSorts'
      BY <2>a, <2>b, <2>c, <2>d, Bounds, ClipVideos
         DEF ClipInv, ClipShape, ClipSorts, AnAttach!Off
    <2>3. ClipCap'
      BY <2>a, <2>b, <2>c, <2>d, Bounds, ClipVideos
         DEF ClipInv, ClipShape, ClipSorts, ClipCap, AnAttach!Off
    <2>4. ClipBegins'
      <3>1. CASE view' = s
        BY <2>b, <3>1 DEF ClipInv, ClipBegins
      <3>2. CASE view' = t
        BY <2>c, <2>d, <3>2, ListOf DEF ClipBegins
      <3> QED BY <2>a, <3>1, <3>2
    <2>5. ClipEnds'
      BY <2>a, <2>b, <2>c, <2>d, Bounds, ClipVideos
         DEF ClipInv, ClipShape, ClipSorts, ClipEnds, AnAttach!Off
    <2> QED BY <2>1, <2>2, <2>3, <2>4, <2>5 DEF ClipInv
  <1>5. ASSUME NEW v \in view.videos, AnAttach!Onerror(v) PROVE ClipInv'
    <2> DEFINE b == view.cut \/ v.left # 0
    <2>a. view' = [view EXCEPT !.videos = @ \ {v}, !.cut = b] /\ v \in view.videos
      BY <1>5 DEF AnAttach!Onerror, AnAttach!Off
    <2>b. b <=> view.cut \/ v.left # 0
      OBVIOUS
    <2> HIDE DEF b
    <2>1. ClipShape'
      BY <2>a, <2>b, Bounds, ClipVideos
         DEF ClipInv, ClipShape, AnAttach!Off
    <2>2. ClipSorts'
      BY <2>a, <2>b, Bounds, ClipVideos
         DEF ClipInv, ClipShape, ClipSorts, AnAttach!Off
    <2>3. ClipCap'
      BY <2>a, <2>b, Bounds, ClipVideos
         DEF ClipInv, ClipShape, ClipSorts, ClipCap, AnAttach!Off
    <2>4. ClipBegins'
      BY <2>a, <2>b, Bounds, ClipVideos
         DEF ClipInv, ClipShape, ClipSorts, ClipBegins, AnAttach!Off
    <2>5. ClipEnds'
      BY <2>a, <2>b, Bounds, ClipVideos
         DEF ClipInv, ClipShape, ClipSorts, ClipEnds, AnAttach!Off
    <2> QED BY <2>1, <2>2, <2>3, <2>4, <2>5 DEF ClipInv
  <1>6. ASSUME NEW v \in view.videos, NEW n \in 1..MaxCount, AnAttach!Onloadedmetadata(v, n) PROVE ClipInv'
    <2> DEFINE e == [v EXCEPT !.left = n]
    <2>a. /\ view' = [view EXCEPT !.videos = (@ \ {v}) \cup {e}] /\ v.left = 0
          /\ v \in view.videos
      BY <1>6 DEF AnAttach!Onloadedmetadata, AnAttach!Off
    <2>b. e \in ClipVideo /\ e.left # 0
      <3>1. n \in Nat /\ n # 0 /\ v \in ClipVideo
        BY Bounds DEF ClipInv, ClipSorts
      <3>2. e \in ClipVideo /\ e.left = n
        BY <3>1, ClipVideos
      <3> QED BY <3>1, <3>2
    <2> HIDE DEF e
    <2>1. ClipShape'
      BY <2>a, <2>b, Bounds, ClipVideos
         DEF ClipInv, ClipShape, AnAttach!Off
    <2>2. ClipSorts'
      BY <2>a, <2>b, Bounds, ClipVideos
         DEF ClipInv, ClipShape, ClipSorts, AnAttach!Off
    <2>3. ClipCap'
      BY <2>a, <2>b, Bounds, ClipVideos
         DEF ClipInv, ClipShape, ClipSorts, ClipCap, AnAttach!Off
    <2>4. ClipBegins'
      BY <2>a, <2>b, Bounds, ClipVideos
         DEF ClipInv, ClipShape, ClipSorts, ClipBegins, AnAttach!Off
    <2>5. ClipEnds'
      BY <2>a, <2>b, Bounds, ClipVideos
         DEF ClipInv, ClipShape, ClipSorts, ClipEnds, AnAttach!Off
    <2> QED BY <2>1, <2>2, <2>3, <2>4, <2>5 DEF ClipInv
  <1>7. ASSUME NEW v \in view.videos, NEW fits \in BOOLEAN, AnAttach!grab(v, fits) PROVE ClipInv'
    <2> DEFINE p == AnAttach!Pushes(view, v.of)
               s == IF fits /\ ~AnAttach!Full(view) THEN p ELSE view
               rest == view.videos \ {v}
               e == [v EXCEPT !.left = v.left - 1]
               k == [s EXCEPT !.videos = rest]
               j == [s EXCEPT !.videos = rest \cup {e}]
               t == AnAttach!renderAttachments(k)
    <2>a. /\ view' = IF v.left = 1 THEN t ELSE j
          /\ v \in view.videos /\ v.left # 0
      BY <1>7 DEF AnAttach!grab, AnAttach!Off
    <2>b. v \in ClipVideo /\ v.of \in Things /\ v.left \in Nat
      BY ClipVideos DEF ClipInv, ClipSorts
    <2>c. v.left # 1 => e \in ClipVideo /\ e.left # 0
      <3> DEFINE n == v.left - 1
      <3>1. n \in Nat
        BY <2>a, <2>b
      <3>2. v.left # 1 => n # 0
        BY <2>b
      <3> HIDE DEF n
      <3>3. [v EXCEPT !.left = n] \in ClipVideo /\ [v EXCEPT !.left = n].left = n
        BY <2>b, <3>1, ClipVideos
      <3> QED BY <3>2, <3>3 DEF n
    <2> HIDE DEF e
    <2>d. /\ DOMAIN p = DOMAIN view /\ p.images \in Seq(Things)
          /\ Len(p.images) = Len(view.images) + 1
          /\ ~AnAttach!Full(view) => Len(p.images) <= MaxOut
          /\ \A i \in 1..Len(view.images) : p.images[i] = view.images[i]
          /\ p.drawn = view.drawn /\ p.reading = view.reading
          /\ p.videos = view.videos /\ p.busy = view.busy
          /\ p.given = view.given /\ p.cut = view.cut
      BY <2>b, ClipPushed DEF ClipInv, ClipCap
    <2> HIDE DEF p
    <2>e. /\ DOMAIN s = DOMAIN view /\ s.images \in Seq(Things)
          /\ Len(s.images) <= MaxOut /\ Len(s.images) >= Len(view.images)
          /\ Len(view.images) \in Nat
          /\ \A i \in 1..Len(view.images) : s.images[i] = view.images[i]
          /\ s.drawn = view.drawn /\ s.reading = view.reading
          /\ s.videos = view.videos /\ s.busy = view.busy
          /\ s.given = view.given /\ s.cut = view.cut
      BY <2>d, Bounds, ListOf DEF ClipInv, ClipSorts, ClipCap
    <2> HIDE DEF s
    <2>f. /\ DOMAIN k = DOMAIN view /\ k.images = s.images /\ k.drawn = s.drawn
          /\ k.reading = s.reading /\ k.videos = rest /\ k.busy = s.busy
          /\ k.given = s.given /\ k.cut = s.cut
          /\ DOMAIN j = DOMAIN view /\ j.images = s.images /\ j.drawn = s.drawn
          /\ j.reading = s.reading /\ j.videos = rest \cup {e} /\ j.busy = s.busy
          /\ j.given = s.given /\ j.cut = s.cut
      BY <2>e DEF ClipInv, ClipShape
    <2> HIDE DEF k, j
    <2>g. /\ DOMAIN t = DOMAIN view /\ t.images = k.images
          /\ t.drawn = k.images /\ t.reading = k.reading
          /\ t.videos = k.videos /\ t.busy = k.busy
          /\ t.given = k.given
      BY <2>f, ClipDrawn DEF ClipInv
    <2> HIDE DEF t
    <2>h. /\ Len(view.drawn) \in Nat /\ DOMAIN view.drawn = 1..Len(view.drawn)
          /\ \A i \in 1..Len(view.drawn) : view.drawn[i] = s.images[i]
      BY <2>e, ListOf DEF ClipInv, ClipSorts, ClipBegins
    <2>1. ClipShape'
      BY <2>a, <2>b, <2>c, <2>e, <2>f, <2>g, <2>h, Bounds, ClipVideos
         DEF ClipInv, ClipShape, AnAttach!Off
    <2>2. ClipSorts'
      BY <2>a, <2>b, <2>c, <2>e, <2>f, <2>g, <2>h, Bounds, ClipVideos
         DEF ClipInv, ClipShape, ClipSorts, AnAttach!Off
    <2>3. ClipCap'
      BY <2>a, <2>b, <2>c, <2>e, <2>f, <2>g, <2>h, Bounds, ClipVideos
         DEF ClipInv, ClipShape, ClipSorts, ClipCap, AnAttach!Off
    <2>4. ClipBegins'
      <3>1. CASE view' = j
        <4>1. view'.drawn = view.drawn /\ view'.images = s.images
          BY <2>e, <2>f, <3>1
        <4>2. Len(view.drawn) <= Len(view.images) /\ Len(s.images) \in Nat
          BY <2>e, ListOf DEF ClipInv, ClipBegins
        <4>3. Len(view.drawn) <= Len(s.images)
          BY <2>e, <2>h, <4>2
        <4> QED BY <2>h, <4>1, <4>3 DEF ClipBegins
      <3>2. CASE view' = t
        <4>1. view'.drawn = s.images /\ view'.images = s.images
          BY <2>f, <2>g, <3>2
        <4>2. Len(s.images) \in Nat
          BY <2>e, ListOf
        <4> QED BY <4>1, <4>2 DEF ClipBegins
      <3> QED BY <2>a, <3>1, <3>2
    <2>5. ClipEnds'
      BY <2>a, <2>b, <2>c, <2>e, <2>f, <2>g, <2>h, Bounds, ClipVideos
         DEF ClipInv, ClipShape, ClipSorts, ClipEnds, AnAttach!Off
    <2> QED BY <2>1, <2>2, <2>3, <2>4, <2>5 DEF ClipInv
  <1>8. ASSUME NEW i \in 1..MaxOut, AnAttach!Strike(i) PROVE ClipInv'
    <2> DEFINE q == AnAttach!Without(view.images, i)
               s == [view EXCEPT !.images = q]
               t == AnAttach!renderAttachments(s)
    <2>a. view' = t /\ i \in DOMAIN view.drawn
      BY <1>8 DEF AnAttach!Strike
    <2>b. /\ DOMAIN s = DOMAIN view /\ s.images = q
          /\ s.drawn = view.drawn /\ s.reading = view.reading
          /\ s.videos = view.videos /\ s.busy = view.busy
          /\ s.given = view.given
      BY DEF ClipInv, ClipShape
    <2> HIDE DEF s
    <2>c. /\ DOMAIN t = DOMAIN view /\ t.images = s.images
          /\ t.drawn = s.images /\ t.reading = s.reading
          /\ t.videos = s.videos /\ t.busy = s.busy
          /\ t.given = s.given
      BY <2>b, ClipDrawn DEF ClipInv
    <2> HIDE DEF t
    <2>d. q \in Seq(Things) /\ Len(q) = Len(view.images) - 1
          /\ Len(view.images) \in Nat
      <3>1. i \in 1..Len(view.images) /\ Len(view.images) \in Nat
        BY <2>a, ListOf DEF ClipInv, ClipSorts, ClipBegins
      <3>2. q = Without(view.images, i)
        BY DEF AnAttach!Without, Without
      <3> HIDE DEF q
      <3> QED BY <3>1, <3>2, ListRemoved DEF ClipInv, ClipSorts
    <2> HIDE DEF q
    <2>1. ClipShape'
      BY <2>a, <2>b, <2>c, <2>d, Bounds, ClipVideos
         DEF ClipInv, ClipShape, AnAttach!Off
    <2>2. ClipSorts'
      BY <2>a, <2>b, <2>c, <2>d, Bounds, ClipVideos
         DEF ClipInv, ClipShape, ClipSorts, AnAttach!Off
    <2>3. ClipCap'
      <3>1. view'.images = q /\ view'.given = view.given
        BY <2>a, <2>b, <2>c
      <3>2. Len(q) <= MaxOut
        BY <2>d, Bounds DEF ClipInv, ClipCap
      <3> QED BY <3>1, <3>2 DEF ClipInv, ClipCap
    <2>4. ClipBegins'
      BY <2>a, <2>b, <2>c, <2>d, Bounds, ClipVideos
         DEF ClipInv, ClipShape, ClipSorts, ClipBegins, AnAttach!Off
    <2>5. ClipEnds'
      BY <2>a, <2>b, <2>c, <2>d, Bounds, ClipVideos
         DEF ClipInv, ClipShape, ClipSorts, ClipEnds, AnAttach!Off
    <2> QED BY <2>1, <2>2, <2>3, <2>4, <2>5 DEF ClipInv
  <1>9. ASSUME NEW ok \in BOOLEAN, AnAttach!Ends(ok) PROVE ClipInv'
    <2> DEFINE no == FALSE
               s == [view EXCEPT !.busy = no, !.given = 0]
               e == [s EXCEPT !.images = <<>>]
               t == AnAttach!renderAttachments(e)
    <2>a. view' = IF ok THEN t ELSE s
      BY <1>9 DEF AnAttach!Ends
    <2> HIDE DEF no
    <2>b. /\ DOMAIN s = DOMAIN view /\ s.images = view.images
          /\ s.drawn = view.drawn /\ s.reading = view.reading
          /\ s.videos = view.videos /\ s.given = 0 /\ s.cut = view.cut
          /\ DOMAIN e = DOMAIN view /\ e.images = <<>>
          /\ e.drawn = view.drawn /\ e.reading = view.reading
          /\ e.videos = view.videos /\ e.given = 0
      BY DEF ClipInv, ClipShape
    <2> HIDE DEF s, e
    <2>c. /\ DOMAIN t = DOMAIN view /\ t.images = e.images
          /\ t.drawn = e.images /\ t.reading = e.reading
          /\ t.videos = e.videos /\ t.busy = e.busy
          /\ t.given = e.given
      BY <2>b, ClipDrawn DEF ClipInv
    <2>d. <<>> \in Seq(Things) /\ Len(<<>>) = 0 /\ DOMAIN <<>> = {}
      OBVIOUS
    <2> HIDE DEF t
    <2>1. ClipShape'
      BY <2>a, <2>b, <2>c, <2>d, Bounds, ClipVideos
         DEF ClipInv, ClipShape, AnAttach!Off
    <2>2. ClipSorts'
      BY <2>a, <2>b, <2>c, <2>d, Bounds, ClipVideos
         DEF ClipInv, ClipShape, ClipSorts, AnAttach!Off
    <2>3. ClipCap'
      <3>1. view'.given = 0
        BY <2>a, <2>b, <2>c
      <3>2. view'.images = <<>> \/ view'.images = view.images
        BY <2>a, <2>b, <2>c
      <3>3. 0 \in 0..MaxOut /\ 0 <= MaxOut
        BY Bounds
      <3> QED BY <2>d, <3>1, <3>2, <3>3 DEF ClipInv, ClipCap
    <2>4. ClipBegins'
      <3>1. CASE view' = s
        BY <2>b, <3>1 DEF ClipInv, ClipBegins
      <3>2. CASE view' = t
        <4>1. view'.drawn = <<>> /\ view'.images = <<>>
          BY <2>b, <2>c, <3>2
        <4> QED BY <2>d, <4>1 DEF ClipBegins
      <3> QED BY <2>a, <3>1, <3>2
    <2>5. ClipEnds'
      BY <2>a, <2>b, <2>c, <2>d, Bounds, ClipVideos
         DEF ClipInv, ClipShape, ClipSorts, ClipEnds, AnAttach!Off
    <2> QED BY <2>1, <2>2, <2>3, <2>4, <2>5 DEF ClipInv
  <1> QED
    BY <1>1, <1>2, <1>3, <1>4, <1>5, <1>6, <1>7, <1>8, <1>9 DEF AnAttach!Next

\* That gives the properties of AnAttach.
LEMMA ClipHolds == ClipInv => AnAttach!InStep /\ AnAttach!Sound
  <1> SUFFICES ASSUME ClipInv PROVE AnAttach!InStep /\ AnAttach!Sound
    OBVIOUS
  <1>1. AnAttach!Sound
    BY Bounds DEF ClipInv, ClipCap, AnAttach!Sound
  <1> QED
    BY <1>1 DEF ClipInv, ClipSorts, ClipBegins, ClipEnds, AnAttach!InStep

\* It holds from the first state on when the page is this one.
LEMMA ClipStays ==
  /\ Init => (subject = "attach" => ClipInv)
  /\ (subject = "attach" => ClipInv) /\ [Next]_vars
       => (subject = "attach" => ClipInv)'
  <1>1. Init => (subject = "attach" => ClipInv)
    BY ClipInit DEF Init
  <1>2. (subject = "attach" => ClipInv) /\ [Next]_vars
          => (subject = "attach" => ClipInv)'
    <2>1. ASSUME ClipInv, view' = view PROVE ClipInv'
      BY <2>1 DEF ClipInv, ClipShape, ClipSorts, ClipCap, ClipBegins, ClipEnds
    <2> QED BY <2>1, ClipStep DEF Next, vars
  <1> QED BY <1>1, <1>2

-----------------------------------------------------------------------------
(* A message row.  What a request did last of its kind is what the server  *)
(* has; the row has it too, unless that answer is out or was overtaken;    *)
(* and no copy of the threads is ahead of the row of its message.          *)

ThreadShape ==
  DOMAIN view = {"srv", "drawn", "snap", "text", "body", "typed", "focus",
                 "mine", "gone", "bare", "posts", "crossed", "kept", "copy",
                 "clicks"}
ThreadKinds == {"react", "edit", "delete"}
ThreadPost ==
  [kind : ThreadKinds, text : Nat, done : BOOLEAN, added : BOOLEAN,
   off : BOOLEAN, late : BOOLEAN]
ThreadYes == TRUE
ThreadSays(m, p) ==
  /\ p.kind = "react" => m.mine = p.added
  /\ p.kind = "edit" => m.text = p.text
  /\ p.kind = "delete" => m.gone = ThreadYes
ThreadSame(m, n, k) ==
  /\ k = "react" => m.mine = n.mine
  /\ k = "edit" => m.text = n.text
  /\ k = "delete" => m.gone = n.gone
ThreadSorts(s) ==
  /\ s.posts \in Seq(ThreadPost) /\ DOMAIN s.srv = {"text", "mine", "gone"}
  /\ s.srv.text \in Nat \ {0} /\ s.text \in Nat \ {0}
  /\ s.snap.read => s.snap.text \in Nat \ {0}
  /\ s.body \in Nat /\ s.typed \in Nat
  /\ \A i \in DOMAIN s.posts : s.posts[i].kind = "edit" => s.posts[i].text # 0
  /\ s.kept \in [Things -> Nat] /\ s.copy \in [Things -> [Things -> Nat]]
ThreadPlace(s) ==
  /\ s.focus => s.drawn
  /\ s.snap.read => ~s.drawn
  /\ ~s.drawn => \A i \in DOMAIN s.posts : s.posts[i].off
ThreadServed(s) ==
  \A i \in DOMAIN s.posts :
    /\ s.posts[i].done /\ ~s.posts[i].late => ThreadSays(s.srv, s.posts[i])
    /\ s.posts[i].late => s.posts[i].done
ThreadOwed(s, k) ==
  \E i \in DOMAIN s.posts : /\ s.posts[i].kind = k /\ s.posts[i].done
                            /\ ~s.posts[i].off /\ ~s.posts[i].late
ThreadShown(s) ==
  \A k \in ThreadKinds \ s.crossed :
    /\ s.drawn => ThreadSame(s, s.srv, k) \/ ThreadOwed(s, k)
    /\ s.snap.read => ThreadSame(s.snap, s.srv, k)
ThreadKept(s) ==
  s.drawn => \A r \in Things :
               /\ s.kept[r] <= s.copy[r][r]
               /\ \A q \in Things : s.copy[q][r] <= s.copy[r][r]
ThreadField(s) ==
  s.drawn /\ s.body = 0 =>
    s.focus \/ \E i \in DOMAIN s.posts :
                 s.posts[i].kind = "edit" /\ ~s.posts[i].off
ThreadRest(s) ==
  /\ ThreadSorts(s) /\ ThreadPlace(s) /\ ThreadServed(s)
  /\ ThreadShown(s) /\ ThreadKept(s)
ThreadOk ==
  ThreadRest(view) /\ ThreadField(view)
ThreadInv == ThreadShape /\ ThreadOk

\* A request is its fields.
LEMMA ThreadPosts ==
  \A p \in ThreadPost :
    /\ p.kind \in ThreadKinds /\ p.text \in Nat /\ p.done \in BOOLEAN
    /\ p.added \in BOOLEAN /\ p.off \in BOOLEAN /\ p.late \in BOOLEAN
  BY DEF ThreadPost

\* A new request.
LEMMA ThreadNew ==
  ASSUME NEW k \in ThreadKinds, NEW v \in Nat
  PROVE  LET p == [kind |-> k, text |-> v, done |-> FALSE, added |-> FALSE,
                   off |-> FALSE, late |-> FALSE]
         IN /\ p \in ThreadPost /\ p.kind = k /\ p.text = v
            /\ ~p.done /\ ~p.off /\ ~p.late
  <1> DEFINE no == FALSE
  <1>1. no \in BOOLEAN /\ ~no
    OBVIOUS
  <1> HIDE DEF no
  <1>2. LET p == [kind |-> k, text |-> v, done |-> no, added |-> no,
                  off |-> no, late |-> no]
        IN /\ p \in ThreadPost /\ p.kind = k /\ p.text = v
           /\ ~p.done /\ ~p.off /\ ~p.late
    BY <1>1 DEF ThreadPost
  <1> QED BY <1>2 DEF no

\* Its row is off screen; another was done after it; it is done.
LEMMA ThreadOff ==
  ASSUME NEW p \in ThreadPost
  PROVE  LET q == [p EXCEPT !.off = TRUE]
         IN /\ q \in ThreadPost /\ q.kind = p.kind /\ q.text = p.text
            /\ (q.done <=> p.done) /\ q.added = p.added /\ (q.late <=> p.late)
            /\ q.off
  <1> DEFINE yes == TRUE
  <1>1. yes \in BOOLEAN /\ yes
    OBVIOUS
  <1> HIDE DEF yes
  <1>2. LET q == [p EXCEPT !.off = yes]
        IN /\ q \in ThreadPost /\ q.kind = p.kind /\ q.text = p.text
           /\ (q.done <=> p.done) /\ q.added = p.added /\ (q.late <=> p.late)
           /\ q.off
    BY <1>1 DEF ThreadPost
  <1> QED BY <1>2 DEF yes

\* One that is overtaken or not.
LEMMA ThreadLate ==
  ASSUME NEW p \in ThreadPost, NEW b \in BOOLEAN
  PROVE  LET q == [p EXCEPT !.late = b]
         IN /\ q \in ThreadPost /\ q.kind = p.kind /\ q.text = p.text
            /\ (q.done <=> p.done) /\ q.added = p.added /\ (q.late <=> b)
            /\ (q.off <=> p.off)
  BY DEF ThreadPost

\* One the server has done.
LEMMA ThreadDone ==
  ASSUME NEW p \in ThreadPost, NEW on \in BOOLEAN
  PROVE  LET q == [p EXCEPT !.done = TRUE, !.added = on]
         IN /\ q \in ThreadPost /\ q.kind = p.kind /\ q.text = p.text
            /\ q.done /\ q.added = on /\ (q.late <=> p.late)
            /\ (q.off <=> p.off)
  <1> DEFINE yes == TRUE
  <1>1. yes \in BOOLEAN /\ yes
    OBVIOUS
  <1> HIDE DEF yes
  <1>2. LET q == [p EXCEPT !.done = yes, !.added = on]
        IN /\ q \in ThreadPost /\ q.kind = p.kind /\ q.text = p.text
           /\ q.done /\ q.added = on /\ (q.late <=> p.late)
           /\ (q.off <=> p.off)
    BY <1>1 DEF ThreadPost
  <1> QED BY <1>2 DEF yes

\* A click that changes no more than its count keeps the invariant.
LEMMA ThreadClicked ==
  ASSUME ThreadShape, NEW s, DOMAIN s = DOMAIN view, ThreadRest(s),
         ThreadField(s), AThreads!Clicks(s)
  PROVE  ThreadInv'
  <1> DEFINE n == s.clicks + 1
  <1>1. view' = [s EXCEPT !.clicks = n]
    BY DEF AThreads!Clicks
  <1> HIDE DEF n
  <1>2. /\ DOMAIN view' = DOMAIN view /\ view'.srv = s.srv
        /\ view'.drawn = s.drawn /\ view'.snap = s.snap
        /\ view'.text = s.text /\ view'.body = s.body
        /\ view'.typed = s.typed /\ view'.focus = s.focus
        /\ view'.mine = s.mine /\ view'.gone = s.gone /\ view'.bare = s.bare
        /\ view'.posts = s.posts /\ view'.crossed = s.crossed
        /\ view'.kept = s.kept /\ view'.copy = s.copy /\ view'.clicks = n
    BY <1>1 DEF ThreadShape
  <1>3. ThreadSorts(view') /\ ThreadPlace(view') /\ ThreadServed(view')
    BY <1>2 DEF ThreadRest, ThreadSorts, ThreadPlace, ThreadServed
  <1>4. ThreadShown(view')
    BY <1>2 DEF ThreadRest, ThreadShown, ThreadOwed, ThreadSame
  <1>5. ThreadKept(view') /\ ThreadField(view')
    BY <1>2 DEF ThreadRest, ThreadKept, ThreadField
  <1> QED BY <1>2, <1>3, <1>4, <1>5 DEF ThreadInv, ThreadShape, ThreadOk, ThreadRest

\* Another request.
LEMMA ThreadPosting ==
  ASSUME ThreadShape, NEW s, DOMAIN s = DOMAIN view, ThreadRest(s), s.drawn,
         NEW k \in ThreadKinds, NEW v \in Nat, k = "edit" => v # 0,
         k = "edit" \/ ThreadField(s)
  PROVE  LET t == AThreads!Post(s, k, v)
         IN DOMAIN t = DOMAIN view /\ ThreadRest(t) /\ ThreadField(t)
  <1> DEFINE n == [kind |-> k, text |-> v, done |-> FALSE, added |-> FALSE,
                   off |-> FALSE, late |-> FALSE]
             q == Append(s.posts, n)
             t == [s EXCEPT !.posts = q]
  <1>1. AThreads!Post(s, k, v) = t
    BY DEF AThreads!Post
  <1>2. /\ n \in ThreadPost /\ n.kind = k /\ n.text = v
        /\ ~n.done /\ ~n.off /\ ~n.late
    BY ThreadNew
  <1> HIDE DEF n
  <1>3. /\ q \in Seq(ThreadPost) /\ \E i \in DOMAIN q : q[i] = n
        /\ \A i \in DOMAIN q :
             q[i] = n \/ (i \in DOMAIN s.posts /\ q[i] = s.posts[i])
        /\ \A i \in DOMAIN s.posts : i \in DOMAIN q /\ q[i] = s.posts[i]
    <2>1. s.posts \in Seq(ThreadPost)
      BY DEF ThreadRest, ThreadSorts
    <2>2. /\ q \in Seq(ThreadPost) /\ Len(q) = Len(s.posts) + 1
          /\ q[Len(s.posts) + 1] = n
          /\ \A i \in 1..Len(s.posts) : q[i] = s.posts[i]
      BY <1>2, <2>1, ListAppended
    <2>3. DOMAIN s.posts = 1..Len(s.posts) /\ Len(s.posts) \in Nat
      BY <2>1, ListOf
    <2> HIDE DEF q
    <2>4. DOMAIN q = 1..Len(q)
      BY <2>2, ListOf
    <2>5. Len(s.posts) + 1 \in DOMAIN q
      BY <2>2, <2>3, <2>4
    <2> QED BY <2>2, <2>3, <2>4, <2>5
  <1> HIDE DEF q
  <1>4. /\ DOMAIN t = DOMAIN view /\ t.srv = s.srv /\ t.drawn = s.drawn
        /\ t.snap = s.snap /\ t.text = s.text /\ t.body = s.body
        /\ t.typed = s.typed /\ t.focus = s.focus /\ t.mine = s.mine
        /\ t.gone = s.gone /\ t.bare = s.bare /\ t.posts = q
        /\ t.crossed = s.crossed /\ t.kept = s.kept /\ t.copy = s.copy
        /\ t.clicks = s.clicks
    BY DEF ThreadShape
  <1> HIDE DEF t
  <1>5. ThreadSorts(t)
    <2>1. \A i \in DOMAIN q : q[i].kind = "edit" => q[i].text # 0
      BY <1>2, <1>3 DEF ThreadRest, ThreadSorts
    <2> QED BY <1>3, <1>4, <2>1 DEF ThreadRest, ThreadSorts
  <1>6. ThreadPlace(t)
    BY <1>4 DEF ThreadRest, ThreadPlace
  <1>7. ThreadServed(t)
    BY <1>2, <1>3, <1>4 DEF ThreadRest, ThreadServed
  <1>8. ThreadShown(t)
    <2>1. \A j \in ThreadKinds : ThreadOwed(s, j) => ThreadOwed(t, j)
      BY <1>3, <1>4 DEF ThreadOwed
    <2> QED BY <1>4, <2>1 DEF ThreadRest, ThreadShown, ThreadSame
  <1>9. ThreadKept(t)
    BY <1>4 DEF ThreadRest, ThreadKept
  <1>10. ThreadField(t)
    BY <1>2, <1>3, <1>4 DEF ThreadField
  <1> QED BY <1>1, <1>4, <1>5, <1>6, <1>7, <1>8, <1>9, <1>10 DEF ThreadRest

\* What the row shows, and whether the field has the focus, is ThreadField's.
LEMMA ThreadBody ==
  ASSUME NEW s, NEW t, ThreadRest(s), t.body \in Nat, t.typed \in Nat,
         t.focus => s.drawn,
         /\ TRUE /\ t.srv = s.srv /\ t.drawn = s.drawn
         /\ t.snap = s.snap /\ t.text = s.text /\ t.mine = s.mine
         /\ t.gone = s.gone /\ t.posts = s.posts /\ t.crossed = s.crossed
         /\ t.kept = s.kept /\ t.copy = s.copy
  PROVE  ThreadRest(t)
  <1>1. ThreadSorts(t) /\ ThreadPlace(t) /\ ThreadServed(t)
    BY DEF ThreadRest, ThreadSorts, ThreadPlace, ThreadServed
  <1>2. ThreadShown(t) /\ ThreadKept(t)
    BY DEF ThreadRest, ThreadShown, ThreadOwed, ThreadSame, ThreadKept
  <1> QED BY <1>1, <1>2 DEF ThreadRest

\* The field is left.
LEMMA ThreadFinish ==
  ASSUME ThreadShape, NEW s, DOMAIN s = DOMAIN view, ThreadRest(s), s.drawn
  PROVE  LET t == AThreads!finishEdit(s)
         IN DOMAIN t = DOMAIN view /\ ThreadRest(t) /\ ThreadField(t)
  <1>1. s.typed \in Nat /\ s.text \in Nat \ {0}
    BY DEF ThreadRest, ThreadSorts
  <1>2. CASE s.typed \notin {0, s.text}
    <2> DEFINE t == AThreads!Post(s, "edit", s.typed)
    <2>1. AThreads!finishEdit(s) = t
      BY <1>2 DEF AThreads!finishEdit, AThreads!Input
    <2>2. "edit" \in ThreadKinds /\ s.typed # 0
      BY <1>2 DEF ThreadKinds
    <2>3. DOMAIN t = DOMAIN view /\ ThreadRest(t) /\ ThreadField(t)
      BY <1>1, <2>2, ThreadPosting
    <2> QED BY <2>1, <2>3
  <1>3. CASE s.typed \in {0, s.text}
    <2> DEFINE no == FALSE
               w == s.typed
               v == s.text
               t == [s EXCEPT !.body = v, !.typed = w, !.focus = no]
    <2>1. AThreads!finishEdit(s) = t
      <3>1. AThreads!finishEdit(s) = [s EXCEPT !.body = s.text, !.focus = FALSE]
        BY <1>3 DEF AThreads!finishEdit, AThreads!Input
      <3>2. [s EXCEPT !.body = s.text, !.focus = FALSE] = t
        BY DEF ThreadShape
      <3> QED BY <3>1, <3>2
    <2>2. v \in Nat \ {0} /\ w \in Nat /\ ~no
      BY <1>1
    <2> HIDE DEF no, w, v
    <2>a. /\ DOMAIN t = DOMAIN view /\ t.srv = s.srv /\ t.drawn = s.drawn
          /\ t.snap = s.snap /\ t.text = s.text /\ t.body = v /\ t.typed = w
          /\ t.focus = no /\ t.mine = s.mine /\ t.gone = s.gone
          /\ t.bare = s.bare /\ t.posts = s.posts /\ t.crossed = s.crossed
          /\ t.kept = s.kept /\ t.copy = s.copy /\ t.clicks = s.clicks
      BY DEF ThreadShape
    <2> HIDE DEF t
    <2>3. ThreadRest(t)
      BY <2>2, <2>a, ThreadBody
    <2> QED BY <2>1, <2>2, <2>3, <2>a DEF ThreadField
  <1> QED BY <1>2, <1>3

\* A text takes the place of the field.
LEMMA ThreadShows ==
  ASSUME ThreadShape, NEW s, DOMAIN s = DOMAIN view, ThreadRest(s), s.drawn,
         NEW v \in Nat \ {0}, NEW t \in AThreads!Shows(s, v)
  PROVE  DOMAIN t = DOMAIN view /\ ThreadRest(t) /\ ThreadField(t)
  <1> DEFINE no == FALSE
             w == s.typed
             n == [s EXCEPT !.body = v, !.typed = w, !.focus = no]
             u == AThreads!Post(n, "edit", w)
  <1>1. /\ t = n \/ t = u
        /\ t # n => w # 0
    <2>1. [s EXCEPT !.body = v, !.focus = FALSE] = n
      BY DEF ThreadShape
    <2> HIDE DEF n
    <2> QED BY <2>1 DEF AThreads!Shows, AThreads!Input
  <1>2. w \in Nat /\ ~no
    BY DEF ThreadRest, ThreadSorts
  <1> HIDE DEF no, w
  <1>a. /\ DOMAIN n = DOMAIN view /\ n.srv = s.srv /\ n.drawn = s.drawn
        /\ n.snap = s.snap /\ n.text = s.text /\ n.body = v /\ n.typed = w
        /\ n.focus = no /\ n.mine = s.mine /\ n.gone = s.gone
        /\ n.bare = s.bare /\ n.posts = s.posts /\ n.crossed = s.crossed
        /\ n.kept = s.kept /\ n.copy = s.copy /\ n.clicks = s.clicks
    BY DEF ThreadShape
  <1> HIDE DEF n
  <1>3. DOMAIN n = DOMAIN view /\ ThreadRest(n) /\ n.body = v /\ n.drawn = s.drawn
    BY <1>2, <1>a, ThreadBody
  <1>4. ThreadField(n)
    BY <1>3 DEF ThreadField
  <1>5. w # 0 => DOMAIN u = DOMAIN view /\ ThreadRest(u) /\ ThreadField(u)
    <2>1. "edit" \in ThreadKinds
      BY DEF ThreadKinds
    <2> QED BY <1>2, <1>3, <2>1, ThreadPosting
  <1> HIDE DEF u
  <1> QED BY <1>1, <1>3, <1>4, <1>5

\* A request is answered, or fails.
LEMMA ThreadRemoved ==
  ASSUME ThreadInv, NEW i \in DOMAIN view.posts, NEW s, s.text \in Nat \ {0},
         s.posts = Without(view.posts, i),
         /\ DOMAIN s = DOMAIN view /\ s.srv = view.srv /\ s.drawn = view.drawn
         /\ s.snap = view.snap /\ s.body = view.body /\ s.typed = view.typed
         /\ s.focus = view.focus /\ s.bare = view.bare /\ s.kept = view.kept
         /\ s.copy = view.copy /\ s.clicks = view.clicks,
         \A k \in ThreadKinds \ s.crossed :
           \/ /\ k \notin view.crossed /\ ThreadSame(s, view, k)
              /\ k = view.posts[i].kind =>
                   view.posts[i].off \/ ~view.posts[i].done
           \/ view.drawn /\ ThreadSame(s, view.srv, k)
  PROVE  /\ ThreadRest(s)
         /\ view.posts[i].kind # "edit" \/ view.posts[i].off
              => ThreadField(s)
  <1> DEFINE p == view.posts[i]
             q == s.posts
             c == s.crossed
  <1>1. /\ view.posts \in Seq(ThreadPost) /\ DOMAIN view.posts = 1..Len(view.posts)
        /\ Len(view.posts) \in Nat
    BY ListOf DEF ThreadInv, ThreadOk, ThreadRest, ThreadSorts
  <1>2. /\ q \in Seq(ThreadPost)
        /\ \A k \in DOMAIN q :
             \E j \in DOMAIN view.posts : j # i /\ q[k] = view.posts[j]
        /\ \A j \in DOMAIN view.posts :
             j # i => \E k \in DOMAIN q : q[k] = view.posts[j]
    <2>1. /\ q \in Seq(ThreadPost)
          /\ \A k \in DOMAIN q :
               \E j \in DOMAIN view.posts : j # i /\ q[k] = view.posts[j]
      <3> DEFINE Q == view.posts
                 r == Without(Q, i)
      <3>1. i \in 1..Len(Q) /\ Q \in Seq(ThreadPost) /\ q = r
        BY <1>1
      <3> HIDE DEF q, Q
      <3>2. /\ r \in Seq(ThreadPost)
            /\ \A k \in DOMAIN r : \E j \in DOMAIN Q : j # i /\ r[k] = Q[j]
        BY <3>1, ListShorter
      <3> HIDE DEF r
      <3> QED BY <3>1, <3>2 DEF Q
    <2>2. /\ Len(q) = Len(view.posts) - 1
          /\ \A k \in 1..(Len(view.posts) - 1) :
               q[k] = IF k < i THEN view.posts[k] ELSE view.posts[k + 1]
      BY <1>1, ListRemoved
    <2> HIDE DEF q
    <2>3. DOMAIN q = 1..Len(q)
      BY <2>1, ListOf
    <2>4. ASSUME NEW j \in DOMAIN view.posts, j # i
          PROVE  \E k \in DOMAIN q : q[k] = view.posts[j]
      <3>1. CASE j < i
        <4>1. j \in DOMAIN q /\ q[j] = view.posts[j]
          BY <1>1, <2>2, <2>3, <3>1
        <4> QED BY <4>1
      <3>2. CASE j > i
        <4>1. j - 1 \in DOMAIN q /\ q[j - 1] = view.posts[j]
          BY <1>1, <2>2, <2>3, <3>2
        <4> QED BY <4>1
      <3> QED BY <1>1, <2>4, <3>1, <3>2
    <2> QED BY <2>1, <2>4
  <1>3. /\ DOMAIN s = DOMAIN view /\ s.srv = view.srv /\ s.drawn = view.drawn
        /\ s.snap = view.snap /\ s.body = view.body /\ s.typed = view.typed
        /\ s.focus = view.focus /\ s.bare = view.bare /\ s.posts = q
        /\ s.crossed = c /\ s.kept = view.kept /\ s.copy = view.copy
        /\ s.clicks = view.clicks
        /\ s.text \in Nat \ {0}
    OBVIOUS
  <1>4. \A k \in ThreadKinds \ c :
          \/ /\ k \notin view.crossed /\ ThreadSame(s, view, k)
             /\ k = p.kind => p.off \/ ~p.done
          \/ view.drawn /\ ThreadSame(s, view.srv, k)
    OBVIOUS
  <1> HIDE DEF q, c
  <1>5. ThreadSorts(s)
    <2>1. \A j \in DOMAIN q : q[j].kind = "edit" => q[j].text # 0
      BY <1>2 DEF ThreadInv, ThreadOk, ThreadRest, ThreadSorts
    <2> QED BY <1>2, <1>3, <2>1 DEF ThreadInv, ThreadOk, ThreadRest, ThreadSorts
  <1>6. ThreadPlace(s) /\ ThreadServed(s)
    BY <1>2, <1>3 DEF ThreadInv, ThreadOk, ThreadRest, ThreadPlace, ThreadServed
  <1>7. ThreadShown(s)
    <2>1. SUFFICES ASSUME NEW k \in ThreadKinds \ c
                   PROVE  /\ s.drawn => ThreadSame(s, s.srv, k) \/ ThreadOwed(s, k)
                          /\ s.snap.read => ThreadSame(s.snap, s.srv, k)
      BY <1>3 DEF ThreadShown
    <2>2. CASE /\ k \notin view.crossed /\ ThreadSame(s, view, k)
               /\ k = p.kind => p.off \/ ~p.done
      <3>1. /\ view.drawn => ThreadSame(view, view.srv, k) \/ ThreadOwed(view, k)
            /\ view.snap.read => ThreadSame(view.snap, view.srv, k)
        BY <2>2 DEF ThreadInv, ThreadOk, ThreadRest, ThreadShown
      <3>2. ThreadSame(view, view.srv, k) => ThreadSame(s, view.srv, k)
        BY <2>2 DEF ThreadSame
      <3>3. ThreadOwed(view, k) => ThreadOwed(s, k)
        <4>1. ASSUME NEW j \in DOMAIN view.posts, view.posts[j].kind = k,
                     view.posts[j].done, ~view.posts[j].off,
                     ~view.posts[j].late
              PROVE  ThreadOwed(s, k)
          <5>1. j # i
            BY <2>2, <4>1
          <5>2. PICK h \in DOMAIN q : q[h] = view.posts[j]
            BY <1>2, <5>1
          <5> QED BY <1>3, <4>1, <5>2 DEF ThreadOwed
        <4> QED BY <4>1 DEF ThreadOwed
      <3> QED BY <1>3, <3>1, <3>2, <3>3
    <2>3. CASE view.drawn /\ ThreadSame(s, view.srv, k)
      <3>1. ~view.snap.read
        BY <2>3 DEF ThreadInv, ThreadOk, ThreadRest, ThreadPlace
      <3> QED BY <1>3, <2>3, <3>1
    <2> QED BY <1>4, <2>2, <2>3
  <1>8. ThreadKept(s)
    BY <1>3 DEF ThreadInv, ThreadOk, ThreadRest, ThreadKept
  <1>9. ASSUME p.kind # "edit" \/ p.off PROVE ThreadField(s)
    <2>1. ASSUME NEW j \in DOMAIN view.posts, view.posts[j].kind = "edit",
                 ~view.posts[j].off
          PROVE  \E h \in DOMAIN q : q[h].kind = "edit" /\ ~q[h].off
      <3>1. j # i
        BY <1>9, <2>1
      <3> QED BY <1>2, <2>1, <3>1
    <2> QED BY <1>3, <2>1 DEF ThreadInv, ThreadOk, ThreadField
  <1> QED
    <2>1. ThreadRest(s)
      BY <1>5, <1>6, <1>7, <1>8 DEF ThreadRest
    <2> QED BY <1>9, <2>1

\* The log is drawn from what the poll read.
LEMMA ThreadDrawing ==
  ASSUME ThreadShape, NEW s, DOMAIN s = DOMAIN view, NEW m,
         m.text \in Nat \ {0}, ThreadServed(s), ~s.focus, s.typed \in Nat,
         s.posts \in Seq(ThreadPost), DOMAIN s.srv = {"text", "mine", "gone"},
         s.srv.text \in Nat \ {0}, s.kept \in [Things -> Nat],
         \A i \in DOMAIN s.posts :
           s.posts[i].kind = "edit" => s.posts[i].text # 0,
         \A k \in ThreadKinds \ s.crossed : ThreadSame(m, s.srv, k)
  PROVE  LET t == AThreads!Draw(s, m)
         IN DOMAIN t = DOMAIN view /\ ThreadRest(t) /\ ThreadField(t)
  <1> DEFINE yes == TRUE
             b == AThreads!Blank
             c == [r \in Things |-> s.kept]
             t == AThreads!Draw(s, m)
  <1>1. t = [s EXCEPT !.drawn = yes, !.snap = b, !.text = m.text,
                      !.body = m.text, !.mine = m.mine, !.gone = m.gone,
                      !.bare = m.gone, !.copy = c]
    BY DEF AThreads!Draw
  <1>2. yes /\ ~b.read
    BY DEF AThreads!Blank
  <1>3. c \in [Things -> [Things -> Nat]] /\ \A r \in Things : c[r] = s.kept
    OBVIOUS
  <1> HIDE DEF yes, b, c
  <1>4. /\ DOMAIN t = DOMAIN view /\ t.srv = s.srv /\ t.drawn = yes
        /\ t.snap = b /\ t.text = m.text /\ t.body = m.text
        /\ t.typed = s.typed /\ t.focus = s.focus /\ t.mine = m.mine
        /\ t.gone = m.gone /\ t.bare = m.gone /\ t.posts = s.posts
        /\ t.crossed = s.crossed /\ t.kept = s.kept /\ t.copy = c
        /\ t.clicks = s.clicks
    BY <1>1 DEF ThreadShape
  <1> HIDE DEF t
  <1>5. ThreadSorts(t)
    BY <1>2, <1>3, <1>4 DEF ThreadSorts
  <1>6. ThreadPlace(t) /\ ThreadServed(t)
    BY <1>2, <1>4 DEF ThreadPlace, ThreadServed
  <1>7. ThreadShown(t)
    BY <1>2, <1>4 DEF ThreadShown, ThreadSame
  <1>8. ThreadKept(t)
    <2>1. ASSUME NEW r \in Things, NEW h \in Things
          PROVE  c[h][r] = s.kept[r] /\ s.kept[r] \in Nat
      BY <1>3
    <2>2. ASSUME NEW r \in Things
          PROVE  /\ s.kept[r] <= c[r][r]
                 /\ \A h \in Things : c[h][r] <= c[r][r]
      <3>1. c[r][r] = s.kept[r] /\ s.kept[r] \in Nat
        BY <2>1
      <3>2. \A h \in Things : c[h][r] = s.kept[r]
        BY <2>1
      <3> QED BY <3>1, <3>2
    <2> QED BY <1>4, <2>2 DEF ThreadKept
  <1>9. ThreadField(t)
    BY <1>4 DEF ThreadField
  <1> QED BY <1>4, <1>5, <1>6, <1>7, <1>8, <1>9 DEF ThreadRest, t

\* A request is done: q is the requests then, m the message.
LEMMA ThreadServes ==
  ASSUME ThreadInv, NEW i \in DOMAIN view.posts, NEW q, NEW m, NEW c,
         q \in Seq(ThreadPost), DOMAIN q = DOMAIN view.posts,
         DOMAIN m = {"text", "mine", "gone"}, m.text \in Nat \ {0},
         \A j \in DOMAIN q :
           /\ q[j].kind = view.posts[j].kind /\ q[j].text = view.posts[j].text
           /\ (q[j].off <=> view.posts[j].off),
         \A j \in DOMAIN q : j # i =>
           /\ (q[j].done <=> view.posts[j].done)
           /\ q[j].added = view.posts[j].added
           /\ q[j].late <=> \/ view.posts[j].late
                            \/ /\ view.posts[j].done
                               /\ view.posts[j].kind = view.posts[i].kind,
         q[i].done, ~q[i].late, ThreadSays(m, q[i]),
         \A k \in ThreadKinds : k # q[i].kind => ThreadSame(m, view.srv, k),
         view.crossed \subseteq c, q[i].off => q[i].kind \in c,
         view' = [view EXCEPT !.posts = q, !.srv = m, !.crossed = c]
  PROVE  ThreadInv'
  <1>1. /\ DOMAIN view' = DOMAIN view /\ view'.srv = m
        /\ view'.drawn = view.drawn /\ view'.snap = view.snap
        /\ view'.text = view.text /\ view'.body = view.body
        /\ view'.typed = view.typed /\ view'.focus = view.focus
        /\ view'.mine = view.mine /\ view'.gone = view.gone
        /\ view'.bare = view.bare /\ view'.posts = q /\ view'.crossed = c
        /\ view'.kept = view.kept /\ view'.copy = view.copy
        /\ view'.clicks = view.clicks
    BY DEF ThreadInv, ThreadShape
  <1>2. \A j \in DOMAIN q : q[j].kind \in ThreadKinds /\ q[j] \in ThreadPost
    BY ListOf, ThreadPosts
  <1>3. ThreadSorts(view')
    BY <1>1 DEF ThreadInv, ThreadOk, ThreadRest, ThreadSorts
  <1>4. ThreadPlace(view')
    BY <1>1 DEF ThreadInv, ThreadOk, ThreadRest, ThreadPlace
  <1>5. ThreadServed(view')
    <2>1. ASSUME NEW j \in DOMAIN q
          PROVE  /\ q[j].done /\ ~q[j].late => ThreadSays(m, q[j])
                 /\ q[j].late => q[j].done
      <3>1. CASE j = i
        BY <3>1
      <3>2. CASE j # i
        <4>1. /\ view.posts[j].done /\ ~view.posts[j].late
                   => ThreadSays(view.srv, view.posts[j])
              /\ view.posts[j].late => view.posts[j].done
          BY DEF ThreadInv, ThreadOk, ThreadRest, ThreadServed
        <4>2. ASSUME q[j].done, ~q[j].late PROVE ThreadSays(m, q[j])
          <5>1. q[j].kind # q[i].kind /\ view.posts[j].done /\ ~view.posts[j].late
            BY <3>2, <4>2
          <5>2. ThreadSame(m, view.srv, q[j].kind)
            BY <1>2, <5>1
          <5>3. /\ q[j].kind = view.posts[j].kind
                /\ q[j].text = view.posts[j].text
                /\ q[j].added = view.posts[j].added
            BY <3>2
          <5> QED BY <4>1, <5>1, <5>2, <5>3 DEF ThreadSays, ThreadSame
        <4> QED BY <3>2, <4>1, <4>2
      <3> QED BY <3>1, <3>2
    <2> QED BY <1>1, <2>1 DEF ThreadServed
  <1>6. ThreadShown(view')
    <2>1. SUFFICES
            ASSUME NEW k \in ThreadKinds \ c
            PROVE  /\ view'.drawn => \/ ThreadSame(view', view'.srv, k)
                                     \/ ThreadOwed(view', k)
                   /\ view'.snap.read => ThreadSame(view'.snap, view'.srv, k)
      BY <1>1 DEF ThreadShown
    <2>2. /\ view.drawn => ThreadSame(view, view.srv, k) \/ ThreadOwed(view, k)
          /\ view.snap.read => ThreadSame(view.snap, view.srv, k)
      BY DEF ThreadInv, ThreadOk, ThreadRest, ThreadShown
    <2>3. CASE k = q[i].kind
      <3>1. ~q[i].off /\ ThreadOwed(view', k)
        BY <1>1, <2>3 DEF ThreadOwed
      <3>2. ~view.snap.read
        <4>1. view.drawn
          BY <3>1 DEF ThreadInv, ThreadOk, ThreadRest, ThreadPlace
        <4> QED BY <4>1 DEF ThreadInv, ThreadOk, ThreadRest, ThreadPlace
      <3> QED BY <1>1, <3>1, <3>2
    <2>4. CASE k # q[i].kind
      <3>1. ThreadSame(m, view.srv, k)
        BY <2>4
      <3>2. /\ ThreadSame(view, view.srv, k) => ThreadSame(view', view'.srv, k)
            /\ ThreadSame(view.snap, view.srv, k)
                 => ThreadSame(view'.snap, view'.srv, k)
        BY <1>1, <3>1 DEF ThreadSame
      <3>3. ThreadOwed(view, k) => ThreadOwed(view', k)
        <4>1. ASSUME NEW j \in DOMAIN view.posts, view.posts[j].kind = k,
                     view.posts[j].done, ~view.posts[j].off,
                     ~view.posts[j].late
              PROVE  ThreadOwed(view', k)
          <5>1. /\ j # i /\ q[j].kind = k /\ q[j].done /\ ~q[j].off
                /\ ~q[j].late
            BY <2>4, <4>1
          <5> QED BY <1>1, <4>1, <5>1 DEF ThreadOwed
        <4> QED BY <4>1 DEF ThreadOwed
      <3> QED BY <1>1, <2>2, <3>2, <3>3
    <2> QED BY <2>3, <2>4
  <1>7. ThreadKept(view')
    BY <1>1 DEF ThreadInv, ThreadOk, ThreadRest, ThreadKept
  <1>8. ThreadField(view')
    BY <1>1 DEF ThreadInv, ThreadOk, ThreadField
  <1> QED BY <1>1, <1>3, <1>4, <1>5, <1>6, <1>7, <1>8
          DEF ThreadInv, ThreadShape, ThreadOk, ThreadRest

\* The message row at the start.
LEMMA ThreadInit == AThreads!Init => ThreadInv
  <1> SUFFICES ASSUME AThreads!Init PROVE ThreadInv
    OBVIOUS
  <1> DEFINE no == FALSE
             b == AThreads!Blank
             m(t) == [text |-> t, mine |-> no, gone |-> no]
             s(t, k) ==
               [srv |-> m(t), drawn |-> no, snap |-> b, text |-> t,
                body |-> t, typed |-> t, focus |-> no, mine |-> no,
                gone |-> no, bare |-> no, posts |-> <<>>, crossed |-> {},
                kept |-> k, copy |-> [r \in Things |-> k], clicks |-> 0]
  <1>1. PICK t \in Things, k \in [Things -> {0, 1}] :
          view = AThreads!Draw(s(t, k), m(t))
    BY DEF AThreads!Init
  <1>2. ~no /\ t \in Nat \ {0} /\ k \in [Things -> Nat]
    BY Bounds
  <1> DEFINE a == m(t)
             u == s(t, k)
  <1>3. /\ DOMAIN a = {"text", "mine", "gone"} /\ a.text = t
    OBVIOUS
  <1>4. /\ DOMAIN u = {"srv", "drawn", "snap", "text", "body", "typed",
                       "focus", "mine", "gone", "bare", "posts", "crossed",
                       "kept", "copy", "clicks"}
        /\ u.srv = a /\ u.focus = no /\ u.typed = t /\ u.posts = <<>>
        /\ u.kept = k
    OBVIOUS
  <1>5. view = AThreads!Draw(u, a)
    BY <1>1
  <1> HIDE DEF no, b, m, s, a, u
  <1>6. DOMAIN view = DOMAIN u
    BY <1>5 DEF AThreads!Draw
  <1>7. ThreadShape
    BY <1>4, <1>6 DEF ThreadShape
  <1>8. /\ u.posts \in Seq(ThreadPost) /\ ThreadServed(u)
        /\ \A i \in DOMAIN u.posts :
             u.posts[i].kind = "edit" => u.posts[i].text # 0
    BY <1>4 DEF ThreadServed
  <1>9. \A i \in ThreadKinds \ u.crossed : ThreadSame(a, u.srv, i)
    BY <1>4 DEF ThreadSame
  <1>10. ThreadRest(view) /\ ThreadField(view)
    BY <1>2, <1>3, <1>4, <1>5, <1>6, <1>7, <1>8, <1>9, ThreadDrawing
  <1> QED BY <1>7, <1>10 DEF ThreadInv, ThreadOk

\* Every step of it keeps what is said of it.
LEMMA ThreadStep == ASSUME ThreadInv, AThreads!Next PROVE ThreadInv'
  <1>1. CASE AThreads!Reopen
    <2> DEFINE no == FALSE
               b == AThreads!Blank
               q == [i \in DOMAIN view.posts |-> [view.posts[i] EXCEPT !.off = TRUE]]
               s == [view EXCEPT !.drawn = no, !.snap = b, !.focus = no, !.posts = q]
    <2>a. AThreads!Clicks(s)
      BY <1>1 DEF AThreads!Reopen
    <2>b. ~no /\ ~b.read
      BY DEF AThreads!Blank
    <2> HIDE DEF no, b
    <2>c. /\ q \in Seq(ThreadPost) /\ DOMAIN q = DOMAIN view.posts
          /\ \A i \in DOMAIN view.posts :
               /\ q[i].off /\ q[i].kind = view.posts[i].kind
               /\ q[i].text = view.posts[i].text /\ q[i].added = view.posts[i].added
               /\ (q[i].done <=> view.posts[i].done)
               /\ (q[i].late <=> view.posts[i].late)
      <3>1. view.posts \in Seq(ThreadPost)
        BY DEF ThreadInv, ThreadOk, ThreadRest, ThreadSorts
      <3>2. ASSUME NEW i \in DOMAIN view.posts
            PROVE  /\ q[i] \in ThreadPost
                   /\ q[i].off /\ q[i].kind = view.posts[i].kind
                   /\ q[i].text = view.posts[i].text
                   /\ q[i].added = view.posts[i].added
                   /\ (q[i].done <=> view.posts[i].done)
                   /\ (q[i].late <=> view.posts[i].late)
        <4> DEFINE l == view.posts[i]
                   k == [l EXCEPT !.off = TRUE]
        <4>1. l \in ThreadPost /\ q[i] = k
          BY <3>1, ListOf
        <4> HIDE DEF l, q
        <4>2. /\ k \in ThreadPost /\ k.kind = l.kind /\ k.text = l.text
              /\ (k.done <=> l.done) /\ k.added = l.added /\ (k.late <=> l.late)
              /\ k.off
          BY <4>1, ThreadOff
        <4> HIDE DEF k
        <4> QED BY <4>1, <4>2 DEF l
      <3>3. q = [i \in DOMAIN view.posts |-> q[i]] /\ DOMAIN q = DOMAIN view.posts
        OBVIOUS
      <3> HIDE DEF q
      <3>4. q \in Seq(ThreadPost)
        BY <3>1, <3>2, <3>3, ListMapped
      <3> QED BY <3>2, <3>3, <3>4
    <2> HIDE DEF q
    <2>d. /\ DOMAIN s = DOMAIN view /\ s.srv = view.srv /\ s.drawn = no
          /\ s.snap = b /\ s.text = view.text /\ s.body = view.body
          /\ s.typed = view.typed /\ s.focus = no /\ s.mine = view.mine
          /\ s.gone = view.gone /\ s.bare = view.bare /\ s.posts = q
          /\ s.crossed = view.crossed /\ s.kept = view.kept
          /\ s.copy = view.copy /\ s.clicks = view.clicks
      BY DEF ThreadInv, ThreadShape
    <2> HIDE DEF s
    <2>1. ThreadSorts(s)
      <3>1. \A i \in DOMAIN q : q[i].kind = "edit" => q[i].text # 0
        BY <2>c DEF ThreadInv, ThreadOk, ThreadRest, ThreadSorts
      <3> QED BY <2>b, <2>c, <2>d, <3>1
              DEF ThreadInv, ThreadOk, ThreadRest, ThreadSorts
    <2>2. ThreadPlace(s)
      BY <2>b, <2>c, <2>d DEF ThreadPlace
    <2>3. ThreadServed(s)
      BY <2>c, <2>d DEF ThreadInv, ThreadOk, ThreadRest, ThreadServed, ThreadSays
    <2>4. ThreadShown(s)
      BY <2>b, <2>d DEF ThreadShown
    <2>5. ThreadKept(s) /\ ThreadField(s)
      BY <2>b, <2>d DEF ThreadKept, ThreadField
    <2> QED BY <2>a, <2>d, <2>1, <2>2, <2>3, <2>4, <2>5, ThreadClicked
            DEF ThreadInv, ThreadRest
  <1>2. CASE AThreads!Reads
    <2> DEFINE m == [text |-> view.srv.text, mine |-> view.srv.mine,
                     gone |-> view.srv.gone, read |-> TRUE]
    <2>a. ~view.drawn /\ view' = [view EXCEPT !.snap = m, !.crossed = {}]
      BY <1>2 DEF AThreads!Reads
    <2>b. m.text = view.srv.text /\ m.mine = view.srv.mine /\ m.gone = view.srv.gone
      OBVIOUS
    <2> HIDE DEF m
    <2>c. /\ DOMAIN view' = DOMAIN view /\ view'.srv = view.srv
          /\ view'.drawn = view.drawn /\ view'.snap = m
          /\ view'.text = view.text /\ view'.body = view.body
          /\ view'.typed = view.typed /\ view'.focus = view.focus
          /\ view'.mine = view.mine /\ view'.gone = view.gone
          /\ view'.bare = view.bare /\ view'.posts = view.posts
          /\ view'.crossed = {} /\ view'.kept = view.kept
          /\ view'.copy = view.copy /\ view'.clicks = view.clicks
      BY <2>a DEF ThreadInv, ThreadShape
    <2>1. ThreadSorts(view') /\ ThreadPlace(view') /\ ThreadServed(view')
      BY <2>a, <2>b, <2>c DEF ThreadInv, ThreadOk, ThreadRest, ThreadSorts,
                              ThreadPlace, ThreadServed
    <2>2. ThreadShown(view')
      BY <2>a, <2>b, <2>c DEF ThreadShown, ThreadSame
    <2>3. ThreadKept(view') /\ ThreadField(view')
      BY <2>a, <2>c DEF ThreadKept, ThreadField
    <2> QED BY <2>c, <2>1, <2>2, <2>3 DEF ThreadInv, ThreadShape, ThreadOk, ThreadRest
  <1>3. CASE AThreads!Draws
    <2> DEFINE t == AThreads!Draw(view, view.snap)
    <2>a. view' = t /\ view.snap.read
      BY <1>3 DEF AThreads!Draws
    <2>z. DOMAIN t = DOMAIN view /\ ThreadRest(t) /\ ThreadField(t)
      <3>1. ~view.drawn /\ ~view.focus
        BY <2>a DEF ThreadInv, ThreadOk, ThreadRest, ThreadPlace
      <3>2. \A k \in ThreadKinds \ view.crossed : ThreadSame(view.snap, view.srv, k)
        BY <2>a DEF ThreadInv, ThreadOk, ThreadRest, ThreadShown
      <3>3. /\ view.snap.text \in Nat \ {0} /\ view.typed \in Nat
            /\ view.posts \in Seq(ThreadPost)
            /\ DOMAIN view.srv = {"text", "mine", "gone"}
            /\ view.srv.text \in Nat \ {0} /\ view.kept \in [Things -> Nat]
            /\ \A i \in DOMAIN view.posts :
                 view.posts[i].kind = "edit" => view.posts[i].text # 0
        BY <2>a DEF ThreadInv, ThreadOk, ThreadRest, ThreadSorts
      <3>4. ThreadServed(view) /\ ThreadShape
        BY DEF ThreadInv, ThreadOk, ThreadRest
      <3> QED BY <3>1, <3>2, <3>3, <3>4, ThreadDrawing
    <2> HIDE DEF t
    <2> QED BY <2>a, <2>z DEF ThreadInv, ThreadShape, ThreadOk
  <1>4. CASE AThreads!toggleReact
    <2> DEFINE t == AThreads!Post(view, "react", AThreads!Input)
    <2>a. AThreads!Clicks(t) /\ view.drawn
      BY <1>4 DEF AThreads!toggleReact, AThreads!Actions
    <2>z. DOMAIN t = DOMAIN view /\ ThreadRest(t) /\ ThreadField(t)
      <3>1. "react" \in ThreadKinds /\ AThreads!Input \in Nat
        BY DEF ThreadKinds, AThreads!Input
      <3> QED BY <2>a, <3>1, ThreadPosting DEF ThreadInv, ThreadOk
    <2> HIDE DEF t
    <2> QED BY <2>a, <2>z, ThreadClicked DEF ThreadInv
  <1>5. CASE AThreads!Edit
    <2> DEFINE yes == TRUE
               v == AThreads!Input
               w == view.body
               t == [view EXCEPT !.body = v, !.typed = w, !.focus = yes]
    <2>a. AThreads!Clicks(t) /\ view.drawn
      BY <1>5 DEF AThreads!Edit, AThreads!Actions
    <2>b. v \in Nat /\ w \in Nat /\ yes
      BY DEF AThreads!Input, ThreadInv, ThreadOk, ThreadRest, ThreadSorts
    <2> HIDE DEF yes, v, w
    <2>d. /\ DOMAIN t = DOMAIN view /\ t.srv = view.srv /\ t.drawn = view.drawn
          /\ t.snap = view.snap /\ t.text = view.text /\ t.body = v
          /\ t.typed = w /\ t.focus = yes /\ t.mine = view.mine
          /\ t.gone = view.gone /\ t.bare = view.bare /\ t.posts = view.posts
          /\ t.crossed = view.crossed /\ t.kept = view.kept
          /\ t.copy = view.copy /\ t.clicks = view.clicks
      BY DEF ThreadInv, ThreadShape
    <2> HIDE DEF t
    <2>z. DOMAIN t = DOMAIN view /\ ThreadRest(t) /\ t.focus = yes
      BY <2>a, <2>b, <2>d, ThreadBody DEF ThreadInv, ThreadOk
    <2>c. ThreadField(t)
      BY <2>b, <2>z DEF ThreadField
    <2> QED BY <2>a, <2>c, <2>z, ThreadClicked DEF ThreadInv
  <1>6. CASE AThreads!Enter
    <2> DEFINE t == AThreads!finishEdit(view)
    <2>a. AThreads!Clicks(t) /\ view.focus
      BY <1>6 DEF AThreads!Enter
    <2>z. DOMAIN t = DOMAIN view /\ ThreadRest(t) /\ ThreadField(t)
      <3>1. view.drawn
        BY <2>a DEF ThreadInv, ThreadOk, ThreadRest, ThreadPlace
      <3> QED BY <3>1, ThreadFinish DEF ThreadInv, ThreadOk
    <2> HIDE DEF t
    <2> QED BY <2>a, <2>z, ThreadClicked DEF ThreadInv
  <1>7. CASE AThreads!Leave
    <2> DEFINE no == FALSE
               v == view.body
               w == view.typed
               s == [view EXCEPT !.body = v, !.typed = w, !.focus = no]
               t == AThreads!finishEdit(s)
    <2>a. view' = t /\ view.focus
      <3>1. view' = AThreads!finishEdit([view EXCEPT !.focus = FALSE]) /\ view.focus
        BY <1>7 DEF AThreads!Leave
      <3>2. [view EXCEPT !.focus = FALSE] = s
        BY DEF ThreadInv, ThreadShape
      <3> QED BY <3>1, <3>2
    <2>b. view.drawn /\ v \in Nat /\ w \in Nat /\ ~no
      BY <2>a DEF ThreadInv, ThreadOk, ThreadRest, ThreadPlace, ThreadSorts
    <2> HIDE DEF no, v, w
    <2>d. /\ DOMAIN s = DOMAIN view /\ s.srv = view.srv /\ s.drawn = view.drawn
          /\ s.snap = view.snap /\ s.text = view.text /\ s.body = v
          /\ s.typed = w /\ s.focus = no /\ s.mine = view.mine
          /\ s.gone = view.gone /\ s.bare = view.bare /\ s.posts = view.posts
          /\ s.crossed = view.crossed /\ s.kept = view.kept
          /\ s.copy = view.copy /\ s.clicks = view.clicks
      BY DEF ThreadInv, ThreadShape
    <2> HIDE DEF s
    <2>c. DOMAIN s = DOMAIN view /\ ThreadRest(s) /\ s.drawn = view.drawn
      BY <2>b, <2>d, ThreadBody DEF ThreadInv, ThreadOk
    <2>z. DOMAIN t = DOMAIN view /\ ThreadRest(t) /\ ThreadField(t)
      BY <2>b, <2>c, ThreadFinish DEF ThreadInv
    <2> HIDE DEF t
    <2> QED BY <2>a, <2>z DEF ThreadInv, ThreadShape, ThreadOk
  <1>8. CASE AThreads!Escape
    <2>a. PICK t \in AThreads!Shows(view, view.text) : AThreads!Clicks(t)
      BY <1>8 DEF AThreads!Escape
    <2>b. view.drawn /\ view.text \in Nat \ {0}
      BY <1>8 DEF AThreads!Escape, ThreadInv, ThreadOk, ThreadRest, ThreadPlace,
                ThreadSorts
    <2>z. DOMAIN t = DOMAIN view /\ ThreadRest(t) /\ ThreadField(t)
      BY <2>b, ThreadShows DEF ThreadInv, ThreadOk
    <2> QED BY <2>a, <2>z, ThreadClicked DEF ThreadInv
  <1>9. CASE AThreads!Delete
    <2> DEFINE t == AThreads!Post(view, "delete", AThreads!Input)
    <2>a. AThreads!Clicks(t) /\ view.drawn
      BY <1>9 DEF AThreads!Delete, AThreads!Actions
    <2>z. DOMAIN t = DOMAIN view /\ ThreadRest(t) /\ ThreadField(t)
      <3>1. "delete" \in ThreadKinds /\ AThreads!Input \in Nat
        BY DEF ThreadKinds, AThreads!Input
      <3> QED BY <2>a, <3>1, ThreadPosting DEF ThreadInv, ThreadOk
    <2> HIDE DEF t
    <2> QED BY <2>a, <2>z, ThreadClicked DEF ThreadInv
  <1>10. ASSUME NEW t \in Things, AThreads!Type(t) PROVE ThreadInv'
    <2>a. view' = [view EXCEPT !.typed = t]
      BY <1>10 DEF AThreads!Type
    <2>b. /\ DOMAIN view' = DOMAIN view /\ view'.srv = view.srv
          /\ view'.drawn = view.drawn /\ view'.snap = view.snap
          /\ view'.text = view.text /\ view'.body = view.body
          /\ view'.typed = t /\ view'.focus = view.focus
          /\ view'.mine = view.mine /\ view'.gone = view.gone
          /\ view'.bare = view.bare /\ view'.posts = view.posts
          /\ view'.crossed = view.crossed /\ view'.kept = view.kept
          /\ view'.copy = view.copy /\ view'.clicks = view.clicks
      BY <2>a DEF ThreadInv, ThreadShape
    <2>c. t \in Nat /\ view.body \in Nat /\ (view.focus => view.drawn)
      BY Bounds DEF ThreadInv, ThreadOk, ThreadRest, ThreadSorts, ThreadPlace
    <2>d. ThreadRest(view')
      BY <2>b, <2>c, ThreadBody DEF ThreadInv, ThreadOk
    <2>e. ThreadField(view')
      BY <2>b DEF ThreadInv, ThreadOk, ThreadField
    <2> QED BY <2>b, <2>d, <2>e DEF ThreadInv, ThreadShape, ThreadOk
  <1>11. ASSUME NEW i \in DOMAIN view.posts, AThreads!Does(i) PROVE ThreadInv'
    <2> DEFINE p == view.posts[i]
               on == ~view.srv.mine
               L(j) == \/ view.posts[j].late
                       \/ view.posts[j].done /\ view.posts[j].kind = p.kind
               w == [j \in DOMAIN view.posts |-> [view.posts[j] EXCEPT !.late = L(j)]]
               e == [w[i] EXCEPT !.done = TRUE, !.added = on]
               q == [w EXCEPT ![i] = e]
               c == IF p.off THEN view.crossed \cup {p.kind} ELSE view.crossed
               s == [view EXCEPT !.posts = q, !.crossed = c]
               m == IF p.kind = "react" THEN [view.srv EXCEPT !.mine = on]
                    ELSE IF p.kind = "edit" THEN [view.srv EXCEPT !.text = p.text]
                    ELSE [view.srv EXCEPT !.gone = ThreadYes]
    <2>a. /\ view' = [view EXCEPT !.posts = q, !.srv = m, !.crossed = c]
          /\ i \in DOMAIN view.posts /\ ~p.done
      <3> DEFINE z == [view EXCEPT
                         !.posts = [w EXCEPT ![i].done = TRUE, ![i].added = on],
                         !.crossed = c]
      <3>1. /\ ~p.done
            /\ view' = CASE p.kind = "react" -> [z EXCEPT !.srv.mine = on]
                         [] p.kind = "edit" -> [z EXCEPT !.srv.text = p.text]
                         [] OTHER -> [z EXCEPT !.srv.gone = TRUE]
        BY <1>11 DEF AThreads!Does
      <3>2. z = s
        <4>1. [w EXCEPT ![i].done = TRUE, ![i].added = on] = q
          OBVIOUS
        <4> HIDE DEF q, w
        <4> QED BY <4>1
      <3> HIDE DEF z, q, c, w
      <3>3. s.srv = view.srv /\ DOMAIN s = DOMAIN view
        BY DEF ThreadInv, ThreadShape
      <3>4. view' = [s EXCEPT !.srv = m]
        <4>1. CASE p.kind = "react"
          <5>1. view' = [s EXCEPT !.srv.mine = on] /\ m = [view.srv EXCEPT !.mine = on]
            BY <3>1, <3>2, <4>1
          <5> HIDE DEF s, m, on
          <5> QED BY <3>3, <5>1 DEF ThreadInv, ThreadShape
        <4>2. CASE p.kind = "edit"
          <5>1. /\ view' = [s EXCEPT !.srv.text = p.text]
                /\ m = [view.srv EXCEPT !.text = p.text]
            BY <3>1, <3>2, <4>2
          <5> HIDE DEF s, m
          <5> QED BY <3>3, <5>1 DEF ThreadInv, ThreadShape
        <4>3. CASE p.kind \notin {"react", "edit"}
          <5>1. /\ view' = [s EXCEPT !.srv.gone = ThreadYes]
                /\ m = [view.srv EXCEPT !.gone = ThreadYes]
            BY <3>1, <3>2, <4>3 DEF ThreadYes
          <5> HIDE DEF s, m
          <5> QED BY <3>3, <5>1 DEF ThreadInv, ThreadShape
        <4> QED BY <4>1, <4>2, <4>3
      <3>5. [s EXCEPT !.srv = m] = [view EXCEPT !.posts = q, !.srv = m, !.crossed = c]
        <4> HIDE DEF m
        <4> QED BY DEF ThreadInv, ThreadShape
      <3> QED BY <3>1, <3>4, <3>5
    <2>b. on \in BOOLEAN /\ \A j \in DOMAIN view.posts : L(j) \in BOOLEAN
      OBVIOUS
    <2>c. /\ view.posts \in Seq(ThreadPost) /\ p \in ThreadPost
          /\ \A j \in DOMAIN view.posts : view.posts[j] \in ThreadPost
          /\ DOMAIN view.srv = {"text", "mine", "gone"}
          /\ view.srv.text \in Nat \ {0} /\ (p.kind = "edit" => p.text \in Nat \ {0})
          /\ p.kind \in ThreadKinds
      <3>1. /\ view.posts \in Seq(ThreadPost)
            /\ DOMAIN view.srv = {"text", "mine", "gone"}
            /\ view.srv.text \in Nat \ {0} /\ (p.kind = "edit" => p.text # 0)
        BY <2>a DEF ThreadInv, ThreadOk, ThreadRest, ThreadSorts
      <3>2. p \in ThreadPost
        BY <2>a, <3>1, ListOf
      <3> HIDE DEF p
      <3> QED BY <3>1, <3>2, ListOf, ThreadPosts
    <2> HIDE DEF on
    <2>d. /\ w \in Seq(ThreadPost) /\ DOMAIN w = DOMAIN view.posts
          /\ \A j \in DOMAIN view.posts :
               /\ w[j] \in ThreadPost /\ w[j].kind = view.posts[j].kind
               /\ w[j].text = view.posts[j].text /\ w[j].added = view.posts[j].added
               /\ (w[j].done <=> view.posts[j].done)
               /\ (w[j].off <=> view.posts[j].off) /\ (w[j].late <=> L(j))
      <3>1. ASSUME NEW j \in DOMAIN view.posts
            PROVE  /\ w[j] \in ThreadPost /\ w[j].kind = view.posts[j].kind
                   /\ w[j].text = view.posts[j].text
                   /\ w[j].added = view.posts[j].added
                   /\ (w[j].done <=> view.posts[j].done)
                   /\ (w[j].off <=> view.posts[j].off) /\ (w[j].late <=> L(j))
        <4> DEFINE l == view.posts[j]
                   b == L(j)
                   k == [l EXCEPT !.late = b]
        <4>1. l \in ThreadPost /\ w[j] = k /\ b \in BOOLEAN
          BY <2>c
        <4> HIDE DEF l, w, b
        <4>2. /\ k \in ThreadPost /\ k.kind = l.kind /\ k.text = l.text
              /\ (k.done <=> l.done) /\ k.added = l.added /\ (k.late <=> b)
              /\ (k.off <=> l.off)
          BY <4>1, ThreadLate
        <4> HIDE DEF k
        <4> QED BY <4>1, <4>2 DEF l, b
      <3>2. w = [j \in DOMAIN view.posts |-> w[j]] /\ DOMAIN w = DOMAIN view.posts
        OBVIOUS
      <3> HIDE DEF w
      <3>3. w \in Seq(ThreadPost)
        BY <2>c, <3>1, <3>2, ListMapped
      <3> QED BY <3>1, <3>2, <3>3
    <2> HIDE DEF w
    <2>e. /\ e \in ThreadPost /\ e.kind = p.kind /\ e.text = p.text /\ e.done
          /\ e.added = on /\ ~e.late /\ (e.off <=> p.off)
      <3> DEFINE l == w[i]
      <3>1. /\ l \in ThreadPost /\ l.kind = p.kind /\ l.text = p.text
            /\ (l.done <=> p.done) /\ (l.off <=> p.off) /\ (l.late <=> L(i))
        BY <2>a, <2>d
      <3>2. ~L(i)
        BY <2>a DEF ThreadInv, ThreadOk, ThreadRest, ThreadServed
      <3> HIDE DEF l, p, L
      <3>3. /\ e \in ThreadPost /\ e.kind = l.kind /\ e.text = l.text
            /\ e.done /\ e.added = on /\ (e.late <=> l.late) /\ (e.off <=> l.off)
        BY <2>b, <3>1, ThreadDone DEF l
      <3> QED BY <3>1, <3>2, <3>3
    <2> HIDE DEF e
    <2>f. /\ q \in Seq(ThreadPost) /\ DOMAIN q = DOMAIN view.posts /\ q[i] = e
          /\ \A j \in DOMAIN q : j # i => q[j] = w[j]
      BY <2>a, <2>d, <2>e
    <2> HIDE DEF q
    <2>g. /\ DOMAIN m = {"text", "mine", "gone"} /\ m.text \in Nat \ {0}
          /\ p.kind = "react" => /\ m.mine = on /\ m.text = view.srv.text
                                 /\ m.gone = view.srv.gone
          /\ p.kind = "edit" => /\ m.text = p.text /\ m.mine = view.srv.mine
                                /\ m.gone = view.srv.gone
          /\ p.kind = "delete" => /\ m.gone = ThreadYes /\ m.text = view.srv.text
                                  /\ m.mine = view.srv.mine
      <3> HIDE DEF p
      <3>1. DOMAIN m = {"text", "mine", "gone"} /\ m.text \in Nat \ {0}
        BY <2>c
      <3>2. p.kind = "react" => /\ m.mine = on /\ m.text = view.srv.text
                                /\ m.gone = view.srv.gone
        BY <2>c
      <3>3. p.kind = "edit" => /\ m.text = p.text /\ m.mine = view.srv.mine
                               /\ m.gone = view.srv.gone
        BY <2>c
      <3>4. p.kind = "delete" => /\ m.gone = ThreadYes /\ m.text = view.srv.text
                                 /\ m.mine = view.srv.mine
        BY <2>c
      <3> QED BY <3>1, <3>2, <3>3, <3>4
    <2>h. view.crossed \subseteq c /\ (p.off => p.kind \in c)
      OBVIOUS
    <2> HIDE DEF m, c, p
    <2>j. ThreadSays(m, q[i])
      BY <2>e, <2>f, <2>g DEF ThreadSays
    <2>k. \A k \in ThreadKinds : k # q[i].kind => ThreadSame(m, view.srv, k)
      BY <2>c, <2>e, <2>f, <2>g DEF ThreadKinds, ThreadSame
    <2>l. \A j \in DOMAIN q :
            /\ q[j].kind = view.posts[j].kind /\ q[j].text = view.posts[j].text
            /\ (q[j].off <=> view.posts[j].off)
      BY <2>d, <2>e, <2>f DEF p
    <2>m. \A j \in DOMAIN q : j # i =>
            /\ (q[j].done <=> view.posts[j].done)
            /\ q[j].added = view.posts[j].added
            /\ q[j].late <=> \/ view.posts[j].late
                             \/ /\ view.posts[j].done
                                /\ view.posts[j].kind = view.posts[i].kind
      BY <2>d, <2>f DEF p
    <2> QED BY <2>a, <2>e, <2>f, <2>g, <2>h, <2>j, <2>k, <2>l, <2>m, ThreadServes
  <1>12. ASSUME NEW i \in DOMAIN view.posts, AThreads!Answered(i) PROVE ThreadInv'
    <2> DEFINE p == view.posts[i]
               q == AThreads!Without(view.posts, i)
               d == Without(view.posts, i)
               c == IF p.off THEN view.crossed
                    ELSE IF p.late THEN view.crossed \cup {p.kind}
                    ELSE view.crossed \ {p.kind}
               s == [view EXCEPT !.posts = d, !.crossed = c]
               R(x, y, z) == [view EXCEPT !.posts = d, !.crossed = c,
                                          !.text = x, !.mine = y, !.gone = z]
    <2>a. /\ i \in DOMAIN view.posts /\ p.done
          /\ \/ p.off /\ view' = s
             \/ ~p.off /\ p.kind = "react" /\ view' = [s EXCEPT !.mine = p.added]
             \/ /\ ~p.off /\ p.kind = "edit"
                /\ view' \in AThreads!Shows([s EXCEPT !.text = p.text], p.text)
             \/ ~p.off /\ p.kind = "delete" /\ view' = [s EXCEPT !.gone = TRUE]
      <3>1. q = d
        BY DEF AThreads!Without, Without
      <3> DEFINE u == [view EXCEPT !.posts = q, !.crossed = c]
      <3>2. /\ i \in DOMAIN view.posts /\ p.done
            /\ \/ p.off /\ view' = u
               \/ ~p.off /\ p.kind = "react" /\ view' = [u EXCEPT !.mine = p.added]
               \/ /\ ~p.off /\ p.kind = "edit"
                  /\ view' \in AThreads!Shows([u EXCEPT !.text = p.text], p.text)
               \/ ~p.off /\ p.kind = "delete" /\ view' = [u EXCEPT !.gone = TRUE]
        BY <1>12 DEF AThreads!Answered
      <3>3. u = s
        BY <3>1
      <3> HIDE DEF u, s
      <3> QED BY <3>2, <3>3
    <2>b. /\ p.kind \in ThreadKinds /\ view.text \in Nat \ {0}
          /\ (p.kind = "edit" => p.text \in Nat \ {0})
          /\ (~p.off => view.drawn) /\ (~p.late => ThreadSays(view.srv, p))
      <3>1. /\ view.posts \in Seq(ThreadPost) /\ view.text \in Nat \ {0}
            /\ (p.kind = "edit" => p.text # 0) /\ (~p.off => view.drawn)
            /\ (~p.late => ThreadSays(view.srv, p))
        BY <2>a DEF ThreadInv, ThreadOk, ThreadRest, ThreadSorts, ThreadPlace,
                    ThreadServed
      <3>2. p \in ThreadPost
        BY <2>a, <3>1, ListOf
      <3> HIDE DEF p
      <3> QED BY <3>1, <3>2, ThreadPosts
    <2>c. \A k : k \notin c => \/ p.off /\ k \notin view.crossed
                               \/ ~p.off /\ k # p.kind /\ k \notin view.crossed
                               \/ ~p.off /\ k = p.kind /\ ~p.late
      OBVIOUS
    <2> HIDE DEF c, d
    <2>d. ASSUME NEW x, NEW y, NEW z
          PROVE  /\ DOMAIN R(x, y, z) = DOMAIN view /\ R(x, y, z).srv = view.srv
                 /\ R(x, y, z).drawn = view.drawn /\ R(x, y, z).snap = view.snap
                 /\ R(x, y, z).text = x /\ R(x, y, z).body = view.body
                 /\ R(x, y, z).typed = view.typed /\ R(x, y, z).focus = view.focus
                 /\ R(x, y, z).mine = y /\ R(x, y, z).gone = z
                 /\ R(x, y, z).bare = view.bare /\ R(x, y, z).posts = d
                 /\ R(x, y, z).crossed = c /\ R(x, y, z).kept = view.kept
                 /\ R(x, y, z).copy = view.copy /\ R(x, y, z).clicks = view.clicks
      BY DEF ThreadInv, ThreadShape
    <2>e. ASSUME NEW x \in Nat \ {0}, NEW y, NEW z,
                 \A k \in ThreadKinds \ c :
                   \/ /\ k \notin view.crossed /\ ThreadSame(R(x, y, z), view, k)
                      /\ k = p.kind => p.off \/ ~p.done
                   \/ view.drawn /\ ThreadSame(R(x, y, z), view.srv, k)
          PROVE  /\ ThreadRest(R(x, y, z)) /\ R(x, y, z).drawn = view.drawn
                 /\ p.kind # "edit" \/ p.off => ThreadField(R(x, y, z))
      <3> DEFINE t == R(x, y, z)
      <3>1. /\ DOMAIN t = DOMAIN view /\ t.srv = view.srv /\ t.drawn = view.drawn
            /\ t.snap = view.snap /\ t.text = x /\ t.body = view.body
            /\ t.typed = view.typed /\ t.focus = view.focus /\ t.mine = y
            /\ t.gone = z /\ t.bare = view.bare /\ t.posts = d /\ t.crossed = c
            /\ t.kept = view.kept /\ t.copy = view.copy /\ t.clicks = view.clicks
        BY <2>d
      <3>2. \A k \in ThreadKinds \ c :
              \/ /\ k \notin view.crossed /\ ThreadSame(t, view, k)
                 /\ k = p.kind => p.off \/ ~p.done
              \/ view.drawn /\ ThreadSame(t, view.srv, k)
        BY <2>e
      <3>3. t.posts = Without(view.posts, i)
        BY <3>1 DEF d
      <3> HIDE DEF t
      <3>4. /\ ThreadRest(t)
            /\ view.posts[i].kind # "edit" \/ view.posts[i].off => ThreadField(t)
        BY <2>a, <3>1, <3>2, <3>3, ThreadRemoved
      <3> QED BY <3>1, <3>4 DEF t
    <2>1. CASE p.off /\ view' = s
      <3> DEFINE x == view.text
                 y == view.mine
                 z == view.gone
      <3>1. s = R(x, y, z)
        BY DEF ThreadInv, ThreadShape
      <3>2. ThreadSame(R(x, y, z), view, "react")
            /\ ThreadSame(R(x, y, z), view, "edit")
            /\ ThreadSame(R(x, y, z), view, "delete")
        BY <2>d DEF ThreadSame
      <3>3. \A k \in ThreadKinds \ c : /\ k \notin view.crossed
                                       /\ ThreadSame(R(x, y, z), view, k)
        BY <2>1, <2>c, <3>2 DEF ThreadKinds
      <3> HIDE DEF R, s
      <3>4. /\ ThreadRest(R(x, y, z)) /\ ThreadField(R(x, y, z))
        BY <2>1, <2>b, <2>e, <3>3
      <3>5. DOMAIN view' = DOMAIN view /\ ThreadRest(view') /\ ThreadField(view')
        BY <2>1, <2>d, <3>1, <3>4
      <3> QED BY <3>5 DEF ThreadInv, ThreadShape, ThreadOk
    <2>2. CASE ~p.off /\ p.kind = "react" /\ view' = [s EXCEPT !.mine = p.added]
      <3> DEFINE x == view.text
                 y == p.added
                 z == view.gone
      <3>1. view' = R(x, y, z)
        BY <2>2 DEF ThreadInv, ThreadShape
      <3>2. /\ ~p.late => ThreadSame(R(x, y, z), view.srv, "react")
            /\ ThreadSame(R(x, y, z), view, "edit")
            /\ ThreadSame(R(x, y, z), view, "delete")
        BY <2>2, <2>b, <2>d DEF ThreadSame, ThreadSays
      <3>3. \A k \in ThreadKinds \ c :
              \/ /\ k \notin view.crossed /\ ThreadSame(R(x, y, z), view, k)
                 /\ k = p.kind => p.off \/ ~p.done
              \/ view.drawn /\ ThreadSame(R(x, y, z), view.srv, k)
        BY <2>2, <2>b, <2>c, <3>2 DEF ThreadKinds
      <3> HIDE DEF R, s
      <3>4. ThreadRest(R(x, y, z)) /\ ThreadField(R(x, y, z))
        BY <2>2, <2>b, <2>e, <3>3
      <3>5. DOMAIN view' = DOMAIN view /\ ThreadRest(view') /\ ThreadField(view')
        BY <2>d, <3>1, <3>4
      <3> QED BY <3>5 DEF ThreadInv, ThreadShape, ThreadOk
    <2>3. CASE /\ ~p.off /\ p.kind = "edit"
               /\ view' \in AThreads!Shows([s EXCEPT !.text = p.text], p.text)
      <3> DEFINE x == p.text
                 y == view.mine
                 z == view.gone
      <3>1. [s EXCEPT !.text = p.text] = R(x, y, z)
        BY DEF ThreadInv, ThreadShape
      <3>2. /\ ~p.late => ThreadSame(R(x, y, z), view.srv, "edit")
            /\ ThreadSame(R(x, y, z), view, "react")
            /\ ThreadSame(R(x, y, z), view, "delete")
        BY <2>3, <2>b, <2>d DEF ThreadSame, ThreadSays
      <3>3. \A k \in ThreadKinds \ c :
              \/ /\ k \notin view.crossed /\ ThreadSame(R(x, y, z), view, k)
                 /\ k = p.kind => p.off \/ ~p.done
              \/ view.drawn /\ ThreadSame(R(x, y, z), view.srv, k)
        BY <2>3, <2>b, <2>c, <3>2 DEF ThreadKinds
      <3> HIDE DEF R, s
      <3>4. ThreadRest(R(x, y, z)) /\ R(x, y, z).drawn
        BY <2>3, <2>b, <2>e, <3>3
      <3>5. DOMAIN view' = DOMAIN view /\ ThreadRest(view') /\ ThreadField(view')
        <4>1. view' \in AThreads!Shows(R(x, y, z), p.text) /\ p.text \in Nat \ {0}
          BY <2>3, <2>b, <3>1
        <4> QED BY <2>d, <3>4, <4>1, ThreadShows DEF ThreadInv
      <3> QED BY <3>5 DEF ThreadInv, ThreadShape, ThreadOk
    <2>4. CASE ~p.off /\ p.kind = "delete" /\ view' = [s EXCEPT !.gone = TRUE]
      <3> DEFINE x == view.text
                 y == view.mine
                 z == ThreadYes
      <3>1. view' = R(x, y, z)
        <4>1. view' = [s EXCEPT !.gone = ThreadYes]
          BY <2>4 DEF ThreadYes
        <4> QED BY <4>1 DEF ThreadInv, ThreadShape
      <3>2. /\ ~p.late => ThreadSame(R(x, y, z), view.srv, "delete")
            /\ ThreadSame(R(x, y, z), view, "react")
            /\ ThreadSame(R(x, y, z), view, "edit")
        BY <2>4, <2>b, <2>d DEF ThreadSame, ThreadSays
      <3>3. \A k \in ThreadKinds \ c :
              \/ /\ k \notin view.crossed /\ ThreadSame(R(x, y, z), view, k)
                 /\ k = p.kind => p.off \/ ~p.done
              \/ view.drawn /\ ThreadSame(R(x, y, z), view.srv, k)
        BY <2>4, <2>b, <2>c, <3>2 DEF ThreadKinds
      <3> HIDE DEF R, s
      <3>4. ThreadRest(R(x, y, z)) /\ ThreadField(R(x, y, z))
        BY <2>4, <2>b, <2>e, <3>3
      <3>5. DOMAIN view' = DOMAIN view /\ ThreadRest(view') /\ ThreadField(view')
        BY <2>d, <3>1, <3>4
      <3> QED BY <3>5 DEF ThreadInv, ThreadShape, ThreadOk
    <2> QED BY <2>a, <2>1, <2>2, <2>3, <2>4
  <1>13. ASSUME NEW i \in DOMAIN view.posts, AThreads!Fails(i) PROVE ThreadInv'
    <2> DEFINE p == view.posts[i]
               q == AThreads!Without(view.posts, i)
               d == Without(view.posts, i)
               c == IF p.done THEN view.crossed \cup {p.kind} ELSE view.crossed
               x == view.text
               y == view.mine
               z == view.gone
               s == [view EXCEPT !.posts = d, !.crossed = c,
                                 !.text = x, !.mine = y, !.gone = z]
    <2>a. /\ i \in DOMAIN view.posts
          /\ IF p.kind = "edit" /\ ~p.off THEN view' \in AThreads!Shows(s, s.text)
                                          ELSE view' = s
      <3> DEFINE u == [view EXCEPT !.posts = q, !.crossed = c]
      <3>1. q = d
        BY DEF AThreads!Without, Without
      <3>2. /\ i \in DOMAIN view.posts
            /\ IF p.kind = "edit" /\ ~p.off THEN view' \in AThreads!Shows(u, u.text)
                                            ELSE view' = u
        BY <1>13 DEF AThreads!Fails
      <3>3. u = s
        <4> HIDE DEF q, d, c
        <4> QED BY <3>1 DEF ThreadInv, ThreadShape
      <3> HIDE DEF u, s
      <3> QED BY <3>2, <3>3
    <2>b. x \in Nat \ {0} /\ (~p.off => view.drawn)
      BY <2>a DEF ThreadInv, ThreadOk, ThreadRest, ThreadSorts, ThreadPlace
    <2>c. \A k : k \notin c => k \notin view.crossed /\ (k = p.kind => ~p.done)
      OBVIOUS
    <2> HIDE DEF c, d
    <2>d. \A k : ThreadSame(s, view, k)
      <3>1. s.text = view.text /\ s.mine = view.mine /\ s.gone = view.gone
        BY DEF ThreadInv, ThreadShape
      <3> HIDE DEF s
      <3> QED BY <3>1 DEF ThreadSame
    <2>e. \A k \in ThreadKinds \ c :
            \/ /\ k \notin view.crossed /\ ThreadSame(s, view, k)
               /\ k = p.kind => p.off \/ ~p.done
            \/ view.drawn /\ ThreadSame(s, view.srv, k)
      <3> HIDE DEF s, p
      <3> QED BY <2>c, <2>d
    <2>g. /\ DOMAIN s = DOMAIN view /\ s.srv = view.srv /\ s.drawn = view.drawn
          /\ s.snap = view.snap /\ s.text = view.text /\ s.body = view.body
          /\ s.typed = view.typed /\ s.focus = view.focus /\ s.mine = view.mine
          /\ s.gone = view.gone /\ s.bare = view.bare /\ s.posts = d
          /\ s.crossed = c /\ s.kept = view.kept /\ s.copy = view.copy
          /\ s.clicks = view.clicks
      BY DEF ThreadInv, ThreadShape
    <2>h. s.posts = Without(view.posts, i)
      BY <2>g DEF d
    <2> HIDE DEF s
    <2>f. /\ DOMAIN s = DOMAIN view /\ ThreadRest(s)
          /\ s.drawn = view.drawn /\ s.text = x
          /\ p.kind # "edit" \/ p.off => ThreadField(s)
      BY <2>a, <2>b, <2>e, <2>g, <2>h, ThreadRemoved
    <2> HIDE DEF x
    <2>1. DOMAIN view' = DOMAIN view /\ ThreadRest(view') /\ ThreadField(view')
      <3>1. CASE p.kind = "edit" /\ ~p.off
        <4>1. view' \in AThreads!Shows(s, x) /\ s.drawn
          BY <2>a, <2>b, <2>f, <3>1
        <4> QED BY <2>b, <2>f, <4>1, ThreadShows DEF ThreadInv
      <3>2. CASE ~(p.kind = "edit" /\ ~p.off)
        BY <2>a, <2>f, <3>2
      <3> QED BY <3>1, <3>2
    <2> QED BY <2>1 DEF ThreadInv, ThreadShape, ThreadOk
  <1>14. ASSUME NEW r \in Things, AThreads!Reply(r) PROVE ThreadInv'
    <2> DEFINE b == view.copy[r]
               n == b[r] + 1
               o == [b EXCEPT ![r] = n]
               d == [view.copy EXCEPT ![r] = o]
               s == [view EXCEPT !.copy = d, !.kept = o]
    <2>a. AThreads!Clicks(s) /\ view.drawn
      <3> DEFINE o0 == [view.copy[r] EXCEPT ![r] = @ + 1]
                 s0 == [view EXCEPT !.copy[r] = o0, !.kept = o0]
      <3>1. AThreads!Clicks(s0) /\ view.drawn
        BY <1>14 DEF AThreads!Reply
      <3>2. o0 = o
        OBVIOUS
      <3> HIDE DEF o0, o
      <3>3. s0 = s
        BY <3>2 DEF ThreadInv, ThreadShape
      <3> QED BY <3>1, <3>3
    <2>b. /\ b \in [Things -> Nat] /\ view.copy \in [Things -> [Things -> Nat]]
      BY DEF ThreadInv, ThreadOk, ThreadRest, ThreadSorts
    <2>c. \A k \in Things : /\ view.kept[k] <= view.copy[k][k]
                            /\ \A j \in Things : view.copy[j][k] <= view.copy[k][k]
      BY <2>a DEF ThreadInv, ThreadOk, ThreadRest, ThreadKept
    <2>d. /\ o \in [Things -> Nat] /\ o[r] = view.copy[r][r] + 1
          /\ \A k \in Things : k # r => o[k] = view.copy[r][k]
      <3>1. n \in Nat
        BY <2>b
      <3> HIDE DEF n
      <3>2. /\ o \in [Things -> Nat] /\ o[r] = n
            /\ \A k \in Things : k # r => o[k] = b[k]
        BY <2>b, <3>1
      <3> QED BY <3>2 DEF n
    <2> HIDE DEF o
    <2>e. /\ d \in [Things -> [Things -> Nat]] /\ d[r] = o
          /\ \A k \in Things : k # r => d[k] = view.copy[k]
      BY <2>b, <2>d
    <2> HIDE DEF d
    <2>f. /\ DOMAIN s = DOMAIN view /\ s.srv = view.srv /\ s.drawn = view.drawn
          /\ s.snap = view.snap /\ s.text = view.text /\ s.body = view.body
          /\ s.typed = view.typed /\ s.focus = view.focus /\ s.mine = view.mine
          /\ s.gone = view.gone /\ s.bare = view.bare /\ s.posts = view.posts
          /\ s.crossed = view.crossed /\ s.kept = o /\ s.copy = d
          /\ s.clicks = view.clicks
      BY DEF ThreadInv, ThreadShape
    <2> HIDE DEF s
    <2>1. ThreadSorts(s) /\ ThreadPlace(s) /\ ThreadServed(s)
      BY <2>d, <2>e, <2>f DEF ThreadInv, ThreadOk, ThreadRest, ThreadSorts,
                              ThreadPlace, ThreadServed
    <2>2. ThreadShown(s) /\ ThreadField(s)
      BY <2>f DEF ThreadInv, ThreadOk, ThreadRest, ThreadShown, ThreadSame,
                  ThreadOwed, ThreadField
    <2>3. ThreadKept(s)
      <3>1. ASSUME NEW k \in Things
            PROVE  o[k] <= d[k][k] /\ \A j \in Things : d[j][k] <= d[k][k]
        <4>1. CASE k = r
          <5>1. d[k][k] = view.copy[k][k] + 1 /\ view.copy[k][k] \in Nat
            BY <2>b, <2>d, <2>e, <4>1
          <5>2. ASSUME NEW j \in Things PROVE d[j][k] <= d[k][k]
            <6>1. CASE j = r
              BY <4>1, <5>1, <6>1
            <6>2. CASE j # r
              <7>1. d[j][k] = view.copy[j][k] /\ view.copy[j][k] \in Nat
                BY <2>b, <2>e, <6>2
              <7>2. view.copy[j][k] <= view.copy[k][k]
                BY <2>c
              <7> QED BY <5>1, <7>1, <7>2
            <6> QED BY <6>1, <6>2
          <5>3. o[k] = d[k][k]
            BY <2>e, <4>1
          <5> QED BY <5>1, <5>2, <5>3
        <4>2. CASE k # r
          <5>1. d[k][k] = view.copy[k][k]
            BY <2>e, <4>2
          <5>2. \A j \in Things : d[j][k] = view.copy[j][k]
            BY <2>d, <2>e, <4>2
          <5>3. o[k] = view.copy[r][k]
            BY <2>d, <4>2
          <5> QED BY <2>c, <5>1, <5>2, <5>3
        <4> QED BY <4>1, <4>2
      <3> QED BY <2>f, <3>1 DEF ThreadKept
    <2> QED BY <2>a, <2>f, <2>1, <2>2, <2>3, ThreadClicked DEF ThreadInv, ThreadRest
  <1> QED
    BY <1>1, <1>2, <1>3, <1>4, <1>5, <1>6, <1>7, <1>8, <1>9, <1>10, <1>11,
       <1>12, <1>13, <1>14 DEF AThreads!Next

\* That gives the properties of AThreads.
LEMMA ThreadHolds == ThreadInv => AThreads!Truthful /\ AThreads!Settled /\ AThreads!InStep
  <1> SUFFICES ASSUME ThreadInv
               PROVE  AThreads!Truthful /\ AThreads!Settled /\ AThreads!InStep
    OBVIOUS
  <1>1. AThreads!Truthful
    <2>1. \A k \in ThreadKinds \ view.crossed :
            view.drawn /\ view.posts = <<>> => ThreadSame(view, view.srv, k)
      BY DEF ThreadInv, ThreadOk, ThreadRest, ThreadShown, ThreadOwed
    <2>2. {"react", "edit", "delete"} \subseteq ThreadKinds
      BY DEF ThreadKinds
    <2> QED BY <2>1, <2>2 DEF ThreadSame, AThreads!Truthful
  <1>2. AThreads!Settled
    BY DEF ThreadInv, ThreadOk, ThreadField, AThreads!Settled, AThreads!Input
  <1>3. AThreads!InStep
    BY DEF ThreadInv, ThreadOk, ThreadRest, ThreadKept, AThreads!InStep
  <1> QED BY <1>1, <1>2, <1>3

\* It holds from the first state on when the page is this one.
LEMMA ThreadStays ==
  /\ Init => (subject = "thread" => ThreadInv)
  /\ (subject = "thread" => ThreadInv) /\ [Next]_vars
       => (subject = "thread" => ThreadInv)'
  <1>1. Init => (subject = "thread" => ThreadInv)
    BY ThreadInit DEF Init
  <1>2. (subject = "thread" => ThreadInv) /\ [Next]_vars
          => (subject = "thread" => ThreadInv)'
    <2>1. ASSUME ThreadInv, view' = view PROVE ThreadInv'
      BY <2>1 DEF ThreadInv, ThreadShape, ThreadOk, ThreadRest, ThreadSorts,
          ThreadPlace, ThreadServed, ThreadShown, ThreadKept, ThreadField,
          ThreadOwed
    <2> QED BY <2>1, ThreadStep DEF Next, vars
  <1> QED BY <1>1, <1>2

-----------------------------------------------------------------------------
(* The theorems: each property page by page, from what is proved of each.  *)

\* What ViewProofs proves of its pages.
FirstPages ==
  /\ subject = "runs" => RunsInv
  /\ subject = "models" => ModelsInv
  /\ subject = "search" => SearchInv
  /\ subject = "card" => CardInv
  /\ subject = "parts" => PartsInv
  /\ subject = "arena" => ArenaInv
  /\ subject = "stage" => StageInv
  /\ subject = "office" => OfficeInv
  /\ subject = "files" => FilesInv
  /\ subject = "music" => MusicInv
  /\ subject = "tool" => ToolInv
  /\ subject = "shell" => ShellInv
  /\ subject = "knowledge" => KnowInv
  /\ subject = "health" => HealthInv
  /\ subject = "janitor" => JanitorInv
  /\ subject = "compare" => CompareInv
  /\ subject = "find" => FindInv

\* It holds throughout.
LEMMA FirstAlways == Spec => []FirstPages
<1>1. Init => FirstPages
  BY RunsStays, ModelsStays, SearchStays, CardStays, PartsStays, ArenaStays,
     StageStays, OfficeStays, FilesStays, MusicStays, ToolStays, ShellStays,
     KnowStays, HealthStays, JanitorStays, CompareStays, FindStays DEF
     FirstPages
<1>2. FirstPages /\ [Next]_vars => FirstPages'
  BY RunsStays, ModelsStays, SearchStays, CardStays, PartsStays, ArenaStays,
     StageStays, OfficeStays, FilesStays, MusicStays, ToolStays, ShellStays,
     KnowStays, HealthStays, JanitorStays, CompareStays, FindStays DEF
     FirstPages
<1> QED
  BY <1>1, <1>2, PTL DEF Spec

\* What is proved of the others above.
OtherPages ==
  /\ subject = "schedule" => PlanInv
  /\ subject = "mentions" => SayInv
  /\ subject = "picker" => PickInv
  /\ subject = "rail" => RailInv
  /\ subject = "system" => SysInv
  /\ subject = "mesh" => MeshInv
  /\ subject = "attach" => ClipInv
  /\ subject = "thread" => ThreadInv

\* It holds throughout.
LEMMA OtherAlways == Spec => []OtherPages
<1>1. Init => OtherPages
  BY PlanStays, SayStays, PickStays, RailStays, SysStays, MeshStays,
     ClipStays, ThreadStays DEF OtherPages
<1>2. OtherPages /\ [Next]_vars => OtherPages'
  BY PlanStays, SayStays, PickStays, RailStays, SysStays, MeshStays,
     ClipStays, ThreadStays DEF OtherPages
<1> QED
  BY <1>1, <1>2, PTL DEF Spec

\* Nothing the user did on a page is undone by an answer, whatever loads,
\* redraws and late answers come between.
THEOREM KeptAlways == Spec => []Kept
<1>1. FirstPages /\ OtherPages => Kept
  BY CardHolds, PartsHolds, OfficeHolds, MusicHolds, ShellHolds, KnowHolds,
     HealthHolds, JanitorHolds, CompareHolds, PickHolds, RailHolds DEF
     FirstPages, OtherPages, Kept
<1> QED
  BY <1>1, FirstAlways, OtherAlways, PTL

\* Two pieces of a page's state that are written by different handlers agree
\* whenever the user can see both, but where the module of the page names the
\* history in which they may not (crossed, moved and the like).
THEOREM InStepAlways == Spec => []InStep
<1>1. FirstPages /\ OtherPages => InStep
  BY ModelsHolds, FilesHolds, MusicHolds, KnowHolds, HealthHolds,
     JanitorHolds, FindHolds, PlanHolds, SayHolds, PickHolds, RailHolds,
     ClipHolds, ThreadHolds DEF FirstPages, OtherPages, InStep
<1> QED
  BY <1>1, FirstAlways, OtherAlways, PTL

\* No page waits for what will not come, and once every answer is in it shows
\* what was asked for last, or an error to try again from.
THEOREM SettledAlways == Spec => []Settled
<1>1. FirstPages /\ OtherPages => Settled
  BY RunsHolds, ModelsHolds, SearchHolds, CardHolds, ArenaHolds, StageHolds,
     OfficeHolds, FilesHolds, ToolHolds, ShellHolds, KnowHolds,
     CompareHolds, FindHolds, PlanHolds, MeshHolds, ThreadHolds DEF
     FirstPages, OtherPages, Settled
<1> QED
  BY <1>1, FirstAlways, OtherAlways, PTL

\* What a page draws is of the thing it is drawn for, but after an answer the
\* module of the page says may mislead it (late, strayed and the like).
THEOREM TruthfulAlways == Spec => []Truthful
<1>1. FirstPages /\ OtherPages => Truthful
  BY RunsHolds, SearchHolds, CardHolds, PartsHolds, ArenaHolds, StageHolds,
     FilesHolds, ToolHolds, ShellHolds, KnowHolds, HealthHolds,
     CompareHolds, FindHolds, RailHolds, SysHolds, MeshHolds, ThreadHolds
     DEF FirstPages, OtherPages, Truthful
<1> QED
  BY <1>1, FirstAlways, OtherAlways, PTL

\* A message never gets more images than the server takes, however many files are
\* read at once (core/attachments.js 86-92).
THEOREM CappedAlways == Spec => [](subject = "attach" => AnAttach!Sound)
<1>1. OtherPages => (subject = "attach" => AnAttach!Sound)
  BY ClipHolds DEF OtherPages
<1> QED
  BY <1>1, OtherAlways, PTL

=============================================================================
