---------------------------- MODULE ViewProofs ------------------------------
(***************************************************************************)
(* What is proved of the first of the pages of the web UI (Pages), those   *)
(* from the runs to the search of conversations: of each an invariant that *)
(* its steps keep and its properties follow from. PagesProofs has the      *)
(* other pages and the theorems about them all.                            *)
(***************************************************************************)
EXTENDS Pages, FiniteSetTheorems, SequenceTheorems, WellFoundedInduction,
        TLAPS

-----------------------------------------------------------------------------
(* The pages: their bounds, sets of numbers and lists.                     *)

\* The assumption of Pages, bound by bound.
LEMMA Bounds ==
  /\ Things \subseteq Nat \ {0} /\ More \subseteq Nat \ {0}
  /\ 1 \in Things /\ Things \cap More = {}
  /\ MaxOut \in Nat \ {0} /\ MaxLoads \in Nat \ {0} /\ MaxRuns \in Nat \ {0}
  /\ MaxSteps \in Nat \ {0} /\ MaxVer \in Nat \ {0} /\ MaxTracks \in Nat \ {0}
  /\ MaxWaits \in Nat \ {0} /\ GiveUp \in Nat \ {0}
  /\ PerSecond \in Nat \ {0} /\ Lives \in Nat \ {0} /\ RoomCount \in Nat \ {0}
  /\ Width \in Nat \ {0} /\ Height \in Nat \ {0}
  /\ MaxCount \in Nat /\ MaxPiles \in Nat /\ MaxSaved \in Nat
  /\ MaxClicks \in Nat /\ LastSecond \in Nat /\ MaxBlocked \in Nat
  BY PagesAssumption

\* A set of numbers has a least.
LEMMA LeastOf ==
  ASSUME NEW S, S \subseteq Nat, S # {}
  PROVE  \E x \in S : \A y \in S : x <= y
  <1>1. PICK x \in S : \A y \in S : ~(<<y, x>> \in OpToRel(<, Nat))
    BY NatLessThanWellFounded, WFMin
  <1>2. \A y \in S : ~(y < x)
    BY <1>1 DEF OpToRel
  <1> QED BY <1>2

\* A set of numbers up to a bound has a greatest.
LEMMA GreatestOf ==
  ASSUME NEW S, NEW n \in Nat, S \subseteq 0..n, S # {}
  PROVE  \E x \in S : \A y \in S : x >= y
  <1> DEFINE T == {m \in 0..n : n - m \in S}
  <1>1. T \subseteq Nat /\ T # {}
    <2>1. PICK s \in S : TRUE
      OBVIOUS
    <2>2. n - s \in 0..n /\ n - (n - s) = s
      OBVIOUS
    <2>3. n - s \in T
      BY <2>2
    <2> QED BY <2>3
  <1>2. PICK m \in T : \A k \in T : m <= k
    BY <1>1, LeastOf
  <1>3. ASSUME NEW y \in S PROVE n - m >= y
    <2>1. n - y \in 0..n /\ n - (n - y) = y
      OBVIOUS
    <2>2. n - y \in T
      BY <2>1
    <2>3. m <= n - y /\ m \in 0..n /\ y \in 0..n
      BY <1>2, <2>2
    <2> QED BY <2>3
  <1> QED BY <1>2, <1>3

\* The list without its i-th element, as the pages define it.
Without(q, i) ==
  [k \in 1..(Len(q) - 1) |-> IF k < i THEN q[k] ELSE q[k + 1]]

\* What is in a list.
LEMMA ListOf ==
  ASSUME NEW S, NEW q \in Seq(S)
  PROVE  /\ Len(q) \in Nat /\ DOMAIN q = 1..Len(q) /\ (q = <<>> <=> Len(q) = 0)
         /\ \A i \in 1..Len(q) : q[i] \in S
  OBVIOUS

\* What joins it.
LEMMA ListAppended ==
  ASSUME NEW S, NEW q \in Seq(S), NEW e \in S
  PROVE  /\ Append(q, e) \in Seq(S) /\ Len(Append(q, e)) = Len(q) + 1
         /\ Append(q, e)[Len(q) + 1] = e
         /\ \A i \in 1..Len(q) : Append(q, e)[i] = q[i]
  OBVIOUS

\* What is left of it without one of its elements.
LEMMA ListRemoved ==
  ASSUME NEW S, NEW q \in Seq(S), NEW i \in 1..Len(q)
  PROVE  /\ Without(q, i) \in Seq(S) /\ Len(Without(q, i)) = Len(q) - 1
         /\ \A k \in 1..(Len(q) - 1) :
              Without(q, i)[k] = IF k < i THEN q[k] ELSE q[k + 1]
  BY DEF Without

\* What is changed in it.
LEMMA ListMapped ==
  ASSUME NEW S, NEW q \in Seq(S), NEW f,
         f = [i \in DOMAIN q |-> f[i]], \A i \in DOMAIN q : f[i] \in S
  PROVE  f \in Seq(S) /\ Len(f) = Len(q)
  OBVIOUS

\* Its first element and the others.
LEMMA ListTail ==
  ASSUME NEW S, NEW q \in Seq(S), q # <<>>
  PROVE  /\ Head(q) = q[1] /\ Head(q) \in S
         /\ Tail(q) \in Seq(S) /\ Len(Tail(q)) = Len(q) - 1
         /\ \A k \in 1..(Len(q) - 1) : Tail(q)[k] = q[k + 1]
  OBVIOUS

\* Each element left is one of the others.
LEMMA ListShorter ==
  ASSUME NEW S, NEW q \in Seq(S), NEW i \in 1..Len(q)
  PROVE  /\ Without(q, i) \in Seq(S)
         /\ \A k \in DOMAIN Without(q, i) :
              \E j \in DOMAIN q : j # i /\ Without(q, i)[k] = q[j]
  <1> DEFINE r == Without(q, i)
  <1>1. /\ r \in Seq(S) /\ Len(r) = Len(q) - 1
        /\ \A k \in 1..(Len(q) - 1) : r[k] = IF k < i THEN q[k] ELSE q[k + 1]
    BY ListRemoved
  <1>2. DOMAIN r = 1..Len(r) /\ DOMAIN q = 1..Len(q) /\ Len(q) \in Nat
    BY <1>1, ListOf
  <1> HIDE DEF r
  <1>3. ASSUME NEW k \in DOMAIN r PROVE \E j \in DOMAIN q : j # i /\ r[k] = q[j]
    <2>1. k \in DOMAIN q /\ k + 1 \in DOMAIN q /\ (k < i \/ k + 1 # i)
          /\ r[k] = IF k < i THEN q[k] ELSE q[k + 1]
      BY <1>1, <1>2
    <2> QED BY <2>1
  <1> QED BY <1>1, <1>3 DEF r

-----------------------------------------------------------------------------
(* The Runs page.  Once a run has been drawn graph.js is there for good,   *)
(* so that every later drawing happens at once and decides about the step  *)
(* that is open.                                                           *)

RunsShape ==
  DOMAIN view = {"listed", "loaded", "wanted", "query", "sel", "lists",
                 "asks", "diffs", "module", "waits", "graph", "last", "kept",
                 "detail", "clear"}
RunsSorts ==
  /\ view.listed \in BOOLEAN /\ view.lists \in Nat
  /\ view.last # ARuns!None => view.module = "loaded"
RunsLoads ==
  view.graph = "loading" => view.asks # {} \/ view.lists > 0
RunsShown ==
  view.detail # ARuns!None /\ view.last # ARuns!None => view.detail = view.last
RunsInv ==
  /\ RunsShape /\ RunsSorts /\ RunsLoads /\ RunsShown

\* The options drawn anew select one of the runs that match, if there is one.
LEMMA RunsOptions ==
  ASSUME NEW s, DOMAIN s = DOMAIN view, RunsShape
  PROVE  LET o == ARuns!renderRunOptions(s)
         IN /\ DOMAIN o = DOMAIN view /\ o.listed = s.listed
            /\ o.lists = s.lists /\ o.asks = s.asks /\ o.last = s.last
            /\ o.module = s.module
            /\ o.graph # s.graph => o.graph = "none"
            /\ o.detail # s.detail => o.detail = -1
            /\ o.sel = -1 => o.graph = "none"
  <1> DEFINE m == ARuns!matchesRunQuery(s)
             o == ARuns!renderRunOptions(s)
  <1>1. m \subseteq 1..MaxRuns
    BY DEF ARuns!matchesRunQuery, ARuns!Ids
  <1>2. CASE m = {}
    <2> HIDE DEF m
    <2>1. o = [[[s EXCEPT !.sel = -1] EXCEPT !.graph = "none"]
                 EXCEPT !.detail = -1]
      BY <1>2 DEF m, ARuns!renderRunOptions, ARuns!None
    <2> QED BY <2>1 DEF RunsShape
  <1>3. CASE m # {}
    <2>0. MaxRuns \in Nat /\ m \subseteq 0..MaxRuns
      BY <1>1, Bounds
    <2> HIDE DEF m
    <2>1. \E x \in m : \A y \in m : x >= y
      BY <2>0, <1>3, GreatestOf
    <2> USE DEF m
    <2>2. ARuns!Max(m) \in m
      BY <2>1 DEF ARuns!Max
    <2>3. o = [s EXCEPT !.sel = IF s.sel \in m THEN s.sel ELSE ARuns!Max(m)]
      BY <1>3 DEF ARuns!renderRunOptions
    <2> HIDE DEF m, o
    <2>4. o.sel \in 1..MaxRuns
      BY <1>1, <2>2, <2>3 DEF RunsShape
    <2> QED BY <2>3, <2>4 DEF RunsShape, o
  <1> QED BY <1>2, <1>3

\* A run that is loaded is asked for.
LEMMA RunsLoading ==
  ASSUME NEW s, DOMAIN s = DOMAIN view, RunsShape, NEW id, NEW first
  PROVE  LET l == ARuns!loadRun(s, id, first)
         IN /\ DOMAIN l = DOMAIN view /\ l.listed = s.listed
            /\ l.lists = s.lists /\ l.last = s.last /\ l.detail = s.detail
            /\ l.module = s.module /\ l.asks # {}
  <1> DEFINE a == <<id, first>>
  <1>1. ARuns!loadRun(s, id, first)
          = [[s EXCEPT !.graph = "loading"] EXCEPT !.asks = @ \cup {a}]
    BY DEF ARuns!loadRun
  <1> HIDE DEF a
  <1> QED BY <1>1 DEF RunsShape

\* The Runs page at the start.
LEMMA RunsInit == ARuns!Init => RunsInv
  BY DEF RunsInv, RunsShape, RunsSorts, RunsLoads, RunsShown, ARuns!Init

\* Every step of it keeps what is said of it.
LEMMA RunsStep == ASSUME RunsInv, ARuns!Next PROVE RunsInv'
  <1>1. CASE ARuns!RunsRead
    <2>1. RunsShape'
      BY <1>1
         DEF RunsInv, RunsShape, ARuns!RunsRead, ARuns!renderRunOptions,
             ARuns!loadRun, ARuns!None
    <2>2. RunsSorts'
      BY <1>1
         DEF RunsInv, RunsShape, RunsSorts, ARuns!RunsRead,
             ARuns!renderRunOptions, ARuns!loadRun, ARuns!None
    <2>3. RunsLoads'
      <3> DEFINE s == [view EXCEPT !.lists = @ - 1, !.listed = TRUE,
                                   !.wanted = ARuns!None,
                                   !.query = IF view.wanted # ARuns!None THEN FALSE
                                             ELSE @]
                 o == ARuns!renderRunOptions(s)
                 first == ~view.loaded
      <3>1. \/ /\ view' = ARuns!loadRun([o EXCEPT !.sel = view.wanted],
                                        view.wanted, first)
               /\ view.wanted # ARuns!None
            \/ /\ o.sel = -1
               /\ view' = [o EXCEPT !.loaded = TRUE]
            \/ view' = ARuns!loadRun(o, o.sel, first)
        BY <1>1 DEF ARuns!RunsRead, ARuns!None
      <3>2. DOMAIN s = DOMAIN view
        OBVIOUS
      <3> HIDE DEF s, first
      <3>3. DOMAIN o = DOMAIN view /\ (o.sel = -1 => o.graph = "none")
        BY <3>2, RunsOptions DEF RunsInv
      <3> HIDE DEF o
      <3> DEFINE w == [o EXCEPT !.sel = view.wanted]
      <3>4. DOMAIN w = DOMAIN view
        BY <3>3
      <3> HIDE DEF w
      <3>5. view'.asks # {} \/ view'.graph = "none"
        BY <3>1, <3>3, <3>4, RunsLoading DEF RunsInv, RunsShape, w
      <3> QED BY <3>5 DEF RunsLoads
    <2>4. RunsShown'
      BY <1>1
         DEF RunsInv, RunsShape, RunsSorts, RunsShown, ARuns!RunsRead,
             ARuns!renderRunOptions, ARuns!loadRun, ARuns!None
    <2> QED BY <2>1, <2>2, <2>3, <2>4 DEF RunsInv
  <1>2. CASE ARuns!RunsFailed
    BY <1>2
       DEF RunsInv, RunsShape, RunsSorts, RunsLoads, RunsShown,
           ARuns!RunsFailed, ARuns!showRunsError, ARuns!None
  <1>3. CASE ARuns!Refresh
    BY <1>3
       DEF RunsInv, RunsShape, RunsSorts, RunsLoads, RunsShown,
           ARuns!Refresh, ARuns!None
  <1>4. CASE ARuns!Filter
    BY <1>4
       DEF RunsInv, RunsShape, RunsSorts, RunsLoads, RunsShown, ARuns!Filter,
           ARuns!renderRunOptions, ARuns!loadRun, ARuns!None
  <1>5. ASSUME NEW id \in ARuns!Ids, ARuns!openRun(id) PROVE RunsInv'
    <2> DEFINE s == [view EXCEPT !.query = FALSE]
               o == ARuns!renderRunOptions(s)
               w == [o EXCEPT !.sel = IF o.listed THEN id ELSE ARuns!None]
               no == FALSE
    <2>a. CASE view.loaded
      <3>1. view' = ARuns!loadRun(w, id, no)
        BY <1>5, <2>a DEF ARuns!openRun
      <3>2. /\ DOMAIN s = DOMAIN view /\ s.listed = view.listed
            /\ s.lists = view.lists /\ s.last = view.last
            /\ s.module = view.module /\ s.detail = view.detail
        BY DEF RunsInv, RunsShape
      <3> HIDE DEF s
      <3>3. /\ DOMAIN o = DOMAIN view /\ o.listed = s.listed
            /\ o.lists = s.lists /\ o.last = s.last /\ o.module = s.module
            /\ o.detail # s.detail => o.detail = -1
        BY <3>2, RunsOptions DEF RunsInv
      <3> HIDE DEF o
      <3>4. /\ DOMAIN w = DOMAIN view /\ w.listed = o.listed
            /\ w.lists = o.lists /\ w.last = o.last /\ w.module = o.module
            /\ w.detail = o.detail
        BY <3>3 DEF RunsInv, RunsShape
      <3> HIDE DEF w, no
      <3>5. /\ DOMAIN view' = DOMAIN view /\ view'.listed = w.listed
            /\ view'.lists = w.lists /\ view'.last = w.last
            /\ view'.module = w.module /\ view'.detail = w.detail
            /\ view'.asks # {}
        BY <3>1, <3>4, RunsLoading DEF RunsInv
      <3> QED
        BY <3>2, <3>3, <3>4, <3>5
           DEF RunsInv, RunsShape, RunsSorts, RunsLoads, RunsShown, ARuns!None
    <2>b. CASE ~view.loaded
      <3>1. view' = [view EXCEPT !.wanted = id, !.lists = @ + 1]
        BY <1>5, <2>b DEF ARuns!openRun
      <3> QED
        BY <3>1 DEF RunsInv, RunsShape, RunsSorts, RunsLoads, RunsShown,
                    ARuns!None
    <2> QED BY <2>a, <2>b
  <1>6. ASSUME NEW id \in ARuns!Ids, ARuns!selectRunFromList(id) PROVE RunsInv'
    BY <1>6
       DEF RunsInv, RunsShape, RunsSorts, RunsLoads, RunsShown,
           ARuns!selectRunFromList, ARuns!loadRun, ARuns!None
  <1>7. ASSUME NEW a \in ARuns!Ids \X BOOLEAN, ARuns!RunRead(a) PROVE RunsInv'
    BY <1>7
       DEF RunsInv, RunsShape, RunsSorts, RunsLoads, RunsShown,
           ARuns!RunRead, ARuns!drawRun, ARuns!Waits, ARuns!Answers,
           ARuns!None
  <1>8. ASSUME NEW a \in ARuns!Ids \X BOOLEAN, ARuns!RunFailed(a) PROVE RunsInv'
    BY <1>8
       DEF RunsInv, RunsShape, RunsSorts, RunsLoads, RunsShown,
           ARuns!RunFailed, ARuns!showRunsError, ARuns!Answers, ARuns!None
  <1>9. CASE ARuns!GraphLands
    BY <1>9
       DEF RunsInv, RunsShape, RunsSorts, RunsLoads, RunsShown,
           ARuns!GraphLands, ARuns!drawRun, ARuns!Waits, ARuns!None
  <1>10. CASE ARuns!GraphFails
    BY <1>10
       DEF RunsInv, RunsShape, RunsSorts, RunsLoads, RunsShown,
           ARuns!GraphFails, ARuns!None
  <1>11. CASE ARuns!Retry
    BY <1>11
       DEF RunsInv, RunsShape, RunsSorts, RunsLoads, RunsShown, ARuns!Retry,
           ARuns!drawRun, ARuns!Waits, ARuns!None
  <1>12. CASE ARuns!Resize
    BY <1>12
       DEF RunsInv, RunsShape, RunsSorts, RunsLoads, RunsShown, ARuns!Resize,
           ARuns!drawRun, ARuns!Waits, ARuns!None
  <1>13. CASE ARuns!LiveTick
    BY <1>13
       DEF RunsInv, RunsShape, RunsSorts, RunsLoads, RunsShown,
           ARuns!LiveTick, ARuns!drawRun, ARuns!Waits, ARuns!Live, ARuns!None
  <1>14. CASE ARuns!showNodeDetail
    BY <1>14
       DEF RunsInv, RunsShape, RunsSorts, RunsLoads, RunsShown,
           ARuns!showNodeDetail, ARuns!None
  <1>15. CASE ARuns!closeNodeDetail
    BY <1>15
       DEF RunsInv, RunsShape, RunsSorts, RunsLoads, RunsShown,
           ARuns!closeNodeDetail, ARuns!None
  <1>16. ASSUME NEW a \in ARuns!Ids, NEW b \in ARuns!Ids, ARuns!diffRuns(a, b) PROVE RunsInv'
    BY <1>16
       DEF RunsInv, RunsShape, RunsSorts, RunsLoads, RunsShown,
           ARuns!diffRuns, ARuns!None
  <1>17. ASSUME NEW a \in ARuns!Ids, ARuns!DiffRead(a) PROVE RunsInv'
    BY <1>17
       DEF RunsInv, RunsShape, RunsSorts, RunsLoads, RunsShown,
           ARuns!DiffRead, ARuns!drawRun, ARuns!Waits, ARuns!None
  <1>18. CASE ARuns!DiffFailed
    BY <1>18
       DEF RunsInv, RunsShape, RunsSorts, RunsLoads, RunsShown,
           ARuns!DiffFailed, ARuns!None
  <1>19. CASE ARuns!Clear
    BY <1>19
       DEF RunsInv, RunsShape, RunsSorts, RunsLoads, RunsShown, ARuns!Clear,
           ARuns!drawRun, ARuns!Waits, ARuns!None
  <1> QED
    BY <1>1, <1>2, <1>3, <1>4, <1>5, <1>6, <1>7, <1>8, <1>9, <1>10, <1>11,
       <1>12, <1>13, <1>14, <1>15, <1>16, <1>17, <1>18, <1>19 DEF ARuns!Next

\* That gives the properties of ARuns.
LEMMA RunsHolds == RunsInv => ARuns!Settled /\ ARuns!Truthful
  BY DEF RunsInv, RunsShape, RunsSorts, RunsLoads, RunsShown, ARuns!Settled,
      ARuns!Truthful, ARuns!None

\* It holds from the first state on when the page is this one.
LEMMA RunsStays ==
  /\ Init => (subject = "runs" => RunsInv)
  /\ (subject = "runs" => RunsInv) /\ [Next]_vars
       => (subject = "runs" => RunsInv)'
  <1>1. Init => (subject = "runs" => RunsInv)
    BY RunsInit DEF Init
  <1>2. (subject = "runs" => RunsInv) /\ [Next]_vars
          => (subject = "runs" => RunsInv)'
    <2>1. ASSUME RunsInv, view' = view PROVE RunsInv'
      BY <2>1 DEF RunsInv, RunsShape, RunsSorts, RunsLoads, RunsShown
    <2> QED BY <2>1, RunsStep DEF Next, vars
  <1> QED BY <1>1, <1>2

-----------------------------------------------------------------------------
(* The configured models.  Until writes cross one is out at a time, and    *)
(* what the row and the disk then hold follows from how far it got.  A     *)
(* list that is clean was asked for with no write out, and none began      *)
(* since: it brings the row and the disk together again.                   *)

ModelsShape ==
  DOMAIN view = {"server", "row", "lists", "toggle", "save", "remove", "old",
                 "box", "saving", "panel", "mine", "its", "kept", "clean",
                 "crossed"}
ModelsSorts ==
  /\ view.server \in AModelTable!Entry /\ view.row \in AModelTable!Entry
  /\ view.toggle.entry \in AModelTable!Entry
  /\ view.save.entry \in AModelTable!Entry
  /\ view.remove.entry \in AModelTable!Entry
  /\ view.box \in BOOLEAN /\ view.saving \in BOOLEAN /\ view.old \in BOOLEAN
  /\ view.its \in BOOLEAN /\ view.mine \in BOOLEAN /\ view.crossed \in BOOLEAN
  /\ view.clean \in BOOLEAN
  /\ view.lists \subseteq AModelTable!Entry \cup {AModelTable!Asked}
ModelsFreed ==
  /\ view.box => view.toggle.at # "none" /\ ~view.old
  /\ view.saving => view.save.at # "none"
ModelsAlone ==
  ~view.crossed =>
    /\ view.toggle.at # "none" => view.save.at = "none"
    /\ view.toggle.at # "none" \/ view.save.at # "none"
         => view.remove.at = "none"
ModelsLists ==
  /\ \A l, m \in view.lists : l = m
  /\ view.lists # {} => view.row.ver = 0
  /\ view.lists # {} /\ view.clean =>
       /\ view.toggle.at = "none" /\ view.save.at = "none"
       /\ view.remove.at = "none"
       /\ view.lists \subseteq {AModelTable!Asked, view.server}
ModelsFlipped ==
  ~view.crossed /\ view.toggle.at # "none" =>
    /\ view.toggle.at = "sent" => view.toggle.entry.ver = view.server.ver
    /\ view.old => view.row.ver = 0
    /\ ~view.old =>
         /\ view.row.ver = view.server.ver
         /\ view.toggle.at = "sent" => view.toggle.entry = view.row
         /\ view.toggle.at = "done" => view.row.on = view.server.on
         /\ view.toggle.at # "done" => view.row.on = ~view.server.on
ModelsSame ==
  /\ view.server.ver = view.kept
  /\ /\ ~view.crossed /\ view.toggle.at = "none" /\ view.row.ver # 0
     /\ view.save.at # "done" /\ view.remove.at # "done"
     => view.row = view.server
ModelsInv ==
  /\ ModelsShape
  /\ ModelsSorts
  /\ ModelsFreed
  /\ ModelsAlone
  /\ ModelsLists
  /\ ModelsFlipped
  /\ ModelsSame

\* An entry is its two fields; the one that stands for none, and the list that
\* is asked for.
LEMMA ModelsEntries ==
  /\ AModelTable!NoEntry \in AModelTable!Entry /\ AModelTable!NoEntry.ver = 0
  /\ AModelTable!Asked \notin AModelTable!Entry
  /\ AModelTable!Idle.at = "none"
  /\ AModelTable!Idle.entry = AModelTable!NoEntry
  BY Bounds
     DEF AModelTable!Entry, AModelTable!NoEntry, AModelTable!Asked,
         AModelTable!Idle
\* An entry is its switch and its version.
LEMMA ModelsFields ==
  \A e \in AModelTable!Entry :
    /\ e.on \in BOOLEAN /\ e.ver \in 0..MaxVer
    /\ \A d \in AModelTable!Entry : e.on = d.on /\ e.ver = d.ver => e = d
  BY DEF AModelTable!Entry
\* A request at rest, of an entry.
LEMMA ModelsIdle ==
  ASSUME NEW a
  PROVE  [AModelTable!Idle EXCEPT !.at = a]
           = [at |-> a, entry |-> AModelTable!NoEntry]
  BY DEF AModelTable!Idle
\* A switch and a version make an entry.
LEMMA ModelsMade ==
  ASSUME NEW b \in BOOLEAN, NEW v \in 0..MaxVer
  PROVE  [on |-> b, ver |-> v] \in AModelTable!Entry
  BY DEF AModelTable!Entry
\* An entry switched on or off is one of the same version.
LEMMA ModelsTurned ==
  ASSUME NEW e \in AModelTable!Entry, NEW b \in BOOLEAN
  PROVE  /\ [e EXCEPT !.on = b] \in AModelTable!Entry
         /\ [e EXCEPT !.on = b].on = b /\ [e EXCEPT !.on = b].ver = e.ver
  BY DEF AModelTable!Entry

\* The Models page at the start.
LEMMA ModelsInit == AModelTable!Init => ModelsInv
  <1> SUFFICES ASSUME AModelTable!Init PROVE ModelsInv
    OBVIOUS
  <1> DEFINE o == [on |-> TRUE, ver |-> 1]
  <1>1. o \in AModelTable!Entry
    BY Bounds DEF AModelTable!Entry
  <1>2. PICK e \in {AModelTable!NoEntry, o} :
          view = [server |-> e, row |-> AModelTable!NoEntry,
                  lists |-> {AModelTable!Asked}, toggle |-> AModelTable!Idle,
                  save |-> AModelTable!Idle, remove |-> AModelTable!Idle,
                  old |-> FALSE, box |-> FALSE, saving |-> FALSE,
                  panel |-> "shut", mine |-> FALSE, its |-> TRUE,
                  kept |-> e.ver, clean |-> TRUE, crossed |-> FALSE]
    BY DEF AModelTable!Init
  <1> HIDE DEF o
  <1> QED
    BY <1>1, <1>2, ModelsEntries
       DEF ModelsInv, ModelsShape, ModelsSorts, ModelsFreed, ModelsAlone,
           ModelsLists, ModelsFlipped, ModelsSame, AModelTable!Writing

\* Every step of it keeps what is said of it.
LEMMA ModelsStep == ASSUME ModelsInv, AModelTable!Next PROVE ModelsInv'
  <1>1. CASE AModelTable!Refresh
    <2>a. /\ view.lists = {} /\ DOMAIN view' = DOMAIN view
          /\ view'.row = AModelTable!NoEntry /\ view'.box = FALSE
          /\ view'.old = (view.toggle.at # "none") /\ view'.mine = FALSE
          /\ view'.its = (IF view.mine THEN view.row.on ELSE view.its)
          /\ view'.lists = {AModelTable!Asked}
          /\ view'.crossed = view.crossed
          /\ view'.clean = ~AModelTable!Writing(view)
          /\ view'.server = view.server /\ view'.toggle = view.toggle
          /\ view'.save = view.save /\ view'.remove = view.remove
          /\ view'.saving = view.saving /\ view'.panel = view.panel
          /\ view'.kept = view.kept
      BY <1>1
         DEF ModelsInv, ModelsShape, AModelTable!Refresh, AModelTable!Calm,
             AModelTable!Writing, AModelTable!Draws, AModelTable!loadConfigured
    <2>1. ModelsShape'
      BY <2>a, ModelsEntries, ModelsFields
         DEF ModelsInv, ModelsShape, AModelTable!Writing
    <2>2. ModelsSorts'
      BY <2>a, ModelsEntries, ModelsFields
         DEF ModelsInv, ModelsShape, ModelsSorts, AModelTable!Writing
    <2>3. ModelsFreed'
      BY <2>a, ModelsEntries, ModelsFields
         DEF ModelsInv, ModelsShape, ModelsSorts, ModelsAlone, ModelsFreed,
             AModelTable!Writing
    <2>4. ModelsAlone'
      BY <2>a, ModelsEntries, ModelsFields
         DEF ModelsInv, ModelsShape, ModelsSorts, ModelsLists, ModelsFlipped,
             ModelsAlone, AModelTable!Writing
    <2>5. ModelsLists'
      BY <2>a, ModelsEntries, ModelsFields
         DEF ModelsInv, ModelsShape, ModelsSorts, ModelsAlone, ModelsLists,
             AModelTable!Writing
    <2>6. ModelsFlipped'
      BY <2>a, ModelsEntries, ModelsFields
         DEF ModelsInv, ModelsShape, ModelsSorts, ModelsAlone, ModelsSame,
             ModelsFlipped, AModelTable!Writing
    <2>7. ModelsSame'
      BY <2>a, ModelsEntries, ModelsFields
         DEF ModelsInv, ModelsShape, ModelsSorts, ModelsAlone, ModelsLists,
             ModelsFlipped, ModelsSame, AModelTable!Writing
    <2> QED BY <2>1, <2>2, <2>3, <2>4, <2>5, <2>6, <2>7 DEF ModelsInv
  <1>2. CASE AModelTable!Read
    BY <1>2, ModelsEntries, ModelsFields
       DEF ModelsInv, ModelsShape, ModelsSorts, ModelsFreed, ModelsAlone,
           ModelsLists, ModelsFlipped, ModelsSame, AModelTable!Read,
           AModelTable!Writing
  <1>3. CASE AModelTable!Writes
    <2>1. ASSUME AModelTable!Write(view, view.toggle, "toggle") PROVE ModelsInv'
      <3> DEFINE y == [AModelTable!Idle EXCEPT !.at = "done"]
                 n == [AModelTable!Idle EXCEPT !.at = "failed"]
                 k == IF view.crossed THEN view.toggle.entry.ver ELSE view.kept
      <3>y. /\ y.at = "done" /\ y.entry = AModelTable!NoEntry
            /\ n.at = "failed" /\ n.entry = AModelTable!NoEntry
        BY ModelsIdle
      <3>p. PICK took \in BOOLEAN, told \in BOOLEAN :
              /\ view.toggle.at = "sent" /\ (told => took)
              /\ view' = [view EXCEPT
                   !["toggle"] = [AModelTable!Idle EXCEPT
                                  !.at = IF told THEN "done" ELSE "failed"],
                   !.server = IF took THEN view.toggle.entry ELSE @,
                   !.kept = IF took /\ ("toggle" # "toggle" \/ view.crossed)
                            THEN view.toggle.entry.ver ELSE @,
                   !.crossed = @ \/ (took /\ ~told)]
        BY <2>1 DEF AModelTable!Write
      <3>q. /\ DOMAIN view' = DOMAIN view
            /\ view'.toggle = (IF told THEN y ELSE n)
            /\ view'.server = (IF took THEN view.toggle.entry ELSE view.server)
            /\ view'.kept = (IF took THEN k ELSE view.kept)
            /\ view'.crossed = (view.crossed \/ (took /\ ~told))
            /\ view'.row = view.row
            /\ view'.lists = view.lists /\ view'.save = view.save
            /\ view'.remove = view.remove /\ view'.old = view.old
            /\ view'.box = view.box /\ view'.saving = view.saving
            /\ view'.panel = view.panel /\ view'.mine = view.mine
            /\ view'.its = view.its /\ view'.clean = view.clean
        BY <3>p DEF ModelsInv, ModelsShape, ModelsSorts
      <3> HIDE DEF y, n
      <3>s. /\ view.toggle.at = "sent" /\ (told => took)
            /\ view.crossed \in BOOLEAN
        BY <3>p DEF ModelsInv, ModelsSorts
      <3>r. /\ view.toggle.at = "sent" /\ view.crossed \in BOOLEAN
            /\ view'.toggle.entry = AModelTable!NoEntry
            /\ \/ /\ view'.toggle.at = "done"
                  /\ view'.server = view.toggle.entry /\ view'.kept = k
                  /\ view'.crossed = view.crossed
               \/ /\ view'.toggle.at = "failed"
                  /\ view'.server = view.toggle.entry /\ view'.kept = k
                  /\ view'.crossed = TRUE
               \/ /\ view'.toggle.at = "failed" /\ view'.server = view.server
                  /\ view'.kept = view.kept /\ view'.crossed = view.crossed
        <4>1. CASE took /\ told
          BY <4>1, <3>y, <3>q, <3>s
        <4>2. CASE took /\ ~told
          BY <4>2, <3>y, <3>q, <3>s
        <4>3. CASE ~took /\ ~told
          BY <4>3, <3>y, <3>q, <3>s
        <4> QED BY <4>1, <4>2, <4>3, <3>s
      <3>1. ModelsShape'
        BY <3>q, <3>r, ModelsEntries, ModelsFields
           DEF ModelsInv, ModelsShape
      <3>2. ModelsSorts'
        BY <3>q, <3>r, ModelsEntries, ModelsFields
           DEF ModelsInv, ModelsSorts
      <3>3. ModelsFreed'
        BY <3>q, <3>r, ModelsEntries, ModelsFields
           DEF ModelsInv, ModelsSorts, ModelsAlone, ModelsFreed
      <3>4. ModelsAlone'
        BY <3>q, <3>r, ModelsEntries, ModelsFields
           DEF ModelsInv, ModelsSorts, ModelsLists, ModelsFlipped,
               ModelsAlone, AModelTable!Writing
      <3>5. ModelsLists'
        BY <3>q, <3>r, ModelsEntries, ModelsFields
           DEF ModelsInv, ModelsSorts, ModelsAlone, ModelsLists,
               AModelTable!Writing
      <3>6. ModelsFlipped'
        BY <3>q, <3>r, ModelsEntries, ModelsFields
           DEF ModelsInv, ModelsSorts, ModelsAlone, ModelsSame, ModelsFlipped,
               AModelTable!Writing
      <3>7. ModelsSame'
        BY <3>q, <3>r, ModelsEntries, ModelsFields
           DEF ModelsInv, ModelsSorts, ModelsAlone, ModelsLists,
               ModelsFlipped, ModelsSame, AModelTable!Writing
      <3> QED BY <3>1, <3>2, <3>3, <3>4, <3>5, <3>6, <3>7 DEF ModelsInv
    <2>2. ASSUME AModelTable!Write(view, view.save, "save") PROVE ModelsInv'
      <3> DEFINE y == [AModelTable!Idle EXCEPT !.at = "done"]
                 n == [AModelTable!Idle EXCEPT !.at = "failed"]
      <3>y. /\ y.at = "done" /\ y.entry = AModelTable!NoEntry
            /\ n.at = "failed" /\ n.entry = AModelTable!NoEntry
        BY ModelsIdle
      <3>p. PICK took \in BOOLEAN, told \in BOOLEAN :
              /\ view.save.at = "sent" /\ (told => took)
              /\ view' = [view EXCEPT
                   !["save"] = [AModelTable!Idle EXCEPT
                                  !.at = IF told THEN "done" ELSE "failed"],
                   !.server = IF took THEN view.save.entry ELSE @,
                   !.kept = IF took /\ ("save" # "toggle" \/ view.crossed)
                            THEN view.save.entry.ver ELSE @,
                   !.crossed = @ \/ (took /\ ~told)]
        BY <2>2 DEF AModelTable!Write
      <3>q. /\ DOMAIN view' = DOMAIN view
            /\ view'.save = (IF told THEN y ELSE n)
            /\ view'.server = (IF took THEN view.save.entry ELSE view.server)
            /\ view'.kept = (IF took THEN view.save.entry.ver ELSE view.kept)
            /\ view'.crossed = (view.crossed \/ (took /\ ~told))
            /\ view'.row = view.row
            /\ view'.lists = view.lists /\ view'.toggle = view.toggle
            /\ view'.remove = view.remove /\ view'.old = view.old
            /\ view'.box = view.box /\ view'.saving = view.saving
            /\ view'.panel = view.panel /\ view'.mine = view.mine
            /\ view'.its = view.its /\ view'.clean = view.clean
        BY <3>p DEF ModelsInv, ModelsShape, ModelsSorts
      <3> HIDE DEF y, n
      <3>s. /\ view.save.at = "sent" /\ (told => took)
            /\ view.crossed \in BOOLEAN
        BY <3>p DEF ModelsInv, ModelsSorts
      <3>r. /\ view.save.at = "sent" /\ view.crossed \in BOOLEAN
            /\ view'.save.entry = AModelTable!NoEntry
            /\ \/ /\ view'.save.at = "done"
                  /\ view'.server = view.save.entry
                  /\ view'.kept = view.save.entry.ver
                  /\ view'.crossed = view.crossed
               \/ /\ view'.save.at = "failed"
                  /\ view'.server = view.save.entry
                  /\ view'.kept = view.save.entry.ver
                  /\ view'.crossed = TRUE
               \/ /\ view'.save.at = "failed" /\ view'.server = view.server
                  /\ view'.kept = view.kept /\ view'.crossed = view.crossed
        <4>1. CASE took /\ told
          BY <4>1, <3>y, <3>q, <3>s
        <4>2. CASE took /\ ~told
          BY <4>2, <3>y, <3>q, <3>s
        <4>3. CASE ~took /\ ~told
          BY <4>3, <3>y, <3>q, <3>s
        <4> QED BY <4>1, <4>2, <4>3, <3>s
      <3>1. ModelsShape'
        BY <3>q, <3>r, ModelsEntries, ModelsFields
           DEF ModelsInv, ModelsShape
      <3>2. ModelsSorts'
        BY <3>q, <3>r, ModelsEntries, ModelsFields
           DEF ModelsInv, ModelsSorts
      <3>3. ModelsFreed'
        BY <3>q, <3>r, ModelsEntries, ModelsFields
           DEF ModelsInv, ModelsSorts, ModelsAlone, ModelsFreed
      <3>4. ModelsAlone'
        BY <3>q, <3>r, ModelsEntries, ModelsFields
           DEF ModelsInv, ModelsSorts, ModelsLists, ModelsFlipped,
               ModelsAlone, AModelTable!Writing
      <3>5. ModelsLists'
        BY <3>q, <3>r, ModelsEntries, ModelsFields
           DEF ModelsInv, ModelsSorts, ModelsAlone, ModelsLists,
               AModelTable!Writing
      <3>6. ModelsFlipped'
        BY <3>q, <3>r, ModelsEntries, ModelsFields
           DEF ModelsInv, ModelsSorts, ModelsAlone, ModelsSame, ModelsFlipped,
               AModelTable!Writing
      <3>7. ModelsSame'
        BY <3>q, <3>r, ModelsEntries, ModelsFields
           DEF ModelsInv, ModelsSorts, ModelsAlone, ModelsLists,
               ModelsFlipped, ModelsSame, AModelTable!Writing
      <3> QED BY <3>1, <3>2, <3>3, <3>4, <3>5, <3>6, <3>7 DEF ModelsInv
    <2>3. ASSUME AModelTable!Write(view, view.remove, "remove") PROVE ModelsInv'
      <3> DEFINE y == [AModelTable!Idle EXCEPT !.at = "done"]
                 n == [AModelTable!Idle EXCEPT !.at = "failed"]
      <3>y. /\ y.at = "done" /\ y.entry = AModelTable!NoEntry
            /\ n.at = "failed" /\ n.entry = AModelTable!NoEntry
        BY ModelsIdle
      <3>p. PICK took \in BOOLEAN, told \in BOOLEAN :
              /\ view.remove.at = "sent" /\ (told => took)
              /\ view' = [view EXCEPT
                   !["remove"] = [AModelTable!Idle EXCEPT
                                  !.at = IF told THEN "done" ELSE "failed"],
                   !.server = IF took THEN view.remove.entry ELSE @,
                   !.kept = IF took /\ ("remove" # "toggle" \/ view.crossed)
                            THEN view.remove.entry.ver ELSE @,
                   !.crossed = @ \/ (took /\ ~told)]
        BY <2>3 DEF AModelTable!Write
      <3>q. /\ DOMAIN view' = DOMAIN view
            /\ view'.remove = (IF told THEN y ELSE n)
            /\ view'.server = (IF took THEN view.remove.entry ELSE view.server)
            /\ view'.kept = (IF took THEN view.remove.entry.ver ELSE view.kept)
            /\ view'.crossed = (view.crossed \/ (took /\ ~told))
            /\ view'.row = view.row
            /\ view'.lists = view.lists /\ view'.toggle = view.toggle
            /\ view'.save = view.save /\ view'.old = view.old
            /\ view'.box = view.box /\ view'.saving = view.saving
            /\ view'.panel = view.panel /\ view'.mine = view.mine
            /\ view'.its = view.its /\ view'.clean = view.clean
        BY <3>p DEF ModelsInv, ModelsShape, ModelsSorts
      <3> HIDE DEF y, n
      <3>s. /\ view.remove.at = "sent" /\ (told => took)
            /\ view.crossed \in BOOLEAN
        BY <3>p DEF ModelsInv, ModelsSorts
      <3>r. /\ view.remove.at = "sent" /\ view.crossed \in BOOLEAN
            /\ view'.remove.entry = AModelTable!NoEntry
            /\ \/ /\ view'.remove.at = "done"
                  /\ view'.server = view.remove.entry
                  /\ view'.kept = view.remove.entry.ver
                  /\ view'.crossed = view.crossed
               \/ /\ view'.remove.at = "failed"
                  /\ view'.server = view.remove.entry
                  /\ view'.kept = view.remove.entry.ver
                  /\ view'.crossed = TRUE
               \/ /\ view'.remove.at = "failed" /\ view'.server = view.server
                  /\ view'.kept = view.kept /\ view'.crossed = view.crossed
        <4>1. CASE took /\ told
          BY <4>1, <3>y, <3>q, <3>s
        <4>2. CASE took /\ ~told
          BY <4>2, <3>y, <3>q, <3>s
        <4>3. CASE ~took /\ ~told
          BY <4>3, <3>y, <3>q, <3>s
        <4> QED BY <4>1, <4>2, <4>3, <3>s
      <3>1. ModelsShape'
        BY <3>q, <3>r, ModelsEntries, ModelsFields
           DEF ModelsInv, ModelsShape
      <3>2. ModelsSorts'
        BY <3>q, <3>r, ModelsEntries, ModelsFields
           DEF ModelsInv, ModelsSorts
      <3>3. ModelsFreed'
        BY <3>q, <3>r, ModelsEntries, ModelsFields
           DEF ModelsInv, ModelsSorts, ModelsAlone, ModelsFreed
      <3>4. ModelsAlone'
        BY <3>q, <3>r, ModelsEntries, ModelsFields
           DEF ModelsInv, ModelsSorts, ModelsLists, ModelsFlipped,
               ModelsAlone, AModelTable!Writing
      <3>5. ModelsLists'
        BY <3>q, <3>r, ModelsEntries, ModelsFields
           DEF ModelsInv, ModelsSorts, ModelsAlone, ModelsLists,
               AModelTable!Writing
      <3>6. ModelsFlipped'
        BY <3>q, <3>r, ModelsEntries, ModelsFields
           DEF ModelsInv, ModelsSorts, ModelsAlone, ModelsSame, ModelsFlipped,
               AModelTable!Writing
      <3>7. ModelsSame'
        BY <3>q, <3>r, ModelsEntries, ModelsFields
           DEF ModelsInv, ModelsSorts, ModelsAlone, ModelsLists,
               ModelsFlipped, ModelsSame, AModelTable!Writing
      <3> QED BY <3>1, <3>2, <3>3, <3>4, <3>5, <3>6, <3>7 DEF ModelsInv
    <2> QED BY <1>3, <2>1, <2>2, <2>3 DEF AModelTable!Writes
  <1>4. CASE AModelTable!saveModelEntry
    <2> DEFINE e == [view.row EXCEPT !.on = ~@]
    <2>r. view.row \in AModelTable!Entry /\ (~view.row.on) \in BOOLEAN
      BY ModelsFields DEF ModelsInv, ModelsSorts
    <2>b. e \in AModelTable!Entry /\ e.ver = view.row.ver /\ e.on = ~view.row.on
      BY <2>r, ModelsTurned, Zenon
    <2>a. /\ view.row.ver > 0 /\ view.toggle.at = "none"
          /\ view'.toggle.at = "sent" /\ view'.toggle.entry = e
          /\ DOMAIN view' = DOMAIN view /\ view'.row = e /\ view'.box = TRUE
          /\ view'.old = FALSE
          /\ view'.crossed = (view.crossed \/ AModelTable!Writing(view))
          /\ view'.clean = FALSE
          /\ view'.toggle = [at |-> "sent", entry |-> e]
          /\ view'.server = view.server /\ view'.lists = view.lists
          /\ view'.save = view.save /\ view'.remove = view.remove
          /\ view'.saving = view.saving /\ view'.panel = view.panel
          /\ view'.mine = view.mine /\ view'.its = view.its
          /\ view'.kept = view.kept
      BY <1>4
         DEF ModelsInv, ModelsShape, AModelTable!saveModelEntry,
             AModelTable!Asks
    <2> HIDE DEF e
    <2>1. ModelsShape'
      BY <2>a, <2>b, ModelsEntries, ModelsFields
         DEF ModelsInv, ModelsShape, AModelTable!Writing
    <2>2. ModelsSorts'
      BY <2>a, <2>b, ModelsEntries, ModelsFields
         DEF ModelsInv, ModelsShape, ModelsSorts, AModelTable!Writing
    <2>3. ModelsFreed'
      BY <2>a, <2>b, ModelsEntries, ModelsFields
         DEF ModelsInv, ModelsShape, ModelsSorts, ModelsAlone, ModelsFreed,
             AModelTable!Writing
    <2>4. ModelsAlone'
      BY <2>a, <2>b, ModelsEntries, ModelsFields
         DEF ModelsInv, ModelsShape, ModelsSorts, ModelsLists, ModelsFlipped,
             ModelsAlone, AModelTable!Writing
    <2>5. ModelsLists'
      BY <2>a, <2>b, ModelsEntries, ModelsFields
         DEF ModelsInv, ModelsShape, ModelsSorts, ModelsAlone, ModelsLists,
             AModelTable!Writing
    <2>6. ModelsFlipped'
      BY <2>a, <2>b, ModelsEntries, ModelsFields
         DEF ModelsInv, ModelsShape, ModelsSorts, ModelsAlone, ModelsSame,
             ModelsFlipped, AModelTable!Writing
    <2>7. ModelsSame'
      BY <2>a, <2>b, ModelsEntries, ModelsFields
         DEF ModelsInv, ModelsShape, ModelsSorts, ModelsAlone, ModelsLists,
             ModelsFlipped, ModelsSame, AModelTable!Writing
    <2> QED BY <2>1, <2>2, <2>3, <2>4, <2>5, <2>6, <2>7 DEF ModelsInv
  <1>5. ASSUME NEW l \in AModelTable!Entry \cup {AModelTable!Asked}, AModelTable!Listed(l) PROVE ModelsInv'
    <2>a. /\ l \in view.lists \ {AModelTable!Asked}
          /\ DOMAIN view' = DOMAIN view /\ view'.row = l /\ view'.box = FALSE
          /\ view'.old = (view.toggle.at # "none") /\ view'.mine = FALSE
          /\ view'.its = (IF view.mine THEN view.row.on ELSE view.its)
          /\ view'.lists = view.lists \ {l} /\ view'.server = view.server
          /\ view'.toggle = view.toggle /\ view'.save = view.save
          /\ view'.remove = view.remove /\ view'.saving = view.saving
          /\ view'.panel = view.panel /\ view'.kept = view.kept
          /\ view'.crossed = ~view.clean /\ view'.clean = view.clean
      BY <1>5
         DEF ModelsInv, ModelsShape, AModelTable!Listed, AModelTable!Draws
    <2>1. ModelsShape'
      BY <2>a, ModelsEntries, ModelsFields
         DEF ModelsInv, ModelsShape, AModelTable!Writing
    <2>2. ModelsSorts'
      BY <2>a, ModelsEntries, ModelsFields
         DEF ModelsInv, ModelsShape, ModelsSorts, AModelTable!Writing
    <2>3. ModelsFreed'
      BY <2>a, ModelsEntries, ModelsFields
         DEF ModelsInv, ModelsShape, ModelsSorts, ModelsAlone, ModelsFreed,
             AModelTable!Writing
    <2>4. ModelsAlone'
      BY <2>a, ModelsEntries, ModelsFields
         DEF ModelsInv, ModelsShape, ModelsSorts, ModelsLists, ModelsFlipped,
             ModelsAlone, AModelTable!Writing
    <2>5. ModelsLists'
      BY <2>a, ModelsEntries, ModelsFields
         DEF ModelsInv, ModelsShape, ModelsSorts, ModelsAlone, ModelsLists,
             AModelTable!Writing
    <2>6. ModelsFlipped'
      BY <2>a, ModelsEntries, ModelsFields
         DEF ModelsInv, ModelsShape, ModelsSorts, ModelsAlone, ModelsLists,
             ModelsSame, ModelsFlipped, AModelTable!Writing
    <2>7. ModelsSame'
      BY <2>a, ModelsEntries, ModelsFields
         DEF ModelsInv, ModelsShape, ModelsSorts, ModelsAlone, ModelsLists,
             ModelsFlipped, ModelsSame, AModelTable!Writing
    <2> QED BY <2>1, <2>2, <2>3, <2>4, <2>5, <2>6, <2>7 DEF ModelsInv
  <1>6. ASSUME NEW l \in AModelTable!Entry \cup {AModelTable!Asked}, AModelTable!ListFails(l) PROVE ModelsInv'
    <2>a. /\ l \in view.lists /\ DOMAIN view' = DOMAIN view
          /\ view'.row = AModelTable!NoEntry /\ view'.box = FALSE
          /\ view'.old = (view.toggle.at # "none") /\ view'.mine = FALSE
          /\ view'.its = (IF view.mine THEN view.row.on ELSE view.its)
          /\ view'.lists = view.lists \ {l} /\ view'.server = view.server
          /\ view'.toggle = view.toggle /\ view'.save = view.save
          /\ view'.remove = view.remove /\ view'.saving = view.saving
          /\ view'.panel = view.panel /\ view'.kept = view.kept
          /\ view'.crossed = view.crossed /\ view'.clean = view.clean
      BY <1>6
         DEF ModelsInv, ModelsShape, AModelTable!ListFails, AModelTable!Draws
    <2>1. ModelsShape'
      BY <2>a, ModelsEntries, ModelsFields
         DEF ModelsInv, ModelsShape, AModelTable!Writing
    <2>2. ModelsSorts'
      BY <2>a, ModelsEntries, ModelsFields
         DEF ModelsInv, ModelsShape, ModelsSorts, AModelTable!Writing
    <2>3. ModelsFreed'
      BY <2>a, ModelsEntries, ModelsFields
         DEF ModelsInv, ModelsShape, ModelsSorts, ModelsAlone, ModelsFreed,
             AModelTable!Writing
    <2>4. ModelsAlone'
      BY <2>a, ModelsEntries, ModelsFields
         DEF ModelsInv, ModelsShape, ModelsSorts, ModelsLists, ModelsFlipped,
             ModelsAlone, AModelTable!Writing
    <2>5. ModelsLists'
      BY <2>a, ModelsEntries, ModelsFields
         DEF ModelsInv, ModelsShape, ModelsSorts, ModelsAlone, ModelsLists,
             AModelTable!Writing
    <2>6. ModelsFlipped'
      BY <2>a, ModelsEntries, ModelsFields
         DEF ModelsInv, ModelsShape, ModelsSorts, ModelsAlone, ModelsSame,
             ModelsFlipped, AModelTable!Writing
    <2>7. ModelsSame'
      BY <2>a, ModelsEntries, ModelsFields
         DEF ModelsInv, ModelsShape, ModelsSorts, ModelsAlone, ModelsLists,
             ModelsFlipped, ModelsSame, AModelTable!Writing
    <2> QED BY <2>1, <2>2, <2>3, <2>4, <2>5, <2>6, <2>7 DEF ModelsInv
  <1>7. ASSUME NEW ok \in BOOLEAN, AModelTable!ToggleAnswered(ok) PROVE ModelsInv'
    <2> DEFINE f == [view.row EXCEPT !.on = ~@]
               g == [view.row EXCEPT !.on = @]
               r == IF view.old THEN view.row
                    ELSE [view.row EXCEPT !.on = IF ok THEN @ ELSE ~@]
    <2>r. /\ view.row \in AModelTable!Entry /\ view.row.on \in BOOLEAN
          /\ (~view.row.on) \in BOOLEAN
      BY ModelsFields DEF ModelsInv, ModelsSorts
    <2>b. f \in AModelTable!Entry /\ f.ver = view.row.ver /\ f.on = ~view.row.on
      BY <2>r, ModelsTurned, Zenon
    <2>c. g \in AModelTable!Entry /\ g.ver = view.row.ver /\ g.on = view.row.on
      BY <2>r, ModelsTurned, Zenon
    <2>d. r = IF view.old THEN view.row ELSE IF ok THEN g ELSE f
      OBVIOUS
    <2>a. /\ view.toggle.at = (IF ok THEN "done" ELSE "failed")
          /\ view' = IF view.old THEN [view EXCEPT !.toggle = AModelTable!Idle]
                     ELSE [[view EXCEPT !.toggle = AModelTable!Idle]
                           EXCEPT !.box = FALSE, !.row = r]
      BY <1>7 DEF ModelsInv, ModelsShape, AModelTable!ToggleAnswered
    <2> HIDE DEF f, g, r
    <2>e. /\ DOMAIN view' = DOMAIN view /\ view'.toggle = AModelTable!Idle
          /\ view'.box = (view.box /\ view.old) /\ view'.row = r
          /\ view'.server = view.server /\ view'.lists = view.lists
          /\ view'.save = view.save /\ view'.remove = view.remove
          /\ view'.old = view.old /\ view'.saving = view.saving
          /\ view'.mine = view.mine /\ view'.its = view.its
          /\ view'.kept = view.kept /\ view'.crossed = view.crossed
          /\ view'.clean = view.clean
      BY <2>a, <2>d DEF ModelsInv, ModelsShape, ModelsSorts
    <2>1. ModelsShape'
      BY <2>a, <2>b, <2>c, <2>d, <2>e, ModelsEntries, ModelsFields
         DEF ModelsInv, ModelsShape, AModelTable!Writing
    <2>2. ModelsSorts'
      BY <2>a, <2>b, <2>c, <2>d, <2>e, ModelsEntries, ModelsFields
         DEF ModelsInv, ModelsShape, ModelsSorts, AModelTable!Writing
    <2>3. ModelsFreed'
      BY <2>a, <2>b, <2>c, <2>d, <2>e, ModelsEntries, ModelsFields
         DEF ModelsInv, ModelsShape, ModelsSorts, ModelsAlone, ModelsFreed,
             AModelTable!Writing
    <2>4. ModelsAlone'
      BY <2>a, <2>b, <2>c, <2>d, <2>e, ModelsEntries, ModelsFields
         DEF ModelsInv, ModelsShape, ModelsSorts, ModelsLists, ModelsFlipped,
             ModelsAlone, AModelTable!Writing
    <2>5. ModelsLists'
      BY <2>a, <2>b, <2>c, <2>d, <2>e, ModelsEntries, ModelsFields
         DEF ModelsInv, ModelsShape, ModelsSorts, ModelsAlone, ModelsLists,
             AModelTable!Writing
    <2>6. ModelsFlipped'
      BY <2>a, <2>b, <2>c, <2>d, <2>e, ModelsEntries, ModelsFields
         DEF ModelsInv, ModelsShape, ModelsSorts, ModelsAlone, ModelsSame,
             ModelsFlipped, AModelTable!Writing
    <2>7. ModelsSame'
      BY <2>a, <2>b, <2>c, <2>d, <2>e, ModelsEntries, ModelsFields
         DEF ModelsInv, ModelsShape, ModelsSorts, ModelsAlone, ModelsLists,
             ModelsFlipped, ModelsSame, AModelTable!Writing
    <2> QED BY <2>1, <2>2, <2>3, <2>4, <2>5, <2>6, <2>7 DEF ModelsInv
  <1>8. ASSUME NEW ok \in BOOLEAN, AModelTable!SaveAnswered(ok) PROVE ModelsInv'
    <2>a. /\ view.save.at # "none" /\ view.lists = {}
          /\ view'.save = AModelTable!Idle /\ DOMAIN view' = DOMAIN view
          /\ view'.saving = FALSE /\ view'.server = view.server
          /\ view'.toggle = view.toggle /\ view'.remove = view.remove
          /\ view'.panel = view.panel /\ view'.kept = view.kept
          /\ view'.crossed = view.crossed
          /\ \/ /\ view.save.at = "done" /\ view'.row = AModelTable!NoEntry
                /\ view'.box = FALSE /\ view'.old = (view.toggle.at # "none")
                /\ view'.mine = FALSE
                /\ view'.its = (IF view.mine THEN view.row.on ELSE view.its)
                /\ view'.lists = {AModelTable!Asked}
                /\ view'.clean = ~(\/ view.toggle.at # "none"
                                   \/ view.remove.at # "none")
             \/ /\ view.save.at = "failed" /\ view'.row = view.row
                /\ view'.box = view.box /\ view'.old = view.old
                /\ view'.mine = view.mine /\ view'.its = view.its
                /\ view'.lists = view.lists /\ view'.clean = view.clean
      BY <1>8, ModelsEntries DEF ModelsInv, ModelsShape, AModelTable!SaveAnswered,
                AModelTable!Calm, AModelTable!Draws,
                AModelTable!loadConfigured, AModelTable!Writing
    <2>1. ModelsShape'
      BY <2>a, ModelsEntries, ModelsFields
         DEF ModelsInv, ModelsShape, AModelTable!Writing
    <2>2. ModelsSorts'
      BY <2>a, ModelsEntries, ModelsFields
         DEF ModelsInv, ModelsShape, ModelsSorts, AModelTable!Writing
    <2>3. ModelsFreed'
      BY <2>a, ModelsEntries, ModelsFields
         DEF ModelsInv, ModelsShape, ModelsSorts, ModelsAlone, ModelsFreed,
             AModelTable!Writing
    <2>4. ModelsAlone'
      BY <2>a, ModelsEntries, ModelsFields
         DEF ModelsInv, ModelsShape, ModelsSorts, ModelsLists, ModelsFlipped,
             ModelsAlone, AModelTable!Writing
    <2>5. ModelsLists'
      BY <2>a, ModelsEntries, ModelsFields
         DEF ModelsInv, ModelsShape, ModelsSorts, ModelsAlone, ModelsLists,
             AModelTable!Writing
    <2>6. ModelsFlipped'
      BY <2>a, ModelsEntries, ModelsFields
         DEF ModelsInv, ModelsShape, ModelsSorts, ModelsAlone, ModelsSame,
             ModelsFlipped, AModelTable!Writing
    <2>7. ModelsSame'
      BY <2>a, ModelsEntries, ModelsFields
         DEF ModelsInv, ModelsShape, ModelsSorts, ModelsAlone, ModelsLists,
             ModelsFlipped, ModelsSame, AModelTable!Writing
    <2> QED BY <2>1, <2>2, <2>3, <2>4, <2>5, <2>6, <2>7 DEF ModelsInv
  <1>9. ASSUME NEW ok \in BOOLEAN, AModelTable!RemoveAnswered(ok) PROVE ModelsInv'
    <2>a. /\ view.remove.at # "none" /\ view.lists = {}
          /\ view'.remove = AModelTable!Idle /\ DOMAIN view' = DOMAIN view
          /\ view'.server = view.server /\ view'.toggle = view.toggle
          /\ view'.save = view.save /\ view'.saving = view.saving
          /\ view'.panel = view.panel /\ view'.kept = view.kept
          /\ view'.crossed = view.crossed
          /\ \/ /\ view.remove.at = "done" /\ view'.row = AModelTable!NoEntry
                /\ view'.box = FALSE /\ view'.old = (view.toggle.at # "none")
                /\ view'.mine = FALSE
                /\ view'.its = (IF view.mine THEN view.row.on ELSE view.its)
                /\ view'.lists = {AModelTable!Asked}
                /\ view'.clean = ~(\/ view.toggle.at # "none"
                                   \/ view.save.at # "none")
             \/ /\ view.remove.at = "failed" /\ view'.row = view.row
                /\ view'.box = view.box /\ view'.old = view.old
                /\ view'.mine = view.mine /\ view'.its = view.its
                /\ view'.lists = view.lists /\ view'.clean = view.clean
      BY <1>9, ModelsEntries DEF ModelsInv, ModelsShape, AModelTable!RemoveAnswered,
                AModelTable!Calm, AModelTable!Draws,
                AModelTable!loadConfigured, AModelTable!Writing
    <2>1. ModelsShape'
      BY <2>a, ModelsEntries, ModelsFields
         DEF ModelsInv, ModelsShape, AModelTable!Writing
    <2>2. ModelsSorts'
      BY <2>a, ModelsEntries, ModelsFields
         DEF ModelsInv, ModelsShape, ModelsSorts, AModelTable!Writing
    <2>3. ModelsFreed'
      BY <2>a, ModelsEntries, ModelsFields
         DEF ModelsInv, ModelsShape, ModelsSorts, ModelsAlone, ModelsFreed,
             AModelTable!Writing
    <2>4. ModelsAlone'
      BY <2>a, ModelsEntries, ModelsFields
         DEF ModelsInv, ModelsShape, ModelsSorts, ModelsLists, ModelsFlipped,
             ModelsAlone, AModelTable!Writing
    <2>5. ModelsLists'
      BY <2>a, ModelsEntries, ModelsFields
         DEF ModelsInv, ModelsShape, ModelsSorts, ModelsAlone, ModelsLists,
             AModelTable!Writing
    <2>6. ModelsFlipped'
      BY <2>a, ModelsEntries, ModelsFields
         DEF ModelsInv, ModelsShape, ModelsSorts, ModelsAlone, ModelsSame,
             ModelsFlipped, AModelTable!Writing
    <2>7. ModelsSame'
      BY <2>a, ModelsEntries, ModelsFields
         DEF ModelsInv, ModelsShape, ModelsSorts, ModelsAlone, ModelsLists,
             ModelsFlipped, ModelsSame, AModelTable!Writing
    <2> QED BY <2>1, <2>2, <2>3, <2>4, <2>5, <2>6, <2>7 DEF ModelsInv
  <1>10. ASSUME NEW new \in BOOLEAN, AModelTable!showEditPanel(new) PROVE ModelsInv'
    BY <1>10, ModelsEntries, ModelsFields
       DEF ModelsInv, ModelsShape, ModelsSorts, ModelsFreed, ModelsAlone,
           ModelsLists, ModelsFlipped, ModelsSame, AModelTable!showEditPanel,
           AModelTable!Writing
  <1>11. CASE AModelTable!hideEditPanel
    BY <1>11, ModelsEntries, ModelsFields
       DEF ModelsInv, ModelsShape, ModelsSorts, ModelsFreed, ModelsAlone,
           ModelsLists, ModelsFlipped, ModelsSame, AModelTable!hideEditPanel,
           AModelTable!Writing
  <1>12. CASE AModelTable!removeEdit
    <2>a. /\ view.remove.at = "none" /\ view'.remove.at = "sent"
          /\ view'.remove.entry = AModelTable!NoEntry
          /\ DOMAIN view' = DOMAIN view
          /\ view'.crossed = (view.crossed \/ AModelTable!Writing(view))
          /\ view'.clean = FALSE
          /\ view'.remove = [at |-> "sent", entry |-> AModelTable!NoEntry]
          /\ view'.server = view.server /\ view'.row = view.row
          /\ view'.lists = view.lists /\ view'.toggle = view.toggle
          /\ view'.save = view.save /\ view'.old = view.old
          /\ view'.box = view.box /\ view'.saving = view.saving
          /\ view'.panel = view.panel /\ view'.mine = view.mine
          /\ view'.its = view.its /\ view'.kept = view.kept
      BY <1>12
         DEF ModelsInv, ModelsShape, AModelTable!removeEdit, AModelTable!Asks
    <2>1. ModelsShape'
      BY <2>a, ModelsEntries, ModelsFields
         DEF ModelsInv, ModelsShape, AModelTable!Writing
    <2>2. ModelsSorts'
      BY <2>a, ModelsEntries, ModelsFields
         DEF ModelsInv, ModelsShape, ModelsSorts, AModelTable!Writing
    <2>3. ModelsFreed'
      BY <2>a, ModelsEntries, ModelsFields
         DEF ModelsInv, ModelsShape, ModelsSorts, ModelsAlone, ModelsFreed,
             AModelTable!Writing
    <2>4. ModelsAlone'
      BY <2>a, ModelsEntries, ModelsFields
         DEF ModelsInv, ModelsShape, ModelsSorts, ModelsLists, ModelsFlipped,
             ModelsAlone, AModelTable!Writing
    <2>5. ModelsLists'
      BY <2>a, ModelsEntries, ModelsFields
         DEF ModelsInv, ModelsShape, ModelsSorts, ModelsAlone, ModelsLists,
             AModelTable!Writing
    <2>6. ModelsFlipped'
      BY <2>a, ModelsEntries, ModelsFields
         DEF ModelsInv, ModelsShape, ModelsSorts, ModelsAlone, ModelsSame,
             ModelsFlipped, AModelTable!Writing
    <2>7. ModelsSame'
      BY <2>a, ModelsEntries, ModelsFields
         DEF ModelsInv, ModelsShape, ModelsSorts, ModelsAlone, ModelsLists,
             ModelsFlipped, ModelsSame, AModelTable!Writing
    <2> QED BY <2>1, <2>2, <2>3, <2>4, <2>5, <2>6, <2>7 DEF ModelsInv
  <1>13. ASSUME NEW ver \in 1..MaxVer, AModelTable!saveEdit(ver) PROVE ModelsInv'
    <2> DEFINE b == IF view.mine THEN view.row.on ELSE view.its
               e == [on |-> b, ver |-> ver]
    <2>b. e \in AModelTable!Entry
      BY ModelsFields, ModelsMade DEF ModelsInv, ModelsSorts
    <2>a. /\ view.save.at = "none" /\ view'.save.at = "sent"
          /\ view'.save.entry = e /\ DOMAIN view' = DOMAIN view
          /\ view'.crossed = (view.crossed \/ AModelTable!Writing(view))
          /\ view'.clean = FALSE
          /\ view'.saving = TRUE /\ view'.save = [at |-> "sent", entry |-> e]
          /\ view'.server = view.server /\ view'.row = view.row
          /\ view'.lists = view.lists /\ view'.toggle = view.toggle
          /\ view'.remove = view.remove /\ view'.old = view.old
          /\ view'.box = view.box /\ view'.panel = view.panel
          /\ view'.mine = view.mine /\ view'.its = view.its
          /\ view'.kept = view.kept
      BY <1>13
         DEF ModelsInv, ModelsShape, AModelTable!saveEdit, AModelTable!Asks,
             AModelTable!editOn
    <2> HIDE DEF b, e
    <2>1. ModelsShape'
      BY <2>a, <2>b, ModelsEntries, ModelsFields
         DEF ModelsInv, ModelsShape, AModelTable!Writing
    <2>2. ModelsSorts'
      BY <2>a, <2>b, ModelsEntries, ModelsFields
         DEF ModelsInv, ModelsShape, ModelsSorts, AModelTable!Writing
    <2>3. ModelsFreed'
      BY <2>a, <2>b, ModelsEntries, ModelsFields
         DEF ModelsInv, ModelsShape, ModelsSorts, ModelsAlone, ModelsFreed,
             AModelTable!Writing
    <2>4. ModelsAlone'
      BY <2>a, <2>b, ModelsEntries, ModelsFields
         DEF ModelsInv, ModelsShape, ModelsSorts, ModelsLists, ModelsFlipped,
             ModelsAlone, AModelTable!Writing
    <2>5. ModelsLists'
      BY <2>a, <2>b, ModelsEntries, ModelsFields
         DEF ModelsInv, ModelsShape, ModelsSorts, ModelsAlone, ModelsLists,
             AModelTable!Writing
    <2>6. ModelsFlipped'
      BY <2>a, <2>b, ModelsEntries, ModelsFields
         DEF ModelsInv, ModelsShape, ModelsSorts, ModelsAlone, ModelsSame,
             ModelsFlipped, AModelTable!Writing
    <2>7. ModelsSame'
      BY <2>a, <2>b, ModelsEntries, ModelsFields
         DEF ModelsInv, ModelsShape, ModelsSorts, ModelsAlone, ModelsLists,
             ModelsFlipped, ModelsSame, AModelTable!Writing
    <2> QED BY <2>1, <2>2, <2>3, <2>4, <2>5, <2>6, <2>7 DEF ModelsInv
  <1> QED
    BY <1>1, <1>2, <1>3, <1>4, <1>5, <1>6, <1>7, <1>8, <1>9, <1>10, <1>11,
       <1>12, <1>13 DEF AModelTable!Next

\* That gives the properties of AModelTable.
LEMMA ModelsHolds == ModelsInv => AModelTable!Settled /\ AModelTable!InStep
  BY DEF ModelsInv, ModelsShape, ModelsSorts, ModelsFreed, ModelsAlone,
      ModelsLists, ModelsFlipped, ModelsSame, AModelTable!Settled,
      AModelTable!InStep, AModelTable!Writing

\* It holds from the first state on when the page is this one.
LEMMA ModelsStays ==
  /\ Init => (subject = "models" => ModelsInv)
  /\ (subject = "models" => ModelsInv) /\ [Next]_vars
       => (subject = "models" => ModelsInv)'
  <1>1. Init => (subject = "models" => ModelsInv)
    BY ModelsInit DEF Init
  <1>2. (subject = "models" => ModelsInv) /\ [Next]_vars
          => (subject = "models" => ModelsInv)'
    <2>1. ASSUME ModelsInv, view' = view PROVE ModelsInv'
      BY <2>1 DEF ModelsInv, ModelsShape, ModelsSorts, ModelsFreed, ModelsAlone,
          ModelsLists, ModelsFlipped, ModelsSame
    <2> QED BY <2>1, ModelsStep DEF Next, vars
  <1> QED BY <1>1, <1>2

-----------------------------------------------------------------------------
(* Where a model is found.  A provider asked is a real one; while it is    *)
(* asked another selection is noted; a snippet being saved is the one on   *)
(* screen unless one was picked over it.                                   *)

SearchShape ==
  DOMAIN view = {"sel", "lists", "live", "listed", "button", "asks", "busy",
                 "found", "picked", "saves", "button2", "note", "moved",
                 "passed"}
SearchSorts ==
  /\ view.sel \in Things /\ view.button \in BOOLEAN /\ view.busy \in BOOLEAN
  /\ view.moved \in BOOLEAN /\ view.passed \in BOOLEAN
SearchOut ==
  /\ view.button => view.live # 0
  /\ view.busy => view.asks # {}
SearchNamed ==
  /\ view.live \in {0, view.sel} \/ view.moved
  /\ view.listed[1] = view.listed[2] \/ view.moved
SearchNoted ==
  \/ view.passed \/ view.picked = 0
  \/ view.saves \subseteq {view.picked} /\ view.note \in {0, view.picked}
SearchInv ==
  /\ SearchShape /\ SearchSorts /\ SearchOut /\ SearchNamed /\ SearchNoted

\* The search of models at the start.
LEMMA SearchInit == AModelSearch!Init => SearchInv
  BY Bounds
  DEF SearchInv, SearchShape, SearchSorts, SearchOut, SearchNamed,
      SearchNoted, AModelSearch!Init, AModelSearch!Nothing

\* Every step of it keeps what is said of it.
LEMMA SearchStep == ASSUME SearchInv, AModelSearch!Next PROVE SearchInv'
  <1>1. ASSUME NEW p \in Things, AModelSearch!Choose(p) PROVE SearchInv'
    BY <1>1, Bounds
       DEF SearchInv, SearchShape, SearchSorts, SearchOut, SearchNamed,
           SearchNoted, AModelSearch!Choose, AModelSearch!Nothing
  <1>2. ASSUME NEW p \in Things, NEW now \in Things, AModelSearch!restoreProvider(p, now) PROVE SearchInv'
    BY <1>2, Bounds
       DEF SearchInv, SearchShape, SearchSorts, SearchOut, SearchNamed,
           SearchNoted, AModelSearch!restoreProvider, AModelSearch!Nothing
  <1>3. CASE AModelSearch!AskProviders
    BY <1>3, Bounds
       DEF SearchInv, SearchShape, SearchSorts, SearchOut, SearchNamed,
           SearchNoted, AModelSearch!AskProviders, AModelSearch!Nothing
  <1>4. CASE AModelSearch!loadLive
    BY <1>4, Bounds
       DEF SearchInv, SearchShape, SearchSorts, SearchOut, SearchNamed,
           SearchNoted, AModelSearch!loadLive, AModelSearch!Nothing
  <1>5. CASE AModelSearch!LiveRead
    BY <1>5, Bounds
       DEF SearchInv, SearchShape, SearchSorts, SearchOut, SearchNamed,
           SearchNoted, AModelSearch!LiveRead, AModelSearch!Nothing
  <1>6. CASE AModelSearch!LiveFails
    BY <1>6, Bounds
       DEF SearchInv, SearchShape, SearchSorts, SearchOut, SearchNamed,
           SearchNoted, AModelSearch!LiveFails, AModelSearch!Nothing
  <1>7. ASSUME NEW q \in Things, AModelSearch!searchCatalog(q) PROVE SearchInv'
    BY <1>7, Bounds
       DEF SearchInv, SearchShape, SearchSorts, SearchOut, SearchNamed,
           SearchNoted, AModelSearch!searchCatalog, AModelSearch!HideSnippet,
           AModelSearch!Nothing
  <1>8. ASSUME NEW q \in Things, AModelSearch!Found(q) PROVE SearchInv'
    BY <1>8, Bounds
       DEF SearchInv, SearchShape, SearchSorts, SearchOut, SearchNamed,
           SearchNoted, AModelSearch!Found, AModelSearch!Nothing
  <1>9. ASSUME NEW q \in Things, AModelSearch!SearchFails(q) PROVE SearchInv'
    BY <1>9, Bounds
       DEF SearchInv, SearchShape, SearchSorts, SearchOut, SearchNamed,
           SearchNoted, AModelSearch!SearchFails, AModelSearch!Nothing
  <1>10. CASE AModelSearch!refreshCatalog
    BY <1>10, Bounds
       DEF SearchInv, SearchShape, SearchSorts, SearchOut, SearchNamed,
           SearchNoted, AModelSearch!refreshCatalog, AModelSearch!Nothing
  <1>11. ASSUME NEW m \in AModelSearch!Offered, AModelSearch!showSnippet(m) PROVE SearchInv'
    BY <1>11, Bounds
       DEF SearchInv, SearchShape, SearchSorts, SearchOut, SearchNamed,
           SearchNoted, AModelSearch!showSnippet, AModelSearch!Nothing
  <1>12. ASSUME NEW m \in view.saves, AModelSearch!Saved(m) PROVE SearchInv'
    BY <1>12, Bounds
       DEF SearchInv, SearchShape, SearchSorts, SearchOut, SearchNamed,
           SearchNoted, AModelSearch!Saved, AModelSearch!Nothing
  <1>13. ASSUME NEW m \in view.saves, AModelSearch!SaveFails(m) PROVE SearchInv'
    BY <1>13, Bounds
       DEF SearchInv, SearchShape, SearchSorts, SearchOut, SearchNamed,
           SearchNoted, AModelSearch!SaveFails, AModelSearch!Nothing
  <1>14. CASE AModelSearch!hideSnippet
    BY <1>14, Bounds
       DEF SearchInv, SearchShape, SearchSorts, SearchOut, SearchNamed,
           SearchNoted, AModelSearch!hideSnippet, AModelSearch!HideSnippet,
           AModelSearch!Nothing
  <1>15. CASE AModelSearch!postConfig
    BY <1>15, Bounds
       DEF SearchInv, SearchShape, SearchSorts, SearchOut, SearchNamed,
           SearchNoted, AModelSearch!postConfig, AModelSearch!Nothing
  <1> QED
    BY <1>1, <1>2, <1>3, <1>4, <1>5, <1>6, <1>7, <1>8, <1>9, <1>10, <1>11,
       <1>12, <1>13, <1>14, <1>15 DEF AModelSearch!Next

\* That gives the properties of AModelSearch.
LEMMA SearchHolds == SearchInv => AModelSearch!Settled /\ AModelSearch!Truthful
  BY DEF SearchInv, SearchShape, SearchSorts, SearchOut, SearchNamed,
      SearchNoted, AModelSearch!Settled, AModelSearch!Truthful,
      AModelSearch!Nothing

\* It holds from the first state on when the page is this one.
LEMMA SearchStays ==
  /\ Init => (subject = "search" => SearchInv)
  /\ (subject = "search" => SearchInv) /\ [Next]_vars
       => (subject = "search" => SearchInv)'
  <1>1. Init => (subject = "search" => SearchInv)
    BY SearchInit DEF Init
  <1>2. (subject = "search" => SearchInv) /\ [Next]_vars
          => (subject = "search" => SearchInv)'
    <2>1. ASSUME SearchInv, view' = view PROVE SearchInv'
      BY <2>1 DEF SearchInv, SearchShape, SearchSorts, SearchOut, SearchNamed,
          SearchNoted
    <2> QED BY <2>1, SearchStep DEF Next, vars
  <1> QED BY <1>1, <1>2

-----------------------------------------------------------------------------
(* The dialog of a card.  A draft is of what was typed or was left by the  *)
(* editor; what is adrift, or bound to a draft that was dropped, has none; *)
(* and what differs from the card's own text is being saved by the editor. *)

CardShape ==
  DOMAIN view = {"body", "draft", "open", "field", "editing", "bound",
                 "shown", "busy", "posts", "typed", "adrift", "left",
                 "refused"}
CardSorts ==
  /\ DOMAIN view.body = Things /\ DOMAIN view.draft = Things
  /\ view.open \in Things \cup {0}
  /\ view.editing \in BOOLEAN /\ view.bound \in BOOLEAN
  /\ view.adrift \in BOOLEAN /\ view.refused \in BOOLEAN
  /\ view.editing => view.open # 0
CardBusy ==
  view.busy \subseteq view.posts
CardTyped ==
  /\ view.typed # 0 =>
       /\ view.open # 0
       /\ \/ view.adrift
          \/ view.field = view.typed /\ view.draft[view.open] = view.typed
  /\ view.adrift =>
       view.typed # 0 /\ view.open # 0 /\ view.draft[view.open] = 0
  /\ ~view.bound /\ view.open # 0 => view.draft[view.open] = 0
CardDrafts ==
  \A c \in Things :
    view.draft[c] # 0 => c \in view.left \/ (c = view.open /\ view.typed # 0)
CardShown ==
  view.open # 0 =>
    \/ view.shown = view.body[view.open] \/ view.refused
    \/ \E p \in view.posts : p[1] = "text" /\ p[2] = view.open
CardWritten ==
  view.open # 0 =>
    \/ view.typed # 0 \/ view.field = view.body[view.open]
    \/ view.open \in view.left \/ view.refused
    \/ \E p \in view.posts : p[1] = "text" /\ p[2] = view.open
CardInv ==
  /\ CardShape
  /\ CardSorts
  /\ CardBusy
  /\ CardTyped
  /\ CardDrafts
  /\ CardShown
  /\ CardWritten

\* The card's dialog at the start.
LEMMA CardInit == ACardDetail!Init => CardInv
  BY Bounds
  DEF CardInv, CardShape, CardSorts, CardBusy, CardTyped, CardDrafts,
      CardShown, CardWritten, ACardDetail!Init, ACardDetail!None

\* Every step of it keeps what is said of it.
LEMMA CardStep == ASSUME CardInv, ACardDetail!Next PROVE CardInv'
  <1>1. ASSUME NEW c \in Things, ACardDetail!openCard(c) PROVE CardInv'
    BY <1>1, Bounds
       DEF CardInv, CardShape, CardSorts, CardBusy, CardTyped, CardDrafts,
           CardShown, CardWritten, ACardDetail!openCard,
           ACardDetail!showCardDetail, ACardDetail!None
  <1>2. CASE ACardDetail!closeCardDetail
    BY <1>2, Bounds
       DEF CardInv, CardShape, CardSorts, CardBusy, CardTyped, CardDrafts,
           CardShown, CardWritten, ACardDetail!closeCardDetail,
           ACardDetail!showCardDetail, ACardDetail!DropDraft,
           ACardDetail!None
  <1>3. CASE ACardDetail!openDescEdit
    BY <1>3, Bounds
       DEF CardInv, CardShape, CardSorts, CardBusy, CardTyped, CardDrafts,
           CardShown, CardWritten, ACardDetail!openDescEdit, ACardDetail!None
  <1>4. CASE ACardDetail!descCancel
    BY <1>4, Bounds
       DEF CardInv, CardShape, CardSorts, CardBusy, CardTyped, CardDrafts,
           CardShown, CardWritten, ACardDetail!descCancel,
           ACardDetail!Behind, ACardDetail!None
  <1>5. CASE ACardDetail!descSave
    BY <1>5, Bounds
       DEF CardInv, CardShape, CardSorts, CardBusy, CardTyped, CardDrafts,
           CardShown, CardWritten, ACardDetail!descSave, ACardDetail!Behind,
           ACardDetail!Room, ACardDetail!Post, ACardDetail!Update,
           ACardDetail!None
  <1>6. CASE ACardDetail!Save
    BY <1>6, Bounds
       DEF CardInv, CardShape, CardSorts, CardBusy, CardTyped, CardDrafts,
           CardShown, CardWritten, ACardDetail!Save, ACardDetail!Room,
           ACardDetail!Post, ACardDetail!Update, ACardDetail!None
  <1>7. CASE ACardDetail!asGoal
    BY <1>7, Bounds
       DEF CardInv, CardShape, CardSorts, CardBusy, CardTyped, CardDrafts,
           CardShown, CardWritten, ACardDetail!asGoal, ACardDetail!DropDraft,
           ACardDetail!None
  <1>8. ASSUME NEW t \in Things, ACardDetail!Type(t) PROVE CardInv'
    BY <1>8, Bounds
       DEF CardInv, CardShape, CardSorts, CardBusy, CardTyped, CardDrafts,
           CardShown, CardWritten, ACardDetail!Type, ACardDetail!None
  <1>9. ASSUME NEW p \in view.posts, ACardDetail!PostRead(p) PROVE CardInv'
    <2> DEFINE all == p[1] = "all"
               saved == all /\ view.open = p[2] /\ view.typed = p[3]
               typed == IF saved THEN 0 ELSE view.typed
               body == [view.body EXCEPT ![p[2]] = p[3]]
               text == IF view.draft[view.open] # 0 THEN view.draft[view.open]
                       ELSE body[view.open]
           s == [view EXCEPT !.posts = @ \ {p}, !.body[p[2]] = p[3],
                                 !.typed = IF saved THEN 0 ELSE @,
                                 !.adrift = @ /\ ~saved]
               z == ACardDetail!showCardDetail(s)
    <2>d. view' = IF all THEN ACardDetail!DropDraft(z, p[2]) ELSE z
      BY <1>9 DEF ACardDetail!PostRead, ACardDetail!None
    <2>e. /\ DOMAIN s = DOMAIN view /\ s.open = view.open /\ s.body = body
          /\ s.posts = view.posts \ {p} /\ s.draft = view.draft
          /\ s.typed = typed /\ s.left = view.left
          /\ s.adrift = (view.adrift /\ ~saved)
      BY DEF CardInv, CardShape, CardSorts
    <2> HIDE DEF s
    <2>f. /\ DOMAIN z = DOMAIN view /\ z.open = view.open /\ z.body = body
          /\ z.posts = view.posts \ {p} /\ z.draft = view.draft
          /\ z.typed = typed /\ z.busy = {} /\ z.editing = FALSE
          /\ z.refused = FALSE /\ z.bound = TRUE /\ z.adrift = s.adrift
          /\ z.left = {c \in view.left : view.draft[c] # 0}
          /\ z.field = IF view.open = 0 THEN 0 ELSE text
          /\ z.shown = IF view.open = 0 THEN 0 ELSE body[view.open]
      BY <2>e DEF CardInv, CardShape, ACardDetail!showCardDetail,
                  ACardDetail!None
    <2> HIDE DEF z, body, typed, text
    <2>a. /\ DOMAIN view' = DOMAIN view /\ view'.open = view.open
          /\ view'.posts = view.posts \ {p} /\ view'.busy = {}
          /\ view'.body = body /\ view'.editing = FALSE /\ view'.refused = FALSE
          /\ view'.typed = typed
          /\ view'.left = {c \in view.left : view.draft[c] # 0}
          /\ view'.draft = IF all THEN [view.draft EXCEPT ![p[2]] = 0]
                                  ELSE view.draft
      BY <2>d, <2>e, <2>f DEF CardInv, CardShape, ACardDetail!DropDraft,
                              ACardDetail!None
    <2>b. /\ view'.field = IF view.open = 0 THEN 0 ELSE text
          /\ view'.shown = IF view.open = 0 THEN 0 ELSE body[view.open]
      BY <2>d, <2>e, <2>f DEF CardInv, CardShape, ACardDetail!DropDraft,
                              ACardDetail!None
    <2>c. /\ view'.bound <=> ~(all /\ view.open = p[2])
          /\ view'.adrift <=> \/ view.adrift /\ ~saved
                              \/ all /\ view.open = p[2] /\ typed # 0
          /\ view'.bound \in BOOLEAN /\ view'.adrift \in BOOLEAN
      BY <2>d, <2>e, <2>f DEF CardInv, CardShape, CardSorts,
                              ACardDetail!DropDraft, ACardDetail!None
    <2> USE DEF body, typed, text
    <2>1. CardShape'
      BY <2>a, <2>b, <2>c, <1>9, Bounds
         DEF CardInv, CardShape, ACardDetail!None
    <2>2. CardSorts'
      BY <2>a, <2>b, <2>c, <1>9, Bounds
         DEF CardInv, CardShape, CardSorts, ACardDetail!None
    <2>3. CardBusy'
      BY <2>a, <2>b, <2>c, <1>9, Bounds
         DEF CardInv, CardShape, CardSorts, CardBusy, ACardDetail!None
    <2>4. CardTyped'
      BY <2>a, <2>b, <2>c, <1>9, Bounds
         DEF CardInv, CardShape, CardSorts, CardTyped, ACardDetail!None
    <2>5. CardDrafts'
      BY <2>a, <2>b, <2>c, <1>9, Bounds
         DEF CardInv, CardShape, CardSorts, CardTyped, CardDrafts,
             ACardDetail!None
    <2>6. CardShown'
      BY <2>a, <2>b, <2>c, <1>9, Bounds
         DEF CardInv, CardShape, CardSorts, CardShown, ACardDetail!None
    <2>7. CardWritten'
      BY <2>a, <2>b, <2>c, <1>9, Bounds
         DEF CardInv, CardShape, CardSorts, CardTyped, CardDrafts,
             CardWritten, ACardDetail!None
    <2> QED BY <2>1, <2>2, <2>3, <2>4, <2>5, <2>6, <2>7 DEF CardInv
  <1>10. ASSUME NEW p \in view.posts, ACardDetail!PostFails(p) PROVE CardInv'
    BY <1>10, Bounds
       DEF CardInv, CardShape, CardSorts, CardBusy, CardTyped, CardDrafts,
           CardShown, CardWritten, ACardDetail!PostFails, ACardDetail!None
  <1>11. ASSUME NEW c \in Things, NEW t \in Things, ACardDetail!BoardRead(c, t) PROVE CardInv'
    BY <1>11, Bounds
       DEF CardInv, CardShape, CardSorts, CardBusy, CardTyped, CardDrafts,
           CardShown, CardWritten, ACardDetail!BoardRead,
           ACardDetail!showCardDetail, ACardDetail!None
  <1> QED
    BY <1>1, <1>2, <1>3, <1>4, <1>5, <1>6, <1>7, <1>8, <1>9, <1>10, <1>11 DEF
       ACardDetail!Next

\* That gives the properties of ACardDetail.
LEMMA CardHolds == CardInv => ACardDetail!Settled /\ ACardDetail!Kept /\ ACardDetail!Truthful
  BY DEF CardInv, CardShape, CardSorts, CardBusy, CardTyped, CardDrafts,
      CardShown, CardWritten, ACardDetail!Settled, ACardDetail!Kept,
      ACardDetail!Truthful, ACardDetail!None, ACardDetail!Saving

\* It holds from the first state on when the page is this one.
LEMMA CardStays ==
  /\ Init => (subject = "card" => CardInv)
  /\ (subject = "card" => CardInv) /\ [Next]_vars
       => (subject = "card" => CardInv)'
  <1>1. Init => (subject = "card" => CardInv)
    BY CardInit DEF Init
  <1>2. (subject = "card" => CardInv) /\ [Next]_vars
          => (subject = "card" => CardInv)'
    <2>1. ASSUME CardInv, view' = view PROVE CardInv'
      BY <2>1 DEF CardInv, CardShape, CardSorts, CardBusy, CardTyped, CardDrafts,
          CardShown, CardWritten
    <2> QED BY <2>1, CardStep DEF Next, vars
  <1> QED BY <1>1, <1>2

-----------------------------------------------------------------------------
(* The parts of a card.  Unless two clicks were out for one box, the click *)
(* that is out for it asks for what the item is not.                       *)

PartsShape ==
  DOMAIN view = {"labels", "stored", "meant", "updates", "done", "box",
                 "toggles", "twice", "raced"}
PartsSorts ==
  /\ view.done \in BOOLEAN /\ view.box \in BOOLEAN
  /\ view.twice \in BOOLEAN /\ view.raced \in BOOLEAN
  /\ \A t \in view.toggles : t[1] \in BOOLEAN /\ t[2] \in BOOLEAN
PartsLabels ==
  view.stored = view.meant \/ view.raced
PartsBox ==
  view.box = view.done \/ view.twice \/ \E t \in view.toggles : t[2]
PartsClicks ==
  view.twice \/ \A t \in view.toggles : t[2] => t[1] = ~view.done
PartsInv ==
  /\ PartsShape /\ PartsSorts /\ PartsLabels /\ PartsBox /\ PartsClicks

\* A drawing leaves of each click out its value, and no box on screen.
LEMMA PartsRedrawn ==
  ASSUME NEW T, \A t \in T : t[1] \in BOOLEAN
  PROVE  \A t \in {<<t[1], FALSE>> : t \in T} :
           t[1] \in BOOLEAN /\ t[2] = FALSE
  <1> DEFINE f(t) == <<t[1], FALSE>>
  <1>1. ASSUME NEW x PROVE <<x, FALSE>>[1] = x /\ <<x, FALSE>>[2] = FALSE
    OBVIOUS
  <1>2. ASSUME NEW t PROVE f(t)[1] = t[1] /\ f(t)[2] = FALSE
    BY <1>1
  <1> SUFFICES \A t \in {f(t) : t \in T} : t[1] \in BOOLEAN /\ t[2] = FALSE
    OBVIOUS
  <1> HIDE DEF f
  <1> QED BY <1>2

\* The parts of a card at the start.
LEMMA PartsInit == ACardParts!Init => PartsInv
  BY DEF PartsInv, PartsShape, PartsSorts, PartsLabels, PartsBox, PartsClicks,
      ACardParts!Init

\* Every step of it keeps what is said of it.
LEMMA PartsStep == ASSUME PartsInv, ACardParts!Next PROVE PartsInv'
  <1>1. CASE ACardParts!BoardRead
    <2> DEFINE T == {<<o[1], FALSE>> : o \in view.toggles}
    <2>a. \A o \in T : o[1] \in BOOLEAN /\ o[2] = FALSE
      BY PartsRedrawn DEF PartsInv, PartsSorts
    <2>b. /\ DOMAIN view' = DOMAIN view /\ view'.toggles = T /\ view'.twice = FALSE
          /\ view'.labels = view'.stored /\ view'.box = view'.done
          /\ view'.done = view.done /\ view'.stored = view.stored
          /\ view'.meant = view.meant /\ view'.raced = view.raced
      BY <1>1 DEF PartsInv, PartsShape, ACardParts!BoardRead, ACardParts!Drawn
    <2> HIDE DEF T
    <2>1. PartsShape'
      BY <2>a, <2>b
         DEF PartsInv, PartsShape, ACardParts!flip
    <2>2. PartsSorts'
      BY <2>a, <2>b
         DEF PartsInv, PartsShape, PartsSorts, ACardParts!flip
    <2>3. PartsLabels'
      BY <2>a, <2>b
         DEF PartsInv, PartsShape, PartsSorts, PartsLabels, ACardParts!flip
    <2>4. PartsBox'
      BY <2>a, <2>b
         DEF PartsInv, PartsShape, PartsSorts, PartsClicks, PartsBox,
             ACardParts!flip
    <2>5. PartsClicks'
      BY <2>a, <2>b
         DEF PartsInv, PartsShape, PartsSorts, PartsBox, PartsClicks,
             ACardParts!flip
    <2> QED BY <2>1, <2>2, <2>3, <2>4, <2>5 DEF PartsInv
  <1>2. CASE ACardParts!Toggle
    <2> DEFINE b == ~view.box
               t == <<b, TRUE>>
               two == \E o \in view.toggles : o[2]
    <2>a. t[1] = b /\ t[2] = TRUE /\ b \in BOOLEAN /\ b = ~view.box
      OBVIOUS
    <2>b. two \in BOOLEAN /\ (two <=> \E o \in view.toggles : o[2])
      OBVIOUS
    <2>c. view' = [view EXCEPT !.box = t[1], !.toggles = @ \cup {t},
                               !.twice = @ \/ two]
      BY <1>2 DEF ACardParts!Toggle
    <2> HIDE DEF t, b, two
    <2>d. /\ DOMAIN view' = DOMAIN view /\ view'.box = b
          /\ view'.toggles = view.toggles \cup {t}
          /\ view'.twice = (view.twice \/ two) /\ view'.done = view.done
          /\ view'.stored = view.stored /\ view'.meant = view.meant
          /\ view'.raced = view.raced
      BY <2>a, <2>c DEF PartsInv, PartsShape
    <2>1. PartsShape'
      BY <2>a, <2>b, <2>d
         DEF PartsInv, PartsShape, ACardParts!flip
    <2>2. PartsSorts'
      BY <2>a, <2>b, <2>d
         DEF PartsInv, PartsShape, PartsSorts, ACardParts!flip
    <2>3. PartsLabels'
      BY <2>a, <2>b, <2>d
         DEF PartsInv, PartsShape, PartsSorts, PartsLabels, ACardParts!flip
    <2>4. PartsBox'
      BY <2>a, <2>b, <2>d
         DEF PartsInv, PartsShape, PartsSorts, PartsClicks, PartsBox,
             ACardParts!flip
    <2>5. PartsClicks'
      BY <2>a, <2>b, <2>d
         DEF PartsInv, PartsShape, PartsSorts, PartsBox, PartsClicks,
             ACardParts!flip
    <2> QED BY <2>1, <2>2, <2>3, <2>4, <2>5 DEF PartsInv
  <1>3. ASSUME NEW c \in Things, ACardParts!UpdateLabels(c) PROVE PartsInv'
    BY <1>3
       DEF PartsInv, PartsShape, PartsSorts, PartsLabels, PartsBox,
           PartsClicks, ACardParts!UpdateLabels, ACardParts!flip
  <1>4. ASSUME NEW c \in Things, ACardParts!OthersLabel(c) PROVE PartsInv'
    BY <1>4
       DEF PartsInv, PartsShape, PartsSorts, PartsLabels, PartsBox,
           PartsClicks, ACardParts!OthersLabel, ACardParts!flip
  <1>5. ASSUME NEW u \in view.updates, ACardParts!LabelsRead(u) PROVE PartsInv'
    <2> DEFINE T == {<<o[1], FALSE>> : o \in view.toggles}
    <2>a. \A o \in T : o[1] \in BOOLEAN /\ o[2] = FALSE
      BY PartsRedrawn DEF PartsInv, PartsSorts
    <2>b. /\ DOMAIN view' = DOMAIN view /\ view'.toggles = T /\ view'.twice = FALSE
          /\ view'.labels = view'.stored /\ view'.box = view'.done
          /\ view'.done = view.done /\ view'.stored = ACardParts!flip(u[1], u[2])
          /\ view'.meant = (IF u[2] \in u[1] THEN view.meant \ {u[2]}
                            ELSE view.meant \cup {u[2]})
          /\ view'.raced = (view.raced \/ u[1] # view.stored)
      BY <1>5 DEF PartsInv, PartsShape, ACardParts!LabelsRead, ACardParts!Drawn
    <2> HIDE DEF T
    <2>1. PartsShape'
      BY <2>a, <2>b
         DEF PartsInv, PartsShape, ACardParts!flip
    <2>2. PartsSorts'
      BY <2>a, <2>b
         DEF PartsInv, PartsShape, PartsSorts, ACardParts!flip
    <2>3. PartsLabels'
      BY <2>a, <2>b
         DEF PartsInv, PartsShape, PartsSorts, PartsLabels, ACardParts!flip
    <2>4. PartsBox'
      BY <2>a, <2>b
         DEF PartsInv, PartsShape, PartsSorts, PartsClicks, PartsBox,
             ACardParts!flip
    <2>5. PartsClicks'
      BY <2>a, <2>b
         DEF PartsInv, PartsShape, PartsSorts, PartsBox, PartsClicks,
             ACardParts!flip
    <2> QED BY <2>1, <2>2, <2>3, <2>4, <2>5 DEF PartsInv
  <1>6. ASSUME NEW u \in view.updates, ACardParts!UpdateFails(u) PROVE PartsInv'
    BY <1>6
       DEF PartsInv, PartsShape, PartsSorts, PartsLabels, PartsBox,
           PartsClicks, ACardParts!UpdateFails, ACardParts!flip
  <1>7. ASSUME NEW t \in view.toggles, ACardParts!ToggleRead(t) PROVE PartsInv'
    <2> DEFINE T == {<<o[1], FALSE>> : o \in view.toggles \ {t}}
    <2>a. \A o \in T : o[1] \in BOOLEAN /\ o[2] = FALSE
      BY PartsRedrawn DEF PartsInv, PartsSorts
    <2>b. /\ DOMAIN view' = DOMAIN view /\ view'.toggles = T /\ view'.twice = FALSE
          /\ view'.labels = view'.stored /\ view'.box = view'.done
          /\ view'.done = t[1] /\ t \in view.toggles
          /\ view'.stored = view.stored /\ view'.meant = view.meant
          /\ view'.raced = view.raced
      BY <1>7 DEF PartsInv, PartsShape, ACardParts!ToggleRead, ACardParts!Drawn
    <2> HIDE DEF T
    <2>1. PartsShape'
      BY <2>a, <2>b
         DEF PartsInv, PartsShape, ACardParts!flip
    <2>2. PartsSorts'
      BY <2>a, <2>b
         DEF PartsInv, PartsShape, PartsSorts, ACardParts!flip
    <2>3. PartsLabels'
      BY <2>a, <2>b
         DEF PartsInv, PartsShape, PartsSorts, PartsLabels, ACardParts!flip
    <2>4. PartsBox'
      BY <2>a, <2>b
         DEF PartsInv, PartsShape, PartsSorts, PartsClicks, PartsBox,
             ACardParts!flip
    <2>5. PartsClicks'
      BY <2>a, <2>b
         DEF PartsInv, PartsShape, PartsSorts, PartsBox, PartsClicks,
             ACardParts!flip
    <2> QED BY <2>1, <2>2, <2>3, <2>4, <2>5 DEF PartsInv
  <1>8. ASSUME NEW t \in view.toggles, ACardParts!ToggleFails(t) PROVE PartsInv'
    BY <1>8
       DEF PartsInv, PartsShape, PartsSorts, PartsLabels, PartsBox,
           PartsClicks, ACardParts!ToggleFails, ACardParts!flip
  <1> QED
    BY <1>1, <1>2, <1>3, <1>4, <1>5, <1>6, <1>7, <1>8 DEF ACardParts!Next

\* That gives the properties of ACardParts.
LEMMA PartsHolds == PartsInv => ACardParts!Kept /\ ACardParts!Truthful
  BY DEF PartsInv, PartsShape, PartsSorts, PartsLabels, PartsBox, PartsClicks,
      ACardParts!Kept, ACardParts!Truthful, ACardParts!flip

\* It holds from the first state on when the page is this one.
LEMMA PartsStays ==
  /\ Init => (subject = "parts" => PartsInv)
  /\ (subject = "parts" => PartsInv) /\ [Next]_vars
       => (subject = "parts" => PartsInv)'
  <1>1. Init => (subject = "parts" => PartsInv)
    BY PartsInit DEF Init
  <1>2. (subject = "parts" => PartsInv) /\ [Next]_vars
          => (subject = "parts" => PartsInv)'
    <2>1. ASSUME PartsInv, view' = view PROVE PartsInv'
      BY <2>1 DEF PartsInv, PartsShape, PartsSorts, PartsLabels, PartsBox,
          PartsClicks
    <2> QED BY <2>1, PartsStep DEF Next, vars
  <1> QED BY <1>1, <1>2

-----------------------------------------------------------------------------
(* The Arena page.  A match that runs is polled, asked for by name or said *)
(* to have failed, and no other is polled; what is recorded of it is as    *)
(* true as what is shown, since a redraw shows it.                         *)

ArenaShape ==
  DOMAIN view = {"on", "over", "id", "match", "live", "shown", "timer",
                 "fails", "list", "asks", "pending", "err", "want", "late"}
ArenaSorts ==
  /\ view.on \in BOOLEAN /\ view.live \in BOOLEAN /\ view.timer \in BOOLEAN
  /\ view.list \in BOOLEAN /\ view.err \in BOOLEAN /\ view.late \in BOOLEAN
  /\ view.fails \in Nat /\ \A a \in view.asks : a[2] \in BOOLEAN
ArenaPolled ==
  view.on /\ view.live =>
    view.timer \/ view.list \/ view.err \/ \E a \in view.asks : ~a[2]
ArenaDrawn ==
  \A m \in {view.shown, view.match} :
    \/ m \in {0, view.want} \/ view.late \/ view.err \/ view.list
    \/ \E a \in view.asks : ~a[2]
ArenaHeard ==
  view.timer => view.live /\ view.fails < GiveUp
ArenaInv ==
  /\ ArenaShape /\ ArenaSorts /\ ArenaPolled /\ ArenaDrawn /\ ArenaHeard

\* The Arena page at the start.
LEMMA ArenaInit == AnArena!Init => ArenaInv
  BY DEF ArenaInv, ArenaShape, ArenaSorts, ArenaPolled, ArenaDrawn, ArenaHeard,
      AnArena!Init

\* Every step of it keeps what is said of it.
LEMMA ArenaStep == ASSUME ArenaInv, AnArena!Next PROVE ArenaInv'
  <1>1. CASE AnArena!stopArena
    BY <1>1
       DEF ArenaInv, ArenaShape, ArenaSorts, ArenaPolled, ArenaDrawn,
           ArenaHeard, AnArena!stopArena, AnArena!None
  <1>2. CASE AnArena!loadArenaView
    BY <1>2
       DEF ArenaInv, ArenaShape, ArenaSorts, ArenaPolled, ArenaDrawn,
           ArenaHeard, AnArena!loadArenaView, AnArena!None
  <1>3. CASE AnArena!ListRead
    <2> DEFINE p == <<IF view.id # 0 THEN view.id ELSE AnArena!First, FALSE>>
               w == IF view.want = 0 THEN p[1] ELSE view.want
    <2>a. /\ p[2] = FALSE
          /\ view' = [view EXCEPT !.asks = @ \cup {p}, !.list = FALSE, !.want = w]
      BY <1>3 DEF ArenaInv, ArenaShape, AnArena!ListRead, AnArena!fetchMatch,
                AnArena!None
    <2> HIDE DEF p, w
    <2>1. ArenaShape'
      BY <2>a
         DEF ArenaInv, ArenaShape, AnArena!None
    <2>2. ArenaSorts'
      BY <2>a
         DEF ArenaInv, ArenaShape, ArenaSorts, AnArena!None
    <2>3. ArenaPolled'
      BY <2>a
         DEF ArenaInv, ArenaShape, ArenaSorts, ArenaPolled, AnArena!None
    <2>4. ArenaDrawn'
      BY <2>a
         DEF ArenaInv, ArenaShape, ArenaSorts, ArenaDrawn, AnArena!None
    <2>5. ArenaHeard'
      BY <2>a
         DEF ArenaInv, ArenaShape, ArenaSorts, ArenaHeard, AnArena!None
    <2> QED BY <2>1, <2>2, <2>3, <2>4, <2>5 DEF ArenaInv
  <1>4. CASE AnArena!ListFails
    BY <1>4
       DEF ArenaInv, ArenaShape, ArenaSorts, ArenaPolled, ArenaDrawn,
           ArenaHeard, AnArena!ListFails, AnArena!None
  <1>5. ASSUME NEW m \in Things, AnArena!Link(m) PROVE ArenaInv'
    BY <1>5
       DEF ArenaInv, ArenaShape, ArenaSorts, ArenaPolled, ArenaDrawn,
           ArenaHeard, AnArena!Link, AnArena!None
  <1>6. ASSUME NEW m \in Things, AnArena!Pick(m) PROVE ArenaInv'
    <2> DEFINE p == <<m, FALSE>>
    <2>a. /\ p[2] = FALSE
          /\ view' = [view EXCEPT !.asks = @ \cup {p}, !.want = m]
      BY <1>6 DEF ArenaInv, ArenaShape, AnArena!Pick, AnArena!fetchMatch
    <2> HIDE DEF p
    <2>1. ArenaShape'
      BY <2>a
         DEF ArenaInv, ArenaShape, AnArena!None
    <2>2. ArenaSorts'
      BY <2>a
         DEF ArenaInv, ArenaShape, ArenaSorts, AnArena!None
    <2>3. ArenaPolled'
      BY <2>a
         DEF ArenaInv, ArenaShape, ArenaSorts, ArenaPolled, AnArena!None
    <2>4. ArenaDrawn'
      BY <2>a
         DEF ArenaInv, ArenaShape, ArenaSorts, ArenaDrawn, AnArena!None
    <2>5. ArenaHeard'
      BY <2>a
         DEF ArenaInv, ArenaShape, ArenaSorts, ArenaHeard, AnArena!None
    <2> QED BY <2>1, <2>2, <2>3, <2>4, <2>5 DEF ArenaInv
  <1>7. ASSUME NEW m \in Things, AnArena!Ends(m) PROVE ArenaInv'
    BY <1>7
       DEF ArenaInv, ArenaShape, ArenaSorts, ArenaPolled, ArenaDrawn,
           ArenaHeard, AnArena!Ends, AnArena!None
  <1>8. CASE AnArena!Poll
    <2> DEFINE p == <<view.id, TRUE>>
    <2>a. p[2] = TRUE /\ view' = [view EXCEPT !.asks = @ \cup {p}]
      BY <1>8 DEF ArenaInv, ArenaShape, AnArena!Poll, AnArena!fetchMatch
    <2> HIDE DEF p
    <2>1. ArenaShape'
      BY <2>a
         DEF ArenaInv, ArenaShape, AnArena!None
    <2>2. ArenaSorts'
      BY <2>a
         DEF ArenaInv, ArenaShape, ArenaSorts, AnArena!None
    <2>3. ArenaPolled'
      BY <2>a
         DEF ArenaInv, ArenaShape, ArenaSorts, ArenaPolled, AnArena!None
    <2>4. ArenaDrawn'
      BY <2>a
         DEF ArenaInv, ArenaShape, ArenaSorts, ArenaDrawn, AnArena!None
    <2>5. ArenaHeard'
      BY <2>a
         DEF ArenaInv, ArenaShape, ArenaSorts, ArenaHeard, AnArena!None
    <2> QED BY <2>1, <2>2, <2>3, <2>4, <2>5 DEF ArenaInv
  <1>9. CASE AnArena!LiveEvent
    <2> DEFINE p == <<view.id, TRUE>>
    <2>a. p[2] = TRUE /\ view' = [view EXCEPT !.asks = @ \cup {p}]
      BY <1>9 DEF ArenaInv, ArenaShape, AnArena!LiveEvent, AnArena!fetchMatch
    <2> HIDE DEF p
    <2>1. ArenaShape'
      BY <2>a
         DEF ArenaInv, ArenaShape, AnArena!None
    <2>2. ArenaSorts'
      BY <2>a
         DEF ArenaInv, ArenaShape, ArenaSorts, AnArena!None
    <2>3. ArenaPolled'
      BY <2>a
         DEF ArenaInv, ArenaShape, ArenaSorts, ArenaPolled, AnArena!None
    <2>4. ArenaDrawn'
      BY <2>a
         DEF ArenaInv, ArenaShape, ArenaSorts, ArenaDrawn, AnArena!None
    <2>5. ArenaHeard'
      BY <2>a
         DEF ArenaInv, ArenaShape, ArenaSorts, ArenaHeard, AnArena!None
    <2> QED BY <2>1, <2>2, <2>3, <2>4, <2>5 DEF ArenaInv
  <1>10. CASE AnArena!renderMatch
    BY <1>10
       DEF ArenaInv, ArenaShape, ArenaSorts, ArenaPolled, ArenaDrawn,
           ArenaHeard, AnArena!renderMatch, AnArena!None
  <1>11. ASSUME NEW a \in view.asks, AnArena!MatchRead(a) PROVE ArenaInv'
    <2>1. ArenaShape'
      BY <1>11
         DEF ArenaInv, ArenaShape, AnArena!MatchRead, AnArena!None
    <2>2. ArenaSorts'
      BY <1>11
         DEF ArenaInv, ArenaShape, ArenaSorts, AnArena!MatchRead,
             AnArena!None
    <2>3. ArenaPolled'
      BY <1>11
         DEF ArenaInv, ArenaShape, ArenaSorts, ArenaPolled,
             AnArena!MatchRead, AnArena!None
    <2>4. ArenaDrawn'
      BY <1>11
         DEF ArenaInv, ArenaShape, ArenaSorts, ArenaDrawn, AnArena!MatchRead,
             AnArena!None
    <2>5. ArenaHeard'
      BY <1>11, Bounds
         DEF ArenaInv, ArenaShape, ArenaSorts, ArenaHeard, AnArena!MatchRead,
             AnArena!None
    <2> QED BY <2>1, <2>2, <2>3, <2>4, <2>5 DEF ArenaInv
  <1>12. ASSUME NEW a \in view.asks, AnArena!MatchFails(a) PROVE ArenaInv'
    <2>1. ArenaShape'
      BY <1>12, Bounds
         DEF ArenaInv, ArenaShape,
             AnArena!MatchFails, AnArena!None
    <2>2. ArenaSorts'
      <3>1. /\ \A b \in view'.asks : b \in view.asks
            /\ view'.on = view.on /\ view'.live = view.live
            /\ view'.list = view.list /\ view'.late = view.late
            /\ view'.timer \in BOOLEAN /\ view'.err \in BOOLEAN
        BY <1>12 DEF ArenaInv, ArenaShape, ArenaSorts, AnArena!MatchFails
      <3>2. view'.fails \in Nat
        BY <1>12, Bounds DEF ArenaInv, ArenaShape, ArenaSorts, AnArena!MatchFails
      <3> QED BY <3>1, <3>2 DEF ArenaInv, ArenaSorts
    <2>3. ArenaPolled'
      BY <1>12, Bounds
         DEF ArenaInv, ArenaShape, ArenaSorts, ArenaPolled,
             AnArena!MatchFails, AnArena!None
    <2>4. ArenaDrawn'
      BY <1>12, Bounds
         DEF ArenaInv, ArenaShape, ArenaSorts, ArenaDrawn,
             AnArena!MatchFails, AnArena!None
    <2>5. ArenaHeard'
      BY <1>12, Bounds
         DEF ArenaInv, ArenaShape, ArenaSorts, ArenaHeard,
             AnArena!MatchFails, AnArena!None
    <2> QED BY <2>1, <2>2, <2>3, <2>4, <2>5 DEF ArenaInv
  <1> QED
    BY <1>1, <1>2, <1>3, <1>4, <1>5, <1>6, <1>7, <1>8, <1>9, <1>10, <1>11,
       <1>12 DEF AnArena!Next

\* That gives the properties of AnArena.
LEMMA ArenaHolds == ArenaInv => AnArena!Settled /\ AnArena!Truthful
  BY DEF ArenaInv, ArenaShape, ArenaSorts, ArenaPolled, ArenaDrawn, ArenaHeard,
      AnArena!Settled, AnArena!Truthful, AnArena!None

\* It holds from the first state on when the page is this one.
LEMMA ArenaStays ==
  /\ Init => (subject = "arena" => ArenaInv)
  /\ (subject = "arena" => ArenaInv) /\ [Next]_vars
       => (subject = "arena" => ArenaInv)'
  <1>1. Init => (subject = "arena" => ArenaInv)
    BY ArenaInit DEF Init
  <1>2. (subject = "arena" => ArenaInv) /\ [Next]_vars
          => (subject = "arena" => ArenaInv)'
    <2>1. ASSUME ArenaInv, view' = view PROVE ArenaInv'
      BY <2>1 DEF ArenaInv, ArenaShape, ArenaSorts, ArenaPolled, ArenaDrawn,
          ArenaHeard
    <2> QED BY <2>1, ArenaStep DEF Next, vars
  <1> QED BY <1>1, <1>2

-----------------------------------------------------------------------------
(* The stages of a match.  What waits for the import waits because there   *)
(* is neither the import nor a scene; off screen nothing counts as drawn.  *)

StageShape ==
  DOMAIN view = {"on", "drawn", "still", "mode3d", "here", "queued", "scene",
                 "canvases", "raf", "loop", "twice"}
StageSorts ==
  /\ view.on \in BOOLEAN /\ view.drawn \in BOOLEAN /\ view.still \in BOOLEAN
  /\ view.mode3d \in BOOLEAN /\ view.here \in BOOLEAN /\ view.scene \in BOOLEAN
StageFrames ==
  /\ view.raf \in BOOLEAN /\ view.loop \in BOOLEAN /\ view.twice \in BOOLEAN
  /\ view.queued \in Nat /\ view.canvases \in Int
StageWaits ==
  /\ view.queued > 0 => ~view.scene /\ ~view.here
  /\ view.drawn => view.on
StageStaged ==
  view.drawn =>
    IF view.mode3d
    THEN view.queued > 0 \/ (view.scene /\ view.loop = ~view.still)
    ELSE view.raf = ~view.still
StageOne ==
  \/ view.twice
  \/ view.queued \in {0, 1} /\ view.canvases = IF view.scene THEN 1 ELSE 0
StageInv ==
  /\ StageShape
  /\ StageSorts
  /\ StageFrames
  /\ StageWaits
  /\ StageStaged
  /\ StageOne

\* A drawing keeps the counts counts and the flags flags.
LEMMA StageDrawn ==
  ASSUME NEW s, DOMAIN s = DOMAIN view, StageShape,
         s.mode3d \in BOOLEAN, s.here \in BOOLEAN, s.scene \in BOOLEAN,
         s.still \in BOOLEAN, s.raf \in BOOLEAN, s.loop \in BOOLEAN,
         s.twice \in BOOLEAN, s.queued \in Nat, s.canvases \in Int
  PROVE  LET t == AStage!Drawn(s)
         IN /\ t.raf \in BOOLEAN /\ t.loop \in BOOLEAN /\ t.twice \in BOOLEAN
            /\ t.queued \in Nat /\ t.canvases \in Int
  <1>1. CASE ~s.mode3d
    BY <1>1 DEF StageShape, AStage!Drawn
  <1>2. CASE s.mode3d /\ (s.here \/ s.scene)
    <2> DEFINE d == [[s EXCEPT !.drawn = s.on] EXCEPT !.raf = FALSE]
               m == AStage!mountArena3D(d)
    <2>1. /\ DOMAIN d = DOMAIN view /\ d.raf = FALSE /\ d.twice = s.twice
          /\ d.queued = s.queued /\ d.canvases = s.canvases
          /\ d.here = s.here /\ d.scene = s.scene /\ d.still = s.still
      BY DEF StageShape
    <2>2. AStage!Drawn(s) = AStage!updateArena3D(m)
      BY <1>2, <2>1 DEF AStage!Drawn, AStage!ensure3d
    <2> HIDE DEF d
    <2>3. /\ DOMAIN m = DOMAIN view /\ m.raf = FALSE /\ m.twice = s.twice
          /\ m.queued = s.queued /\ m.canvases \in Int /\ m.still = s.still
      BY <2>1 DEF StageShape, AStage!mountArena3D
    <2> HIDE DEF m
    <2> QED BY <2>2, <2>3 DEF StageShape, AStage!updateArena3D
  <1>3. CASE s.mode3d /\ ~(s.here \/ s.scene)
    BY <1>3 DEF StageShape, AStage!Drawn, AStage!ensure3d
  <1> QED BY <1>1, <1>2, <1>3

\* The stages at the start.
LEMMA StageInit == AStage!Init => StageInv
  BY DEF StageInv, StageShape, StageSorts, StageFrames, StageWaits, StageStaged,
      StageOne, AStage!Init

\* Every step of it keeps what is said of it.
LEMMA StageStep == ASSUME StageInv, AStage!Next PROVE StageInv'
  <1>1. CASE AStage!renderMatch
    <2>1. StageShape'
      BY <1>1
         DEF StageInv, StageShape, AStage!renderMatch, AStage!Drawn,
             AStage!ensure3d, AStage!updateArena3D, AStage!mountArena3D,
             AStage!Room
    <2>2. StageSorts'
      BY <1>1
         DEF StageInv, StageShape, StageSorts, AStage!renderMatch,
             AStage!Drawn, AStage!ensure3d, AStage!updateArena3D,
             AStage!mountArena3D, AStage!Room
    <2>3. StageFrames'
      <3> DEFINE s == view
      <3>1. view' = AStage!Drawn(s)
        BY <1>1 DEF AStage!renderMatch
      <3>2. /\ DOMAIN s = DOMAIN view /\ s.mode3d \in BOOLEAN
            /\ s.here \in BOOLEAN /\ s.scene \in BOOLEAN /\ s.still \in BOOLEAN
            /\ s.raf \in BOOLEAN /\ s.loop \in BOOLEAN /\ s.twice \in BOOLEAN
            /\ s.queued \in Nat /\ s.canvases \in Int
        BY DEF StageInv, StageShape, StageSorts, StageFrames
      <3> HIDE DEF s
      <3> QED
        BY <3>1, <3>2, StageDrawn DEF StageInv, StageFrames
    <2>4. StageWaits'
      BY <1>1
         DEF StageInv, StageShape, StageSorts, StageFrames, StageWaits,
             AStage!renderMatch, AStage!Drawn, AStage!ensure3d,
             AStage!updateArena3D, AStage!mountArena3D, AStage!Room
    <2>5. StageStaged'
      BY <1>1
         DEF StageInv, StageShape, StageSorts, StageFrames, StageWaits,
             StageStaged, AStage!renderMatch, AStage!Drawn, AStage!ensure3d,
             AStage!updateArena3D, AStage!mountArena3D, AStage!Room
    <2>6. StageOne'
      BY <1>1
         DEF StageInv, StageShape, StageSorts, StageFrames, StageWaits,
             StageOne, AStage!renderMatch, AStage!Drawn, AStage!ensure3d,
             AStage!updateArena3D, AStage!mountArena3D, AStage!Room
    <2> QED BY <2>1, <2>2, <2>3, <2>4, <2>5, <2>6 DEF StageInv
  <1>2. CASE AStage!toggle3d
    <2>1. StageShape'
      BY <1>2
         DEF StageInv, StageShape, AStage!toggle3d, AStage!Drawn,
             AStage!ensure3d, AStage!updateArena3D, AStage!mountArena3D,
             AStage!Room, AStage!unmountArena3D
    <2>2. StageSorts'
      BY <1>2
         DEF StageInv, StageShape, StageSorts, AStage!toggle3d, AStage!Drawn,
             AStage!ensure3d, AStage!updateArena3D, AStage!mountArena3D,
             AStage!Room, AStage!unmountArena3D
    <2>3. StageFrames'
      <3> DEFINE m == [view EXCEPT !.mode3d = ~@]
                 u == AStage!unmountArena3D(m)
                 s == IF m.mode3d THEN m ELSE u
      <3>1. view' = AStage!Drawn(s)
        BY <1>2 DEF AStage!toggle3d
      <3>2. /\ DOMAIN m = DOMAIN view /\ m.mode3d = ~view.mode3d
            /\ m.here = view.here /\ m.scene = view.scene /\ m.still = view.still
            /\ m.raf = view.raf /\ m.loop = view.loop /\ m.twice = view.twice
            /\ m.queued = view.queued /\ m.canvases = view.canvases
        BY DEF StageInv, StageShape
      <3> HIDE DEF m
      <3>4. /\ DOMAIN u = DOMAIN view /\ u.mode3d = m.mode3d
            /\ u.here = m.here /\ u.scene = FALSE /\ u.still = m.still
            /\ u.raf = m.raf /\ u.loop = FALSE /\ u.twice = m.twice
            /\ u.queued = m.queued /\ u.canvases \in Int
        BY <3>2 DEF StageInv, StageShape, StageFrames, AStage!unmountArena3D
      <3> HIDE DEF u
      <3>3. /\ DOMAIN s = DOMAIN view /\ s.mode3d \in BOOLEAN
            /\ s.here \in BOOLEAN /\ s.scene \in BOOLEAN /\ s.still \in BOOLEAN
            /\ s.raf \in BOOLEAN /\ s.loop \in BOOLEAN /\ s.twice \in BOOLEAN
            /\ s.queued \in Nat /\ s.canvases \in Int
        BY <3>2, <3>4 DEF StageInv, StageSorts, StageFrames
      <3> HIDE DEF s
      <3> QED
        BY <3>1, <3>3, StageDrawn DEF StageInv, StageFrames
    <2>4. StageWaits'
      BY <1>2
         DEF StageInv, StageShape, StageSorts, StageFrames, StageWaits,
             AStage!toggle3d, AStage!Drawn, AStage!ensure3d,
             AStage!updateArena3D, AStage!mountArena3D, AStage!Room,
             AStage!unmountArena3D
    <2>5. StageStaged'
      BY <1>2
         DEF StageInv, StageShape, StageSorts, StageFrames, StageWaits,
             StageStaged, AStage!toggle3d, AStage!Drawn, AStage!ensure3d,
             AStage!updateArena3D, AStage!mountArena3D, AStage!Room,
             AStage!unmountArena3D
    <2>6. StageOne'
      BY <1>2
         DEF StageInv, StageShape, StageSorts, StageFrames, StageWaits,
             StageOne, AStage!toggle3d, AStage!Drawn, AStage!ensure3d,
             AStage!updateArena3D, AStage!mountArena3D, AStage!Room,
             AStage!unmountArena3D
    <2> QED BY <2>1, <2>2, <2>3, <2>4, <2>5, <2>6 DEF StageInv
  <1>3. CASE AStage!prefersReducedMotion
    <2>1. StageShape'
      BY <1>3
         DEF StageInv, StageShape, AStage!prefersReducedMotion, AStage!Drawn,
             AStage!ensure3d, AStage!updateArena3D, AStage!mountArena3D,
             AStage!Room
    <2>2. StageSorts'
      BY <1>3
         DEF StageInv, StageShape, StageSorts, AStage!prefersReducedMotion,
             AStage!Drawn, AStage!ensure3d, AStage!updateArena3D,
             AStage!mountArena3D, AStage!Room
    <2>3. StageFrames'
      <3> DEFINE s == [view EXCEPT !.still = ~@]
      <3>1. view' = AStage!Drawn(s)
        BY <1>3 DEF AStage!prefersReducedMotion
      <3>2. /\ DOMAIN s = DOMAIN view /\ s.mode3d \in BOOLEAN
            /\ s.here \in BOOLEAN /\ s.scene \in BOOLEAN /\ s.still \in BOOLEAN
            /\ s.raf \in BOOLEAN /\ s.loop \in BOOLEAN /\ s.twice \in BOOLEAN
            /\ s.queued \in Nat /\ s.canvases \in Int
        BY DEF StageInv, StageShape, StageSorts, StageFrames
      <3> HIDE DEF s
      <3> QED
        BY <3>1, <3>2, StageDrawn DEF StageInv, StageFrames
    <2>4. StageWaits'
      BY <1>3
         DEF StageInv, StageShape, StageSorts, StageFrames, StageWaits,
             AStage!prefersReducedMotion, AStage!Drawn, AStage!ensure3d,
             AStage!updateArena3D, AStage!mountArena3D, AStage!Room
    <2>5. StageStaged'
      BY <1>3
         DEF StageInv, StageShape, StageSorts, StageFrames, StageWaits,
             StageStaged, AStage!prefersReducedMotion, AStage!Drawn,
             AStage!ensure3d, AStage!updateArena3D, AStage!mountArena3D,
             AStage!Room
    <2>6. StageOne'
      BY <1>3
         DEF StageInv, StageShape, StageSorts, StageFrames, StageWaits,
             StageOne, AStage!prefersReducedMotion, AStage!Drawn,
             AStage!ensure3d, AStage!updateArena3D, AStage!mountArena3D,
             AStage!Room
    <2> QED BY <2>1, <2>2, <2>3, <2>4, <2>5, <2>6 DEF StageInv
  <1>4. CASE AStage!ImportLands
    BY <1>4
       DEF StageInv, StageShape, StageSorts, StageFrames, StageWaits,
           StageStaged, StageOne, AStage!ImportLands, AStage!updateArena3D
  <1>5. CASE AStage!ImportFails
    BY <1>5
       DEF StageInv, StageShape, StageSorts, StageFrames, StageWaits,
           StageStaged, StageOne, AStage!ImportFails, AStage!Drawn,
           AStage!ensure3d, AStage!updateArena3D, AStage!mountArena3D,
           AStage!Room
  <1>6. CASE AStage!frame
    BY <1>6
       DEF StageInv, StageShape, StageSorts, StageFrames, StageWaits,
           StageStaged, StageOne, AStage!frame
  <1>7. CASE AStage!tick
    BY <1>7
       DEF StageInv, StageShape, StageSorts, StageFrames, StageWaits,
           StageStaged, StageOne, AStage!tick
  <1>8. CASE AStage!stopArena
    BY <1>8
       DEF StageInv, StageShape, StageSorts, StageFrames, StageWaits,
           StageStaged, StageOne, AStage!stopArena, AStage!unmountArena3D
  <1>9. CASE AStage!Enter
    BY <1>9
       DEF StageInv, StageShape, StageSorts, StageFrames, StageWaits,
           StageStaged, StageOne, AStage!Enter
  <1> QED
    BY <1>1, <1>2, <1>3, <1>4, <1>5, <1>6, <1>7, <1>8, <1>9 DEF AStage!Next

\* That gives the properties of AStage.
LEMMA StageHolds == StageInv => AStage!Settled /\ AStage!Truthful
  BY DEF StageInv, StageShape, StageSorts, StageFrames, StageWaits, StageStaged,
      StageOne, AStage!Settled, AStage!Truthful

\* It holds from the first state on when the page is this one.
LEMMA StageStays ==
  /\ Init => (subject = "stage" => StageInv)
  /\ (subject = "stage" => StageInv) /\ [Next]_vars
       => (subject = "stage" => StageInv)'
  <1>1. Init => (subject = "stage" => StageInv)
    BY StageInit DEF Init
  <1>2. (subject = "stage" => StageInv) /\ [Next]_vars
          => (subject = "stage" => StageInv)'
    <2>1. ASSUME StageInv, view' = view PROVE StageInv'
      BY <2>1 DEF StageInv, StageShape, StageSorts, StageFrames, StageWaits,
          StageStaged, StageOne
    <2> QED BY <2>1, StageStep DEF Next, vars
  <1> QED BY <1>1, <1>2

-----------------------------------------------------------------------------
(* A room of the office.  The cursor is at a second of which a message was *)
(* told, so that a message said later is of that second or not passed yet. *)

OfficeShape ==
  DOMAIN view = {"reduced", "log", "acts", "told", "cursor", "polling",
                 "walk", "held", "stale", "fetch", "dropped"}
OfficeSorts ==
  /\ view.log \subseteq AnOffice!Messages /\ view.told \subseteq view.log
  /\ view.cursor \in 0..LastSecond /\ view.stale \in BOOLEAN
  /\ view.dropped \in BOOLEAN
OfficeCursor ==
  view.cursor = 0 \/ \E n \in view.told : n[1] = view.cursor
OfficeTold ==
  \A m \in view.log :
    m[1] <= view.cursor => \E n \in view.told : n[1] = m[1]
OfficeOwed ==
  view.stale => view.walk = "out" \/ view.fetch = "asked" \/ view.dropped
OfficeInv ==
  /\ OfficeShape /\ OfficeSorts /\ OfficeCursor /\ OfficeTold /\ OfficeOwed

\* The office at the start.
LEMMA OfficeInit == AnOffice!Init => OfficeInv
  BY Bounds
  DEF OfficeInv, OfficeShape, OfficeSorts, OfficeCursor, OfficeTold,
      OfficeOwed, AnOffice!Init

\* Every step of it keeps what is said of it.
LEMMA OfficeStep == ASSUME OfficeInv, AnOffice!Next PROVE OfficeInv'
  <1>1. ASSUME NEW m \in AnOffice!Messages, NEW act \in BOOLEAN, AnOffice!Says(m, act) PROVE OfficeInv'
    <2>1. OfficeShape'
      BY <1>1
         DEF OfficeInv, OfficeShape, AnOffice!Says
    <2>2. OfficeSorts'
      BY <1>1
         DEF OfficeInv, OfficeShape, OfficeSorts, AnOffice!Says
    <2>3. OfficeCursor'
      BY <1>1
         DEF OfficeInv, OfficeShape, OfficeSorts, OfficeCursor, AnOffice!Says
    <2>4. OfficeTold'
      <3>1. /\ view'.log = view.log \cup {m} /\ view'.cursor = view.cursor
            /\ view'.told = view.told
            /\ \A n \in view.log : n[1] <= m[1]
        BY <1>1 DEF OfficeInv, OfficeShape, OfficeSorts, AnOffice!Says,
                  AnOffice!Messages
      <3>2. ASSUME m[1] <= view.cursor PROVE \E n \in view.told : n[1] = m[1]
        <4>1. m[1] \in Nat \ {0}
          BY DEF AnOffice!Messages
        <4>2. PICK n \in view.told : n[1] = view.cursor
          BY <3>2, <4>1 DEF OfficeInv, OfficeCursor, OfficeSorts
        <4> QED BY <3>1, <3>2, <4>1, <4>2, Bounds DEF OfficeInv, OfficeSorts
      <3> QED BY <3>1, <3>2 DEF OfficeInv, OfficeTold
    <2>5. OfficeOwed'
      BY <1>1
         DEF OfficeInv, OfficeShape, OfficeSorts, OfficeOwed, AnOffice!Says
    <2> QED BY <2>1, <2>2, <2>3, <2>4, <2>5 DEF OfficeInv
  <1>2. CASE AnOffice!poll
    BY <1>2
       DEF OfficeInv, OfficeShape, OfficeSorts, OfficeCursor, OfficeTold,
           OfficeOwed, AnOffice!poll
  <1>3. CASE AnOffice!PollRead
    <2> DEFINE new == {m \in view.log : m[1] > view.cursor}
               told == {m \in new : \A n \in new : n[1] = m[1] => m[2] <= n[2]}
               seconds == {view.cursor} \cup {m[1] : m \in told}
               later == told \cap view.acts # {}
               s == [view EXCEPT !.polling = FALSE, !.told = @ \cup told,
                                 !.cursor = AnOffice!Max(seconds),
                                 !.stale = @ \/ later]
    <2>a. view' = IF later THEN AnOffice!sendToBoard(s) ELSE s
      BY <1>3 DEF AnOffice!PollRead
    <2>b. told \subseteq view.log /\ told \subseteq AnOffice!Messages
      BY DEF OfficeInv, OfficeSorts
    <2>c. AnOffice!Max(seconds) \in seconds /\ seconds \subseteq 0..LastSecond
          /\ later \in BOOLEAN
      <3>1. seconds \subseteq 0..LastSecond /\ seconds # {}
        BY <2>b, Bounds DEF OfficeInv, OfficeSorts, AnOffice!Messages
      <3>2. \E x \in seconds : \A y \in seconds : x >= y
        BY <3>1, Bounds, GreatestOf
      <3> QED BY <3>1, <3>2 DEF AnOffice!Max
    <2>d. \A m \in new : \E n \in told : n[1] = m[1]
      <3> TAKE m \in new
      <3> DEFINE S == {n[2] : n \in {k \in new : k[1] = m[1]}}
      <3>1. new \subseteq AnOffice!Messages
        BY DEF OfficeInv, OfficeSorts
      <3>2. S \subseteq Nat /\ m[2] \in S
        BY <3>1 DEF AnOffice!Messages
      <3>3. PICK l \in S : \A k \in S : l <= k
        BY <3>2, LeastOf
      <3>4. PICK n \in new : n[1] = m[1] /\ n[2] = l
        BY <3>3
      <3> HIDE DEF new
      <3>5. n \in told
        BY <3>3, <3>4
      <3> QED BY <3>4, <3>5
    <2> HIDE DEF told, seconds, later
    <2>e. /\ DOMAIN s = DOMAIN view /\ s.log = view.log
          /\ s.told = view.told \cup told /\ s.cursor = AnOffice!Max(seconds)
          /\ s.stale = (view.stale \/ later) /\ s.dropped = view.dropped
          /\ s.walk = view.walk /\ s.fetch = view.fetch
      BY DEF OfficeInv, OfficeShape
    <2> HIDE DEF s
    <2>f. /\ DOMAIN view' = DOMAIN view /\ view'.log = view.log
          /\ view'.told = view.told \cup told
          /\ view'.cursor = AnOffice!Max(seconds)
          /\ view'.stale = (view.stale \/ later) /\ view'.dropped = view.dropped
      BY <2>a, <2>e DEF OfficeInv, OfficeShape, AnOffice!sendToBoard,
                        AnOffice!onArrive
    <2>g. /\ later => view'.fetch = "asked" \/ view'.walk = "out"
          /\ ~later => view'.fetch = view.fetch /\ view'.walk = view.walk
      BY <2>a, <2>e DEF OfficeInv, OfficeShape, AnOffice!sendToBoard,
                        AnOffice!onArrive
    <2>1. OfficeShape'
      BY <2>b, <2>c, <2>f, <2>g
         DEF OfficeInv, OfficeShape
    <2>2. OfficeSorts'
      BY <2>b, <2>c, <2>f, <2>g
         DEF OfficeInv, OfficeShape, OfficeSorts
    <2>3. OfficeCursor'
      BY <2>c, <2>f DEF OfficeInv, OfficeCursor, seconds
    <2>4. OfficeTold'
      <3> SUFFICES ASSUME NEW m \in view'.log, m[1] <= view'.cursor
                   PROVE  \E n \in view'.told : n[1] = m[1]
        BY DEF OfficeTold
      <3>1. CASE m[1] <= view.cursor
        BY <2>f, <3>1 DEF OfficeInv, OfficeTold
      <3>2. CASE m \in new
        BY <2>d, <2>f, <3>2
      <3> QED
        BY <2>f, <3>1, <3>2, Bounds DEF OfficeInv, OfficeSorts, AnOffice!Messages
    <2>5. OfficeOwed'
      BY <2>b, <2>c, <2>f, <2>g
         DEF OfficeInv, OfficeShape, OfficeSorts, OfficeOwed
    <2> QED BY <2>1, <2>2, <2>3, <2>4, <2>5 DEF OfficeInv
  <1>4. CASE AnOffice!PollFails
    BY <1>4
       DEF OfficeInv, OfficeShape, OfficeSorts, OfficeCursor, OfficeTold,
           OfficeOwed, AnOffice!PollFails
  <1>5. CASE AnOffice!BoardRead
    BY <1>5
       DEF OfficeInv, OfficeShape, OfficeSorts, OfficeCursor, OfficeTold,
           OfficeOwed, AnOffice!BoardRead
  <1>6. CASE AnOffice!BoardFails
    BY <1>6
       DEF OfficeInv, OfficeShape, OfficeSorts, OfficeCursor, OfficeTold,
           OfficeOwed, AnOffice!BoardFails
  <1>7. CASE AnOffice!stepAgents
    BY <1>7
       DEF OfficeInv, OfficeShape, OfficeSorts, OfficeCursor, OfficeTold,
           OfficeOwed, AnOffice!stepAgents, AnOffice!onArrive
  <1>8. CASE AnOffice!PickUp
    BY <1>8
       DEF OfficeInv, OfficeShape, OfficeSorts, OfficeCursor, OfficeTold,
           OfficeOwed, AnOffice!PickUp
  <1>9. ASSUME NEW how \in {"no","air"}, AnOffice!endDrag(how) PROVE OfficeInv'
    BY <1>9
       DEF OfficeInv, OfficeShape, OfficeSorts, OfficeCursor, OfficeTold,
           OfficeOwed, AnOffice!endDrag
  <1>10. CASE AnOffice!stepRagdoll
    BY <1>10
       DEF OfficeInv, OfficeShape, OfficeSorts, OfficeCursor, OfficeTold,
           OfficeOwed, AnOffice!stepRagdoll
  <1> QED
    BY <1>1, <1>2, <1>3, <1>4, <1>5, <1>6, <1>7, <1>8, <1>9, <1>10 DEF
       AnOffice!Next

\* That gives the properties of AnOffice.
LEMMA OfficeHolds == OfficeInv => AnOffice!Settled /\ AnOffice!Kept
  BY DEF OfficeInv, OfficeShape, OfficeSorts, OfficeCursor, OfficeTold,
      OfficeOwed, AnOffice!Settled, AnOffice!Kept

\* It holds from the first state on when the page is this one.
LEMMA OfficeStays ==
  /\ Init => (subject = "office" => OfficeInv)
  /\ (subject = "office" => OfficeInv) /\ [Next]_vars
       => (subject = "office" => OfficeInv)'
  <1>1. Init => (subject = "office" => OfficeInv)
    BY OfficeInit DEF Init
  <1>2. (subject = "office" => OfficeInv) /\ [Next]_vars
          => (subject = "office" => OfficeInv)'
    <2>1. ASSUME OfficeInv, view' = view PROVE OfficeInv'
      BY <2>1 DEF OfficeInv, OfficeShape, OfficeSorts, OfficeCursor, OfficeTold,
          OfficeOwed
    <2> QED BY <2>1, OfficeStep DEF Next, vars
  <1> QED BY <1>1, <1>2

-----------------------------------------------------------------------------
(* The files.  Of the requests out one at most is of the last generation,  *)
(* and it is for what was asked for last; the entries are those of the     *)
(* folder.                                                                 *)

FilesShape ==
  DOMAIN view = {"cur", "here", "filter", "hidden", "dir", "rows", "focus",
                 "out", "able", "open", "of", "swept", "last"}
FilesAsk == [to : 0..5, folder : BOOLEAN, mine : BOOLEAN]
FilesKinds(s) ==
  /\ s.out \subseteq FilesAsk /\ \A q \in s.out : q.folder <=> q.to \in {0, 1}
  /\ s.open = 0 \/ s.open \in 2..5
  /\ s.of \in {0, s.open}
FilesListed(s) == s.here \subseteq AFiles!Entries(s.cur) /\ s.cur \in {0, 1}
FilesDrawn(s) ==
  s.rows \in Seq(s.here) /\ (s.swept \/ s.rows = AFiles!visibleEntries(s))
FilesLast(s) ==
  /\ \A q \in s.out : q.mine => q.to = s.last
  /\ \A p, q \in s.out : p.mine /\ q.mine => p = q
FilesShown(s) ==
  (\A q \in s.out : ~q.mine) =>
    /\ s.last \in {0, 1} => s.cur = s.last /\ s.able /\ ~s.swept
    /\ s.last \notin {0, 1} => s.open \in {0, s.last}
FilesOk ==
  /\ FilesKinds(view) /\ FilesListed(view) /\ FilesDrawn(view)
  /\ FilesLast(view) /\ FilesShown(view)
FilesInv == FilesShape /\ FilesOk

\* A request is its fields, turned over or new.
LEMMA FilesAsks ==
  /\ \A q \in FilesAsk :
       /\ q.to \in 0..5 /\ q.folder \in BOOLEAN /\ q.mine \in BOOLEAN
       /\ LET r == [q EXCEPT !.mine = FALSE]
          IN r \in FilesAsk /\ r.to = q.to /\ r.folder = q.folder /\ ~r.mine
  /\ \A e \in 0..5, b \in BOOLEAN :
       LET r == [to |-> e, folder |-> b, mine |-> TRUE]
       IN r \in FilesAsk /\ r.to = e /\ r.folder = b /\ r.mine
  <1> DEFINE no == FALSE
             yes == TRUE
  <1>1. no \in BOOLEAN /\ yes \in BOOLEAN /\ ~no /\ yes
    OBVIOUS
  <1> HIDE DEF no, yes
  <1>2. ASSUME NEW q \in FilesAsk
        PROVE  LET r == [q EXCEPT !.mine = no]
               IN r \in FilesAsk /\ r.to = q.to /\ r.folder = q.folder /\ ~r.mine
    BY <1>1 DEF FilesAsk
  <1>3. \A q \in FilesAsk :
          q.to \in 0..5 /\ q.folder \in BOOLEAN /\ q.mine \in BOOLEAN
    BY DEF FilesAsk
  <1>4. ASSUME NEW e \in 0..5, NEW b \in BOOLEAN
        PROVE  LET r == [to |-> e, folder |-> b, mine |-> yes]
               IN r \in FilesAsk /\ r.to = e /\ r.folder = b /\ r.mine
    BY <1>1 DEF FilesAsk
  <1> QED BY <1>2, <1>3, <1>4, Zenon DEF no, yes

\* The rows are entries that are here, whatever else the record holds.
LEMMA FilesVisible ==
  ASSUME NEW s, NEW t, t.here = s.here, t.filter = s.filter,
         t.hidden = s.hidden, t.dir = s.dir
  PROVE  AFiles!visibleEntries(t) = AFiles!visibleEntries(s)
  BY DEF AFiles!visibleEntries
\* A list of one.
LEMMA ListOne ==
  ASSUME NEW S, NEW e \in S
  PROVE  <<e>> \in Seq(S)
  OBVIOUS
\* The rows are entries of the folder.
LEMMA FilesEntries ==
  ASSUME NEW s
  PROVE  AFiles!visibleEntries(s) \in Seq(s.here)
  <1> DEFINE Row(e) == IF /\ e \in s.here /\ (e \in AFiles!HiddenFiles => s.hidden)
                          /\ AFiles!Matches(e, s.filter)
                       THEN <<e>> ELSE <<>>
             r1 == Row(1)
             r2 == Row(2)
             r3 == Row(3)
             r4 == Row(4)
             r5 == Row(5)
  <1>1. AFiles!visibleEntries(s)
          = r1 \o (IF s.dir THEN r2 \o r3 \o r4 \o r5
                   ELSE r5 \o r4 \o r3 \o r2)
    BY DEF AFiles!visibleEntries
  <1>2. \A e : Row(e) \in Seq(s.here)
    <2>1. ASSUME NEW e PROVE Row(e) = <<>> \/ (Row(e) = <<e>> /\ e \in s.here)
      OBVIOUS
    <2>2. ASSUME NEW e \in s.here PROVE <<e>> \in Seq(s.here)
      BY ListOne
    <2>3. <<>> \in Seq(s.here)
      OBVIOUS
    <2> HIDE DEF Row
    <2> QED BY <2>1, <2>2, <2>3
  <1>3. /\ r1 \in Seq(s.here) /\ r2 \in Seq(s.here) /\ r3 \in Seq(s.here)
        /\ r4 \in Seq(s.here) /\ r5 \in Seq(s.here)
    <2> HIDE DEF Row
    <2> QED BY <1>2
  <1> HIDE DEF r1, r2, r3, r4, r5
  <1>4. \A p, q \in Seq(s.here) : p \o q \in Seq(s.here)
    OBVIOUS
  <1>5. r1 \o (r2 \o r3 \o r4 \o r5) \in Seq(s.here)
    BY <1>3, <1>4
  <1>6. r1 \o (r5 \o r4 \o r3 \o r2) \in Seq(s.here)
    BY <1>3, <1>4
  <1> QED BY <1>1, <1>5, <1>6

\* Drawn again.
LEMMA FilesRendered ==
  ASSUME FilesShape, NEW s, DOMAIN s = DOMAIN view
  PROVE  LET t == AFiles!renderEntries(s)
         IN /\ DOMAIN t = DOMAIN view /\ t.cur = s.cur /\ t.here = s.here
            /\ t.filter = s.filter /\ t.hidden = s.hidden /\ t.dir = s.dir
            /\ t.focus = 0 /\ t.out = s.out /\ t.able = s.able /\ t.open = s.open
            /\ t.of = s.of /\ t.swept = FALSE /\ t.last = s.last
            /\ FilesDrawn(t)
  <1> DEFINE r == AFiles!visibleEntries(s)
             no == FALSE
             t == AFiles!renderEntries(s)
  <1>1. no = FALSE
    OBVIOUS
  <1>2. t = [s EXCEPT !.rows = r, !.focus = 0, !.swept = no]
    BY DEF AFiles!renderEntries
  <1>3. r \in Seq(s.here)
    BY FilesEntries
  <1> HIDE DEF no, r
  <1>4. /\ DOMAIN t = DOMAIN view /\ t.cur = s.cur /\ t.here = s.here
        /\ t.filter = s.filter /\ t.hidden = s.hidden /\ t.dir = s.dir
        /\ t.rows = r /\ t.focus = 0 /\ t.out = s.out /\ t.able = s.able
        /\ t.open = s.open /\ t.of = s.of /\ t.swept = no /\ t.last = s.last
    BY <1>2 DEF FilesShape
  <1> HIDE DEF t
  <1>5. AFiles!visibleEntries(t) = r
    BY <1>4, FilesVisible DEF r
  <1>6. FilesDrawn(t)
    BY <1>3, <1>4, <1>5 DEF FilesDrawn
  <1> QED BY <1>1, <1>4, <1>6 DEF t

\* A request for an entry goes out, and what was out is of an older generation.
LEMMA FilesAsked ==
  ASSUME FilesShape, NEW s, DOMAIN s = DOMAIN view, NEW e \in 0..5,
         NEW b \in BOOLEAN, b <=> e \in {0, 1},
         FilesKinds(s), FilesListed(s), FilesDrawn(s)
  PROVE  LET t == AFiles!Ask(s, e, b)
         IN DOMAIN t = DOMAIN view /\ FilesKinds(t) /\ FilesListed(t) /\ FilesDrawn(t)
            /\ FilesLast(t) /\ FilesShown(t)
  <1> DEFINE n == [to |-> e, folder |-> b, mine |-> TRUE]
             old == {[q EXCEPT !.mine = FALSE] : q \in s.out}
             t == AFiles!Ask(s, e, b)
  <1>1. n \in FilesAsk /\ n.to = e /\ n.folder = b /\ n.mine
    BY FilesAsks
  <1>2. \A r \in old : /\ r \in FilesAsk /\ ~r.mine
                       /\ r.folder <=> r.to \in {0, 1}
    <2>1. ASSUME NEW q \in s.out
          PROVE  LET r == [q EXCEPT !.mine = FALSE]
                 IN r \in FilesAsk /\ ~r.mine /\ (r.folder <=> r.to \in {0, 1})
      BY FilesAsks DEF FilesKinds
    <2> QED BY <2>1, Zenon
  <1>3. t = [s EXCEPT !.last = e, !.out = old \cup {n}]
    BY DEF AFiles!Ask
  <1> HIDE DEF n, old
  <1>4. /\ DOMAIN t = DOMAIN view /\ t.cur = s.cur /\ t.here = s.here
        /\ t.filter = s.filter /\ t.hidden = s.hidden /\ t.dir = s.dir
        /\ t.rows = s.rows /\ t.focus = s.focus /\ t.out = old \cup {n}
        /\ t.able = s.able /\ t.open = s.open /\ t.of = s.of
        /\ t.swept = s.swept /\ t.last = e
    BY <1>3 DEF FilesShape
  <1> HIDE DEF t
  <1>5. AFiles!visibleEntries(t) = AFiles!visibleEntries(s)
    BY <1>4, FilesVisible
  <1>6. FilesKinds(t)
    BY <1>1, <1>2, <1>4 DEF FilesKinds
  <1>7. FilesListed(t) /\ FilesDrawn(t)
    BY <1>4, <1>5 DEF FilesListed, FilesDrawn
  <1>8. FilesLast(t) /\ FilesShown(t)
    BY <1>1, <1>2, <1>4 DEF FilesLast, FilesShown
  <1> QED BY <1>4, <1>6, <1>7, <1>8 DEF t

\* A load leaves the page in good order, its request the last one.
LEMMA FilesLoads ==
  ASSUME FilesShape, NEW s, DOMAIN s = DOMAIN view, NEW f \in {0, 1},
         FilesKinds(s), FilesListed(s), FilesDrawn(s)
  PROVE  LET t == AFiles!load(s, f)
         IN DOMAIN t = DOMAIN view /\ FilesKinds(t) /\ FilesListed(t) /\ FilesDrawn(t)
            /\ FilesLast(t) /\ FilesShown(t)
  <1> DEFINE no == FALSE
             yes == TRUE
             r == [s EXCEPT !.able = no, !.filter = 0, !.swept = yes]
  <1>1. yes \in BOOLEAN /\ f \in 0..5 /\ (yes <=> f \in {0, 1}) /\ yes
    OBVIOUS
  <1>2. AFiles!load(s, f) = AFiles!Ask(r, f, yes)
    BY DEF AFiles!load
  <1> HIDE DEF no, yes
  <1>3. /\ DOMAIN r = DOMAIN view /\ r.cur = s.cur /\ r.here = s.here
        /\ r.filter = 0 /\ r.hidden = s.hidden /\ r.dir = s.dir
        /\ r.rows = s.rows /\ r.focus = s.focus /\ r.out = s.out
        /\ r.able = no /\ r.open = s.open /\ r.of = s.of /\ r.swept = yes
        /\ r.last = s.last
    BY DEF FilesShape
  <1> HIDE DEF r
  <1>4. FilesKinds(r) /\ FilesListed(r) /\ FilesDrawn(r)
    BY <1>1, <1>3 DEF FilesKinds, FilesListed, FilesDrawn
  <1>5. LET t == AFiles!Ask(r, f, yes)
        IN DOMAIN t = DOMAIN view /\ FilesKinds(t) /\ FilesListed(t) /\ FilesDrawn(t)
           /\ FilesLast(t) /\ FilesShown(t)
    BY <1>1, <1>3, <1>4, FilesAsked
  <1> QED BY <1>2, <1>5

\* So does a click on an entry, which may start a load.
LEMMA FilesActivated ==
  ASSUME FilesShape, NEW s, DOMAIN s = DOMAIN view, NEW e \in s.here,
         FilesKinds(s), FilesListed(s), FilesDrawn(s)
  PROVE  LET t == AFiles!activate(s, e)
         IN DOMAIN t = DOMAIN view /\ FilesKinds(t) /\ FilesListed(t) /\ FilesDrawn(t)
            /\ FilesLast(t) /\ FilesShown(t)
  <1>1. e \in 1..5
    BY DEF FilesListed, AFiles!Entries
  <1>2. CASE e \in {0, 1}
    BY <1>2, FilesLoads DEF AFiles!activate, AFiles!Folders
  <1>3. CASE e \notin {0, 1}
    <2>1. e \in 0..5 /\ FALSE \in BOOLEAN /\ (FALSE <=> e \in {0, 1})
      BY <1>1, <1>3
    <2>2. AFiles!activate(s, e) = AFiles!Ask(s, e, FALSE)
      BY <1>3 DEF AFiles!activate, AFiles!Folders, AFiles!openFile
    <2> QED BY <2>1, <2>2, FilesAsked
  <1> QED BY <1>2, <1>3

\* What a handler starts from, but for the highlighted row.
LEMMA FilesPointed ==
  ASSUME FilesShape, FilesOk, NEW i
  PROVE  LET t == [view EXCEPT !.focus = i]
         IN /\ DOMAIN t = DOMAIN view /\ t.cur = view.cur /\ t.here = view.here
            /\ t.filter = view.filter /\ t.hidden = view.hidden
            /\ t.dir = view.dir /\ t.rows = view.rows /\ t.focus = i
            /\ t.out = view.out /\ t.able = view.able /\ t.open = view.open
            /\ t.of = view.of /\ t.swept = view.swept /\ t.last = view.last
            /\ FilesKinds(t) /\ FilesListed(t) /\ FilesDrawn(t)
            /\ FilesLast(t) /\ FilesShown(t)
  <1> DEFINE t == [view EXCEPT !.focus = i]
  <1>1. /\ DOMAIN t = DOMAIN view /\ t.cur = view.cur /\ t.here = view.here
        /\ t.filter = view.filter /\ t.hidden = view.hidden
        /\ t.dir = view.dir /\ t.rows = view.rows /\ t.focus = i
        /\ t.out = view.out /\ t.able = view.able /\ t.open = view.open
        /\ t.of = view.of /\ t.swept = view.swept /\ t.last = view.last
    BY DEF FilesShape
  <1> HIDE DEF t
  <1>2. AFiles!visibleEntries(t) = AFiles!visibleEntries(view)
    BY <1>1, FilesVisible
  <1>3. FilesKinds(t) /\ FilesListed(t)
    BY <1>1 DEF FilesOk, FilesKinds, FilesListed
  <1>4. FilesDrawn(t)
    BY <1>1, <1>2 DEF FilesOk, FilesDrawn
  <1>5. FilesLast(t) /\ FilesShown(t)
    BY <1>1 DEF FilesOk, FilesLast, FilesShown
  <1> QED BY <1>1, <1>3, <1>4, <1>5 DEF t

\* Drawn again after a change of what is typed, shown or first.
LEMMA FilesRedrawn ==
  ASSUME FilesShape, FilesOk, NEW s,
         DOMAIN s = DOMAIN view /\ s.cur = view.cur /\ s.here = view.here
         /\ s.rows = view.rows /\ s.focus = view.focus /\ s.out = view.out
         /\ s.able = view.able /\ s.open = view.open /\ s.of = view.of
         /\ s.swept = view.swept /\ s.last = view.last
  PROVE  LET t == AFiles!renderEntries(s)
         IN DOMAIN t = DOMAIN view /\ FilesKinds(t) /\ FilesListed(t) /\ FilesDrawn(t)
            /\ FilesLast(t) /\ FilesShown(t)
  <1> DEFINE t == AFiles!renderEntries(s)
  <1>1. /\ DOMAIN t = DOMAIN view /\ t.cur = s.cur /\ t.here = s.here
        /\ t.filter = s.filter /\ t.hidden = s.hidden /\ t.dir = s.dir
        /\ t.focus = 0 /\ t.out = s.out /\ t.able = s.able /\ t.open = s.open
        /\ t.of = s.of /\ t.swept = FALSE /\ t.last = s.last
        /\ FilesDrawn(t)
    BY FilesRendered
  <1> HIDE DEF t
  <1>2. FilesKinds(t) /\ FilesListed(t)
    BY <1>1 DEF FilesOk, FilesKinds, FilesListed
  <1>3. FilesLast(t) /\ FilesShown(t)
    BY <1>1 DEF FilesOk, FilesLast, FilesShown
  <1> QED BY <1>1, <1>2, <1>3 DEF t

\* The files at the start.
LEMMA FilesInit == AFiles!Init => FilesInv
  <1> SUFFICES ASSUME AFiles!Init PROVE FilesInv
    OBVIOUS
  <1> DEFINE n == [to |-> 0, folder |-> TRUE, mine |-> TRUE]
             no == FALSE
             yes == TRUE
             o == {n}
             e == [cur |-> 0, here |-> {}, filter |-> 0, hidden |-> no,
                   dir |-> yes, rows |-> <<>>, focus |-> 0, out |-> {},
                   able |-> no, open |-> 0, of |-> 0, swept |-> no,
                   last |-> 0]
             r == [e EXCEPT !.able = no, !.filter = 0, !.swept = yes]
             old == {[q EXCEPT !.mine = FALSE] : q \in r.out}
  <1>1. view = [r EXCEPT !.last = 0, !.out = old \cup {n}]
    BY DEF AFiles!Init, AFiles!load, AFiles!Ask
  <1>2. yes /\ n \in FilesAsk /\ n.to = 0 /\ n.folder /\ n.mine
    <2>1. yes \in BOOLEAN /\ 0 \in 0..5
      OBVIOUS
    <2>2. n = [to |-> 0, folder |-> yes, mine |-> TRUE] /\ yes
      OBVIOUS
    <2> HIDE DEF yes, n
    <2> QED BY <2>1, <2>2, FilesAsks
  <1> HIDE DEF n, no, yes
  <1>3. old = {}
    OBVIOUS
  <1> HIDE DEF old
  <1>4. /\ view.cur = 0 /\ view.here = {} /\ view.rows = <<>>
        /\ view.out = {n} /\ view.open = 0 /\ view.of = 0
        /\ view.swept = yes /\ view.last = 0
        /\ FilesShape
    BY <1>1, <1>3 DEF FilesShape
  <1>5. <<>> \in Seq({})
    OBVIOUS
  <1> QED
    BY <1>2, <1>4, <1>5
       DEF FilesInv, FilesOk, FilesKinds, FilesListed, FilesDrawn, FilesLast,
           FilesShown

\* Every step of it keeps what is said of it.
LEMMA FilesStep == ASSUME FilesInv, AFiles!Next PROVE FilesInv'
  <1>1. ASSUME NEW i \in 1..4, AFiles!Click(i) PROVE FilesInv'
    <2> DEFINE s == [view EXCEPT !.focus = i]
               e == view.rows[i]
               t == AFiles!activate(s, e)
    <2>a. view' = t /\ i \in DOMAIN view.rows
      BY <1>1 DEF AFiles!Click
    <2>b. /\ DOMAIN s = DOMAIN view /\ s.cur = view.cur /\ s.here = view.here
          /\ s.filter = view.filter /\ s.hidden = view.hidden
          /\ s.dir = view.dir /\ s.rows = view.rows /\ s.focus = i
          /\ s.out = view.out /\ s.able = view.able /\ s.open = view.open
          /\ s.of = view.of /\ s.swept = view.swept /\ s.last = view.last
          /\ FilesKinds(s) /\ FilesListed(s) /\ FilesDrawn(s)
          /\ FilesLast(s) /\ FilesShown(s)
      BY FilesPointed DEF FilesInv
    <2> HIDE DEF s
    <2>c. e \in s.here
      BY <2>a, <2>b, ListOf DEF FilesInv, FilesOk, FilesDrawn
    <2> HIDE DEF e

    <2>z. DOMAIN t = DOMAIN view /\ FilesKinds(t) /\ FilesListed(t) /\ FilesDrawn(t)
          /\ FilesLast(t) /\ FilesShown(t)
      BY <2>b, <2>c, FilesActivated DEF FilesInv
    <2> QED BY <2>a, <2>z DEF FilesInv, FilesShape, FilesOk
  <1>2. ASSUME NEW i \in 1..4, AFiles!Arrow(i) PROVE FilesInv'
    <2> DEFINE t == [view EXCEPT !.focus = i]
    <2>a. view' = t
      BY <1>2 DEF AFiles!Arrow

    <2>z. DOMAIN t = DOMAIN view /\ FilesKinds(t) /\ FilesListed(t) /\ FilesDrawn(t)
          /\ FilesLast(t) /\ FilesShown(t)
      BY FilesPointed DEF FilesInv
    <2> QED BY <2>a, <2>z DEF FilesInv, FilesShape, FilesOk
  <1>3. ASSUME NEW i \in 1..4, AFiles!Hover(i) PROVE FilesInv'
    <2> DEFINE t == [view EXCEPT !.focus = i]
    <2>a. view' = t
      BY <1>3 DEF AFiles!Hover

    <2>z. DOMAIN t = DOMAIN view /\ FilesKinds(t) /\ FilesListed(t) /\ FilesDrawn(t)
          /\ FilesLast(t) /\ FilesShown(t)
      BY FilesPointed DEF FilesInv
    <2> QED BY <2>a, <2>z DEF FilesInv, FilesShape, FilesOk
  <1>4. ASSUME NEW t \in AFiles!Texts, AFiles!Filter(t) PROVE FilesInv'
    <2> DEFINE s == [view EXCEPT !.filter = t]
               r == AFiles!renderEntries(s)
    <2>a. view' = r
      BY <1>4 DEF AFiles!Filter
    <2>b. /\ DOMAIN s = DOMAIN view /\ s.cur = view.cur /\ s.here = view.here
          /\ s.filter = t /\ s.hidden = view.hidden /\ s.dir = view.dir
          /\ s.rows = view.rows /\ s.focus = view.focus /\ s.out = view.out
          /\ s.able = view.able /\ s.open = view.open /\ s.of = view.of
          /\ s.swept = view.swept /\ s.last = view.last
      BY DEF FilesInv, FilesShape
    <2> HIDE DEF s

    <2>z. DOMAIN r = DOMAIN view /\ FilesKinds(r) /\ FilesListed(r) /\ FilesDrawn(r)
          /\ FilesLast(r) /\ FilesShown(r)
      BY <2>b, FilesRedrawn DEF FilesInv
    <2> QED BY <2>a, <2>z DEF FilesInv, FilesShape, FilesOk
  <1>5. CASE AFiles!Enter
    <2> DEFINE q == AFiles!visibleEntries(view)
               e == q[view.focus]
               t == AFiles!activate(view, e)
    <2>a. view' = t /\ view.focus \in DOMAIN q
      BY <1>5 DEF AFiles!Enter
    <2>b. q \in Seq(view.here)
      BY FilesEntries
    <2> HIDE DEF q
    <2>c. e \in view.here
      BY <2>a, <2>b, ListOf
    <2> HIDE DEF e

    <2>z. DOMAIN t = DOMAIN view /\ FilesKinds(t) /\ FilesListed(t) /\ FilesDrawn(t)
          /\ FilesLast(t) /\ FilesShown(t)
      BY <2>c, FilesActivated DEF FilesInv, FilesOk
    <2> QED BY <2>a, <2>z DEF FilesInv, FilesShape, FilesOk
  <1>6. CASE AFiles!Retry
    <2> DEFINE t == AFiles!Ask(view, view.open, FALSE)
    <2>a. view' = t /\ view.open # 0
      BY <1>6 DEF AFiles!Retry, AFiles!openFile
    <2>b. view.open \in 0..5 /\ FALSE \in BOOLEAN /\ (FALSE <=> view.open \in {0, 1})
      BY <2>a DEF FilesInv, FilesOk, FilesKinds

    <2>z. DOMAIN t = DOMAIN view /\ FilesKinds(t) /\ FilesListed(t) /\ FilesDrawn(t)
          /\ FilesLast(t) /\ FilesShown(t)
      BY <2>b, FilesAsked DEF FilesInv, FilesOk
    <2> QED BY <2>a, <2>z DEF FilesInv, FilesShape, FilesOk
  <1>7. CASE AFiles!hiddenBtn
    <2> DEFINE b == ~view.hidden
               s == [view EXCEPT !.hidden = b]
               t == AFiles!renderEntries(s)
    <2>a. view' = t
      BY <1>7 DEF AFiles!hiddenBtn
    <2> HIDE DEF b
    <2>b. /\ DOMAIN s = DOMAIN view /\ s.cur = view.cur /\ s.here = view.here
          /\ s.filter = view.filter /\ s.hidden = b /\ s.dir = view.dir
          /\ s.rows = view.rows /\ s.focus = view.focus /\ s.out = view.out
          /\ s.able = view.able /\ s.open = view.open /\ s.of = view.of
          /\ s.swept = view.swept /\ s.last = view.last
      BY DEF FilesInv, FilesShape
    <2> HIDE DEF s

    <2>z. DOMAIN t = DOMAIN view /\ FilesKinds(t) /\ FilesListed(t) /\ FilesDrawn(t)
          /\ FilesLast(t) /\ FilesShown(t)
      BY <2>b, FilesRedrawn DEF FilesInv
    <2> QED BY <2>a, <2>z DEF FilesInv, FilesShape, FilesOk
  <1>8. CASE AFiles!makeSortBtn
    <2> DEFINE b == ~view.dir
               s == [view EXCEPT !.dir = b]
               t == AFiles!renderEntries(s)
    <2>a. view' = t
      BY <1>8 DEF AFiles!makeSortBtn
    <2> HIDE DEF b
    <2>b. /\ DOMAIN s = DOMAIN view /\ s.cur = view.cur /\ s.here = view.here
          /\ s.filter = view.filter /\ s.hidden = view.hidden /\ s.dir = b
          /\ s.rows = view.rows /\ s.focus = view.focus /\ s.out = view.out
          /\ s.able = view.able /\ s.open = view.open /\ s.of = view.of
          /\ s.swept = view.swept /\ s.last = view.last
      BY DEF FilesInv, FilesShape
    <2> HIDE DEF s

    <2>z. DOMAIN t = DOMAIN view /\ FilesKinds(t) /\ FilesListed(t) /\ FilesDrawn(t)
          /\ FilesLast(t) /\ FilesShown(t)
      BY <2>b, FilesRedrawn DEF FilesInv
    <2> QED BY <2>a, <2>z DEF FilesInv, FilesShape, FilesOk
  <1>9. CASE AFiles!closeViewer
    <2>a. /\ DOMAIN view' = DOMAIN view /\ view'.cur = view.cur
          /\ view'.here = view.here /\ view'.filter = view.filter
          /\ view'.hidden = view.hidden /\ view'.dir = view.dir
          /\ view'.rows = view.rows /\ view'.focus = view.focus
          /\ view'.out = view.out /\ view'.able = view.able /\ view'.open = 0
          /\ view'.of = 0 /\ view'.swept = view.swept /\ view'.last = view.last
      BY <1>9 DEF FilesInv, FilesShape, AFiles!closeViewer
    <2>b. AFiles!visibleEntries(view') = AFiles!visibleEntries(view)
      BY <2>a, FilesVisible
    <2>c. FilesKinds(view') /\ FilesListed(view')
      BY <2>a DEF FilesInv, FilesOk, FilesKinds, FilesListed
    <2>d. FilesDrawn(view')
      BY <2>a, <2>b DEF FilesInv, FilesOk, FilesDrawn
    <2>e. FilesLast(view') /\ FilesShown(view')
      BY <2>a DEF FilesInv, FilesOk, FilesLast, FilesShown
    <2> QED BY <2>a, <2>c, <2>d, <2>e DEF FilesInv, FilesShape, FilesOk
  <1>10. ASSUME NEW f \in AFiles!Folders, AFiles!Crumb(f) PROVE FilesInv'
    <2> DEFINE t == AFiles!load(view, f)
    <2>a. view' = t
      BY <1>10 DEF AFiles!Crumb
    <2>b. f \in {0, 1}
      BY DEF AFiles!Folders

    <2>z. DOMAIN t = DOMAIN view /\ FilesKinds(t) /\ FilesListed(t) /\ FilesDrawn(t)
          /\ FilesLast(t) /\ FilesShown(t)
      BY <2>b, FilesLoads DEF FilesInv, FilesOk
    <2> QED BY <2>a, <2>z DEF FilesInv, FilesShape, FilesOk
  <1>11. ASSUME NEW q \in view.out, NEW ok \in BOOLEAN, AFiles!ListRead(q, ok) PROVE FilesInv'
    <2> DEFINE s == [view EXCEPT !.out = @ \ {q}]
               yes == TRUE
               h == IF ok THEN AFiles!Entries(q.to) ELSE {}
               r == [s EXCEPT !.cur = q.to, !.able = yes, !.here = h]
               t == AFiles!renderEntries(r)
    <2>a. /\ view' = IF ~q.mine THEN s ELSE t
          /\ q.folder
      BY <1>11 DEF AFiles!ListRead
    <2>b. /\ DOMAIN s = DOMAIN view /\ s.cur = view.cur /\ s.here = view.here
          /\ s.filter = view.filter /\ s.hidden = view.hidden
          /\ s.dir = view.dir /\ s.rows = view.rows /\ s.focus = view.focus
          /\ s.out = view.out \ {q} /\ s.able = view.able /\ s.open = view.open
          /\ s.of = view.of /\ s.swept = view.swept /\ s.last = view.last
      BY DEF FilesInv, FilesShape
    <2>c. yes = TRUE /\ h \subseteq AFiles!Entries(q.to)
      OBVIOUS
    <2> HIDE DEF s, yes, h
    <2>d. /\ DOMAIN r = DOMAIN view /\ r.cur = q.to /\ r.here = h
          /\ r.filter = s.filter /\ r.hidden = s.hidden /\ r.dir = s.dir
          /\ r.rows = s.rows /\ r.focus = s.focus /\ r.out = s.out
          /\ r.able = yes /\ r.open = s.open /\ r.of = s.of
          /\ r.swept = s.swept /\ r.last = s.last
      BY <2>b DEF FilesInv, FilesShape
    <2> HIDE DEF r
    <2>e. /\ DOMAIN t = DOMAIN view /\ t.cur = r.cur /\ t.here = r.here
          /\ t.filter = r.filter /\ t.hidden = r.hidden /\ t.dir = r.dir
          /\ t.focus = 0 /\ t.out = r.out /\ t.able = r.able /\ t.open = r.open
          /\ t.of = r.of /\ t.swept = FALSE /\ t.last = r.last
          /\ FilesDrawn(t)
      BY <2>b, <2>d, FilesRendered DEF FilesInv
    <2> HIDE DEF t
    <2>f. q.to \in {0, 1}
      BY <2>a DEF FilesInv, FilesOk, FilesKinds
    <2>1. CASE ~q.mine
      <3>1. AFiles!visibleEntries(s) = AFiles!visibleEntries(view)
        BY <2>b, FilesVisible
      <3>2. FilesKinds(s) /\ FilesListed(s)
        BY <2>b DEF FilesInv, FilesOk, FilesKinds, FilesListed
      <3>3. FilesDrawn(s)
        BY <2>b, <3>1 DEF FilesInv, FilesOk, FilesDrawn
      <3>4. FilesLast(s) /\ FilesShown(s)
        BY <2>1, <2>b DEF FilesInv, FilesOk, FilesLast, FilesShown
      <3>5. view' = s
        BY <2>1, <2>a
      <3> QED BY <2>b, <3>2, <3>3, <3>4, <3>5 DEF FilesInv, FilesShape, FilesOk
    <2>2. CASE q.mine
      <3>1. FilesKinds(t) /\ FilesListed(t)
        BY <2>b, <2>c, <2>d, <2>e, <2>f
           DEF FilesInv, FilesOk, FilesKinds, FilesListed
      <3>2. FilesLast(t)
        BY <2>b, <2>d, <2>e DEF FilesInv, FilesOk, FilesLast
      <3>3. q.to = view.last
        BY <2>2 DEF FilesInv, FilesOk, FilesLast
      <3>4. FilesShown(t)
        BY <2>b, <2>c, <2>d, <2>e, <2>f, <3>3 DEF FilesShown
      <3>5. view' = t
        BY <2>2, <2>a
      <3> QED BY <2>b, <2>d, <2>e, <3>1, <3>2, <3>4, <3>5
                 DEF FilesInv, FilesShape, FilesOk
    <2> QED BY <2>1, <2>2
  <1>12. ASSUME NEW q \in view.out, NEW ok \in BOOLEAN, AFiles!FileRead(q, ok) PROVE FilesInv'
    <2> DEFINE s == [view EXCEPT !.out = @ \ {q}]
               o == IF ok THEN q.to ELSE 0
               t == [s EXCEPT !.open = q.to, !.of = o]
    <2>a. /\ view' = IF ~q.mine THEN s ELSE t
          /\ ~q.folder
      BY <1>12 DEF AFiles!FileRead
    <2>b. /\ DOMAIN s = DOMAIN view /\ s.cur = view.cur /\ s.here = view.here
          /\ s.filter = view.filter /\ s.hidden = view.hidden
          /\ s.dir = view.dir /\ s.rows = view.rows /\ s.focus = view.focus
          /\ s.out = view.out \ {q} /\ s.able = view.able /\ s.open = view.open
          /\ s.of = view.of /\ s.swept = view.swept /\ s.last = view.last
      BY DEF FilesInv, FilesShape
    <2>c. o \in {0, q.to}
      OBVIOUS
    <2> HIDE DEF s, o
    <2>d. /\ DOMAIN t = DOMAIN view /\ t.cur = s.cur /\ t.here = s.here
          /\ t.filter = s.filter /\ t.hidden = s.hidden /\ t.dir = s.dir
          /\ t.rows = s.rows /\ t.focus = s.focus /\ t.out = s.out
          /\ t.able = s.able /\ t.open = q.to /\ t.of = o /\ t.swept = s.swept
          /\ t.last = s.last
      BY <2>b DEF FilesInv, FilesShape
    <2> HIDE DEF t
    <2>e. q.to \in 2..5
      <3>1. q.to \in 0..5
        BY FilesAsks DEF FilesInv, FilesOk, FilesKinds
      <3>2. q.to \notin {0, 1}
        BY <2>a DEF FilesInv, FilesOk, FilesKinds
      <3> QED BY <3>1, <3>2
    <2>f. /\ AFiles!visibleEntries(s) = AFiles!visibleEntries(view)
          /\ AFiles!visibleEntries(t) = AFiles!visibleEntries(view)
      BY <2>b, <2>d, FilesVisible
    <2>1. CASE ~q.mine
      <3>1. FilesKinds(s) /\ FilesListed(s)
        BY <2>b DEF FilesInv, FilesOk, FilesKinds, FilesListed
      <3>2. FilesDrawn(s)
        BY <2>b, <2>f DEF FilesInv, FilesOk, FilesDrawn
      <3>3. FilesLast(s) /\ FilesShown(s)
        BY <2>1, <2>b DEF FilesInv, FilesOk, FilesLast, FilesShown
      <3>4. view' = s
        BY <2>1, <2>a
      <3> QED BY <2>b, <3>1, <3>2, <3>3, <3>4 DEF FilesInv, FilesShape, FilesOk
    <2>2. CASE q.mine
      <3>1. FilesKinds(t) /\ FilesListed(t)
        BY <2>b, <2>c, <2>d, <2>e DEF FilesInv, FilesOk, FilesKinds, FilesListed
      <3>2. FilesDrawn(t)
        BY <2>b, <2>d, <2>f DEF FilesInv, FilesOk, FilesDrawn
      <3>3. FilesLast(t)
        BY <2>b, <2>d DEF FilesInv, FilesOk, FilesLast
      <3>4. q.to = view.last
        BY <2>2 DEF FilesInv, FilesOk, FilesLast
      <3>5. FilesShown(t)
        BY <2>b, <2>d, <2>e, <3>4 DEF FilesShown
      <3>6. view' = t
        BY <2>2, <2>a
      <3> QED BY <2>b, <2>d, <3>1, <3>2, <3>3, <3>5, <3>6
                 DEF FilesInv, FilesShape, FilesOk
    <2> QED BY <2>1, <2>2
  <1> QED
    BY <1>1, <1>2, <1>3, <1>4, <1>5, <1>6, <1>7, <1>8, <1>9, <1>10, <1>11,
       <1>12 DEF AFiles!Next

\* That gives the properties of AFiles.
LEMMA FilesHolds == FilesInv => AFiles!Settled /\ AFiles!Truthful /\ AFiles!InStep
  <1> SUFFICES ASSUME FilesInv
               PROVE  AFiles!Settled /\ AFiles!Truthful /\ AFiles!InStep
    OBVIOUS
  <1>1. AFiles!Settled
    BY DEF FilesInv, FilesOk, FilesShown, AFiles!Settled, AFiles!Waiting,
           AFiles!Folders
  <1>2. AFiles!Truthful
    <2>1. \A i \in DOMAIN view.rows : view.rows[i] \in view.here
      BY ListOf DEF FilesInv, FilesOk, FilesDrawn
    <2> QED
      BY <2>1 DEF FilesInv, FilesOk, FilesListed, FilesKinds, AFiles!Truthful
  <1>3. AFiles!InStep
    BY DEF FilesInv, FilesOk, FilesDrawn, AFiles!InStep
  <1> QED BY <1>1, <1>2, <1>3

\* It holds from the first state on when the page is this one.
LEMMA FilesStays ==
  /\ Init => (subject = "files" => FilesInv)
  /\ (subject = "files" => FilesInv) /\ [Next]_vars
       => (subject = "files" => FilesInv)'
  <1>1. Init => (subject = "files" => FilesInv)
    BY FilesInit DEF Init
  <1>2. (subject = "files" => FilesInv) /\ [Next]_vars
          => (subject = "files" => FilesInv)'
    <2>1. ASSUME FilesInv, view' = view PROVE FilesInv'
      BY <2>1 DEF FilesInv, FilesShape, FilesOk, FilesKinds, FilesListed, FilesDrawn,
          FilesLast, FilesShown
    <2> QED BY <2>1, FilesStep DEF Next, vars
  <1> QED BY <1>1, <1>2

-----------------------------------------------------------------------------
(* The player.  An object URL is of one track only, so that the track that *)
(* goes takes its own with it and no other.                                *)

MusicShape ==
  DOMAIN view = {"tracks", "index", "src", "paused", "stored", "given",
                 "live", "note", "asked"}
MusicList(s) ==
  /\ s.tracks \in Seq(Things \cup More) /\ s.given \subseteq More
  /\ \A m \in s.live : m \in More /\ \E i \in DOMAIN s.tracks : s.tracks[i] = m
  /\ \A i \in DOMAIN s.tracks : s.tracks[i] \in More => s.tracks[i] \in s.live
  /\ s.live \subseteq s.given
  /\ \A i, j \in DOMAIN s.tracks :
       i # j /\ s.tracks[i] \in More => s.tracks[i] # s.tracks[j]
MusicPlays(s) ==
  /\ s.index \in 0..Len(s.tracks) /\ s.paused \in BOOLEAN
  /\ s.src = IF s.index = 0 THEN 0 ELSE s.tracks[s.index]
  /\ s.index = 0 => s.paused
MusicOwned ==
  MusicList(view)
MusicPlayed ==
  MusicPlays(view)
MusicAsked ==
  view.asked \in 0..Len(view.tracks)
MusicStored ==
  view.stored = AMusic!Addresses(view.tracks)
MusicInv ==
  /\ MusicShape /\ MusicOwned /\ MusicPlayed /\ MusicAsked /\ MusicStored

\* A track that is loaded is the one of its number.
LEMMA MusicLoaded ==
  ASSUME MusicShape, NEW s, DOMAIN s = DOMAIN view, NEW play \in BOOLEAN,
         s.tracks \in Seq(Things \cup More), NEW i \in 1..Len(s.tracks)
  PROVE  LET t == AMusic!load(s, i, play)
         IN /\ DOMAIN t = DOMAIN view /\ MusicPlays(t)
            /\ t.tracks = s.tracks /\ t.stored = s.stored /\ t.given = s.given
            /\ t.live = s.live /\ t.asked = s.asked
  <1> DEFINE p == ~play
             n == FALSE
  <1>1. AMusic!load(s, i, play)
          = [s EXCEPT !.index = i, !.src = s.tracks[i], !.paused = p,
                      !.note = n]
    BY DEF AMusic!load
  <1>2. p \in BOOLEAN /\ i # 0 /\ i \in 0..Len(s.tracks)
    BY ListOf
  <1> HIDE DEF p, n
  <1> QED BY <1>1, <1>2 DEF MusicShape, MusicPlays

\* The next track, or the one before, is one of the list.
LEMMA MusicStepped ==
  ASSUME MusicShape, MusicPlays(view), NEW delta \in {-1, 1},
         view.tracks \in Seq(Things \cup More), view.tracks # <<>>
  PROVE  LET t == AMusic!step(view, delta)
         IN /\ DOMAIN t = DOMAIN view /\ MusicPlays(t)
            /\ t.tracks = view.tracks /\ t.stored = view.stored
            /\ t.given = view.given /\ t.live = view.live
            /\ t.asked = view.asked
  <1> DEFINE n == Len(view.tracks)
             m == (view.index - 1 + delta) % n
             i == IF view.index = 0 THEN 1 ELSE m + 1
             b == TRUE
  <1>1. n \in Nat /\ n > 0 /\ view.index \in Int
    BY ListOf DEF MusicPlays
  <1>2. m \in 0..(n - 1)
    <2> DEFINE k == view.index - 1 + delta
    <2>1. k \in Int
      BY <1>1
    <2> HIDE DEF n, k
    <2>2. k % n \in 0..(n - 1)
      BY <1>1, <2>1
    <2> QED BY <2>2 DEF k, n
  <1>3. AMusic!step(view, delta) = AMusic!load(view, i, b)
    BY DEF AMusic!step
  <1>4. i \in 1..n
    <2> HIDE DEF m, n
    <2> QED BY <1>1, <1>2
  <1>5. b \in BOOLEAN
    OBVIOUS
  <1> HIDE DEF i, b
  <1> QED BY <1>3, <1>4, <1>5, MusicLoaded DEF MusicShape

\* The files picked are a list of object URLs.
LEMMA MusicFiles ==
  ASSUME NEW fs \in {<<>>} \cup {<<b>> : b \in More} \cup (More \X More)
  PROVE  fs \in Seq(More)
  <1>1. CASE fs = <<>>
    BY <1>1
  <1>2. ASSUME NEW b \in More, fs = <<b>> PROVE fs \in Seq(More)
    BY <1>2
  <1>3. ASSUME NEW b \in More, NEW c \in More, fs = <<b, c>>
        PROVE  fs \in Seq(More)
    BY <1>3
  <1>4. \/ fs = <<>>
        \/ \E b \in More : fs = <<b>>
        \/ \E b \in More, c \in More : fs = <<b, c>>
    OBVIOUS
  <1> QED BY <1>1, <1>2, <1>3, <1>4

\* The player at the start.
LEMMA MusicInit == AMusic!Init => MusicInv
  <1> SUFFICES ASSUME AMusic!Init PROVE MusicInv
    OBVIOUS
  <1>1. PICK q \in {<<>>} \cup {<<u>> : u \in Things} :
          view = [tracks |-> q, index |-> 0, src |-> 0, paused |-> TRUE,
                  stored |-> AMusic!Addresses(q), given |-> {}, live |-> {},
                  note |-> FALSE, asked |-> 0]
    BY DEF AMusic!Init, AMusic!loadSaved
  <1>2. q \in Seq(Things \cup More) /\ \A i \in DOMAIN q : q[i] \notin More
    <2>1. CASE q = <<>>
      BY <2>1
    <2>2. ASSUME NEW u \in Things, q = <<u>>
          PROVE  q \in Seq(Things \cup More) /\ \A i \in DOMAIN q : q[i] \notin More
      BY Bounds, <2>2
    <2> QED BY <2>1, <2>2
  <1>3. 0 \in 0..Len(q)
    BY <1>2, ListOf
  <1> QED
    BY <1>1, <1>2, <1>3
       DEF MusicInv, MusicShape, MusicOwned, MusicPlayed, MusicList, MusicPlays,
           MusicAsked, MusicStored

\* Every step of it keeps what is said of it.
LEMMA MusicStep == ASSUME MusicInv, AMusic!Next PROVE MusicInv'
  <1>1. CASE AMusic!playPause
    <2> DEFINE b == TRUE
               c == ~view.paused
               t == AMusic!load(view, 1, b)
    <2>a. \/ view.tracks # <<>> /\ view' = t
          \/ view.index # 0 /\ view' = [view EXCEPT !.paused = c]
      BY <1>1 DEF AMusic!playPause
    <2>b. view.tracks # <<>> =>
          /\ DOMAIN t = DOMAIN view /\ MusicPlays(t)
          /\ t.tracks = view.tracks /\ t.stored = view.stored
          /\ t.given = view.given /\ t.live = view.live
          /\ t.asked = view.asked
      <3>1. view.tracks # <<>> => 1 \in 1..Len(view.tracks)
        BY ListOf DEF MusicInv, MusicOwned, MusicList
      <3>2. b \in BOOLEAN
        OBVIOUS
      <3> HIDE DEF b
      <3> QED BY <3>1, <3>2, MusicLoaded DEF MusicInv, MusicOwned, MusicList
    <2>c. c \in BOOLEAN
      OBVIOUS
    <2> HIDE DEF t, c
    <2>1. MusicShape'
      BY <2>a, <2>b, <2>c
         DEF MusicInv, MusicShape, MusicList, MusicPlays
    <2>2. MusicOwned'
      BY <2>a, <2>b, <2>c
         DEF MusicInv, MusicShape, MusicOwned, MusicList, MusicPlays
    <2>3. MusicPlayed'
      BY <2>a, <2>b, <2>c
         DEF MusicInv, MusicShape, MusicPlayed, MusicList, MusicPlays
    <2>4. MusicAsked'
      BY <2>a, <2>b, <2>c
         DEF MusicInv, MusicShape, MusicAsked, MusicList, MusicPlays
    <2>5. MusicStored'
      BY <2>a, <2>b, <2>c
         DEF MusicInv, MusicShape, MusicStored, MusicList, MusicPlays
    <2> QED BY <2>1, <2>2, <2>3, <2>4, <2>5 DEF MusicInv
  <1>2. CASE AMusic!Keep
    <2>1. MusicShape'
      BY <1>2
         DEF MusicInv, MusicShape, AMusic!Keep, MusicList, MusicPlays
    <2>2. MusicOwned'
      BY <1>2
         DEF MusicInv, MusicShape, MusicOwned, AMusic!Keep, MusicList,
             MusicPlays
    <2>3. MusicPlayed'
      BY <1>2
         DEF MusicInv, MusicShape, MusicPlayed, AMusic!Keep, MusicList,
             MusicPlays
    <2>4. MusicAsked'
      BY <1>2
         DEF MusicInv, MusicShape, MusicAsked, AMusic!Keep, MusicList,
             MusicPlays
    <2>5. MusicStored'
      BY <1>2
         DEF MusicInv, MusicShape, MusicStored, AMusic!Keep, MusicList,
             MusicPlays
    <2> QED BY <2>1, <2>2, <2>3, <2>4, <2>5 DEF MusicInv
  <1>3. CASE AMusic!removeAt
    <2> DEFINE i == view.asked
               q == AMusic!Without(view.tracks, i)
               gone == view.tracks[i]
               r == [view EXCEPT !.tracks = q, !.live = @ \ {gone}, !.asked = 0]
               t == AMusic!persistUrls(r)
               n == Len(t.tracks)
               p == TRUE
               e == [t EXCEPT !.index = 0, !.src = 0, !.paused = p]
               d == [t EXCEPT !.index = @ - 1]
               k == IF i > n THEN n ELSE i
               c == ~t.paused
               l == AMusic!load(t, k, c)
    <2>a. view.asked # 0 /\ view' = IF n = 0 THEN e ELSE IF i < t.index THEN d
                                    ELSE IF i = t.index THEN l ELSE t
      BY <1>3 DEF AMusic!removeAt, AMusic!removed, AMusic!Free
    <2>b. /\ DOMAIN t = DOMAIN view /\ t.tracks = q /\ t.index = view.index
          /\ t.src = view.src /\ t.paused = view.paused /\ t.given = view.given
          /\ t.live = view.live \ {gone} /\ t.asked = 0
          /\ t.stored = AMusic!Addresses(q)
      BY DEF MusicInv, MusicShape, AMusic!persistUrls
    <2>c. /\ DOMAIN view.tracks = 1..Len(view.tracks) /\ Len(view.tracks) \in Nat
          /\ i \in 1..Len(view.tracks) /\ gone \in Things \cup More
      BY <2>a, ListOf DEF MusicInv, MusicOwned, MusicList, MusicAsked
    <2>d. /\ q \in Seq(Things \cup More) /\ Len(q) = Len(view.tracks) - 1
          /\ DOMAIN q = 1..Len(q)
          /\ \A j \in 1..(Len(view.tracks) - 1) :
               q[j] = IF j < i THEN view.tracks[j] ELSE view.tracks[j + 1]
      <3>1. q = Without(view.tracks, i)
        BY DEF AMusic!Without, Without
      <3> HIDE DEF q
      <3>2. view.tracks \in Seq(Things \cup More)
        BY DEF MusicInv, MusicOwned, MusicList
      <3>3. q \in Seq(Things \cup More) /\ Len(q) = Len(view.tracks) - 1
        BY <2>c, <3>1, <3>2, ListRemoved
      <3>4. DOMAIN q = 1..Len(q)
        BY <3>3, ListOf
      <3> QED BY <2>c, <3>1, <3>2, <3>3, <3>4, ListRemoved
    <2> HIDE DEF q, r, t, i
    <2>g. MusicList(t)
      <3>1. \A j \in DOMAIN q : \E m \in DOMAIN view.tracks :
              m # i /\ q[j] = view.tracks[m]
        <4> SUFFICES ASSUME NEW j \in DOMAIN q
                     PROVE  \E m \in DOMAIN view.tracks :
                              m # i /\ q[j] = view.tracks[m]
          OBVIOUS
        <4>1. CASE j < i
          BY <2>c, <2>d, <4>1
        <4>2. CASE ~(j < i)
          <5>1. j + 1 \in DOMAIN view.tracks /\ j + 1 # i
            BY <2>c, <2>d, <4>2
          <5> QED BY <2>c, <2>d, <4>2, <5>1
        <4> QED BY <4>1, <4>2
      <3>2. \A m \in DOMAIN view.tracks : m # i =>
              \E j \in DOMAIN q : q[j] = view.tracks[m]
        <4> SUFFICES ASSUME NEW m \in DOMAIN view.tracks, m # i
                     PROVE  \E j \in DOMAIN q : q[j] = view.tracks[m]
          OBVIOUS
        <4>1. CASE m < i
          <5>1. m \in DOMAIN q /\ q[m] = view.tracks[m]
            BY <2>c, <2>d, <4>1
          <5> QED BY <5>1
        <4>2. CASE m > i
          <5>1. m - 1 \in DOMAIN q /\ ~(m - 1 < i) /\ (m - 1) + 1 = m
            BY <2>c, <2>d, <4>2
          <5>2. q[m - 1] = view.tracks[m]
            BY <2>c, <2>d, <5>1
          <5> QED BY <5>1, <5>2
        <4> QED BY <2>c, <4>1, <4>2
      <3>3. \A j, m \in DOMAIN q : j # m /\ q[j] \in More => q[j] # q[m]
        <4> SUFFICES ASSUME NEW j \in DOMAIN q, NEW m \in DOMAIN q, j # m,
                            q[j] \in More
                     PROVE  q[j] # q[m]
          OBVIOUS
        <4> DEFINE a == IF j < i THEN j ELSE j + 1
                   b == IF m < i THEN m ELSE m + 1
        <4>1. a \in DOMAIN view.tracks /\ b \in DOMAIN view.tracks /\ a # b
          BY <2>c, <2>d
        <4>2. q[j] = view.tracks[a] /\ q[m] = view.tracks[b]
          BY <2>c, <2>d
        <4> HIDE DEF a, b
        <4> QED BY <4>1, <4>2 DEF MusicInv, MusicOwned, MusicList
      <3>4. /\ \A m \in t.live : m \in More /\ \E j \in DOMAIN q : q[j] = m
            /\ \A j \in DOMAIN q : q[j] \in More => q[j] \in t.live
        <4>1. ASSUME NEW m \in t.live
              PROVE  m \in More /\ \E j \in DOMAIN q : q[j] = m
          <5>1. m \in view.live /\ m # gone
            BY <2>b, <4>1
          <5>2. PICK j \in DOMAIN view.tracks : view.tracks[j] = m
            BY <5>1 DEF MusicInv, MusicOwned, MusicList
          <5>3. j # i /\ m \in More
            BY <5>1, <5>2 DEF MusicInv, MusicOwned, MusicList
          <5> QED BY <3>2, <5>2, <5>3
        <4>2. ASSUME NEW m \in More, NEW j \in DOMAIN q, q[j] = m
              PROVE  m \in t.live
          <5>1. PICK a \in DOMAIN view.tracks : a # i /\ q[j] = view.tracks[a]
            BY <3>1
          <5>2. m \in view.live /\ m # gone
            BY <2>c, <4>2, <5>1 DEF MusicInv, MusicOwned, MusicList
          <5> QED BY <2>b, <5>2
        <4> QED BY <4>1, <4>2
      <3>5. t.given \subseteq More /\ t.live \subseteq t.given
        BY <2>b DEF MusicInv, MusicOwned, MusicList
      <3> QED BY <2>b, <2>d, <3>3, <3>4, <3>5 DEF MusicList
    <2>h. n \in Nat /\ n = Len(view.tracks) - 1
      BY <2>b, <2>c, <2>d
    <2>i. DOMAIN e = DOMAIN view /\ MusicPlays(e)
          /\ e.tracks = t.tracks /\ e.stored = t.stored /\ e.given = t.given
          /\ e.live = t.live /\ e.asked = t.asked
      <3>1. p \in BOOLEAN
        OBVIOUS
      <3>2. /\ DOMAIN e = DOMAIN view /\ e.tracks = t.tracks
            /\ e.stored = t.stored /\ e.given = t.given /\ e.live = t.live
            /\ e.asked = t.asked /\ e.index = 0 /\ e.src = 0 /\ e.paused = p
        BY <2>b DEF MusicInv, MusicShape
      <3>3. p = TRUE
        OBVIOUS
      <3> HIDE DEF e, p
      <3>4. 0 \in 0..Len(t.tracks)
        BY <2>h
      <3> QED BY <3>1, <3>2, <3>3, <3>4 DEF MusicPlays
    <2>j. i < t.index =>
          /\ DOMAIN d = DOMAIN view /\ MusicPlays(d)
          /\ d.tracks = t.tracks /\ d.stored = t.stored /\ d.given = t.given
          /\ d.live = t.live /\ d.asked = t.asked
      <3> SUFFICES ASSUME i < t.index
                   PROVE /\ DOMAIN d = DOMAIN view /\ MusicPlays(d)
                         /\ d.tracks = t.tracks /\ d.stored = t.stored
                         /\ d.given = t.given /\ d.live = t.live
                         /\ d.asked = t.asked
        OBVIOUS
      <3>1. /\ DOMAIN d = DOMAIN view /\ d.tracks = t.tracks
            /\ d.stored = t.stored /\ d.given = t.given /\ d.live = t.live
            /\ d.asked = t.asked /\ d.index = t.index - 1 /\ d.src = t.src
            /\ d.paused = t.paused
        BY <2>b DEF MusicInv, MusicShape
      <3> HIDE DEF d
      <3>2. view.index \in 0..Len(view.tracks) /\ view.paused \in BOOLEAN
        BY DEF MusicInv, MusicPlayed, MusicPlays
      <3>3. d.index \in 1..Len(q) /\ ~(d.index < i) /\ d.index + 1 = view.index
        BY <2>b, <2>c, <2>d, <3>1, <3>2
      <3>4. q[d.index] = view.tracks[view.index]
        BY <2>c, <2>d, <3>3
      <3>5. d.src = view.tracks[view.index]
        BY <2>b, <3>1, <3>3, <2>c DEF MusicInv, MusicPlayed, MusicPlays
      <3> QED BY <2>b, <3>1, <3>2, <3>3, <3>4, <3>5 DEF MusicPlays
    <2>k. n # 0 =>
          /\ DOMAIN l = DOMAIN view /\ MusicPlays(l)
          /\ l.tracks = t.tracks /\ l.stored = t.stored
          /\ l.given = t.given /\ l.live = t.live
          /\ l.asked = t.asked
      <3>1. n # 0 => k \in 1..Len(t.tracks)
        <4>1. t.tracks = q
          BY <2>b
        <4>2. i \in Int /\ i >= 1 /\ n \in Nat
          BY <2>c, <2>h
        <4> HIDE DEF n
        <4>3. n # 0 => k \in 1..n
          BY <4>2
        <4> QED BY <4>3 DEF n
      <3>2. c \in BOOLEAN
        OBVIOUS
      <3> HIDE DEF c, k
      <3> QED BY <2>b, <2>d, <3>1, <3>2, MusicLoaded DEF MusicInv
    <2>l. t.index < i => MusicPlays(t)
      <3>1. view.index \in 0..Len(view.tracks) /\ view.paused \in BOOLEAN
        BY DEF MusicInv, MusicPlayed, MusicPlays
      <3>2. t.index < i => t.index \in 0..Len(q)
        BY <2>b, <2>c, <2>d, <3>1
      <3>3. t.index < i /\ t.index # 0 => q[t.index] = view.tracks[view.index]
        BY <2>b, <2>c, <2>d, <3>1
      <3> QED BY <2>b, <3>1, <3>2, <3>3 DEF MusicInv, MusicPlayed, MusicPlays
    <2>m. t.index \in Int /\ i \in Int /\ (i < t.index \/ i = t.index \/ t.index < i)
      BY <2>b, <2>c DEF MusicInv, MusicPlayed, MusicPlays
    <2>n. 0 \in 0..Len(q)
      BY <2>b, <2>h
    <2> HIDE DEF e, d, l, n
    <2>o. /\ DOMAIN view' = DOMAIN view /\ MusicPlays(view')
          /\ view'.tracks = t.tracks /\ view'.stored = t.stored
          /\ view'.given = t.given /\ view'.live = t.live /\ view'.asked = t.asked
      BY <2>a, <2>b, <2>i, <2>j, <2>k, <2>l, <2>m
    <2>1. MusicShape'
      BY <2>b, <2>g, <2>n, <2>o
         DEF MusicInv, MusicShape, MusicList, MusicPlays
    <2>2. MusicOwned'
      BY <2>b, <2>g, <2>n, <2>o
         DEF MusicInv, MusicShape, MusicOwned, MusicList, MusicPlays
    <2>3. MusicPlayed'
      BY <2>b, <2>g, <2>n, <2>o
         DEF MusicInv, MusicShape, MusicPlayed, MusicList, MusicPlays
    <2>4. MusicAsked'
      BY <2>b, <2>g, <2>n, <2>o
         DEF MusicInv, MusicShape, MusicAsked, MusicList, MusicPlays
    <2>5. MusicStored'
      BY <2>b, <2>g, <2>n, <2>o
         DEF MusicInv, MusicShape, MusicStored, MusicList, MusicPlays
    <2> QED BY <2>1, <2>2, <2>3, <2>4, <2>5 DEF MusicInv
  <1>4. CASE AMusic!Ended
    <2> DEFINE t == AMusic!step(view, 1)
    <2>a. view' = t /\ view.src # 0
      BY <1>4 DEF AMusic!Ended
    <2>b. view.tracks # <<>>
      BY <2>a, ListOf DEF MusicInv, MusicOwned, MusicList, MusicPlayed, MusicPlays
    <2>c. /\ DOMAIN t = DOMAIN view /\ MusicPlays(t)
          /\ t.tracks = view.tracks /\ t.stored = view.stored
          /\ t.given = view.given /\ t.live = view.live
          /\ t.asked = view.asked
      BY <2>b, MusicStepped
         DEF MusicInv, MusicOwned, MusicList, MusicPlayed
    <2> HIDE DEF t
    <2>1. MusicShape'
      BY <2>a, <2>c
         DEF MusicInv, MusicShape, MusicList, MusicPlays
    <2>2. MusicOwned'
      BY <2>a, <2>c
         DEF MusicInv, MusicShape, MusicOwned, MusicList, MusicPlays
    <2>3. MusicPlayed'
      BY <2>a, <2>c
         DEF MusicInv, MusicShape, MusicPlayed, MusicList, MusicPlays
    <2>4. MusicAsked'
      BY <2>a, <2>c
         DEF MusicInv, MusicShape, MusicAsked, MusicList, MusicPlays
    <2>5. MusicStored'
      BY <2>a, <2>c
         DEF MusicInv, MusicShape, MusicStored, MusicList, MusicPlays
    <2> QED BY <2>1, <2>2, <2>3, <2>4, <2>5 DEF MusicInv
  <1>5. CASE AMusic!Fails
    <2> DEFINE b == TRUE
    <2>a. view' = [view EXCEPT !.note = b]
      BY <1>5 DEF AMusic!Fails
    <2> HIDE DEF b
    <2>1. MusicShape'
      BY <2>a
         DEF MusicInv, MusicShape, MusicList, MusicPlays
    <2>2. MusicOwned'
      BY <2>a
         DEF MusicInv, MusicShape, MusicOwned, MusicList, MusicPlays
    <2>3. MusicPlayed'
      BY <2>a
         DEF MusicInv, MusicShape, MusicPlayed, MusicList, MusicPlays
    <2>4. MusicAsked'
      BY <2>a
         DEF MusicInv, MusicShape, MusicAsked, MusicList, MusicPlays
    <2>5. MusicStored'
      BY <2>a
         DEF MusicInv, MusicShape, MusicStored, MusicList, MusicPlays
    <2> QED BY <2>1, <2>2, <2>3, <2>4, <2>5 DEF MusicInv
  <1>6. ASSUME NEW delta \in {-1,1}, AMusic!Step(delta) PROVE MusicInv'
    <2> DEFINE t == AMusic!step(view, delta)
    <2>a. view' = t /\ view.tracks # <<>>
      BY <1>6 DEF AMusic!Step
    <2>b. /\ DOMAIN t = DOMAIN view /\ MusicPlays(t)
          /\ t.tracks = view.tracks /\ t.stored = view.stored
          /\ t.given = view.given /\ t.live = view.live
          /\ t.asked = view.asked
      BY <2>a, MusicStepped
         DEF MusicInv, MusicOwned, MusicList, MusicPlayed
    <2> HIDE DEF t
    <2>1. MusicShape'
      BY <2>a, <2>b
         DEF MusicInv, MusicShape, MusicList, MusicPlays
    <2>2. MusicOwned'
      BY <2>a, <2>b
         DEF MusicInv, MusicShape, MusicOwned, MusicList, MusicPlays
    <2>3. MusicPlayed'
      BY <2>a, <2>b
         DEF MusicInv, MusicShape, MusicPlayed, MusicList, MusicPlays
    <2>4. MusicAsked'
      BY <2>a, <2>b
         DEF MusicInv, MusicShape, MusicAsked, MusicList, MusicPlays
    <2>5. MusicStored'
      BY <2>a, <2>b
         DEF MusicInv, MusicShape, MusicStored, MusicList, MusicPlays
    <2> QED BY <2>1, <2>2, <2>3, <2>4, <2>5 DEF MusicInv
  <1>7. ASSUME NEW i \in 1..MaxTracks, AMusic!Pick(i) PROVE MusicInv'
    <2> DEFINE b == TRUE
               t == AMusic!load(view, i, b)
    <2>a. view' = t /\ i \in DOMAIN view.tracks
      BY <1>7 DEF AMusic!Pick
    <2>c. /\ DOMAIN t = DOMAIN view /\ MusicPlays(t)
          /\ t.tracks = view.tracks /\ t.stored = view.stored
          /\ t.given = view.given /\ t.live = view.live
          /\ t.asked = view.asked
      <3>1. i \in 1..Len(view.tracks)
        BY <2>a, ListOf DEF MusicInv, MusicOwned, MusicList
      <3>2. b \in BOOLEAN
        OBVIOUS
      <3> HIDE DEF b
      <3> QED BY <3>1, <3>2, MusicLoaded DEF MusicInv, MusicOwned, MusicList
    <2> HIDE DEF t
    <2>1. MusicShape'
      BY <2>a, <2>c
         DEF MusicInv, MusicShape, MusicList, MusicPlays
    <2>2. MusicOwned'
      BY <2>a, <2>c
         DEF MusicInv, MusicShape, MusicOwned, MusicList, MusicPlays
    <2>3. MusicPlayed'
      BY <2>a, <2>c
         DEF MusicInv, MusicShape, MusicPlayed, MusicList, MusicPlays
    <2>4. MusicAsked'
      BY <2>a, <2>c
         DEF MusicInv, MusicShape, MusicAsked, MusicList, MusicPlays
    <2>5. MusicStored'
      BY <2>a, <2>c
         DEF MusicInv, MusicShape, MusicStored, MusicList, MusicPlays
    <2> QED BY <2>1, <2>2, <2>3, <2>4, <2>5 DEF MusicInv
  <1>8. ASSUME NEW i \in 1..MaxTracks, AMusic!Drop(i) PROVE MusicInv'
    <2>a. view' = [view EXCEPT !.asked = i] /\ i \in 0..Len(view.tracks)
      BY <1>8, ListOf DEF MusicInv, MusicOwned, MusicList, AMusic!Drop
    <2>1. MusicShape'
      BY <2>a
         DEF MusicInv, MusicShape, MusicList, MusicPlays
    <2>2. MusicOwned'
      BY <2>a
         DEF MusicInv, MusicShape, MusicOwned, MusicList, MusicPlays
    <2>3. MusicPlayed'
      BY <2>a
         DEF MusicInv, MusicShape, MusicPlayed, MusicList, MusicPlays
    <2>4. MusicAsked'
      BY <2>a
         DEF MusicInv, MusicShape, MusicAsked, MusicList, MusicPlays
    <2>5. MusicStored'
      BY <2>a
         DEF MusicInv, MusicShape, MusicStored, MusicList, MusicPlays
    <2> QED BY <2>1, <2>2, <2>3, <2>4, <2>5 DEF MusicInv
  <1>9. ASSUME NEW u \in Things, NEW full \in BOOLEAN, AMusic!addUrl(u, full) PROVE MusicInv'
    <2> DEFINE q == Append(view.tracks, u)
               b == FALSE
               w == TRUE
               r == [view EXCEPT !.tracks = q, !.note = b]
               s == AMusic!persistUrls(r)
               t == AMusic!load(s, Len(s.tracks), b)
    <2>a. view' = IF ~full THEN [view EXCEPT !.note = w]
                  ELSE IF s.index = 0 THEN t ELSE s
      BY <1>9 DEF AMusic!addUrl
    <2>b. /\ DOMAIN s = DOMAIN view /\ s.tracks = q /\ s.index = view.index
          /\ s.src = view.src /\ s.paused = view.paused /\ s.given = view.given
          /\ s.live = view.live /\ s.asked = view.asked
          /\ s.stored = AMusic!Addresses(q)
      BY DEF MusicInv, MusicShape, AMusic!persistUrls
    <2> HIDE DEF r, s
    <2>c. /\ q \in Seq(Things \cup More) /\ Len(q) = Len(view.tracks) + 1
          /\ Len(view.tracks) \in Nat /\ DOMAIN q = 1..Len(q)
          /\ DOMAIN view.tracks = 1..Len(view.tracks)
          /\ q[Len(view.tracks) + 1] = u /\ u \notin More
          /\ \A i \in DOMAIN view.tracks : q[i] = view.tracks[i]
      BY Bounds, ListOf, ListAppended DEF MusicInv, MusicOwned, MusicList
    <2> HIDE DEF q
    <2>d. MusicList(s)
      BY <2>b, <2>c DEF MusicInv, MusicOwned, MusicList
    <2>e. s.index # 0 => MusicPlays(s)
      BY <2>b, <2>c DEF MusicInv, MusicPlayed, MusicPlays
    <2>f. /\ DOMAIN t = DOMAIN view /\ MusicPlays(t)
          /\ t.tracks = s.tracks /\ t.stored = s.stored
          /\ t.given = s.given /\ t.live = s.live
          /\ t.asked = s.asked
      <3>1. Len(s.tracks) \in 1..Len(s.tracks)
        BY <2>b, <2>c
      <3>2. b \in BOOLEAN
        OBVIOUS
      <3> HIDE DEF b
      <3> QED BY <2>b, <2>c, <3>1, <3>2, MusicLoaded DEF MusicInv
    <2>g. s.asked \in 0..Len(s.tracks)
      BY <2>b, <2>c DEF MusicInv, MusicAsked
    <2> HIDE DEF t, w
    <2>1. MusicShape'
      BY <2>a, <2>b, <2>d, <2>e, <2>f, <2>g
         DEF MusicInv, MusicShape, MusicList, MusicPlays
    <2>2. MusicOwned'
      BY <2>a, <2>b, <2>d, <2>e, <2>f, <2>g
         DEF MusicInv, MusicShape, MusicOwned, MusicList, MusicPlays
    <2>3. MusicPlayed'
      BY <2>a, <2>b, <2>d, <2>e, <2>f, <2>g
         DEF MusicInv, MusicShape, MusicPlayed, MusicList, MusicPlays
    <2>4. MusicAsked'
      BY <2>a, <2>b, <2>d, <2>e, <2>f, <2>g
         DEF MusicInv, MusicShape, MusicAsked, MusicList, MusicPlays
    <2>5. MusicStored'
      BY <2>a, <2>b, <2>d, <2>e, <2>f, <2>g
         DEF MusicInv, MusicShape, MusicStored, MusicList, MusicPlays
    <2> QED BY <2>1, <2>2, <2>3, <2>4, <2>5 DEF MusicInv
  <1>10. ASSUME NEW fs \in Seq(More), AMusic!IsInjective(fs),
                     AMusic!addFiles(fs, TRUE)
              PROVE  MusicInv'
    <2> DEFINE q == view.tracks \o fs
               f == AMusic!Range(fs)
               b == FALSE
               s == [view EXCEPT !.tracks = q, !.given = @ \cup f,
                                 !.live = @ \cup f]
               l == AMusic!load(s, 1, b)
               t == IF s.index = 0 /\ s.tracks # <<>> THEN l ELSE s
               n == IF fs # <<>> THEN FALSE ELSE t.note \/ TRUE
    <2>a. view' = [t EXCEPT !.note = n] /\ f \cap view.given = {}
      BY <1>10 DEF AMusic!addFiles
    <2>b. /\ DOMAIN s = DOMAIN view /\ s.tracks = q /\ s.index = view.index
          /\ s.src = view.src /\ s.paused = view.paused
          /\ s.given = view.given \cup f /\ s.live = view.live \cup f
          /\ s.asked = view.asked /\ s.stored = view.stored
      BY DEF MusicInv, MusicShape
    <2> HIDE DEF s, n
    <2>c. /\ q \in Seq(Things \cup More) /\ Len(q) = Len(view.tracks) + Len(fs)
          /\ Len(view.tracks) \in Nat /\ Len(fs) \in Nat /\ DOMAIN q = 1..Len(q)
          /\ DOMAIN view.tracks = 1..Len(view.tracks) /\ DOMAIN fs = 1..Len(fs)
          /\ \A i \in 1..Len(view.tracks) : q[i] = view.tracks[i]
          /\ \A i \in 1..Len(fs) : q[Len(view.tracks) + i] = fs[i]
      <3>1. view.tracks \in Seq(Things \cup More) /\ fs \in Seq(Things \cup More)
        BY DEF MusicInv, MusicOwned, MusicList
      <3> HIDE DEF MusicInv
      <3> QED BY <3>1
    <2>d. /\ \A i \in 1..Len(fs) : fs[i] \in More /\ fs[i] \in f
          /\ \A m \in f : \E i \in 1..Len(fs) : fs[i] = m
          /\ f \subseteq More
          /\ \A i, j \in 1..Len(fs) : i # j => fs[i] # fs[j]
      <3>1. \A i \in 1..Len(fs) : fs[i] \in More
        OBVIOUS
      <3>2. \A i \in 1..Len(fs) : fs[i] \in f
        BY <2>c DEF AMusic!Range
      <3>3. \A m \in f : \E i \in 1..Len(fs) : fs[i] = m
        BY <2>c DEF AMusic!Range
      <3>4. \A i, j \in 1..Len(fs) : i # j => fs[i] # fs[j]
        <4>1. \A i, j \in DOMAIN fs : fs[i] = fs[j] => i = j
          BY <1>10 DEF AMusic!IsInjective
        <4> QED BY <2>c, <4>1
      <3> HIDE DEF f
      <3> QED BY <3>1, <3>2, <3>3, <3>4
    <2> HIDE DEF q, f
    <2>e. \A k \in 1..Len(q) :
            \/ k \in 1..Len(view.tracks) /\ q[k] = view.tracks[k]
            \/ \E i \in 1..Len(fs) : k = Len(view.tracks) + i /\ q[k] = fs[i]
      <3> SUFFICES ASSUME NEW k \in 1..Len(q), k \notin 1..Len(view.tracks)
                   PROVE  \E i \in 1..Len(fs) :
                            k = Len(view.tracks) + i /\ q[k] = fs[i]
        BY <2>c
      <3>1. k - Len(view.tracks) \in 1..Len(fs)
            /\ k = Len(view.tracks) + (k - Len(view.tracks))
        BY <2>c
      <3> QED BY <2>c, <3>1
    <2>g. MusicList(s)
      <3>1. \A m \in s.live : m \in More /\ \E i \in DOMAIN q : q[i] = m
        <4> SUFFICES ASSUME NEW m \in s.live
                     PROVE  m \in More /\ \E i \in DOMAIN q : q[i] = m
          OBVIOUS
        <4>1. CASE m \in view.live
          <5>1. PICK i \in DOMAIN view.tracks : view.tracks[i] = m
            BY <4>1 DEF MusicInv, MusicOwned, MusicList
          <5>2. i \in DOMAIN q /\ q[i] = m /\ m \in More
            BY <2>c, <4>1, <5>1 DEF MusicInv, MusicOwned, MusicList
          <5> QED BY <5>2
        <4>2. CASE m \in f
          <5>1. PICK i \in 1..Len(fs) : fs[i] = m
            BY <2>d, <4>2
          <5>2. Len(view.tracks) + i \in DOMAIN q /\ q[Len(view.tracks) + i] = m
            BY <2>c, <5>1
          <5> QED BY <2>d, <4>2, <5>2
        <4> QED BY <2>b, <4>1, <4>2
      <3>2. \A i \in DOMAIN q : q[i] \in More => q[i] \in s.live
        <4> SUFFICES ASSUME NEW i \in DOMAIN q, q[i] \in More
                     PROVE  q[i] \in view.live \/ q[i] \in f
          BY <2>b
        <4>1. CASE i \in 1..Len(view.tracks) /\ q[i] = view.tracks[i]
          BY <2>c, <4>1 DEF MusicInv, MusicOwned, MusicList
        <4>2. CASE \E k \in 1..Len(fs) : q[i] = fs[k]
          BY <2>d, <4>2
        <4> QED BY <2>c, <2>e, <4>1, <4>2
      <3>3. s.live \subseteq s.given /\ s.given \subseteq More
        BY <2>b, <2>d DEF MusicInv, MusicOwned, MusicList
      <3>4. ASSUME NEW i \in DOMAIN q, NEW j \in DOMAIN q, i # j, q[i] \in More
            PROVE  q[i] # q[j]
        <4>1. \A k \in 1..Len(view.tracks) :
                view.tracks[k] \in More => view.tracks[k] \in view.given
          BY <2>c DEF MusicInv, MusicOwned, MusicList
        <4>2. \A k \in 1..Len(fs) : fs[k] \notin view.given
          BY <2>a, <2>d DEF f
        <4>3. CASE i \in 1..Len(view.tracks) /\ j \in 1..Len(view.tracks)
          <5>1. \A k, m \in 1..Len(view.tracks) :
                  k # m /\ view.tracks[k] \in More
                    => view.tracks[k] # view.tracks[m]
            BY <2>c DEF MusicInv, MusicOwned, MusicList
          <5>2. q[i] = view.tracks[i] /\ q[j] = view.tracks[j]
            BY <2>c, <4>3
          <5> QED BY <3>4, <4>3, <5>1, <5>2
        <4>4. CASE ~(i \in 1..Len(view.tracks)) /\ j \in 1..Len(view.tracks)
          <5>1. PICK a \in 1..Len(fs) : q[i] = fs[a]
            BY <2>c, <2>e, <4>4
          <5>2. q[j] = view.tracks[j]
            BY <2>c, <4>4
          <5> QED BY <3>4, <4>1, <4>2, <4>4, <5>1, <5>2
        <4>5. CASE i \in 1..Len(view.tracks) /\ ~(j \in 1..Len(view.tracks))
          <5>1. PICK a \in 1..Len(fs) : q[j] = fs[a]
            BY <2>c, <2>e, <4>5
          <5>2. q[i] = view.tracks[i]
            BY <2>c, <4>5
          <5> QED BY <3>4, <4>1, <4>2, <4>5, <5>1, <5>2
        <4>6. CASE ~(i \in 1..Len(view.tracks)) /\ ~(j \in 1..Len(view.tracks))
          <5>1. PICK a \in 1..Len(fs) : i = Len(view.tracks) + a /\ q[i] = fs[a]
            BY <2>c, <2>e, <4>6
          <5>2. PICK c \in 1..Len(fs) : j = Len(view.tracks) + c /\ q[j] = fs[c]
            BY <2>c, <2>e, <4>6
          <5> QED BY <2>d, <3>4, <5>1, <5>2
        <4> QED BY <4>3, <4>4, <4>5, <4>6
      <3> QED BY <2>b, <2>c, <3>1, <3>2, <3>3, <3>4 DEF MusicList
    <2>h. AMusic!Addresses(q) = AMusic!Addresses(view.tracks)
      <3>1. {j \in DOMAIN q : q[j] \in Things}
              = {j \in DOMAIN view.tracks : view.tracks[j] \in Things}
        <4>1. \A k \in 1..Len(fs) : fs[k] \notin Things
          BY Bounds, <2>d
        <4>2. 1..Len(view.tracks) \subseteq 1..Len(q)
          BY <2>c
        <4>3. \A k \in DOMAIN q : q[k] \in Things => k \in DOMAIN view.tracks
          BY <2>c, <2>e, <4>1
        <4> QED BY <2>c, <4>2, <4>3
      <3>2. \A k \in DOMAIN view.tracks : q[k] = view.tracks[k]
        BY <2>c
      <3> DEFINE A == {j \in DOMAIN q : q[j] \in Things}
                 B == {j \in DOMAIN view.tracks : view.tracks[j] \in Things}
      <3>3. [k \in A |-> q[k]] = [k \in B |-> view.tracks[k]]
        BY <3>1, <3>2
      <3> QED BY <3>3 DEF AMusic!Addresses
    <2>i. s.index # 0 => MusicPlays(s)
      BY <2>b, <2>c DEF MusicInv, MusicPlayed, MusicPlays
    <2>j. s.tracks = <<>> => MusicPlays(s)
      BY <2>b, <2>c, ListOf DEF MusicInv, MusicPlayed, MusicPlays
    <2>k. s.tracks # <<>> =>
          /\ DOMAIN l = DOMAIN view /\ MusicPlays(l)
          /\ l.tracks = s.tracks /\ l.stored = s.stored
          /\ l.given = s.given /\ l.live = s.live
          /\ l.asked = s.asked
      <3>1. s.tracks # <<>> => 1 \in 1..Len(s.tracks)
        BY <2>b, <2>c, ListOf
      <3>2. b \in BOOLEAN
        OBVIOUS
      <3> HIDE DEF b
      <3> QED BY <2>b, <2>c, <3>1, <3>2, MusicLoaded DEF MusicInv
    <2> HIDE DEF l
    <2>l. /\ DOMAIN t = DOMAIN view /\ MusicPlays(t) /\ t.tracks = s.tracks
          /\ t.stored = s.stored /\ t.given = s.given /\ t.live = s.live
          /\ t.asked = s.asked
      BY <2>b, <2>i, <2>j, <2>k
    <2> HIDE DEF t
    <2>m. /\ DOMAIN view' = DOMAIN view /\ view'.tracks = s.tracks
          /\ view'.stored = s.stored /\ view'.given = s.given
          /\ view'.live = s.live /\ view'.asked = s.asked
          /\ view'.index = t.index /\ view'.src = t.src
          /\ view'.paused = t.paused
      BY <2>a, <2>l DEF MusicInv, MusicShape
    <2>n. view.asked \in 0..Len(q)
      BY <2>c DEF MusicInv, MusicAsked
    <2>1. MusicShape'
      BY <2>b, <2>g, <2>h, <2>l, <2>m, <2>n
         DEF MusicInv, MusicShape, MusicList, MusicPlays
    <2>2. MusicOwned'
      BY <2>b, <2>g, <2>h, <2>l, <2>m, <2>n
         DEF MusicInv, MusicShape, MusicOwned, MusicList, MusicPlays
    <2>3. MusicPlayed'
      BY <2>b, <2>g, <2>h, <2>l, <2>m, <2>n
         DEF MusicInv, MusicShape, MusicPlayed, MusicList, MusicPlays
    <2>4. MusicAsked'
      BY <2>b, <2>g, <2>h, <2>l, <2>m, <2>n
         DEF MusicInv, MusicShape, MusicAsked, MusicList, MusicPlays
    <2>5. MusicStored'
      BY <2>b, <2>g, <2>h, <2>l, <2>m, <2>n
         DEF MusicInv, MusicShape, MusicStored, MusicList, MusicPlays
    <2> QED BY <2>1, <2>2, <2>3, <2>4, <2>5 DEF MusicInv
  <1> DEFINE F == {<<>>} \cup {<<b>> : b \in More} \cup (More \X More)
  <1>11. ASSUME NEW fs \in F, AMusic!IsInjective(fs),
                AMusic!addFiles(fs, TRUE)
         PROVE  MusicInv'
    <2>1. fs \in Seq(More)
      BY MusicFiles
    <2> QED BY <1>10, <1>11, <2>1
  <1> QED
    BY <1>1, <1>2, <1>3, <1>4, <1>5, <1>6, <1>7, <1>8, <1>9, <1>10, <1>11 DEF
       AMusic!Next

\* That gives the properties of AMusic.
LEMMA MusicHolds == MusicInv => AMusic!InStep /\ AMusic!Kept
  <1> SUFFICES ASSUME MusicInv PROVE AMusic!InStep /\ AMusic!Kept
    OBVIOUS
  <1>1. AMusic!InStep
    <2>1. view.index # 0 => view.tracks[view.index] # 0
      BY Bounds, ListOf DEF MusicInv, MusicOwned, MusicPlayed, MusicList, MusicPlays
    <2> QED
      BY <2>1 DEF MusicInv, MusicPlayed, MusicPlays, MusicStored, AMusic!InStep,
                  AMusic!current
  <1>2. AMusic!Kept
    BY DEF MusicInv, MusicOwned, MusicList, AMusic!Kept, AMusic!Range
  <1> QED BY <1>1, <1>2

\* It holds from the first state on when the page is this one.
LEMMA MusicStays ==
  /\ Init => (subject = "music" => MusicInv)
  /\ (subject = "music" => MusicInv) /\ [Next]_vars
       => (subject = "music" => MusicInv)'
  <1>1. Init => (subject = "music" => MusicInv)
    BY MusicInit DEF Init
  <1>2. (subject = "music" => MusicInv) /\ [Next]_vars
          => (subject = "music" => MusicInv)'
    <2>1. ASSUME MusicInv, view' = view PROVE MusicInv'
      BY <2>1 DEF MusicInv, MusicShape, MusicOwned, MusicPlayed, MusicAsked,
          MusicStored, MusicList, MusicPlays
    <2> QED BY <2>1, MusicStep DEF Next, vars
  <1> QED BY <1>1, <1>2

-----------------------------------------------------------------------------
(* A tool of the Tools view.  A row drawn with no change on its way has    *)
(* the object, and is the row of every change since; and unless changes    *)
(* crossed, the list holds what the server holds but for the one change on *)
(* its way.                                                                *)

ToolShape ==
  DOMAIN view = {"srv", "obj", "row", "shown", "failed", "posts", "loads",
                 "crossed", "torn"}
ToolPost ==
  [toggles : BOOLEAN, value : Int, took : BOOLEAN, mine : BOOLEAN,
   here : BOOLEAN]
ToolAt == [on : BOOLEAN, cfg : Int]
ToolFace == [on : BOOLEAN, text : Int, switching : BOOLEAN, saving : BOOLEAN]
ToolLoad == [read : BOOLEAN, at : ToolAt, clean : BOOLEAN]
ToolSorts(s) ==
  /\ s.posts \in Seq(ToolPost) /\ s.loads \in Seq(ToolLoad)
  /\ s.srv \in ToolAt /\ s.obj \in ToolAt /\ s.row \in ToolFace
ToolDrawn(s) ==
  ~s.torn => /\ s.row.on = s.obj.on
             /\ \A i \in DOMAIN s.posts : s.posts[i].mine /\ s.posts[i].here
ToolClean(s) ==
  \A i \in DOMAIN s.loads :
    s.loads[i].clean => /\ s.posts = <<>>
                        /\ s.loads[i].read => s.loads[i].at = s.srv
ToolFollows(s, p) ==
  /\ p.mine /\ (p.took => s.srv = AToolRow!Wrote(s.obj, p))
  /\ ~p.took => s.srv = s.obj
ToolAlone(s) ==
  ~s.crossed => /\ Len(s.posts) <= 1 /\ (s.posts = <<>> => s.obj = s.srv)
                /\ \A i \in DOMAIN s.posts : ToolFollows(s, s.posts[i])
ToolAll(s) == ToolSorts(s) /\ ToolDrawn(s) /\ ToolClean(s) /\ ToolAlone(s)
ToolOk ==
  ToolAll(view)
ToolInv == ToolShape /\ ToolOk

\* A change of a tool, a load of the list and a row are their fields.
LEMMA ToolPosts ==
  \A p \in ToolPost :
    /\ p.toggles \in BOOLEAN /\ p.value \in Int /\ p.took \in BOOLEAN
    /\ p.mine \in BOOLEAN /\ p.here \in BOOLEAN
  BY DEF ToolPost

\* A new request.
LEMMA ToolNewPost ==
  ASSUME NEW b \in BOOLEAN, NEW v \in Int
  PROVE  LET p == [toggles |-> b, value |-> v, took |-> FALSE, mine |-> TRUE,
                   here |-> TRUE]
         IN p \in ToolPost /\ ~p.took /\ p.mine /\ p.here
  <1> DEFINE no == FALSE
             yes == TRUE
  <1>1. no \in BOOLEAN /\ yes \in BOOLEAN /\ ~no /\ yes
    OBVIOUS
  <1> HIDE DEF no, yes
  <1>2. LET p == [toggles |-> b, value |-> v, took |-> no, mine |-> yes,
                  here |-> yes]
        IN p \in ToolPost /\ ~p.took /\ p.mine /\ p.here
    BY <1>1 DEF ToolPost
  <1> QED BY <1>2 DEF no, yes

\* The server took it; the list, or the row, is no longer its own.
LEMMA ToolTook ==
  ASSUME NEW p \in ToolPost
  PROVE  LET q == [p EXCEPT !.took = TRUE]
         IN /\ q \in ToolPost /\ (q.toggles <=> p.toggles) /\ q.value = p.value
            /\ q.took /\ (q.mine <=> p.mine) /\ (q.here <=> p.here)
  <1> DEFINE b == TRUE
  <1>1. b \in BOOLEAN /\ b
    OBVIOUS
  <1> HIDE DEF b
  <1>2. LET q == [p EXCEPT !.took = b]
        IN /\ q \in ToolPost /\ (q.toggles <=> p.toggles) /\ q.value = p.value
           /\ q.took /\ (q.mine <=> p.mine) /\ (q.here <=> p.here)
    BY <1>1 DEF ToolPost
  <1> QED BY <1>2 DEF b

\* One whose row was drawn again.
LEMMA ToolNotMine ==
  ASSUME NEW p \in ToolPost
  PROVE  LET q == [p EXCEPT !.mine = FALSE]
         IN /\ q \in ToolPost /\ (q.toggles <=> p.toggles) /\ q.value = p.value
            /\ (q.took <=> p.took) /\ ~q.mine /\ (q.here <=> p.here)
  <1> DEFINE b == FALSE
  <1>1. b \in BOOLEAN /\ ~b
    OBVIOUS
  <1> HIDE DEF b
  <1>2. LET q == [p EXCEPT !.mine = b]
        IN /\ q \in ToolPost /\ (q.toggles <=> p.toggles) /\ q.value = p.value
           /\ (q.took <=> p.took) /\ ~q.mine /\ (q.here <=> p.here)
    BY <1>1 DEF ToolPost
  <1> QED BY <1>2 DEF b

\* One whose object was read again.
LEMMA ToolNotHere ==
  ASSUME NEW p \in ToolPost
  PROVE  LET q == [p EXCEPT !.here = FALSE]
         IN /\ q \in ToolPost /\ (q.toggles <=> p.toggles) /\ q.value = p.value
            /\ (q.took <=> p.took) /\ (q.mine <=> p.mine) /\ ~q.here
  <1> DEFINE b == FALSE
  <1>1. b \in BOOLEAN /\ ~b
    OBVIOUS
  <1> HIDE DEF b
  <1>2. LET q == [p EXCEPT !.here = b]
        IN /\ q \in ToolPost /\ (q.toggles <=> p.toggles) /\ q.value = p.value
           /\ (q.took <=> p.took) /\ (q.mine <=> p.mine) /\ ~q.here
    BY <1>1 DEF ToolPost
  <1> QED BY <1>2 DEF b

\* What a load is, new and read.
LEMMA ToolLoads ==
  /\ \A l \in ToolLoad :
       l.read \in BOOLEAN /\ l.at \in ToolAt /\ l.clean \in BOOLEAN
  /\ \A c \in BOOLEAN :
       LET l == [read |-> FALSE, at |-> AToolRow!At(FALSE, 0), clean |-> c]
       IN l \in ToolLoad /\ ~l.read /\ (l.clean <=> c)
  /\ \A l \in ToolLoad, at \in ToolAt :
       LET k == [[l EXCEPT !.read = TRUE] EXCEPT !.at = at]
       IN k \in ToolLoad /\ (k.clean <=> l.clean) /\ k.at = at
  <1> DEFINE no == FALSE
             yes == TRUE
             a == AToolRow!At(no, 0)
  <1>1. no \in BOOLEAN /\ yes \in BOOLEAN /\ ~no
    OBVIOUS
  <1> HIDE DEF no, yes
  <1>2. a \in ToolAt
    BY <1>1 DEF ToolAt, AToolRow!At
  <1> HIDE DEF a
  <1>3. \A l \in ToolLoad :
          l.read \in BOOLEAN /\ l.at \in ToolAt /\ l.clean \in BOOLEAN
    BY DEF ToolLoad
  <1>4. \A c \in BOOLEAN :
          LET l == [read |-> no, at |-> a, clean |-> c]
          IN l \in ToolLoad /\ ~l.read /\ (l.clean <=> c)
    BY <1>1, <1>2 DEF ToolLoad
  <1>5. \A l \in ToolLoad, at \in ToolAt :
          LET k == [[l EXCEPT !.read = yes] EXCEPT !.at = at]
          IN k \in ToolLoad /\ (k.clean <=> l.clean) /\ k.at = at
    BY <1>1 DEF ToolLoad
  <1> QED BY <1>3, <1>4, <1>5, Zenon DEF no, yes, a

\* A change went out meanwhile.
LEMMA ToolSoiled ==
  ASSUME NEW p \in ToolLoad
  PROVE  LET q == [p EXCEPT !.clean = FALSE]
         IN /\ q \in ToolLoad /\ (q.read <=> p.read)
            /\ q.at = p.at /\ ~q.clean
  <1> DEFINE b == FALSE
  <1>1. b \in BOOLEAN /\ ~b
    OBVIOUS
  <1> HIDE DEF b
  <1>2. LET q == [p EXCEPT !.clean = b]
        IN /\ q \in ToolLoad /\ (q.read <=> p.read)
           /\ q.at = p.at /\ ~q.clean
    BY <1>1 DEF ToolLoad
  <1> QED BY <1>2 DEF b

\* What a row shows, drawn and changed.
LEMMA ToolFaces ==
  /\ \A at \in ToolAt :
       LET f == [on |-> at.on, text |-> at.cfg, switching |-> FALSE,
                 saving |-> FALSE]
       IN f \in ToolFace /\ f.on = at.on
  /\ \A f \in ToolFace :
       /\ f.text \in Int
       /\ \A v \in Int : [f EXCEPT !.text = v] \in ToolFace
                         /\ [f EXCEPT !.text = v].on = f.on
       /\ \A b \in BOOLEAN :
            /\ [f EXCEPT !.switching = b] \in ToolFace
            /\ [f EXCEPT !.switching = b].on = f.on
            /\ [f EXCEPT !.saving = b] \in ToolFace
            /\ [f EXCEPT !.saving = b].on = f.on
            /\ [f EXCEPT !.on = b] \in ToolFace
            /\ [f EXCEPT !.on = b].on = b
  BY DEF ToolAt, ToolFace

\* What a change makes of the object.
LEMMA ToolWrote ==
  ASSUME NEW at \in ToolAt, NEW p \in ToolPost
  PROVE  /\ AToolRow!Wrote(at, p) \in ToolAt
         /\ p.toggles => AToolRow!Wrote(at, p).on = (p.value = 1)
         /\ ~p.toggles => AToolRow!Wrote(at, p).on = at.on
         /\ at.on \in BOOLEAN
         /\ \A q : (q.toggles <=> p.toggles) /\ q.value = p.value
              => AToolRow!Wrote(at, q) = AToolRow!Wrote(at, p)
  <1> DEFINE b == p.value = 1
  <1>1. b \in BOOLEAN
    OBVIOUS
  <1>2. \A q : (q.toggles <=> p.toggles) /\ q.value = p.value
          => AToolRow!Wrote(at, q) = AToolRow!Wrote(at, p)
    BY DEF AToolRow!Wrote
  <1>3. p.value \in Int
    BY DEF ToolPost
  <1>4. AToolRow!Wrote(at, p) = IF p.toggles THEN [at EXCEPT !.on = b]
                                ELSE [at EXCEPT !.cfg = p.value]
    BY DEF AToolRow!Wrote
  <1> HIDE DEF b
  <1>5. /\ AToolRow!Wrote(at, p) \in ToolAt
        /\ p.toggles => AToolRow!Wrote(at, p).on = b
        /\ ~p.toggles => AToolRow!Wrote(at, p).on = at.on
        /\ at.on \in BOOLEAN
    BY <1>1, <1>3, <1>4 DEF ToolAt
  <1> QED BY <1>2, <1>5 DEF b

\* The row is drawn.
LEMMA ToolDrew ==
  ASSUME ToolShape, NEW s, DOMAIN s = DOMAIN view, ToolSorts(s), ToolClean(s),
         ToolAlone(s), NEW shown
  PROVE  LET t == AToolRow!renderTools(s, shown)
         IN DOMAIN t = DOMAIN view /\ ToolAll(t)
  <1> DEFINE f == [on |-> s.obj.on, text |-> s.obj.cfg, switching |-> FALSE,
                   saving |-> FALSE]
             b == s.posts # <<>>
             q == [i \in DOMAIN s.posts |-> [s.posts[i] EXCEPT !.here = FALSE]]
             t == AToolRow!renderTools(s, shown)
  <1>1. t = [s EXCEPT !.row = f, !.shown = shown, !.torn = b, !.posts = q]
    BY DEF AToolRow!renderTools, ToolShape
  <1>2. f \in ToolFace /\ f.on = s.obj.on
    BY ToolFaces DEF ToolSorts
  <1>3. b <=> s.posts # <<>>
    OBVIOUS
  <1> HIDE DEF f, b
  <1>4. /\ q \in Seq(ToolPost) /\ DOMAIN q = DOMAIN s.posts
        /\ Len(q) = Len(s.posts) /\ (q = <<>> <=> s.posts = <<>>)
        /\ \A i \in DOMAIN q :
             /\ q[i].value = s.posts[i].value
             /\ (q[i].toggles <=> s.posts[i].toggles)
             /\ (q[i].took <=> s.posts[i].took)
             /\ (q[i].mine <=> s.posts[i].mine)
             /\ s.posts[i] \in ToolPost
    <2>1. s.posts \in Seq(ToolPost)
      BY DEF ToolSorts
    <2>2. ASSUME NEW i \in DOMAIN s.posts
          PROVE  /\ q[i] \in ToolPost /\ q[i].value = s.posts[i].value
                 /\ (q[i].toggles <=> s.posts[i].toggles)
                 /\ (q[i].took <=> s.posts[i].took)
                 /\ (q[i].mine <=> s.posts[i].mine)
                 /\ s.posts[i] \in ToolPost
      <3> DEFINE l == s.posts[i]
                 k == [l EXCEPT !.here = FALSE]
      <3>1. l \in ToolPost /\ q[i] = k
        BY <2>1, ListOf
      <3> HIDE DEF l, q
      <3>2. /\ k \in ToolPost /\ k.value = l.value /\ (k.toggles <=> l.toggles)
            /\ (k.took <=> l.took) /\ (k.mine <=> l.mine)
        BY <3>1, ToolNotHere
      <3> HIDE DEF k
      <3> QED BY <3>1, <3>2 DEF l
    <2>3. q = [i \in DOMAIN s.posts |-> q[i]] /\ DOMAIN q = DOMAIN s.posts
      OBVIOUS
    <2> HIDE DEF q
    <2>4. q \in Seq(ToolPost) /\ Len(q) = Len(s.posts)
      BY <2>1, <2>2, <2>3, ListMapped
    <2> QED BY <2>1, <2>2, <2>3, <2>4, ListOf
  <1> HIDE DEF q
  <1>5. /\ DOMAIN t = DOMAIN view /\ t.srv = s.srv /\ t.obj = s.obj
        /\ t.row = f /\ t.shown = shown /\ t.failed = s.failed /\ t.posts = q
        /\ t.loads = s.loads /\ t.crossed = s.crossed /\ t.torn = b
    BY <1>1 DEF ToolShape
  <1> HIDE DEF t
  <1>6. ToolSorts(t)
    BY <1>2, <1>4, <1>5 DEF ToolSorts
  <1>7. ToolDrawn(t)
    BY <1>2, <1>3, <1>4, <1>5 DEF ToolDrawn
  <1>8. ToolClean(t)
    BY <1>4, <1>5 DEF ToolClean
  <1>9. ToolAlone(t)
    <2>1. ASSUME NEW i \in DOMAIN q, ToolFollows(s, s.posts[i])
          PROVE  ToolFollows(t, q[i])
      <3> DEFINE p == s.posts[i]
                 k == q[i]
      <3>1. /\ p \in ToolPost /\ (k.took <=> p.took) /\ (k.mine <=> p.mine)
            /\ k.value = p.value /\ (k.toggles <=> p.toggles)
        BY <1>4
      <3>2. ToolFollows(s, p) /\ s.obj \in ToolAt
        BY <2>1 DEF ToolSorts
      <3> HIDE DEF p, k
      <3>3. AToolRow!Wrote(s.obj, k) = AToolRow!Wrote(s.obj, p)
        BY <3>1, <3>2, ToolWrote
      <3>4. ToolFollows(t, k)
        BY <1>5, <3>1, <3>2, <3>3 DEF ToolFollows
      <3> QED BY <3>4 DEF k
    <2> QED BY <1>4, <1>5, <2>1 DEF ToolAlone
  <1> QED BY <1>5, <1>6, <1>7, <1>8, <1>9 DEF ToolAll, t

\* A change goes out, and the row waits for it.
LEMMA ToolPosting ==
  ASSUME ToolInv, NEW b \in BOOLEAN, NEW v \in Int, NEW f \in ToolFace,
         f.on = view.row.on
  PROVE  LET t == [AToolRow!Post(view, b, v) EXCEPT !.row = f]
         IN DOMAIN t = DOMAIN view /\ ToolAll(t)
  <1> DEFINE n == [toggles |-> b, value |-> v, took |-> FALSE, mine |-> TRUE,
                   here |-> TRUE]
             q == Append(view.posts, n)
             m == [i \in DOMAIN view.loads |->
                     [view.loads[i] EXCEPT !.clean = FALSE]]
             c == view.crossed \/ view.posts # <<>>
             s == [view EXCEPT !.posts = q, !.loads = m, !.crossed = c]
             t == [s EXCEPT !.row = f]
  <1>1. AToolRow!Post(view, b, v) = s
    BY DEF AToolRow!Post, ToolInv, ToolShape
  <1>2. n \in ToolPost /\ ~n.took /\ n.mine /\ n.here
    BY ToolNewPost
  <1>3. c <=> view.crossed \/ view.posts # <<>>
    OBVIOUS
  <1> HIDE DEF n, c
  <1>4. /\ view.posts \in Seq(ToolPost) /\ view.loads \in Seq(ToolLoad)
        /\ view.srv \in ToolAt /\ view.obj \in ToolAt
    BY DEF ToolInv, ToolOk, ToolAll, ToolSorts
  <1>5. /\ q \in Seq(ToolPost) /\ q # <<>> /\ Len(q) = Len(view.posts) + 1
        /\ Len(view.posts) \in Nat
        /\ (view.posts = <<>> <=> Len(view.posts) = 0)
        /\ \A i \in DOMAIN q :
             q[i] = n \/ (i \in DOMAIN view.posts /\ q[i] = view.posts[i])
    <2>1. /\ q \in Seq(ToolPost) /\ Len(q) = Len(view.posts) + 1
          /\ q[Len(view.posts) + 1] = n
          /\ \A i \in 1..Len(view.posts) : q[i] = view.posts[i]
      BY <1>2, <1>4, ListAppended
    <2>2. DOMAIN view.posts = 1..Len(view.posts) /\ Len(view.posts) \in Nat
          /\ (view.posts = <<>> <=> Len(view.posts) = 0)
      BY <1>4, ListOf
    <2> HIDE DEF q
    <2> QED BY <2>1, <2>2, ListOf
  <1>6. /\ m \in Seq(ToolLoad)
        /\ \A i \in DOMAIN m : ~m[i].clean
    <2>2. \A i \in DOMAIN view.loads : m[i] \in ToolLoad /\ ~m[i].clean
      BY <1>4, ListOf, ToolSoiled
    <2>3. m = [i \in DOMAIN view.loads |-> m[i]] /\ DOMAIN m = DOMAIN view.loads
      OBVIOUS
    <2> HIDE DEF m
    <2> QED BY <1>4, <2>2, <2>3, ListMapped
  <1> HIDE DEF q, m
  <1>7. /\ DOMAIN t = DOMAIN view /\ t.srv = view.srv /\ t.obj = view.obj
        /\ t.row = f /\ t.shown = view.shown /\ t.failed = view.failed
        /\ t.posts = q /\ t.loads = m /\ t.crossed = c /\ t.torn = view.torn
    BY DEF ToolInv, ToolShape
  <1> HIDE DEF s, t
  <1>8. ToolSorts(t)
    BY <1>4, <1>5, <1>6, <1>7 DEF ToolSorts
  <1>9. ToolDrawn(t)
    BY <1>2, <1>5, <1>7 DEF ToolInv, ToolOk, ToolAll, ToolDrawn
  <1>10. ToolClean(t)
    BY <1>6, <1>7 DEF ToolClean
  <1>11. ToolAlone(t)
    <2>1. CASE c
      BY <1>7, <2>1 DEF ToolAlone
    <2>2. CASE ~c
      <3>1. view.posts = <<>> /\ view.obj = view.srv /\ ~view.crossed
        BY <1>3, <2>2 DEF ToolInv, ToolOk, ToolAll, ToolAlone
      <3>2. ToolFollows(t, n)
        BY <1>2, <1>7, <3>1 DEF ToolFollows
      <3>3. DOMAIN view.posts = {}
        BY <3>1
      <3>4. Len(q) = 1 /\ \A i \in DOMAIN q : q[i] = n
        BY <1>5, <3>1, <3>3
      <3>5. \A i \in DOMAIN t.posts : ToolFollows(t, t.posts[i])
        <4> HIDE DEF ToolFollows
        <4> QED BY <1>7, <3>2, <3>4
      <3>6. Len(t.posts) <= 1 /\ t.posts # <<>>
        <4>1. t.posts = q
          BY <1>7
        <4>2. q # <<>>
          BY <1>5
        <4>3. Len(q) = 1
          BY <3>4
        <4> QED BY <4>1, <4>2, <4>3
      <3> QED BY <3>5, <3>6 DEF ToolAlone
    <2> QED BY <2>1, <2>2
  <1>12. DOMAIN t = DOMAIN view /\ ToolAll(t)
    BY <1>7, <1>8, <1>9, <1>10, <1>11 DEF ToolAll
  <1>13. t = [AToolRow!Post(view, b, v) EXCEPT !.row = f]
    BY <1>1 DEF t, s
  <1> QED BY <1>12, <1>13

\* The tool's row at the start.
LEMMA ToolInit == AToolRow!Init => ToolInv
  <1> SUFFICES ASSUME AToolRow!Init PROVE ToolInv
    OBVIOUS
  <1> DEFINE no == FALSE
             yes == TRUE
             a(on) == AToolRow!At(on, 0)
             f(on) == [on |-> on, text |-> 0, switching |-> no, saving |-> no]
  <1>1. PICK on \in BOOLEAN :
          view = [srv |-> a(on), obj |-> a(on), row |-> f(on), shown |-> yes,
                  failed |-> no, posts |-> <<>>, loads |-> <<>>,
                  crossed |-> no, torn |-> no]
    BY DEF AToolRow!Init
  <1>2. no \in BOOLEAN /\ yes \in BOOLEAN
    OBVIOUS
  <1> HIDE DEF no, yes
  <1>3. a(on) \in ToolAt /\ a(on).on = on /\ f(on) \in ToolFace /\ f(on).on = on
    BY <1>2 DEF ToolAt, ToolFace, AToolRow!At
  <1> HIDE DEF a, f
  <1>4. /\ DOMAIN view = {"srv", "obj", "row", "shown", "failed", "posts",
                          "loads", "crossed", "torn"}
        /\ view.srv = a(on) /\ view.obj = a(on) /\ view.row = f(on)
        /\ view.posts = <<>> /\ view.loads = <<>>
    BY <1>1
  <1>5. ToolSorts(view)
    BY <1>3, <1>4 DEF ToolSorts
  <1>6. ToolDrawn(view) /\ ToolClean(view) /\ ToolAlone(view)
    BY <1>3, <1>4 DEF ToolDrawn, ToolClean, ToolAlone
  <1> QED BY <1>4, <1>5, <1>6 DEF ToolInv, ToolShape, ToolOk, ToolAll

\* Every step of it keeps what is said of it.
LEMMA ToolStep == ASSUME ToolInv, AToolRow!Next PROVE ToolInv'
  <1>1. CASE AToolRow!toggleTool
    <2> DEFINE v == IF view.obj.on THEN 0 ELSE 1
               f == [view.row EXCEPT !.switching = TRUE]
               w == AToolRow!Post(view, TRUE, v)
               t == [w EXCEPT !.row = f]
    <2>a. view' = t
      <3>1. view' = [w EXCEPT !.row.switching = TRUE]
        BY <1>1 DEF AToolRow!toggleTool
      <3>2. w.row = view.row /\ "row" \in DOMAIN w
        BY DEF AToolRow!Post, ToolInv, ToolShape
      <3> HIDE DEF w
      <3> QED BY <3>1, <3>2
    <2>z. DOMAIN t = DOMAIN view /\ ToolAll(t)
      <3>1. v \in Int
        OBVIOUS
      <3>2. f \in ToolFace /\ f.on = view.row.on
        BY ToolFaces DEF ToolInv, ToolOk, ToolAll, ToolSorts
      <3> HIDE DEF v, f
      <3> QED BY <3>1, <3>2, ToolPosting
    <2> HIDE DEF t
    <2> QED BY <2>a, <2>z DEF ToolInv, ToolShape, ToolOk
  <1>2. CASE AToolRow!saveToolConfig
    <2> DEFINE v == view.row.text
               f == [view.row EXCEPT !.saving = TRUE]
               w == AToolRow!Post(view, FALSE, v)
               t == [w EXCEPT !.row = f]
    <2>a. view' = t
      <3>1. view' = [w EXCEPT !.row.saving = TRUE]
        BY <1>2 DEF AToolRow!saveToolConfig
      <3>2. w.row = view.row /\ "row" \in DOMAIN w
        BY DEF AToolRow!Post, ToolInv, ToolShape
      <3> HIDE DEF w
      <3> QED BY <3>1, <3>2
    <2>z. DOMAIN t = DOMAIN view /\ ToolAll(t)
      <3>1. v \in Int
        BY ToolFaces DEF ToolInv, ToolOk, ToolAll, ToolSorts
      <3>2. f \in ToolFace /\ f.on = view.row.on
        BY ToolFaces DEF ToolInv, ToolOk, ToolAll, ToolSorts
      <3> HIDE DEF v, f
      <3> QED BY <3>1, <3>2, ToolPosting
    <2> HIDE DEF t
    <2> QED BY <2>a, <2>z DEF ToolInv, ToolShape, ToolOk
  <1>3. CASE AToolRow!Redraw
    <2>1. PICK b \in BOOLEAN :
            view' = AToolRow!renderTools(view, b /\ ~view.failed)
      BY <1>3 DEF AToolRow!Redraw
    <2> DEFINE c == b /\ ~view.failed
               t == AToolRow!renderTools(view, c)
    <2>a. view' = t
      BY <2>1
    <2> HIDE DEF c
    <2>z. DOMAIN t = DOMAIN view /\ ToolAll(t)
      BY ToolDrew DEF ToolInv, ToolOk, ToolAll
    <2> HIDE DEF t
    <2> QED BY <2>a, <2>z DEF ToolInv, ToolShape, ToolOk
  <1>4. CASE AToolRow!loadTools
    <2> DEFINE c == view.posts = <<>>
               n == [read |-> FALSE, at |-> AToolRow!At(FALSE, 0), clean |-> c]
               q == Append(view.loads, n)
    <2>a. view' = [view EXCEPT !.loads = q]
      BY <1>4 DEF AToolRow!loadTools
    <2>b. c \in BOOLEAN /\ (c <=> view.posts = <<>>)
      OBVIOUS
    <2> HIDE DEF c
    <2>c. n \in ToolLoad /\ ~n.read /\ (n.clean <=> c)
      BY <2>b, ToolLoads
    <2> HIDE DEF n
    <2>d. /\ q \in Seq(ToolLoad)
          /\ \A i \in DOMAIN q :
               q[i] = n \/ (i \in DOMAIN view.loads /\ q[i] = view.loads[i])
      <3>1. view.loads \in Seq(ToolLoad)
        BY DEF ToolInv, ToolOk, ToolAll, ToolSorts
      <3>2. /\ q \in Seq(ToolLoad) /\ Len(q) = Len(view.loads) + 1
            /\ q[Len(view.loads) + 1] = n
            /\ \A i \in 1..Len(view.loads) : q[i] = view.loads[i]
        BY <2>c, <3>1, ListAppended
      <3>3. DOMAIN view.loads = 1..Len(view.loads) /\ Len(view.loads) \in Nat
        BY <3>1, ListOf
      <3> HIDE DEF q
      <3> QED BY <3>2, <3>3, ListOf
    <2> HIDE DEF q
    <2>e. /\ DOMAIN view' = DOMAIN view /\ view'.srv = view.srv
          /\ view'.obj = view.obj /\ view'.row = view.row
          /\ view'.shown = view.shown /\ view'.failed = view.failed
          /\ view'.posts = view.posts /\ view'.loads = q
          /\ view'.crossed = view.crossed /\ view'.torn = view.torn
      BY <2>a DEF ToolInv, ToolShape
    <2>1. ToolSorts(view') /\ ToolDrawn(view')
      BY <2>d, <2>e DEF ToolInv, ToolOk, ToolAll, ToolSorts, ToolDrawn
    <2>2. ToolClean(view')
      BY <2>b, <2>c, <2>d, <2>e DEF ToolInv, ToolOk, ToolAll, ToolClean
    <2>3. ToolAlone(view')
      BY <2>e DEF ToolInv, ToolOk, ToolAll, ToolAlone, ToolFollows
    <2> QED BY <2>e, <2>1, <2>2, <2>3 DEF ToolInv, ToolShape, ToolOk, ToolAll
  <1>5. ASSUME NEW v \in AToolRow!Numbers \cup {AToolRow!Bad}, AToolRow!Type(v) PROVE ToolInv'
    <2> DEFINE f == [view.row EXCEPT !.text = v]
    <2>a. view' = [view EXCEPT !.row = f]
      BY <1>5 DEF AToolRow!Type, ToolInv, ToolShape
    <2>b. f \in ToolFace /\ f.on = view.row.on
      <3>1. v \in Int
        BY DEF AToolRow!Numbers, AToolRow!Bad
      <3> QED BY <3>1, ToolFaces DEF ToolInv, ToolOk, ToolAll, ToolSorts
    <2> HIDE DEF f
    <2>c. /\ DOMAIN view' = DOMAIN view /\ view'.srv = view.srv
          /\ view'.obj = view.obj /\ view'.row = f /\ view'.shown = view.shown
          /\ view'.failed = view.failed /\ view'.posts = view.posts
          /\ view'.loads = view.loads /\ view'.crossed = view.crossed
          /\ view'.torn = view.torn
      BY <2>a DEF ToolInv, ToolShape
    <2>z. ToolAll(view')
      BY <2>b, <2>c DEF ToolInv, ToolOk, ToolAll, ToolSorts, ToolDrawn, ToolClean,
                        ToolAlone, ToolFollows
    <2> QED BY <2>c, <2>z DEF ToolInv, ToolShape, ToolOk
  <1>6. ASSUME NEW i \in 1..MaxOut, AToolRow!Takes(i) PROVE ToolInv'
    <2> DEFINE p == view.posts[i]
               k == [p EXCEPT !.took = TRUE]
               q == [view.posts EXCEPT ![i] = k]
               w == AToolRow!Wrote(view.srv, p)
    <2>a. /\ view' = [view EXCEPT !.posts = q, !.srv = w]
          /\ i \in DOMAIN view.posts /\ ~p.took
      <3>1. /\ i \in DOMAIN view.posts /\ ~p.took
            /\ view' = [view EXCEPT !.posts[i].took = TRUE, !.srv = w]
        BY <1>6 DEF AToolRow!Takes
      <3> HIDE DEF w
      <3> QED BY <3>1 DEF ToolInv, ToolShape
    <2>b. /\ view.posts \in Seq(ToolPost) /\ p \in ToolPost
          /\ view.srv \in ToolAt /\ view.obj \in ToolAt
      BY <2>a, ListOf DEF ToolInv, ToolOk, ToolAll, ToolSorts
    <2> HIDE DEF p
    <2>c. /\ k \in ToolPost /\ k.took /\ (k.mine <=> p.mine) /\ (k.here <=> p.here)
          /\ (k.toggles <=> p.toggles) /\ k.value = p.value
      BY <2>b, ToolTook
    <2> HIDE DEF k
    <2>d. /\ w \in ToolAt
          /\ AToolRow!Wrote(view.srv, k) = AToolRow!Wrote(view.srv, p)
      BY <2>b, <2>c, ToolWrote
    <2>e. /\ q \in Seq(ToolPost) /\ DOMAIN q = DOMAIN view.posts /\ q[i] = k
          /\ Len(q) = Len(view.posts)
          /\ \A j \in DOMAIN view.posts : j # i => q[j] = view.posts[j]
          /\ i \in 1..Len(view.posts) /\ Len(view.posts) \in Nat
          /\ view.posts # <<>> /\ q # <<>>
      <3>1. /\ q \in Seq(ToolPost) /\ DOMAIN q = DOMAIN view.posts /\ q[i] = k
            /\ Len(q) = Len(view.posts)
            /\ \A j \in DOMAIN view.posts : j # i => q[j] = view.posts[j]
        BY <2>a, <2>b, <2>c
      <3> HIDE DEF q
      <3> QED BY <2>a, <2>b, <3>1, ListOf
    <2> HIDE DEF q, w
    <2>f. /\ DOMAIN view' = DOMAIN view /\ view'.srv = w
          /\ view'.obj = view.obj /\ view'.row = view.row
          /\ view'.shown = view.shown /\ view'.failed = view.failed
          /\ view'.posts = q /\ view'.loads = view.loads
          /\ view'.crossed = view.crossed /\ view'.torn = view.torn
      BY <2>a DEF ToolInv, ToolShape
    <2>1. ToolSorts(view')
      BY <2>d, <2>e, <2>f DEF ToolInv, ToolOk, ToolAll, ToolSorts
    <2>2. ToolDrawn(view')
      BY <2>a, <2>c, <2>e, <2>f DEF ToolInv, ToolOk, ToolAll, ToolDrawn, p
    <2>3. ToolClean(view')
      BY <2>e, <2>f DEF ToolInv, ToolOk, ToolAll, ToolClean
    <2>4. ToolAlone(view')
      <3>1. SUFFICES ASSUME ~view.crossed
                     PROVE  /\ Len(q) <= 1
                            /\ \A j \in DOMAIN q : ToolFollows(view', q[j])
        BY <2>e, <2>f DEF ToolAlone
      <3>2. Len(view.posts) <= 1 /\ ToolFollows(view, p)
        BY <2>a, <3>1 DEF ToolInv, ToolOk, ToolAll, ToolAlone, p
      <3>3. DOMAIN q = {i}
        BY <2>b, <2>e, <3>2, ListOf
      <3>4. ToolFollows(view', k)
        <4>1. p.mine /\ view.srv = view.obj
          BY <2>a, <3>2 DEF ToolFollows
        <4>2. w = AToolRow!Wrote(view.obj, k)
          BY <2>d, <4>1 DEF w
        <4> QED BY <2>c, <2>f, <4>1, <4>2 DEF ToolFollows
      <3> QED BY <2>e, <3>2, <3>3, <3>4
    <2> QED BY <2>f, <2>1, <2>2, <2>3, <2>4 DEF ToolInv, ToolShape, ToolOk, ToolAll
  <1>7. ASSUME NEW i \in 1..MaxOut, NEW ok \in BOOLEAN, AToolRow!PostAnswered(i, ok) PROVE ToolInv'
    <2> DEFINE p == view.posts[i]
               q == AToolRow!Without(view.posts, i)
               o == IF ok /\ p.mine THEN AToolRow!Wrote(view.obj, p) ELSE view.obj
               b == IF ok THEN p.value = 1 ELSE view.row.on
               g == [view.row EXCEPT !.switching = FALSE]
               f == IF ~p.here THEN view.row
                    ELSE IF p.toggles THEN [g EXCEPT !.on = b]
                    ELSE [view.row EXCEPT !.saving = FALSE]
               c == view.crossed \/ (p.took /\ ~ok)
    <2>a. /\ view' = [view EXCEPT !.obj = o, !.row = f, !.posts = q, !.crossed = c]
          /\ i \in DOMAIN view.posts /\ (ok => p.took)
      <3> DEFINE f0 == IF ~p.here THEN view.row
                       ELSE IF p.toggles
                       THEN [view.row EXCEPT !.switching = FALSE,
                               !.on = IF ok THEN p.value = 1 ELSE @]
                       ELSE [view.row EXCEPT !.saving = FALSE]
      <3>1. /\ i \in DOMAIN view.posts /\ (ok => p.took)
            /\ view' = [view EXCEPT !.obj = o, !.row = f0, !.posts = q,
                                    !.crossed = c]
        BY <1>7 DEF AToolRow!PostAnswered, AToolRow!Answered
      <3>2. f0 = f
        <4>1. DOMAIN view.row = {"on", "text", "switching", "saving"}
          BY DEF ToolInv, ToolOk, ToolAll, ToolSorts, ToolFace
        <4>2. [view.row EXCEPT !.switching = FALSE,
                               !.on = IF ok THEN p.value = 1 ELSE @]
              = [g EXCEPT !.on = b]
          BY <4>1
        <4> QED BY <4>2
      <3> HIDE DEF f, f0
      <3> QED BY <3>1, <3>2
    <2>b. /\ view.posts \in Seq(ToolPost) /\ p \in ToolPost /\ view.obj \in ToolAt
          /\ view.row \in ToolFace
      BY <2>a, ListOf DEF ToolInv, ToolOk, ToolAll, ToolSorts
    <2>c. /\ q \in Seq(ToolPost) /\ Len(q) = Len(view.posts) - 1
          /\ \A k \in DOMAIN q :
               \E j \in DOMAIN view.posts : q[k] = view.posts[j]
          /\ i \in 1..Len(view.posts) /\ Len(view.posts) \in Nat
          /\ (q = <<>> <=> Len(q) = 0) /\ view.posts # <<>>
          /\ (Len(q) <= 0 => DOMAIN q = {})
      <3>1. q = Without(view.posts, i)
        BY DEF AToolRow!Without, Without
      <3>2. /\ i \in 1..Len(view.posts) /\ Len(view.posts) \in Nat
            /\ view.posts # <<>>
        BY <2>a, <2>b, ListOf
      <3> HIDE DEF q
      <3>3. q \in Seq(ToolPost) /\ Len(q) = Len(view.posts) - 1
        BY <2>b, <3>1, <3>2, ListRemoved
      <3>4. \A k \in DOMAIN q :
               \E j \in DOMAIN view.posts : q[k] = view.posts[j]
        BY <2>b, <3>1, <3>2, ListShorter
      <3>5. DOMAIN q = 1..Len(q) /\ Len(q) \in Nat /\ (q = <<>> <=> Len(q) = 0)
        BY <3>3, ListOf
      <3>6. Len(q) <= 0 => DOMAIN q = {}
        BY <3>5
      <3> QED BY <3>2, <3>3, <3>4, <3>5, <3>6
    <2> HIDE DEF q
    <2>d. /\ o \in ToolAt
          /\ ~ok => o = view.obj
          /\ ok /\ p.mine => o = AToolRow!Wrote(view.obj, p)
      BY <2>b, ToolWrote
    <2>e. /\ f \in ToolFace
          /\ p.mine /\ p.here /\ view.row.on = view.obj.on => f.on = o.on
      <3>1. p.toggles \in BOOLEAN /\ view.row.on \in BOOLEAN
        BY <2>b, ToolPosts DEF ToolFace
      <3>2. b \in BOOLEAN
        BY <3>1
      <3>3. g \in ToolFace /\ g.on = view.row.on
        BY <2>b, ToolFaces
      <3>4. [g EXCEPT !.on = b] \in ToolFace /\ [g EXCEPT !.on = b].on = b
        <4> HIDE DEF g, b
        <4> QED BY <3>2, <3>3, ToolFaces
      <3>5. /\ [view.row EXCEPT !.saving = FALSE] \in ToolFace
            /\ [view.row EXCEPT !.saving = FALSE].on = view.row.on
        BY <2>b, ToolFaces
      <3>6. f \in ToolFace
        BY <2>b, <3>4, <3>5
      <3>7. ASSUME p.mine, p.here, view.row.on = view.obj.on PROVE f.on = o.on
        <4>1. CASE p.toggles
          <5>1. f.on = b
            BY <3>4, <3>7, <4>1
          <5>2. ok => o.on = (p.value = 1)
            BY <2>b, <2>d, <3>7, <4>1, ToolWrote
          <5> HIDE DEF o, f
          <5> QED BY <2>d, <3>7, <5>1, <5>2
        <4>2. CASE ~p.toggles
          <5>1. f.on = view.row.on
            BY <3>5, <3>7, <4>2
          <5>2. o.on = view.obj.on
            <6>1. AToolRow!Wrote(view.obj, p).on = view.obj.on
              BY <2>b, <4>2, ToolWrote
            <6> QED BY <6>1
          <5> HIDE DEF o, f
          <5> QED BY <3>7, <5>1, <5>2
        <4> QED BY <4>1, <4>2
      <3> QED BY <3>6, <3>7
    <2>f. c <=> view.crossed \/ (p.took /\ ~ok)
      OBVIOUS
    <2> HIDE DEF o, f, b, g, c
    <2>g. /\ DOMAIN view' = DOMAIN view /\ view'.srv = view.srv
          /\ view'.obj = o /\ view'.row = f /\ view'.shown = view.shown
          /\ view'.failed = view.failed /\ view'.posts = q
          /\ view'.loads = view.loads /\ view'.crossed = c
          /\ view'.torn = view.torn
      BY <2>a DEF ToolInv, ToolShape
    <2>1. ToolSorts(view')
      BY <2>c, <2>d, <2>e, <2>g DEF ToolInv, ToolOk, ToolAll, ToolSorts
    <2>2. ToolDrawn(view')
      BY <2>a, <2>c, <2>e, <2>g DEF ToolInv, ToolOk, ToolAll, ToolDrawn
    <2>3. ToolClean(view')
      BY <2>c, <2>g DEF ToolInv, ToolOk, ToolAll, ToolClean
    <2>4. ToolAlone(view')
      <3>1. SUFFICES ASSUME ~c PROVE Len(q) = 0 /\ o = view.srv
        BY <2>c, <2>g DEF ToolAlone
      <3>2. /\ ~view.crossed /\ (~ok => ~p.took) /\ Len(view.posts) <= 1
            /\ ToolFollows(view, p)
        BY <2>a, <2>f, <3>1 DEF ToolInv, ToolOk, ToolAll, ToolAlone
      <3> HIDE DEF p
      <3>3. o = view.srv
        BY <2>a, <2>d, <3>2 DEF ToolFollows
      <3> QED BY <2>c, <3>2, <3>3
    <2> QED BY <2>g, <2>1, <2>2, <2>3, <2>4 DEF ToolInv, ToolShape, ToolOk, ToolAll
  <1>8. ASSUME NEW i \in 1..MaxLoads, AToolRow!Reads(i) PROVE ToolInv'
    <2> DEFINE m == view.loads[i]
               l == [[m EXCEPT !.read = TRUE] EXCEPT !.at = view.srv]
               q == [view.loads EXCEPT ![i] = l]
    <2>a. view' = [view EXCEPT !.loads = q] /\ i \in DOMAIN view.loads
      <3>1. /\ i \in DOMAIN view.loads
            /\ view' = [view EXCEPT !.loads[i].read = TRUE,
                                    !.loads[i].at = view.srv]
        BY <1>8 DEF AToolRow!Reads
      <3> QED BY <3>1 DEF ToolInv, ToolShape
    <2>b. m \in ToolLoad /\ view.srv \in ToolAt /\ view.loads \in Seq(ToolLoad)
      BY <2>a, ListOf DEF ToolInv, ToolOk, ToolAll, ToolSorts
    <2>c. m.clean => view.posts = <<>>
      BY <2>a DEF ToolInv, ToolOk, ToolAll, ToolClean
    <2> HIDE DEF m
    <2>d. l \in ToolLoad /\ (l.clean <=> m.clean) /\ l.at = view.srv
      BY <2>b, ToolLoads
    <2> HIDE DEF l
    <2>e. /\ q \in Seq(ToolLoad) /\ DOMAIN q = DOMAIN view.loads /\ q[i] = l
          /\ \A k \in DOMAIN view.loads : k # i => q[k] = view.loads[k]
      BY <2>a, <2>b, <2>d
    <2> HIDE DEF q
    <2>f. /\ DOMAIN view' = DOMAIN view /\ view'.srv = view.srv
          /\ view'.obj = view.obj /\ view'.row = view.row
          /\ view'.shown = view.shown /\ view'.failed = view.failed
          /\ view'.posts = view.posts /\ view'.loads = q
          /\ view'.crossed = view.crossed /\ view'.torn = view.torn
      BY <2>a DEF ToolInv, ToolShape
    <2>1. ToolSorts(view') /\ ToolDrawn(view')
      BY <2>e, <2>f DEF ToolInv, ToolOk, ToolAll, ToolSorts, ToolDrawn
    <2>2. ToolClean(view')
      BY <2>c, <2>d, <2>e, <2>f DEF ToolInv, ToolOk, ToolAll, ToolClean
    <2>3. ToolAlone(view')
      BY <2>f DEF ToolInv, ToolOk, ToolAll, ToolAlone, ToolFollows
    <2> QED BY <2>f, <2>1, <2>2, <2>3 DEF ToolInv, ToolShape, ToolOk, ToolAll
  <1>9. ASSUME NEW i \in 1..MaxLoads, AToolRow!LoadRead(i) PROVE ToolInv'
    <2> DEFINE l == view.loads[i]
               q == AToolRow!Without(view.loads, i)
               c == ~l.clean
               m == [k \in DOMAIN view.posts |->
                       [view.posts[k] EXCEPT !.mine = FALSE]]
               s == [view EXCEPT !.obj = l.at, !.loads = q, !.crossed = c,
                                 !.failed = FALSE, !.posts = m]
               t == AToolRow!renderTools(s, TRUE)
    <2>a. view' = t /\ i \in DOMAIN view.loads /\ l.read
      BY <1>9 DEF AToolRow!LoadRead

    <2>c. /\ q \in Seq(ToolLoad)
          /\ \A k \in DOMAIN q :
               \E j \in DOMAIN view.loads : q[k] = view.loads[j]
      <3>1. q = Without(view.loads, i)
        BY DEF AToolRow!Without, Without
      <3>2. i \in 1..Len(view.loads) /\ view.loads \in Seq(ToolLoad)
        BY <2>a, ListOf DEF ToolInv, ToolOk, ToolAll, ToolSorts
      <3> HIDE DEF q
      <3> QED BY <3>1, <3>2, ListShorter
    <2> HIDE DEF q

    <2>b. l \in ToolLoad /\ view.posts \in Seq(ToolPost)
      BY <2>a, ListOf DEF ToolInv, ToolOk, ToolAll, ToolSorts
    <2>d. l.clean => view.posts = <<>> /\ l.at = view.srv
      BY <2>a DEF ToolInv, ToolOk, ToolAll, ToolClean
    <2>e. c <=> ~l.clean
      OBVIOUS
    <2> HIDE DEF c, l
    <2>f. l.at \in ToolAt
      BY <2>b, ToolLoads
    <2>g. m \in Seq(ToolPost) /\ Len(m) = Len(view.posts)
      <3>2. \A k \in DOMAIN view.posts : m[k] \in ToolPost
        BY <2>b, ListOf, ToolNotMine
      <3>3. m = [k \in DOMAIN view.posts |-> m[k]]
        OBVIOUS
      <3> HIDE DEF m
      <3> QED BY <2>b, <3>2, <3>3, ListMapped
    <2> HIDE DEF m
    <2>h. /\ (m = <<>> <=> view.posts = <<>>)
          /\ (m = <<>> => Len(m) <= 1 /\ DOMAIN m = {})
      BY <2>b, <2>g, ListOf
    <2>j. /\ DOMAIN s = DOMAIN view /\ s.srv = view.srv /\ s.obj = l.at
          /\ s.row = view.row /\ s.shown = view.shown /\ s.posts = m
          /\ s.loads = q /\ s.crossed = c /\ s.torn = view.torn
      BY DEF ToolInv, ToolShape
    <2> HIDE DEF s
    <2>k. ToolSorts(s) /\ ToolClean(s)
      BY <2>c, <2>f, <2>g, <2>h, <2>j
         DEF ToolInv, ToolOk, ToolAll, ToolSorts, ToolClean
    <2>l. ToolAlone(s)
      BY <2>d, <2>e, <2>h, <2>j DEF ToolAlone
    <2>z. DOMAIN t = DOMAIN view /\ ToolAll(t)
      BY <2>j, <2>k, <2>l, ToolDrew DEF ToolInv
    <2> HIDE DEF t
    <2> QED BY <2>a, <2>z DEF ToolInv, ToolShape, ToolOk
  <1>10. ASSUME NEW i \in 1..MaxLoads, AToolRow!LoadFails(i) PROVE ToolInv'
    <2> DEFINE q == AToolRow!Without(view.loads, i)
               s == [view EXCEPT !.loads = q, !.failed = TRUE]
               t == AToolRow!renderTools(s, FALSE)
    <2>a. view' = t /\ i \in DOMAIN view.loads
      BY <1>10 DEF AToolRow!LoadFails

    <2>c. /\ q \in Seq(ToolLoad)
          /\ \A k \in DOMAIN q :
               \E j \in DOMAIN view.loads : q[k] = view.loads[j]
      <3>1. q = Without(view.loads, i)
        BY DEF AToolRow!Without, Without
      <3>2. i \in 1..Len(view.loads) /\ view.loads \in Seq(ToolLoad)
        BY <2>a, ListOf DEF ToolInv, ToolOk, ToolAll, ToolSorts
      <3> HIDE DEF q
      <3> QED BY <3>1, <3>2, ListShorter
    <2> HIDE DEF q

    <2>b. /\ DOMAIN s = DOMAIN view /\ s.srv = view.srv /\ s.obj = view.obj
          /\ s.row = view.row /\ s.shown = view.shown /\ s.posts = view.posts
          /\ s.loads = q /\ s.crossed = view.crossed /\ s.torn = view.torn
      BY DEF ToolInv, ToolShape
    <2> HIDE DEF s
    <2>d. ToolSorts(s) /\ ToolClean(s)
      BY <2>b, <2>c DEF ToolInv, ToolOk, ToolAll, ToolSorts, ToolClean
    <2>e. ToolAlone(s)
      BY <2>b DEF ToolInv, ToolOk, ToolAll, ToolAlone, ToolFollows
    <2>z. DOMAIN t = DOMAIN view /\ ToolAll(t)
      BY <2>b, <2>d, <2>e, ToolDrew DEF ToolInv
    <2> HIDE DEF t
    <2> QED BY <2>a, <2>z DEF ToolInv, ToolShape, ToolOk
  <1> QED
    BY <1>1, <1>2, <1>3, <1>4, <1>5, <1>6, <1>7, <1>8, <1>9, <1>10 DEF
       AToolRow!Next

\* That gives the properties of AToolRow.
LEMMA ToolHolds == ToolInv => AToolRow!Settled /\ AToolRow!Truthful
  BY DEF ToolInv, ToolOk, ToolAll, ToolAlone, ToolDrawn, AToolRow!Settled,
         AToolRow!Truthful

\* It holds from the first state on when the page is this one.
LEMMA ToolStays ==
  /\ Init => (subject = "tool" => ToolInv)
  /\ (subject = "tool" => ToolInv) /\ [Next]_vars
       => (subject = "tool" => ToolInv)'
  <1>1. Init => (subject = "tool" => ToolInv)
    BY ToolInit DEF Init
  <1>2. (subject = "tool" => ToolInv) /\ [Next]_vars
          => (subject = "tool" => ToolInv)'
    <2>1. ASSUME ToolInv, view' = view PROVE ToolInv'
      BY <2>1 DEF ToolInv, ToolShape, ToolOk, ToolAll, ToolSorts, ToolDrawn,
          ToolClean, ToolAlone, ToolFollows
    <2> QED BY <2>1, ToolStep DEF Next, vars
  <1> QED BY <1>1, <1>2

-----------------------------------------------------------------------------
(* The views.  The promise of the script is pending exactly while it is    *)
(* asked for and loaders wait for it; a plugin's view that is mounted was  *)
(* registered by its script, and is shown or failed.                       *)

ShellShape ==
  DOMAIN view = {"ready", "has", "pending", "view", "loaded", "core",
                 "again", "cored", "tag", "promise", "waits", "busy", "spec",
                 "mounted", "mounts", "panel"}
ShellFit(s) ==
  /\ DOMAIN s = {"ready", "has", "pending", "view", "loaded", "core", "again",
                 "cored", "tag", "promise", "waits", "busy", "spec", "mounted",
                 "mounts", "panel"}
  /\ s.ready \in BOOLEAN /\ s.has \in BOOLEAN /\ s.pending \in BOOLEAN
  /\ s.again \in BOOLEAN /\ s.busy \in BOOLEAN /\ s.spec \in BOOLEAN
  /\ s.mounted \in BOOLEAN /\ s.mounts \in Nat
  /\ s.panel \in {"empty", "view", "error"}
  /\ IF s.panel = "view" THEN s.mounted /\ s.mounts = 1 ELSE s.mounts = 0
  /\ s.mounted => s.spec /\ s.panel # "empty"
  /\ s.spec => s.tag = "run" /\ s.promise = "true"
ShellLoads(s) ==
  /\ s.promise \in {"none", "pending", "true", "false"}
  /\ s.tag \in {"none", "asked", "run"} /\ s.waits \in Nat
  /\ s.waits > 0 <=> s.promise = "pending"
  /\ s.tag = "asked" <=> s.promise = "pending"
  /\ s.promise = "true" => s.tag = "run"
  /\ s.promise \in {"none", "pending"} => s.busy \/ s.panel = "empty"
  /\ s.busy => s.promise \in {"none", "pending"}
ShellPlaced(s) ==
  /\ "plug" \in s.loaded => s.panel # "empty"
  /\ s.view = "plug" => "plug" \in s.loaded \/ s.waits > 0
ShellCore(s) ==
  /\ s.core \in Nat /\ s.cored \in {"empty", "loading", "data", "error"}
  /\ s.cored = "loading" => s.core > 0
  /\ s.again => s.core > 0 /\ s.cored \in {"data", "error"}
  /\ "core" \in s.loaded => s.cored \in {"data", "error"}
  /\ s.view = "core" => s.cored # "empty"
ShellWell(s) ==
  ShellFit(s) /\ ShellLoads(s) /\ ShellPlaced(s) /\ ShellCore(s)
  /\ (s.busy => s.promise = "pending")
ShellOk ==
  ShellWell(view)
ShellInv == ShellShape /\ ShellOk

\* What a loader leaves once the promise is kept.
LEMMA ShellContinued ==
  ASSUME ShellShape, NEW s, ShellFit(s), NEW came \in BOOLEAN,
         NEW ok \in BOOLEAN
  PROVE  LET c == AShell!Continue(s, came, ok)
         IN /\ ShellFit(c) /\ c.panel # "empty"
            /\ c.busy => s.busy /\ s.mounted
            /\ c.ready = s.ready /\ c.has = s.has /\ c.pending = s.pending
            /\ c.view = s.view /\ c.loaded = s.loaded /\ c.core = s.core
            /\ c.again = s.again /\ c.cored = s.cored /\ c.tag = s.tag
            /\ c.promise = s.promise /\ c.waits = s.waits /\ c.spec = s.spec
  <1>1. CASE ~came \/ ~s.spec
    BY <1>1 DEF ShellShape, ShellFit, AShell!Continue, AShell!Error
  <1>2. CASE came /\ s.spec /\ s.mounted
    BY <1>2 DEF ShellShape, ShellFit, AShell!Continue, AShell!Error,
                AShell!refresh
  <1>3. CASE came /\ s.spec /\ ~s.mounted
    <2> DEFINE t == [s EXCEPT !.mounted = TRUE, !.mounts = @ + 1,
                              !.panel = "view", !.busy = FALSE]
    <2>0. s.mounts = 0
      BY <1>3 DEF ShellFit
    <2>1. /\ DOMAIN t = DOMAIN s /\ t.mounted = TRUE /\ t.mounts = s.mounts + 1
          /\ t.panel = "view" /\ t.busy = FALSE
          /\ t.ready = s.ready /\ t.has = s.has /\ t.pending = s.pending
          /\ t.view = s.view /\ t.loaded = s.loaded /\ t.core = s.core
          /\ t.again = s.again /\ t.cored = s.cored /\ t.tag = s.tag
          /\ t.promise = s.promise /\ t.waits = s.waits /\ t.spec = s.spec
      BY DEF ShellFit
    <2>2. AShell!Continue(s, came, ok) = IF ok THEN t ELSE AShell!Error(t)
      BY <1>3 DEF AShell!Continue, AShell!mount
    <2> HIDE DEF t
    <2>5. ShellFit(t)
      <3>1. /\ t.ready \in BOOLEAN /\ t.has \in BOOLEAN /\ t.pending \in BOOLEAN
            /\ t.again \in BOOLEAN /\ t.busy \in BOOLEAN /\ t.spec \in BOOLEAN
            /\ t.mounted \in BOOLEAN
        BY <2>1 DEF ShellFit
      <3>3. t.mounts = 1
        BY <2>0, <2>1
      <3>2. t.spec /\ t.tag = "run" /\ t.promise = "true"
        BY <1>3, <2>1 DEF ShellFit
      <3> QED BY <2>1, <3>1, <3>2, <3>3 DEF ShellFit
    <2>3. CASE ok
      <3>1. AShell!Continue(s, came, ok) = t
        BY <2>2, <2>3
      <3> QED BY <2>1, <2>5, <3>1
    <2>4. CASE ~ok
      <3> DEFINE e == AShell!Error(t)
      <3>1. /\ DOMAIN e = DOMAIN t /\ e.mounted = t.mounted /\ e.mounts = 0
            /\ e.panel = "error" /\ e.busy = FALSE
            /\ e.ready = t.ready /\ e.has = t.has /\ e.pending = t.pending
            /\ e.view = t.view /\ e.loaded = t.loaded /\ e.core = t.core
            /\ e.again = t.again /\ e.cored = t.cored /\ e.tag = t.tag
            /\ e.promise = t.promise /\ e.waits = t.waits /\ e.spec = t.spec
        BY <2>1 DEF ShellFit, AShell!Error
      <3> HIDE DEF e
      <3>2. AShell!Continue(s, came, ok) = e
        BY <2>2, <2>4 DEF e
      <3>3. ShellFit(e)
        <4>1. /\ e.ready \in BOOLEAN /\ e.has \in BOOLEAN
              /\ e.pending \in BOOLEAN /\ e.again \in BOOLEAN
              /\ e.busy \in BOOLEAN /\ e.spec \in BOOLEAN
              /\ e.mounted \in BOOLEAN
          BY <2>5, <3>1 DEF ShellFit
        <4>2. e.spec => e.tag = "run" /\ e.promise = "true"
          BY <2>5, <3>1 DEF ShellFit
        <4>3. e.mounted => e.spec
          BY <2>5, <3>1 DEF ShellFit
        <4> QED BY <2>1, <2>5, <3>1, <4>1, <4>2, <4>3 DEF ShellFit
      <3> QED BY <2>1, <3>1, <3>2, <3>3
    <2> QED BY <2>3, <2>4
  <1> QED BY <1>1, <1>2, <1>3

\* What a loader of the plugin's view leaves.
LEMMA ShellLoader ==
  ASSUME ShellShape, NEW s, ShellFit(s), ShellLoads(s), NEW ok \in BOOLEAN
  PROVE  LET l == AShell!Loader(s, ok)
         IN /\ ShellFit(l) /\ ShellLoads(l)
            /\ l.busy => l.promise = "pending"
            /\ l.ready = s.ready /\ l.has = s.has /\ l.pending = s.pending
            /\ l.view = s.view /\ l.core = s.core
            /\ l.again = s.again /\ l.cored = s.cored
            /\ \/ l.waits > 0 /\ l.loaded = s.loaded /\ l.panel = s.panel
               \/ l.loaded = s.loaded \cup {"plug"} /\ l.panel # "empty"
  <1> DEFINE t == AShell!loadPluginScript(s)
             w == [t EXCEPT !.waits = @ + 1]
             came == t.promise = "true"
             c == AShell!Continue(t, came, ok)
             d == [c EXCEPT !.loaded = @ \cup {"plug"}]
  <1>1. /\ ShellFit(t) /\ t.ready = s.ready /\ t.has = s.has
        /\ t.pending = s.pending /\ t.view = s.view /\ t.core = s.core
        /\ t.again = s.again /\ t.cored = s.cored /\ t.loaded = s.loaded
        /\ t.waits = s.waits /\ t.panel = s.panel /\ t.busy = s.busy
        /\ t.spec = s.spec
    BY DEF ShellShape, ShellFit, ShellLoads, AShell!loadPluginScript
  <1>2. /\ t.promise \in {"pending", "true", "false"}
        /\ t.tag \in {"none", "asked", "run"}
        /\ t.tag = "asked" <=> t.promise = "pending"
        /\ t.promise = "true" => t.tag = "run"
        /\ t.promise = "pending" => t.busy \/ t.panel = "empty"
        /\ t.promise # "pending" => t.waits = 0 /\ (t.busy => ~t.spec)
        /\ t.waits \in Nat
    BY DEF ShellShape, ShellFit, ShellLoads, AShell!loadPluginScript
  <1>3. AShell!Loader(s, ok) = IF t.promise = "pending" THEN w ELSE d
    BY DEF AShell!Loader
  <1> HIDE DEF t
  <1>4. CASE t.promise = "pending"
    BY <1>1, <1>2, <1>3, <1>4 DEF ShellShape, ShellFit, ShellLoads
  <1>5. CASE t.promise # "pending"
    <2>1. /\ ShellFit(c) /\ c.panel # "empty" /\ (c.busy => t.busy /\ t.mounted)
          /\ c.ready = t.ready /\ c.has = t.has /\ c.pending = t.pending
          /\ c.view = t.view /\ c.loaded = t.loaded /\ c.core = t.core
          /\ c.again = t.again /\ c.cored = t.cored /\ c.tag = t.tag
          /\ c.promise = t.promise /\ c.waits = t.waits /\ c.spec = t.spec
      <3>1. came \in BOOLEAN
        OBVIOUS
      <3> HIDE DEF came
      <3> QED BY <1>1, <3>1, ShellContinued
    <2>2. ~c.busy
      BY <1>1, <1>2, <1>5, <2>1 DEF ShellFit
    <2> HIDE DEF c
    <2>3. AShell!Loader(s, ok) = d
      BY <1>3, <1>5
    <2>4. /\ DOMAIN d = DOMAIN view /\ d.loaded = s.loaded \cup {"plug"}
          /\ ShellFit(d) /\ d.panel = c.panel /\ d.busy = c.busy
          /\ d.ready = c.ready /\ d.has = c.has /\ d.pending = c.pending
          /\ d.view = c.view /\ d.core = c.core
          /\ d.again = c.again /\ d.cored = c.cored /\ d.tag = c.tag
          /\ d.promise = c.promise /\ d.waits = c.waits
      BY <1>1, <2>1 DEF ShellShape, ShellFit
    <2> HIDE DEF d
    <2> QED
      BY <1>1, <1>2, <1>5, <2>1, <2>2, <2>3, <2>4 DEF ShellLoads
  <1> QED BY <1>4, <1>5

\* A view is shown.
LEMMA ShellShows ==
  ASSUME ShellShape, NEW s, ShellWell(s), NEW name \in {"chat", "core", "plug"},
         NEW ok \in BOOLEAN
  PROVE  ShellWell(AShell!showView(s, name, ok))
  <1> DEFINE v == IF name = "plug" /\ ~s.has THEN "chat" ELSE name
             t == [s EXCEPT !.view = v]
             c == [[t EXCEPT !.core = @ + 1]
                     EXCEPT !.cored = IF @ = "empty" THEN "loading" ELSE @]
             e == [s EXCEPT !.pending = TRUE]
             z == AShell!showView(s, name, ok)
  <1>1. /\ ShellFit(t) /\ ShellLoads(t) /\ t.view = v /\ t.loaded = s.loaded
        /\ t.core = s.core /\ t.cored = s.cored /\ t.again = s.again
        /\ t.busy = s.busy /\ t.promise = s.promise /\ t.panel = s.panel
        /\ t.waits = s.waits /\ t.mounted = s.mounted
    BY DEF ShellShape, ShellWell, ShellFit, ShellLoads
  <1>2. ShellWell(e)
    BY DEF ShellShape, ShellWell, ShellFit, ShellLoads, ShellPlaced, ShellCore
  <1>3. z = IF name = "plug" /\ ~s.has /\ ~s.ready THEN e
            ELSE IF v = "core" /\ "core" \notin s.loaded THEN c
            ELSE IF v = "plug" /\ "plug" \notin s.loaded
            THEN AShell!Loader(t, ok)
            ELSE IF v = "plug" /\ s.mounted THEN AShell!refresh(t, ok)
            ELSE t
    BY DEF AShell!showView
  <1> HIDE DEF e, z
  <1>4. CASE z = c /\ v = "core" /\ "core" \notin s.loaded
    <2> HIDE DEF t
    <2>1. /\ DOMAIN c = DOMAIN view
          /\ ShellFit(c) /\ ShellLoads(c) /\ c.view = v /\ c.loaded = s.loaded
          /\ c.core = s.core + 1 /\ c.again = s.again /\ c.panel = s.panel
          /\ c.cored = (IF s.cored = "empty" THEN "loading" ELSE s.cored)
          /\ c.busy = s.busy /\ c.promise = s.promise
      BY <1>1 DEF ShellShape, ShellFit, ShellLoads
    <2> HIDE DEF c
    <2> QED
      BY <1>4, <2>1 DEF z, ShellWell, ShellPlaced, ShellCore
  <1>5. CASE z = AShell!Loader(t, ok) /\ v = "plug" /\ "plug" \notin s.loaded
    <2> DEFINE l == AShell!Loader(t, ok)
    <2> HIDE DEF t
    <2>1. /\ ShellFit(l) /\ ShellLoads(l)
          /\ l.busy => l.promise = "pending"
          /\ l.view = t.view /\ l.core = t.core
          /\ l.again = t.again /\ l.cored = t.cored
          /\ \/ l.waits > 0 /\ l.loaded = t.loaded /\ l.panel = t.panel
             \/ l.loaded = t.loaded \cup {"plug"} /\ l.panel # "empty"
      BY <1>1, ShellLoader
    <2> HIDE DEF l
    <2> QED
      BY <1>1, <1>5, <2>1 DEF z, l, ShellWell, ShellPlaced, ShellCore
  <1>6. CASE z = AShell!refresh(t, ok) /\ v = "plug" /\ "plug" \in s.loaded
             /\ s.mounted
    <2> HIDE DEF t
    <2> DEFINE r == AShell!refresh(t, ok)
    <2>1. /\ DOMAIN r = DOMAIN view /\ ShellFit(r) /\ r.panel # "empty"
          /\ r.busy => t.busy
          /\ r.view = t.view /\ r.loaded = t.loaded /\ r.core = t.core
          /\ r.again = t.again /\ r.cored = t.cored /\ r.tag = t.tag
          /\ r.promise = t.promise /\ r.waits = t.waits
      BY <1>1, <1>6 DEF ShellShape, ShellFit, AShell!refresh, AShell!Error
    <2>2. t.promise = "true"
      BY <1>1, <1>6 DEF ShellFit
    <2> HIDE DEF r
    <2> QED
      BY <1>1, <1>6, <2>1, <2>2
         DEF z, r, ShellWell, ShellLoads, ShellPlaced, ShellCore
  <1>7. CASE z = t /\ (v = "plug" => "plug" \in s.loaded)
             /\ (v = "core" => "core" \in s.loaded)
    <2> HIDE DEF t
    <2> QED
      BY <1>1, <1>7 DEF z, ShellWell, ShellPlaced, ShellCore
  <1> QED BY <1>2, <1>3, <1>4, <1>5, <1>6, <1>7 DEF z

\* The views at the start.
LEMMA ShellInit == AShell!Init => ShellInv
  BY DEF ShellInv, ShellShape, ShellOk, AShell!Init, ShellWell, ShellFit,
      ShellLoads, ShellPlaced, ShellCore

\* Every step of it keeps what is said of it.
LEMMA ShellStep == ASSUME ShellInv, AShell!Next PROVE ShellInv'
  <1>1. ASSUME NEW n \in {"chat","core","plug"}, NEW ok \in BOOLEAN, AShell!Show(n, ok) PROVE ShellInv'
    <2>1. ShellWell(AShell!showView(view, n, ok))
      BY ShellShows DEF ShellInv, ShellOk
    <2> DEFINE z == AShell!showView(view, n, ok)
    <2>2. view' = z
      BY <1>1 DEF AShell!Show
    <2> HIDE DEF z
    <2> QED
      BY <2>1, <2>2 DEF z, ShellInv, ShellShape, ShellOk, ShellWell, ShellFit
  <1>2. ASSUME NEW came \in BOOLEAN, NEW reg \in BOOLEAN, NEW ok \in BOOLEAN, AShell!ScriptAnswers(came, reg, ok) PROVE ShellInv'
    <2> DEFINE spec == came /\ reg
               s == [view EXCEPT
                      !.promise = IF came THEN "true" ELSE "false",
                      !.tag = IF came THEN "run" ELSE "none",
                      !.spec = spec, !.waits = 0,
                      !.loaded = @ \cup {"plug"}]
               t == AShell!Continue(s, came, ok)
               u == AShell!Continue(t, came, ok)
               z == IF view.waits > 1 THEN u ELSE t
    <2>1. view' = z /\ view.promise = "pending"
      BY <1>2 DEF AShell!ScriptAnswers
    <2>2. spec \in BOOLEAN /\ (spec => came)
      OBVIOUS
    <2> HIDE DEF spec
    <2>3. ~view.spec /\ ~view.mounted
      BY <2>1 DEF ShellInv, ShellOk, ShellWell, ShellFit
    <2>4. /\ ShellFit(s) /\ s.view = view.view /\ s.core = view.core
          /\ s.again = view.again /\ s.cored = view.cored
          /\ s.loaded = view.loaded \cup {"plug"} /\ s.waits = 0
          /\ s.promise = (IF came THEN "true" ELSE "false")
          /\ s.tag = (IF came THEN "run" ELSE "none") /\ s.mounted = FALSE
      BY <2>2, <2>3 DEF ShellInv, ShellOk, ShellWell, ShellFit
    <2> HIDE DEF s
    <2>5. /\ ShellFit(t) /\ t.panel # "empty" /\ (t.busy => s.busy /\ s.mounted)
          /\ t.view = s.view /\ t.loaded = s.loaded /\ t.core = s.core
          /\ t.again = s.again /\ t.cored = s.cored /\ t.tag = s.tag
          /\ t.promise = s.promise /\ t.waits = s.waits
      <3>1. ShellShape /\ ShellFit(s)
        BY <2>4 DEF ShellInv
      <3> QED BY <3>1, ShellContinued
    <2> HIDE DEF t
    <2>6. /\ ShellFit(u) /\ u.panel # "empty" /\ (u.busy => t.busy /\ t.mounted)
          /\ u.view = t.view /\ u.loaded = t.loaded /\ u.core = t.core
          /\ u.again = t.again /\ u.cored = t.cored /\ u.tag = t.tag
          /\ u.promise = t.promise /\ u.waits = t.waits
      BY <2>5, ShellContinued DEF ShellInv
    <2> HIDE DEF u
    <2>7. ShellWell(t) /\ ShellWell(u)
      BY <2>4, <2>5, <2>6
         DEF ShellInv, ShellOk, ShellWell, ShellLoads, ShellPlaced, ShellCore
    <2> QED
      BY <2>1, <2>7 DEF ShellInv, ShellShape, ShellOk, ShellWell, ShellFit
  <1>3. ASSUME NEW on \in BOOLEAN, NEW ok \in BOOLEAN, AShell!markPluginsReady(on, ok) PROVE ShellInv'
    <2> DEFINE s == [view EXCEPT !.ready = TRUE, !.has = on, !.pending = FALSE]
               z == IF view.pending THEN AShell!showView(s, "plug", ok) ELSE s
    <2>1. view' = z
      BY <1>3 DEF AShell!markPluginsReady
    <2>2. ShellWell(s)
      BY DEF ShellInv, ShellOk, ShellWell, ShellFit, ShellLoads, ShellPlaced,
             ShellCore
    <2> HIDE DEF s
    <2>3. ShellWell(z)
      BY <2>2, ShellShows DEF ShellInv
    <2> HIDE DEF z
    <2> QED
      BY <2>1, <2>3 DEF ShellInv, ShellShape, ShellOk, ShellWell, ShellFit
  <1>4. ASSUME NEW ok \in BOOLEAN, NEW own \in BOOLEAN, AShell!CoreLoads(ok, own) PROVE ShellInv'
    BY <1>4
       DEF ShellInv, ShellShape, ShellOk, AShell!CoreLoads, ShellWell,
           ShellFit, ShellLoads, ShellPlaced, ShellCore
  <1>5. ASSUME NEW ok \in BOOLEAN, AShell!Retry(ok) PROVE ShellInv'
    <2> DEFINE a == [view EXCEPT !.mounted = FALSE]
               b == [[view EXCEPT !.promise = "none"] EXCEPT !.busy = TRUE]
               s == IF view.spec THEN a ELSE b
               l == AShell!Loader(s, ok)
    <2>1. view' = l /\ view.panel = "error" /\ ~view.busy
      BY <1>5 DEF AShell!Retry
    <2>2. /\ ShellFit(s) /\ ShellLoads(s) /\ s.panel = "error"
          /\ s.view = view.view /\ s.core = view.core /\ s.again = view.again
          /\ s.cored = view.cored /\ s.loaded = view.loaded
      BY <2>1 DEF ShellInv, ShellOk, ShellWell, ShellFit, ShellLoads
    <2> HIDE DEF s
    <2>3. /\ ShellFit(l) /\ ShellLoads(l) /\ (l.busy => l.promise = "pending")
          /\ l.view = s.view /\ l.core = s.core
          /\ l.again = s.again /\ l.cored = s.cored
          /\ \/ l.waits > 0 /\ l.loaded = s.loaded /\ l.panel = s.panel
             \/ l.loaded = s.loaded \cup {"plug"} /\ l.panel # "empty"
      BY <2>2, ShellLoader DEF ShellInv
    <2> HIDE DEF l
    <2>4. ShellWell(l)
      BY <2>2, <2>3 DEF ShellInv, ShellOk, ShellWell, ShellPlaced, ShellCore
    <2> QED
      BY <2>1, <2>4 DEF ShellInv, ShellShape, ShellOk, ShellWell, ShellFit
  <1>6. CASE AShell!CoreRetry
    BY <1>6
       DEF ShellInv, ShellShape, ShellOk, AShell!CoreRetry, ShellWell,
           ShellFit, ShellLoads, ShellPlaced, ShellCore
  <1>7. CASE AShell!Enable
    BY <1>7
       DEF ShellInv, ShellShape, ShellOk, AShell!Enable, ShellWell, ShellFit,
           ShellLoads, ShellPlaced, ShellCore
  <1> QED BY <1>1, <1>2, <1>3, <1>4, <1>5, <1>6, <1>7 DEF AShell!Next

\* That gives the properties of AShell.
LEMMA ShellHolds == ShellInv => AShell!Settled /\ AShell!Kept /\ AShell!Truthful
  BY DEF ShellInv, ShellShape, ShellOk, AShell!Settled, AShell!Kept,
      AShell!Truthful, ShellWell, ShellFit, ShellLoads, ShellPlaced,
      ShellCore

\* It holds from the first state on when the page is this one.
LEMMA ShellStays ==
  /\ Init => (subject = "shell" => ShellInv)
  /\ (subject = "shell" => ShellInv) /\ [Next]_vars
       => (subject = "shell" => ShellInv)'
  <1>1. Init => (subject = "shell" => ShellInv)
    BY ShellInit DEF Init
  <1>2. (subject = "shell" => ShellInv) /\ [Next]_vars
          => (subject = "shell" => ShellInv)'
    <2>1. ASSUME ShellInv, view' = view PROVE ShellInv'
      BY <2>1 DEF ShellInv, ShellShape, ShellOk, ShellWell, ShellFit, ShellLoads,
          ShellPlaced, ShellCore
    <2> QED BY <2>1, ShellStep DEF Next, vars
  <1> QED BY <1>1, <1>2

-----------------------------------------------------------------------------
(* The collections.  A load during which nothing is deleted reads what the *)
(* server still holds; the row acts on the collection that was opened      *)
(* last, and is gone when that is closed.                                  *)

KnowShape ==
  DOMAIN view = {"srv", "list", "ticks", "sel", "loads", "crossed",
                 "cleared", "opens", "detail", "sync", "path", "ask", "dels",
                 "syncs"}
KnowLoad == [read : BOOLEAN, at : SUBSET Things, clean : BOOLEAN]
KnowDel == [id : Things, done : BOOLEAN]
KnowSorts ==
  /\ view.srv \in SUBSET Things /\ view.loads \in Seq(KnowLoad)
  /\ view.dels \subseteq KnowDel
  /\ view.crossed \in BOOLEAN /\ view.cleared \in BOOLEAN
  /\ view.ask.what = "delete" => view.ask.id \in Things
  /\ view.list \subseteq Things
KnowRow ==
  /\ view.path = view.sync
  /\ view.detail.is = "open" => view.sync = view.detail.id
  /\ view.detail.is = "none" => view.sync = 0
KnowBoxes ==
  ~view.cleared => view.ticks = view.sel \cap view.list
KnowSent ==
  \A y \in view.syncs : ~y.pruned => y.id = y.of
KnowClean ==
  \A i \in DOMAIN view.loads :
    view.loads[i].clean =>
      /\ view.dels = {}
      /\ view.loads[i].read => view.loads[i].at = view.srv
KnowListed ==
  \/ view.crossed \/ view.list \subseteq view.srv
  \/ \E d \in view.dels : d.done
KnowInv ==
  /\ KnowShape
  /\ KnowSorts
  /\ KnowRow
  /\ KnowBoxes
  /\ KnowSent
  /\ KnowClean
  /\ KnowListed

\* A load and a deletion are their fields.
LEMMA KnowLoads ==
  /\ \A l \in KnowLoad :
       l.read \in BOOLEAN /\ l.at \in SUBSET Things /\ l.clean \in BOOLEAN
  /\ \A c \in BOOLEAN :
       LET l == [read |-> FALSE, at |-> {}, clean |-> c]
       IN l \in KnowLoad /\ l.read = FALSE /\ l.clean = c
  BY DEF KnowLoad
\* A load across which something was deleted is a load.
LEMMA KnowSoiled ==
  ASSUME NEW l \in KnowLoad
  PROVE  [l EXCEPT !.clean = FALSE] \in KnowLoad
         /\ [l EXCEPT !.clean = FALSE].clean = FALSE
  BY DEF KnowLoad
\* So is one that has read.
LEMMA KnowRead ==
  ASSUME NEW l \in KnowLoad, NEW at \in SUBSET Things
  PROVE  LET k == [[l EXCEPT !.read = TRUE] EXCEPT !.at = at]
         IN k \in KnowLoad /\ k.clean = l.clean /\ k.at = at
  BY DEF KnowLoad
\* A deletion, new or done, is a deletion.
LEMMA KnowDels ==
  /\ \A d \in KnowDel : d.id \in Things /\ d.done \in BOOLEAN
  /\ \A c \in Things : [id |-> c, done |-> FALSE] \in KnowDel
  /\ \A d \in KnowDel :
       [d EXCEPT !.done = TRUE] \in KnowDel /\ [d EXCEPT !.done = TRUE].done
  BY DEF KnowDel

\* The list is asked for.
LEMMA KnowAsks ==
  ASSUME KnowShape, NEW s, DOMAIN s = DOMAIN view, s.loads \in Seq(KnowLoad)
  PROVE  LET t == AKnowledge!loadKnowledge(s)
         IN /\ DOMAIN t = DOMAIN view /\ t.list = {} /\ t.ticks = {}
            /\ t.cleared = FALSE /\ t.srv = s.srv /\ t.sel = s.sel
            /\ t.crossed = s.crossed /\ t.opens = s.opens
            /\ t.detail = s.detail /\ t.sync = s.sync /\ t.path = s.path
            /\ t.ask = s.ask /\ t.dels = s.dels /\ t.syncs = s.syncs
            /\ t.loads \in Seq(KnowLoad)
            /\ \A i \in DOMAIN t.loads :
                 \/ t.loads[i].clean => s.dels = {} /\ ~t.loads[i].read
                 \/ i \in DOMAIN s.loads /\ t.loads[i] = s.loads[i]
  <1> DEFINE c == s.dels = {}
             l == [read |-> FALSE, at |-> {}, clean |-> c]
             q == Append(s.loads, l)
  <1>1. c \in BOOLEAN /\ (c => s.dels = {})
    OBVIOUS
  <1>2. AKnowledge!loadKnowledge(s)
          = [[[[s EXCEPT !.list = {}] EXCEPT !.ticks = {}]
                 EXCEPT !.cleared = FALSE] EXCEPT !.loads = q]
    BY DEF AKnowledge!loadKnowledge
  <1>3. l \in KnowLoad /\ l.read = FALSE /\ l.clean = c
    <2> HIDE DEF c
    <2> QED BY <1>1, KnowLoads
  <1> HIDE DEF c, l
  <1>4. /\ q \in Seq(KnowLoad) /\ DOMAIN q = 1..(Len(s.loads) + 1)
        /\ q[Len(s.loads) + 1] = l /\ DOMAIN s.loads = 1..Len(s.loads)
        /\ Len(s.loads) \in Nat
        /\ \A i \in 1..Len(s.loads) : q[i] = s.loads[i]
    BY <1>3, ListAppended, ListOf
  <1> HIDE DEF q
  <1>5. \A i \in DOMAIN q :
          \/ q[i].clean => s.dels = {} /\ ~q[i].read
          \/ i \in DOMAIN s.loads /\ q[i] = s.loads[i]
    BY <1>1, <1>3, <1>4
  <1> QED BY <1>2, <1>4, <1>5 DEF KnowShape

\* The collections at the start.
LEMMA KnowInit == AKnowledge!Init => KnowInv
  <1> SUFFICES ASSUME AKnowledge!Init PROVE KnowInv
    OBVIOUS
  <1> DEFINE l == [read |-> FALSE, at |-> {}, clean |-> TRUE]
             q == <<l>>
  <1>1. l \in KnowLoad /\ l.read = FALSE
    BY DEF KnowLoad
  <1>2. PICK s \in SUBSET Things :
          view = [srv |-> Things, list |-> {}, ticks |-> {}, sel |-> s,
                  loads |-> q, crossed |-> FALSE, cleared |-> FALSE,
                  opens |-> <<>>, detail |-> [is |-> "none", id |-> 0],
                  sync |-> 0, path |-> 0, ask |-> [what |-> "none", id |-> 0],
                  dels |-> {}, syncs |-> {}]
    BY DEF AKnowledge!Init
  <1> HIDE DEF l
  <1>3. q \in Seq(KnowLoad) /\ DOMAIN q = {1} /\ q[1] = l
    BY <1>1
  <1> HIDE DEF q
  <1> QED
    BY <1>1, <1>2, <1>3
       DEF KnowInv, KnowShape, KnowSorts, KnowRow, KnowBoxes, KnowSent,
           KnowClean, KnowListed

\* Every step of it keeps what is said of it.
LEMMA KnowStep == ASSUME KnowInv, AKnowledge!Next PROVE KnowInv'
  <1>1. CASE AKnowledge!Refresh
    <2> DEFINE t == AKnowledge!loadKnowledge(view)
    <2>a. view' = t
      BY <1>1 DEF AKnowledge!Refresh
    <2>b. /\ DOMAIN t = DOMAIN view /\ t.list = {} /\ t.ticks = {}
          /\ t.cleared = FALSE /\ t.srv = view.srv /\ t.sel = view.sel
          /\ t.crossed = view.crossed
          /\ t.detail = view.detail /\ t.sync = view.sync /\ t.path = view.path
          /\ t.ask = view.ask /\ t.dels = view.dels /\ t.syncs = view.syncs
          /\ t.loads \in Seq(KnowLoad)
          /\ \A i \in DOMAIN t.loads :
               \/ t.loads[i].clean => view.dels = {} /\ ~t.loads[i].read
               \/ i \in DOMAIN view.loads /\ t.loads[i] = view.loads[i]
      BY KnowAsks DEF KnowInv, KnowSorts
    <2> HIDE DEF t
    <2>1. KnowShape'
      BY <2>a, <2>b
         DEF KnowInv, KnowShape
    <2>2. KnowSorts'
      BY <2>a, <2>b
         DEF KnowInv, KnowShape, KnowSorts
    <2>3. KnowRow'
      BY <2>a, <2>b
         DEF KnowInv, KnowShape, KnowSorts, KnowRow
    <2>4. KnowBoxes'
      BY <2>a, <2>b
         DEF KnowInv, KnowShape, KnowSorts, KnowBoxes
    <2>5. KnowSent'
      BY <2>a, <2>b
         DEF KnowInv, KnowShape, KnowSorts, KnowRow, KnowSent
    <2>6. KnowClean'
      BY <2>a, <2>b
         DEF KnowInv, KnowShape, KnowSorts, KnowClean
    <2>7. KnowListed'
      BY <2>a, <2>b
         DEF KnowInv, KnowShape, KnowSorts, KnowClean, KnowListed
    <2> QED BY <2>1, <2>2, <2>3, <2>4, <2>5, <2>6, <2>7 DEF KnowInv
  <1>2. CASE AKnowledge!closeCollection
    BY <1>2
       DEF KnowInv, KnowShape, KnowSorts, KnowRow, KnowBoxes, KnowSent,
           KnowClean, KnowListed, AKnowledge!closeCollection,
           AKnowledge!closed, AKnowledge!Free
  <1>3. CASE AKnowledge!ClearSelection
    BY <1>3
       DEF KnowInv, KnowShape, KnowSorts, KnowRow, KnowBoxes, KnowSent,
           KnowClean, KnowListed, AKnowledge!ClearSelection
  <1>4. CASE AKnowledge!No
    BY <1>4
       DEF KnowInv, KnowShape, KnowSorts, KnowRow, KnowBoxes, KnowSent,
           KnowClean, KnowListed, AKnowledge!No
  <1>5. CASE AKnowledge!deleteCollection
    <2> DEFINE e == [id |-> view.ask.id, done |-> FALSE]
               q == [i \in DOMAIN view.loads |->
                       [view.loads[i] EXCEPT !.clean = FALSE]]
    <2>a. /\ DOMAIN view' = DOMAIN view /\ view'.loads = q
          /\ view'.dels = view.dels \cup {e} /\ view'.ask.what = "none"
          /\ view'.srv = view.srv /\ view'.list = view.list
          /\ view'.ticks = view.ticks /\ view'.sel = view.sel
          /\ view'.crossed = view.crossed /\ view'.cleared = view.cleared
          /\ view'.opens = view.opens /\ view'.detail = view.detail
          /\ view'.sync = view.sync /\ view'.path = view.path
          /\ view'.syncs = view.syncs
      BY <1>5 DEF KnowInv, KnowShape, AKnowledge!deleteCollection
    <2>b. e \in KnowDel
      BY <1>5, KnowDels DEF KnowInv, KnowSorts, AKnowledge!deleteCollection
    <2>c. q \in Seq(KnowLoad) /\ \A i \in DOMAIN q : q[i].clean = FALSE
      <3>1. view.loads \in Seq(KnowLoad)
        BY DEF KnowInv, KnowSorts
      <3>2. \A i \in DOMAIN view.loads : q[i] \in KnowLoad /\ q[i].clean = FALSE
        BY <3>1, ListOf, KnowSoiled
      <3>3. q = [i \in DOMAIN view.loads |-> q[i]] /\ DOMAIN q = DOMAIN view.loads
        OBVIOUS
      <3> HIDE DEF q
      <3> QED BY <3>1, <3>2, <3>3, ListMapped
    <2> HIDE DEF e, q
    <2>1. KnowShape'
      BY <2>a, <2>b, <2>c
         DEF KnowInv, KnowShape
    <2>2. KnowSorts'
      BY <2>a, <2>b, <2>c
         DEF KnowInv, KnowShape, KnowSorts
    <2>3. KnowRow'
      BY <2>a, <2>b, <2>c
         DEF KnowInv, KnowShape, KnowSorts, KnowRow
    <2>4. KnowBoxes'
      BY <2>a, <2>b, <2>c
         DEF KnowInv, KnowShape, KnowSorts, KnowBoxes
    <2>5. KnowSent'
      BY <2>a, <2>b, <2>c
         DEF KnowInv, KnowShape, KnowSorts, KnowRow, KnowSent
    <2>6. KnowClean'
      BY <2>a, <2>b, <2>c
         DEF KnowInv, KnowShape, KnowSorts, KnowClean
    <2>7. KnowListed'
      BY <2>a, <2>b, <2>c
         DEF KnowInv, KnowShape, KnowSorts, KnowClean, KnowListed
    <2> QED BY <2>1, <2>2, <2>3, <2>4, <2>5, <2>6, <2>7 DEF KnowInv
  <1>6. CASE AKnowledge!runFolderSync
    <2> DEFINE e == [id |-> view.sync, of |-> view.path, pruned |-> FALSE]
    <2>a. view' = [view EXCEPT !.syncs = @ \cup {e}] /\ e.id = view.sync
          /\ e.of = view.path
      BY <1>6 DEF AKnowledge!runFolderSync
    <2> HIDE DEF e
    <2>1. KnowShape'
      BY <2>a
         DEF KnowInv, KnowShape
    <2>2. KnowSorts'
      BY <2>a
         DEF KnowInv, KnowShape, KnowSorts
    <2>3. KnowRow'
      BY <2>a
         DEF KnowInv, KnowShape, KnowSorts, KnowRow
    <2>4. KnowBoxes'
      BY <2>a
         DEF KnowInv, KnowShape, KnowSorts, KnowBoxes
    <2>5. KnowSent'
      BY <2>a
         DEF KnowInv, KnowShape, KnowSorts, KnowRow, KnowSent
    <2>6. KnowClean'
      BY <2>a
         DEF KnowInv, KnowShape, KnowSorts, KnowClean
    <2>7. KnowListed'
      BY <2>a
         DEF KnowInv, KnowShape, KnowSorts, KnowClean, KnowListed
    <2> QED BY <2>1, <2>2, <2>3, <2>4, <2>5, <2>6, <2>7 DEF KnowInv
  <1>7. CASE AKnowledge!AskPrune
    BY <1>7
       DEF KnowInv, KnowShape, KnowSorts, KnowRow, KnowBoxes, KnowSent,
           KnowClean, KnowListed, AKnowledge!AskPrune, AKnowledge!Ask,
           AKnowledge!Free
  <1>8. CASE AKnowledge!Prune
    <2> DEFINE e == [id |-> view.sync, of |-> view.ask.id, pruned |-> TRUE]
               none == [what |-> "none", id |-> 0]
    <2>a. /\ view' = [[view EXCEPT !.ask = none] EXCEPT !.syncs = @ \cup {e}]
          /\ e.pruned = TRUE /\ none.what = "none"
      BY <1>8 DEF AKnowledge!Prune
    <2> HIDE DEF e, none
    <2>1. KnowShape'
      BY <2>a
         DEF KnowInv, KnowShape
    <2>2. KnowSorts'
      BY <2>a
         DEF KnowInv, KnowShape, KnowSorts
    <2>3. KnowRow'
      BY <2>a
         DEF KnowInv, KnowShape, KnowSorts, KnowRow
    <2>4. KnowBoxes'
      BY <2>a
         DEF KnowInv, KnowShape, KnowSorts, KnowBoxes
    <2>5. KnowSent'
      BY <2>a
         DEF KnowInv, KnowShape, KnowSorts, KnowRow, KnowSent
    <2>6. KnowClean'
      BY <2>a
         DEF KnowInv, KnowShape, KnowSorts, KnowClean
    <2>7. KnowListed'
      BY <2>a
         DEF KnowInv, KnowShape, KnowSorts, KnowClean, KnowListed
    <2> QED BY <2>1, <2>2, <2>3, <2>4, <2>5, <2>6, <2>7 DEF KnowInv
  <1>9. ASSUME NEW c \in Things, AKnowledge!Open(c) PROVE KnowInv'
    BY <1>9
       DEF KnowInv, KnowShape, KnowSorts, KnowRow, KnowBoxes, KnowSent,
           KnowClean, KnowListed, AKnowledge!Open, AKnowledge!openCollection
  <1>10. ASSUME NEW c \in Things, AKnowledge!Include(c) PROVE KnowInv'
    BY <1>10
       DEF KnowInv, KnowShape, KnowSorts, KnowRow, KnowBoxes, KnowSent,
           KnowClean, KnowListed, AKnowledge!Include
  <1>11. ASSUME NEW c \in Things, AKnowledge!AskDelete(c) PROVE KnowInv'
    BY <1>11
       DEF KnowInv, KnowShape, KnowSorts, KnowRow, KnowBoxes, KnowSent,
           KnowClean, KnowListed, AKnowledge!AskDelete, AKnowledge!Ask,
           AKnowledge!Free
  <1>12. ASSUME NEW i \in 1..MaxLoads, AKnowledge!Reads(i) PROVE KnowInv'
    <2> DEFINE l == [[view.loads[i] EXCEPT !.read = TRUE] EXCEPT !.at = view.srv]
               q == [view.loads EXCEPT ![i] = l]
    <2>b. i \in 1..Len(view.loads) /\ view.loads \in Seq(KnowLoad)
          /\ view.loads[i] \in KnowLoad /\ view.srv \in SUBSET Things
          /\ DOMAIN view.loads = 1..Len(view.loads)
      BY <1>12, ListOf DEF KnowInv, KnowSorts, AKnowledge!Reads
    <2>a. /\ DOMAIN view' = DOMAIN view /\ view'.loads = q
          /\ view'.dels = view.dels /\ view'.ask = view.ask
          /\ view'.srv = view.srv /\ view'.list = view.list
          /\ view'.ticks = view.ticks /\ view'.sel = view.sel
          /\ view'.crossed = view.crossed /\ view'.cleared = view.cleared
          /\ view'.opens = view.opens /\ view'.detail = view.detail
          /\ view'.sync = view.sync /\ view'.path = view.path
          /\ view'.syncs = view.syncs
      BY <1>12, <2>b DEF KnowInv, KnowShape, AKnowledge!Reads
    <2>c. l \in KnowLoad /\ l.clean = view.loads[i].clean /\ l.at = view.srv
      BY <2>b, KnowRead
    <2> HIDE DEF l
    <2>d. /\ q \in Seq(KnowLoad) /\ DOMAIN q = DOMAIN view.loads /\ q[i] = l
          /\ \A k \in DOMAIN view.loads : k # i => q[k] = view.loads[k]
      BY <2>b, <2>c
    <2> HIDE DEF q
    <2>1. KnowShape'
      BY <2>a, <2>b, <2>c, <2>d
         DEF KnowInv, KnowShape
    <2>2. KnowSorts'
      BY <2>a, <2>b, <2>c, <2>d
         DEF KnowInv, KnowShape, KnowSorts
    <2>3. KnowRow'
      BY <2>a, <2>b, <2>c, <2>d
         DEF KnowInv, KnowShape, KnowSorts, KnowRow
    <2>4. KnowBoxes'
      BY <2>a, <2>b, <2>c, <2>d
         DEF KnowInv, KnowShape, KnowSorts, KnowBoxes
    <2>5. KnowSent'
      BY <2>a, <2>b, <2>c, <2>d
         DEF KnowInv, KnowShape, KnowSorts, KnowRow, KnowSent
    <2>6. KnowClean'
      BY <2>a, <2>b, <2>c, <2>d
         DEF KnowInv, KnowShape, KnowSorts, KnowClean
    <2>7. KnowListed'
      BY <2>a, <2>b, <2>c, <2>d
         DEF KnowInv, KnowShape, KnowSorts, KnowClean, KnowListed
    <2> QED BY <2>1, <2>2, <2>3, <2>4, <2>5, <2>6, <2>7 DEF KnowInv
  <1>13. ASSUME NEW i \in 1..MaxLoads, AKnowledge!ListRead(i) PROVE KnowInv'
    <2> DEFINE q == AKnowledge!Without(view.loads, i)
               l == view.loads[i]
    <2>a. /\ DOMAIN view' = DOMAIN view
          /\ view'.loads = q
          /\ view'.list = l.at
          /\ view'.ticks = view.sel \cap l.at
          /\ view'.crossed = (~l.clean)
          /\ view'.cleared = FALSE
          /\ view'.srv = view.srv
          /\ view'.sel = view.sel
          /\ view'.opens = view.opens
          /\ view'.detail = view.detail
          /\ view'.sync = view.sync
          /\ view'.path = view.path
          /\ view'.ask = view.ask
          /\ view'.dels = view.dels
          /\ view'.syncs = view.syncs
      BY <1>13 DEF KnowInv, KnowShape, AKnowledge!ListRead

    <2>b. i \in 1..Len(view.loads) /\ view.loads \in Seq(KnowLoad)
      BY <1>13, ListOf DEF KnowInv, KnowSorts, AKnowledge!ListRead
    <2>c. /\ q \in Seq(KnowLoad)
          /\ \A k \in DOMAIN q :
               \E j \in DOMAIN view.loads : q[k] = view.loads[j]
      <3>1. q = Without(view.loads, i)
        BY DEF AKnowledge!Without, Without
      <3> HIDE DEF q
      <3> QED BY <2>b, <3>1, ListShorter
    <2> HIDE DEF q
    <2>d. /\ l \in KnowLoad /\ l.at \subseteq Things /\ l.clean \in BOOLEAN
          /\ i \in DOMAIN view.loads /\ l.read
      BY <1>13, <2>b, ListOf, KnowLoads DEF AKnowledge!ListRead
    <2>1. KnowShape'
      BY <2>a, <2>b, <2>c, <2>d
         DEF KnowInv, KnowShape
    <2>2. KnowSorts'
      BY <2>a, <2>b, <2>c, <2>d
         DEF KnowInv, KnowShape, KnowSorts
    <2>3. KnowRow'
      BY <2>a, <2>b, <2>c, <2>d
         DEF KnowInv, KnowShape, KnowSorts, KnowRow
    <2>4. KnowBoxes'
      BY <2>a, <2>b, <2>c, <2>d
         DEF KnowInv, KnowShape, KnowSorts, KnowBoxes
    <2>5. KnowSent'
      BY <2>a, <2>b, <2>c, <2>d
         DEF KnowInv, KnowShape, KnowSorts, KnowRow, KnowSent
    <2>6. KnowClean'
      BY <2>a, <2>b, <2>c, <2>d
         DEF KnowInv, KnowShape, KnowSorts, KnowClean
    <2>7. KnowListed'
      BY <2>a, <2>b, <2>c, <2>d
         DEF KnowInv, KnowShape, KnowSorts, KnowClean, KnowListed
    <2> QED BY <2>1, <2>2, <2>3, <2>4, <2>5, <2>6, <2>7 DEF KnowInv
  <1>14. ASSUME NEW i \in 1..MaxLoads, AKnowledge!ListFails(i) PROVE KnowInv'
    <2> DEFINE q == AKnowledge!Without(view.loads, i)
               l == view.loads[i]
    <2>a. /\ DOMAIN view' = DOMAIN view
          /\ view'.loads = q
          /\ view'.list = {}
          /\ view'.ticks = {}
          /\ view'.srv = view.srv
          /\ view'.sel = view.sel
          /\ view'.crossed = view.crossed
          /\ view'.cleared = view.cleared
          /\ view'.opens = view.opens
          /\ view'.detail = view.detail
          /\ view'.sync = view.sync
          /\ view'.path = view.path
          /\ view'.ask = view.ask
          /\ view'.dels = view.dels
          /\ view'.syncs = view.syncs
      BY <1>14 DEF KnowInv, KnowShape, AKnowledge!ListFails

    <2>b. i \in 1..Len(view.loads) /\ view.loads \in Seq(KnowLoad)
      BY <1>14, ListOf DEF KnowInv, KnowSorts, AKnowledge!ListFails
    <2>c. /\ q \in Seq(KnowLoad)
          /\ \A k \in DOMAIN q :
               \E j \in DOMAIN view.loads : q[k] = view.loads[j]
      <3>1. q = Without(view.loads, i)
        BY DEF AKnowledge!Without, Without
      <3> HIDE DEF q
      <3> QED BY <2>b, <3>1, ListShorter
    <2> HIDE DEF q
    <2>1. KnowShape'
      BY <2>a, <2>b, <2>c
         DEF KnowInv, KnowShape
    <2>2. KnowSorts'
      BY <2>a, <2>b, <2>c
         DEF KnowInv, KnowShape, KnowSorts
    <2>3. KnowRow'
      BY <2>a, <2>b, <2>c
         DEF KnowInv, KnowShape, KnowSorts, KnowRow
    <2>4. KnowBoxes'
      BY <2>a, <2>b, <2>c
         DEF KnowInv, KnowShape, KnowSorts, KnowBoxes
    <2>5. KnowSent'
      BY <2>a, <2>b, <2>c
         DEF KnowInv, KnowShape, KnowSorts, KnowRow, KnowSent
    <2>6. KnowClean'
      BY <2>a, <2>b, <2>c
         DEF KnowInv, KnowShape, KnowSorts, KnowClean
    <2>7. KnowListed'
      BY <2>a, <2>b, <2>c
         DEF KnowInv, KnowShape, KnowSorts, KnowClean, KnowListed
    <2> QED BY <2>1, <2>2, <2>3, <2>4, <2>5, <2>6, <2>7 DEF KnowInv
  <1>15. ASSUME NEW i \in 1..MaxOut, AKnowledge!OpenRead(i) PROVE KnowInv'
    BY <1>15
       DEF KnowInv, KnowShape, KnowSorts, KnowRow, KnowBoxes, KnowSent,
           KnowClean, KnowListed, AKnowledge!OpenRead
  <1>16. ASSUME NEW i \in 1..MaxOut, AKnowledge!OpenFails(i) PROVE KnowInv'
    BY <1>16
       DEF KnowInv, KnowShape, KnowSorts, KnowRow, KnowBoxes, KnowSent,
           KnowClean, KnowListed, AKnowledge!OpenFails
  <1>17. ASSUME NEW d \in view.dels, AKnowledge!Deletes(d) PROVE KnowInv'
    <2> DEFINE e == [d EXCEPT !.done = TRUE]
    <2>a. /\ DOMAIN view' = DOMAIN view /\ view'.loads = view.loads
          /\ view'.dels = (view.dels \ {d}) \cup {e} /\ view'.ask = view.ask
          /\ view'.srv = view.srv \ {d.id} /\ view'.list = view.list
          /\ view'.ticks = view.ticks /\ view'.sel = view.sel
          /\ view'.crossed = view.crossed /\ view'.cleared = view.cleared
          /\ view'.opens = view.opens /\ view'.detail = view.detail
          /\ view'.sync = view.sync /\ view'.path = view.path
          /\ view'.syncs = view.syncs
      BY <1>17 DEF KnowInv, KnowShape, AKnowledge!Deletes
    <2>b. e \in KnowDel /\ e.done
      BY KnowDels DEF KnowInv, KnowSorts
    <2> HIDE DEF e
    <2>1. KnowShape'
      BY <2>a, <2>b
         DEF KnowInv, KnowShape
    <2>2. KnowSorts'
      BY <2>a, <2>b
         DEF KnowInv, KnowShape, KnowSorts
    <2>3. KnowRow'
      BY <2>a, <2>b
         DEF KnowInv, KnowShape, KnowSorts, KnowRow
    <2>4. KnowBoxes'
      BY <2>a, <2>b
         DEF KnowInv, KnowShape, KnowSorts, KnowBoxes
    <2>5. KnowSent'
      BY <2>a, <2>b
         DEF KnowInv, KnowShape, KnowSorts, KnowRow, KnowSent
    <2>6. KnowClean'
      BY <2>a, <2>b
         DEF KnowInv, KnowShape, KnowSorts, KnowClean
    <2>7. KnowListed'
      BY <2>a, <2>b
         DEF KnowInv, KnowShape, KnowSorts, KnowClean, KnowListed
    <2> QED BY <2>1, <2>2, <2>3, <2>4, <2>5, <2>6, <2>7 DEF KnowInv
  <1>18. ASSUME NEW d \in view.dels, AKnowledge!Deleted(d) PROVE KnowInv'
    <2> DEFINE s == [[view EXCEPT !.dels = @ \ {d}] EXCEPT !.sel = @ \ {d.id}]
               z == IF view.sync = d.id THEN AKnowledge!closed(s) ELSE s
               t == AKnowledge!loadKnowledge(z)
    <2>a. view' = t
      BY <1>18 DEF AKnowledge!Deleted
    <2>b. /\ DOMAIN s = DOMAIN view /\ s.dels = view.dels \ {d}
          /\ s.srv = view.srv /\ s.crossed = view.crossed /\ s.loads = view.loads
          /\ s.detail = view.detail /\ s.sync = view.sync /\ s.path = view.path
          /\ s.ask = view.ask /\ s.syncs = view.syncs
      BY DEF KnowInv, KnowShape
    <2> HIDE DEF s
    <2>c. /\ DOMAIN z = DOMAIN view /\ z.dels = view.dels \ {d}
          /\ z.srv = view.srv /\ z.crossed = view.crossed /\ z.loads = view.loads
          /\ z.path = z.sync /\ (z.detail.is = "open" => z.sync = z.detail.id)
          /\ (z.detail.is = "none" => z.sync = 0)
          /\ z.ask = view.ask /\ z.syncs = view.syncs
      BY <2>b DEF KnowInv, KnowShape, KnowRow, AKnowledge!closed
    <2> HIDE DEF z
    <2>d. /\ DOMAIN t = DOMAIN view /\ t.list = {} /\ t.ticks = {}
          /\ t.cleared = FALSE /\ t.srv = z.srv
          /\ t.crossed = z.crossed
          /\ t.detail = z.detail /\ t.sync = z.sync /\ t.path = z.path
          /\ t.ask = z.ask /\ t.dels = z.dels /\ t.syncs = z.syncs
          /\ t.loads \in Seq(KnowLoad)
          /\ \A i \in DOMAIN t.loads :
               \/ t.loads[i].clean => z.dels = {} /\ ~t.loads[i].read
               \/ i \in DOMAIN z.loads /\ t.loads[i] = z.loads[i]
      BY <2>c, KnowAsks DEF KnowInv, KnowSorts
    <2> HIDE DEF t
    <2>1. KnowShape'
      BY <2>a, <2>c, <2>d
         DEF KnowInv, KnowShape
    <2>2. KnowSorts'
      BY <2>a, <2>c, <2>d
         DEF KnowInv, KnowShape, KnowSorts
    <2>3. KnowRow'
      BY <2>a, <2>c, <2>d
         DEF KnowInv, KnowShape, KnowSorts, KnowRow
    <2>4. KnowBoxes'
      BY <2>a, <2>c, <2>d
         DEF KnowInv, KnowShape, KnowSorts, KnowBoxes
    <2>5. KnowSent'
      BY <2>a, <2>c, <2>d
         DEF KnowInv, KnowShape, KnowSorts, KnowRow, KnowSent
    <2>6. KnowClean'
      BY <2>a, <2>c, <2>d
         DEF KnowInv, KnowShape, KnowSorts, KnowClean
    <2>7. KnowListed'
      BY <2>a, <2>c, <2>d
         DEF KnowInv, KnowShape, KnowSorts, KnowClean, KnowListed
    <2> QED BY <2>1, <2>2, <2>3, <2>4, <2>5, <2>6, <2>7 DEF KnowInv
  <1>19. ASSUME NEW d \in view.dels, AKnowledge!DeleteFails(d) PROVE KnowInv'
    BY <1>19
       DEF KnowInv, KnowShape, KnowSorts, KnowRow, KnowBoxes, KnowSent,
           KnowClean, KnowListed, AKnowledge!DeleteFails
  <1>20. ASSUME NEW y \in view.syncs, NEW ok \in BOOLEAN, AKnowledge!Synced(y, ok) PROVE KnowInv'
    <2> DEFINE s == [view EXCEPT !.syncs = @ \ {y}]
               o == AKnowledge!openCollection(s, view.sync)
               t == AKnowledge!loadKnowledge(o)
    <2>a. view' = IF ok THEN t ELSE s
      BY <1>20 DEF AKnowledge!Synced
    <2>b. /\ DOMAIN s = DOMAIN view /\ s.dels = view.dels
          /\ s.srv = view.srv /\ s.crossed = view.crossed /\ s.loads = view.loads
          /\ s.detail = view.detail /\ s.sync = view.sync /\ s.path = view.path
          /\ s.ask = view.ask /\ s.syncs = view.syncs \ {y}
          /\ s.list = view.list /\ s.ticks = view.ticks /\ s.sel = view.sel
          /\ s.cleared = view.cleared
      BY DEF KnowInv, KnowShape
    <2> HIDE DEF s
    <2>c. /\ DOMAIN o = DOMAIN view /\ o.dels = view.dels
          /\ o.srv = view.srv /\ o.crossed = view.crossed /\ o.loads = view.loads
          /\ o.path = view.path /\ o.sync = view.sync /\ o.detail.is = "loading"
          /\ o.ask = view.ask /\ o.syncs = view.syncs \ {y}
      BY <2>b DEF KnowInv, KnowShape, AKnowledge!openCollection
    <2> HIDE DEF o
    <2>d. /\ DOMAIN t = DOMAIN view /\ t.list = {} /\ t.ticks = {}
          /\ t.cleared = FALSE /\ t.srv = o.srv
          /\ t.crossed = o.crossed
          /\ t.detail = o.detail /\ t.sync = o.sync /\ t.path = o.path
          /\ t.ask = o.ask /\ t.dels = o.dels /\ t.syncs = o.syncs
          /\ t.loads \in Seq(KnowLoad)
          /\ \A i \in DOMAIN t.loads :
               \/ t.loads[i].clean => o.dels = {} /\ ~t.loads[i].read
               \/ i \in DOMAIN o.loads /\ t.loads[i] = o.loads[i]
      BY <2>c, KnowAsks DEF KnowInv, KnowSorts
    <2> HIDE DEF t
    <2>1. KnowShape'
      BY <2>a, <2>b, <2>c, <2>d
         DEF KnowInv, KnowShape
    <2>2. KnowSorts'
      BY <2>a, <2>b, <2>c, <2>d
         DEF KnowInv, KnowShape, KnowSorts
    <2>3. KnowRow'
      BY <2>a, <2>b, <2>c, <2>d
         DEF KnowInv, KnowShape, KnowSorts, KnowRow
    <2>4. KnowBoxes'
      BY <2>a, <2>b, <2>c, <2>d
         DEF KnowInv, KnowShape, KnowSorts, KnowBoxes
    <2>5. KnowSent'
      BY <2>a, <2>b, <2>c, <2>d
         DEF KnowInv, KnowShape, KnowSorts, KnowRow, KnowSent
    <2>6. KnowClean'
      BY <2>a, <2>b, <2>c, <2>d
         DEF KnowInv, KnowShape, KnowSorts, KnowClean
    <2>7. KnowListed'
      BY <2>a, <2>b, <2>c, <2>d
         DEF KnowInv, KnowShape, KnowSorts, KnowClean, KnowListed
    <2> QED BY <2>1, <2>2, <2>3, <2>4, <2>5, <2>6, <2>7 DEF KnowInv
  <1> QED
    BY <1>1, <1>2, <1>3, <1>4, <1>5, <1>6, <1>7, <1>8, <1>9, <1>10, <1>11,
       <1>12, <1>13, <1>14, <1>15, <1>16, <1>17, <1>18, <1>19, <1>20 DEF
       AKnowledge!Next

\* That gives the properties of AKnowledge.
LEMMA KnowHolds == KnowInv => AKnowledge!Settled /\ AKnowledge!Kept /\ AKnowledge!Truthful /\ AKnowledge!InStep
  BY DEF KnowInv, KnowShape, KnowSorts, KnowRow, KnowBoxes, KnowSent, KnowClean,
      KnowListed, AKnowledge!Settled, AKnowledge!Kept, AKnowledge!Truthful,
      AKnowledge!InStep

\* It holds from the first state on when the page is this one.
LEMMA KnowStays ==
  /\ Init => (subject = "knowledge" => KnowInv)
  /\ (subject = "knowledge" => KnowInv) /\ [Next]_vars
       => (subject = "knowledge" => KnowInv)'
  <1>1. Init => (subject = "knowledge" => KnowInv)
    BY KnowInit DEF Init
  <1>2. (subject = "knowledge" => KnowInv) /\ [Next]_vars
          => (subject = "knowledge" => KnowInv)'
    <2>1. ASSUME KnowInv, view' = view PROVE KnowInv'
      BY <2>1 DEF KnowInv, KnowShape, KnowSorts, KnowRow, KnowBoxes, KnowSent,
          KnowClean, KnowListed
    <2> QED BY <2>1, KnowStep DEF Next, vars
  <1> QED BY <1>1, <1>2

-----------------------------------------------------------------------------
(* The samples of the server.  Until two cross, every sample on its way is *)
(* younger than the one drawn and older than the counter, and the next of  *)
(* the bus is the oldest of them.                                          *)

HealthShape ==
  DOMAIN view = {"srv", "load", "got", "bus", "crossed", "prev", "tile",
                 "shown"}
HealthSample == [life : Nat, count : Nat]
\* One sample was taken no later than another.
HealthUpTo(a, b) == a.life < b.life \/ (a.life = b.life /\ a.count <= b.count)
HealthSorts ==
  /\ view.srv \in HealthSample /\ view.srv.life > 0 /\ view.got \in HealthSample
  /\ view.prev \in HealthSample /\ view.shown \in HealthSample
  /\ view.bus \in Seq(HealthSample) /\ view.crossed \in BOOLEAN
  /\ view.tile.from \in HealthSample
HealthLine ==
  ~view.crossed =>
    /\ view.load = "none" \/ view.bus = <<>>
    /\ HealthUpTo(view.prev, view.srv)
    /\ view.load = "read" =>
         HealthUpTo(view.prev, view.got) /\ HealthUpTo(view.got, view.srv)
    /\ \A i \in DOMAIN view.bus :
         /\ HealthUpTo(view.prev, view.bus[i])
         /\ HealthUpTo(view.bus[i], view.srv)
         /\ \A j \in DOMAIN view.bus :
              i <= j => HealthUpTo(view.bus[i], view.bus[j])
HealthRate ==
  /\ view.tile.rate \in Nat
  /\ view.tile.says = "reset" /\ ~view.crossed
       => view.tile.from.life < view.srv.life
HealthDrawn ==
  /\ view.prev # AHealth!None => view.prev = view.shown
  /\ ~view.crossed /\ view.tile.says # "none" =>
       HealthUpTo(view.tile.from, view.shown) \/ view.shown = AHealth!None
HealthInv ==
  /\ HealthShape /\ HealthSorts /\ HealthLine /\ HealthRate /\ HealthDrawn

\* A sample is its life and its count, and samples are in a line.
LEMMA HealthSamples ==
  /\ \A a \in HealthSample :
       a.life \in Nat /\ a.count \in Nat /\ HealthUpTo(a, a)
  /\ \A a, b \in HealthSample :
       AHealth!Older(b, a) <=> ~HealthUpTo(a, b)
  /\ \A a, b, c \in HealthSample :
       HealthUpTo(a, b) /\ HealthUpTo(b, c) => HealthUpTo(a, c)
  /\ AHealth!None \in HealthSample
  /\ \A a \in HealthSample : HealthUpTo(AHealth!None, a)
  BY DEF HealthSample, HealthUpTo, AHealth!Older, AHealth!None

\* The counter goes on.
LEMMA HealthCounts ==
  ASSUME NEW s \in HealthSample
  PROVE  /\ LET t == [s EXCEPT !.count = @ + 1]
            IN t \in HealthSample /\ t.life = s.life /\ HealthUpTo(s, t)
         /\ LET t == [life |-> s.life + 1, count |-> 0]
            IN t \in HealthSample /\ t.life = s.life + 1 /\ HealthUpTo(s, t)
  BY DEF HealthSample, HealthUpTo

\* What the tile says of two samples.
LEMMA HealthRated ==
  ASSUME NEW a \in HealthSample, NEW b \in HealthSample, NEW apart \in BOOLEAN
  PROVE  LET r == AHealth!rateOf(a, b, apart)
         IN /\ r.rate \in Nat /\ r.from = a /\ r.says # "none"
            /\ r.says = "reset" => b.count < a.count
  BY DEF HealthSample, AHealth!rateOf

\* A sample is drawn.
LEMMA HealthDraws ==
  ASSUME HealthShape, NEW s, DOMAIN s = DOMAIN view, s.prev \in HealthSample,
         NEW d \in HealthSample, NEW apart \in BOOLEAN
  PROVE  LET t == AHealth!applySample(s, d, apart)
         IN /\ DOMAIN t = DOMAIN view /\ t.srv = s.srv /\ t.load = s.load
            /\ t.got = s.got /\ t.bus = s.bus /\ t.crossed = s.crossed
            /\ t.prev = d /\ t.shown = d
            /\ t.tile.rate \in Nat /\ t.tile.from = s.prev
            /\ t.tile.says # "none"
            /\ t.tile.says = "reset" => d.count < s.prev.count
  <1> DEFINE r == AHealth!rateOf(s.prev, d, apart)
  <1>1. AHealth!applySample(s, d, apart)
          = [[[s EXCEPT !.tile = r] EXCEPT !.prev = d] EXCEPT !.shown = d]
    BY DEF AHealth!applySample
  <1> HIDE DEF r
  <1> QED BY <1>1, HealthRated DEF HealthShape, r

\* The health page at the start.
LEMMA HealthInit == AHealth!Init => HealthInv
  <1> SUFFICES ASSUME AHealth!Init PROVE HealthInv
    OBVIOUS
  <1> DEFINE one == [life |-> 1, count |-> 0]
             tile == [says |-> "none", rate |-> 0, from |-> AHealth!None]
  <1>1. /\ one \in HealthSample /\ one.life = 1 /\ AHealth!None \in HealthSample
        /\ HealthUpTo(AHealth!None, one)
    BY DEF HealthSample, HealthUpTo, AHealth!None
  <1>2. /\ tile.says = "none" /\ tile.rate = 0 /\ tile.from = AHealth!None
        /\ view = [srv |-> one, load |-> "asked", got |-> AHealth!None,
                   bus |-> <<>>, crossed |-> FALSE, prev |-> AHealth!None,
                   tile |-> tile, shown |-> AHealth!None]
    BY DEF AHealth!Init
  <1> HIDE DEF one, tile
  <1> QED
    BY <1>1, <1>2
       DEF HealthInv, HealthShape, HealthSorts, HealthLine, HealthRate,
           HealthDrawn

\* Every step of it keeps what is said of it.
LEMMA HealthStep == ASSUME HealthInv, AHealth!Next PROVE HealthInv'
  <1>1. CASE AHealth!Serves
    <2> DEFINE t == [view.srv EXCEPT !.count = @ + 1]
    <2>a. /\ DOMAIN view' = DOMAIN view /\ view'.srv = t
          /\ view'.load = view.load /\ view'.got = view.got
          /\ view'.bus = view.bus /\ view'.crossed = view.crossed
          /\ view'.prev = view.prev /\ view'.tile = view.tile
          /\ view'.shown = view.shown
      BY <1>1 DEF HealthInv, HealthShape, AHealth!Serves
    <2>b. view.srv \in HealthSample
      BY DEF HealthInv, HealthSorts
    <2>c. t \in HealthSample /\ HealthUpTo(view.srv, t) /\ t.life >= view.srv.life
      BY <2>b DEF HealthSample, HealthUpTo
    <2> HIDE DEF t
    <2>d. \A x \in HealthSample : HealthUpTo(x, view.srv) => HealthUpTo(x, t)
      BY <2>b, <2>c, HealthSamples
    <2>e. /\ view.prev \in HealthSample /\ view.got \in HealthSample
          /\ \A i \in DOMAIN view.bus : view.bus[i] \in HealthSample
          /\ view.srv.life \in Nat /\ t.life \in Nat
          /\ view.tile.from.life \in Nat
      BY <2>b, <2>c, HealthSamples, ListOf DEF HealthInv, HealthSorts
    <2>1. HealthShape'
      BY <2>a, <2>c, <2>d, <2>e, HealthSamples
         DEF HealthInv, HealthShape
    <2>2. HealthSorts'
      BY <2>a, <2>c, <2>d, <2>e, HealthSamples
         DEF HealthInv, HealthShape, HealthSorts
    <2>3. HealthLine'
      BY <2>a, <2>c, <2>d, <2>e, HealthSamples
         DEF HealthInv, HealthShape, HealthSorts, HealthLine
    <2>4. HealthRate'
      BY <2>a, <2>c, <2>d, <2>e, HealthSamples
         DEF HealthInv, HealthShape, HealthSorts, HealthLine, HealthRate
    <2>5. HealthDrawn'
      BY <2>a, <2>c, <2>d, <2>e, HealthSamples
         DEF HealthInv, HealthShape, HealthSorts, HealthLine, HealthDrawn
    <2> QED BY <2>1, <2>2, <2>3, <2>4, <2>5 DEF HealthInv
  <1>2. CASE AHealth!Restarts
    <2> DEFINE t == [life |-> view.srv.life + 1, count |-> 0]
    <2>a. /\ DOMAIN view' = DOMAIN view /\ view'.srv = t
          /\ view'.load = view.load /\ view'.got = view.got
          /\ view'.bus = view.bus /\ view'.crossed = view.crossed
          /\ view'.prev = view.prev /\ view'.tile = view.tile
          /\ view'.shown = view.shown
      BY <1>2 DEF HealthInv, HealthShape, AHealth!Restarts
    <2>b. view.srv \in HealthSample
      BY DEF HealthInv, HealthSorts
    <2>c. t \in HealthSample /\ HealthUpTo(view.srv, t) /\ t.life >= view.srv.life
      BY <2>b DEF HealthSample, HealthUpTo
    <2> HIDE DEF t
    <2>d. \A x \in HealthSample : HealthUpTo(x, view.srv) => HealthUpTo(x, t)
      BY <2>b, <2>c, HealthSamples
    <2>e. /\ view.prev \in HealthSample /\ view.got \in HealthSample
          /\ \A i \in DOMAIN view.bus : view.bus[i] \in HealthSample
          /\ view.srv.life \in Nat /\ t.life \in Nat
          /\ view.tile.from.life \in Nat
      BY <2>b, <2>c, HealthSamples, ListOf DEF HealthInv, HealthSorts
    <2>1. HealthShape'
      BY <2>a, <2>c, <2>d, <2>e, HealthSamples
         DEF HealthInv, HealthShape
    <2>2. HealthSorts'
      BY <2>a, <2>c, <2>d, <2>e, HealthSamples
         DEF HealthInv, HealthShape, HealthSorts
    <2>3. HealthLine'
      BY <2>a, <2>c, <2>d, <2>e, HealthSamples
         DEF HealthInv, HealthShape, HealthSorts, HealthLine
    <2>4. HealthRate'
      BY <2>a, <2>c, <2>d, <2>e, HealthSamples
         DEF HealthInv, HealthShape, HealthSorts, HealthLine, HealthRate
    <2>5. HealthDrawn'
      BY <2>a, <2>c, <2>d, <2>e, HealthSamples
         DEF HealthInv, HealthShape, HealthSorts, HealthLine, HealthDrawn
    <2> QED BY <2>1, <2>2, <2>3, <2>4, <2>5 DEF HealthInv
  <1>3. CASE AHealth!Reads
    BY <1>3, HealthSamples
       DEF HealthInv, HealthShape, HealthSorts, HealthLine, HealthRate,
           HealthDrawn, AHealth!Reads
  <1>4. CASE AHealth!Ticks
    <2> DEFINE b == Append(view.bus, view.srv)
    <2>a. /\ DOMAIN view' = DOMAIN view /\ view'.srv = view.srv
          /\ view'.load = view.load /\ view'.got = view.got
          /\ view'.bus = b /\ view'.crossed = (view.crossed \/ view.load # "none")
          /\ view'.prev = view.prev /\ view'.tile = view.tile
          /\ view'.shown = view.shown
      BY <1>4 DEF HealthInv, HealthShape, AHealth!Ticks
    <2>b. view.srv \in HealthSample /\ view.bus \in Seq(HealthSample)
      BY DEF HealthInv, HealthSorts
    <2>c. /\ b \in Seq(HealthSample) /\ Len(b) = Len(view.bus) + 1
          /\ b[Len(b)] = view.srv /\ Len(view.bus) \in Nat
          /\ DOMAIN b = 1..Len(b) /\ DOMAIN view.bus = 1..Len(view.bus)
          /\ \A i \in 1..Len(view.bus) : b[i] = view.bus[i]
      BY <2>b, ListAppended, ListOf
    <2> HIDE DEF b
    <2>1. HealthShape'
      BY <2>a, <2>b, <2>c, HealthSamples
         DEF HealthInv, HealthShape
    <2>2. HealthSorts'
      BY <2>a, <2>b, <2>c, HealthSamples
         DEF HealthInv, HealthShape, HealthSorts
    <2>3. HealthLine'
      <3> SUFFICES ASSUME ~view'.crossed PROVE HealthLine'
        BY DEF HealthLine
      <3>1. ~view.crossed /\ view.load = "none" /\ HealthUpTo(view.prev, view.srv)
        BY <2>a DEF HealthInv, HealthLine
      <3>2. \A i \in DOMAIN b : /\ HealthUpTo(view.prev, b[i])
                                /\ HealthUpTo(b[i], view.srv)
        BY <2>b, <2>c, <3>1, HealthSamples DEF HealthInv, HealthLine
      <3>3. ASSUME NEW i \in DOMAIN b, NEW j \in DOMAIN b, i <= j
            PROVE  HealthUpTo(b[i], b[j])
        <4>1. CASE j \in DOMAIN view.bus
          <5>1. i \in DOMAIN view.bus
            BY <2>c, <3>3, <4>1
          <5> QED
            BY <2>c, <3>1, <3>3, <4>1, <5>1 DEF HealthInv, HealthLine
        <4>2. CASE j \notin DOMAIN view.bus
          <5>1. b[j] = view.srv
            BY <2>c, <4>2
          <5>2. CASE i \in DOMAIN view.bus
            BY <2>c, <3>1, <5>1, <5>2 DEF HealthInv, HealthLine
          <5>3. CASE i \notin DOMAIN view.bus
            <6>1. b[i] = view.srv
              BY <2>c, <5>3
            <6> QED BY <2>b, <5>1, <6>1, HealthSamples
          <5> QED BY <5>2, <5>3
        <4> QED BY <4>1, <4>2
      <3> QED BY <2>a, <3>1, <3>2, <3>3 DEF HealthLine
    <2>4. HealthRate'
      BY <2>a, <2>b, <2>c, HealthSamples
         DEF HealthInv, HealthShape, HealthSorts, HealthLine, HealthRate
    <2>5. HealthDrawn'
      BY <2>a, <2>b, <2>c, HealthSamples
         DEF HealthInv, HealthShape, HealthSorts, HealthLine, HealthDrawn
    <2> QED BY <2>1, <2>2, <2>3, <2>4, <2>5 DEF HealthInv
  <1>5. CASE AHealth!Refresh
    BY <1>5, HealthSamples
       DEF HealthInv, HealthShape, HealthSorts, HealthLine, HealthRate,
           HealthDrawn, AHealth!Refresh, AHealth!load
  <1>6. CASE AHealth!resume
    <2> DEFINE s == [view EXCEPT !.prev = AHealth!None]
    <2>a. /\ DOMAIN s = DOMAIN view /\ s.srv = view.srv /\ s.load = view.load
          /\ s.got = view.got /\ s.bus = view.bus /\ s.crossed = view.crossed
          /\ s.prev = AHealth!None /\ s.tile = view.tile /\ s.shown = view.shown
      BY DEF HealthInv, HealthShape
    <2>b. view' = AHealth!load(s)
      BY <1>6 DEF AHealth!resume
    <2> HIDE DEF s
    <2>c. /\ DOMAIN view' = DOMAIN view /\ view'.srv = view.srv
          /\ view'.load = IF view.load # "none" THEN view.load ELSE "asked"
          /\ view'.got = view.got /\ view'.bus = view.bus
          /\ view'.prev = AHealth!None /\ view'.tile = view.tile
          /\ view'.shown = view.shown
          /\ view'.crossed = (view.crossed \/ (view.load = "none"
                                               /\ view.bus # <<>>))
      BY <2>a, <2>b DEF HealthInv, HealthShape, HealthSorts, AHealth!load
    <2>d. \A i \in DOMAIN view.bus : view.bus[i] \in HealthSample
      BY ListOf DEF HealthInv, HealthSorts
    <2>1. HealthShape'
      BY <2>c, <2>d, HealthSamples
         DEF HealthInv, HealthShape
    <2>2. HealthSorts'
      BY <2>c, <2>d, HealthSamples
         DEF HealthInv, HealthShape, HealthSorts
    <2>3. HealthLine'
      BY <2>c, <2>d, HealthSamples
         DEF HealthInv, HealthShape, HealthSorts, HealthLine
    <2>4. HealthRate'
      BY <2>c, <2>d, HealthSamples
         DEF HealthInv, HealthShape, HealthSorts, HealthLine, HealthRate
    <2>5. HealthDrawn'
      BY <2>c, <2>d, HealthSamples
         DEF HealthInv, HealthShape, HealthSorts, HealthLine, HealthDrawn
    <2> QED BY <2>1, <2>2, <2>3, <2>4, <2>5 DEF HealthInv
  <1>7. CASE AHealth!drawFailure
    BY <1>7, HealthSamples
       DEF HealthInv, HealthShape, HealthSorts, HealthLine, HealthRate,
           HealthDrawn, AHealth!drawFailure
  <1>8. ASSUME NEW apart \in BOOLEAN, AHealth!LoadRead(apart) PROVE HealthInv'
    <2> DEFINE s == [[view EXCEPT !.load = "none"] EXCEPT !.got = AHealth!None]
               d == view.got
    <2>a. /\ DOMAIN s = DOMAIN view /\ s.srv = view.srv /\ s.load = "none"
          /\ s.got = AHealth!None /\ s.bus = view.bus
          /\ s.crossed = view.crossed /\ s.prev = view.prev
      BY DEF HealthInv, HealthShape
    <2>b. view' = AHealth!applySample(s, d, apart) /\ view.load = "read"
      BY <1>8 DEF AHealth!LoadRead
    <2> HIDE DEF s
    <2>c. view.prev \in HealthSample /\ d \in HealthSample
      BY DEF HealthInv, HealthSorts
    <2>d. /\ DOMAIN view' = DOMAIN view /\ view'.srv = view.srv
          /\ view'.load = "none" /\ view'.got = AHealth!None
          /\ view'.bus = view.bus /\ view'.crossed = view.crossed
          /\ view'.prev = d /\ view'.shown = d
          /\ view'.tile.rate \in Nat /\ view'.tile.from = view.prev
          /\ view'.tile.says # "none"
          /\ view'.tile.says = "reset" => d.count < view.prev.count
      BY <2>a, <2>b, <2>c, HealthDraws DEF HealthInv
    <2>e. ~view.crossed =>
            /\ view.bus = <<>> /\ HealthUpTo(view.prev, d)
            /\ HealthUpTo(d, view.srv)
      BY <2>b DEF HealthInv, HealthLine
    <2>1. HealthShape'
      BY <2>b, <2>c, <2>d, <2>e, HealthSamples
         DEF HealthInv, HealthShape
    <2>2. HealthSorts'
      BY <2>b, <2>c, <2>d, <2>e, HealthSamples
         DEF HealthInv, HealthShape, HealthSorts
    <2>3. HealthLine'
      BY <2>b, <2>c, <2>d, <2>e, HealthSamples
         DEF HealthInv, HealthShape, HealthSorts, HealthLine
    <2>4. HealthRate'
      <3> SUFFICES ASSUME view'.tile.says = "reset", ~view'.crossed
                   PROVE  view'.tile.from.life < view'.srv.life
        BY <2>d DEF HealthRate
      <3> QED
        BY <2>b, <2>c, <2>d, <2>e DEF HealthInv, HealthSorts, HealthUpTo, HealthSample
    <2>5. HealthDrawn'
      BY <2>b, <2>c, <2>d, <2>e, HealthSamples
         DEF HealthInv, HealthShape, HealthSorts, HealthLine, HealthDrawn
    <2> QED BY <2>1, <2>2, <2>3, <2>4, <2>5 DEF HealthInv
  <1>9. ASSUME NEW apart \in BOOLEAN, AHealth!Live(apart) PROVE HealthInv'
    <2> DEFINE s == [view EXCEPT !.bus = Tail(@)]
               d == Head(view.bus)
               b == Tail(view.bus)
    <2>a. /\ DOMAIN s = DOMAIN view /\ s.srv = view.srv /\ s.load = view.load
          /\ s.got = view.got /\ s.bus = b
          /\ s.crossed = view.crossed /\ s.prev = view.prev
      BY DEF HealthInv, HealthShape
    <2>b. view' = AHealth!applySample(s, d, apart) /\ view.bus # <<>>
      BY <1>9 DEF AHealth!Live
    <2>c. view.bus \in Seq(HealthSample)
      BY DEF HealthInv, HealthSorts
    <2>j. view.prev \in HealthSample /\ s.prev \in HealthSample
      BY <2>a DEF HealthInv, HealthSorts
    <2>k. view' = AHealth!applySample(s, d, apart)
      BY <2>b
    <2>g. d \in HealthSample
      BY <2>b, <2>c, ListTail
    <2>f. /\ d = view.bus[1] /\ b \in Seq(HealthSample)
          /\ Len(b) = Len(view.bus) - 1 /\ DOMAIN b = 1..Len(b)
          /\ Len(view.bus) \in Nat \ {0} /\ DOMAIN view.bus = 1..Len(view.bus)
          /\ \A k \in 1..Len(b) : b[k] = view.bus[k + 1]
      BY <2>b, <2>c, ListTail, ListOf
    <2> HIDE DEF s, d, b
    <2>d. /\ DOMAIN view' = DOMAIN view /\ view'.srv = view.srv
          /\ view'.load = view.load /\ view'.got = view.got
          /\ view'.bus = b /\ view'.crossed = view.crossed
          /\ view'.prev = d /\ view'.shown = d
          /\ view'.tile.rate \in Nat /\ view'.tile.from = view.prev
          /\ view'.tile.says # "none"
          /\ view'.tile.says = "reset" => d.count < view.prev.count
      BY <2>a, <2>g, <2>j, <2>k, HealthDraws DEF HealthInv
    <2>e. ~view.crossed =>
            /\ view.load = "none" /\ HealthUpTo(view.prev, d)
            /\ HealthUpTo(d, view.srv)
      BY <2>b, <2>f DEF HealthInv, HealthLine
    <2>h. ~view.crossed =>
            \A k \in 1..Len(b) :
              HealthUpTo(d, b[k]) /\ HealthUpTo(b[k], view.srv)
      <3> SUFFICES ASSUME ~view.crossed, NEW k \in 1..Len(b)
                   PROVE  HealthUpTo(d, b[k]) /\ HealthUpTo(b[k], view.srv)
        OBVIOUS
      <3>1. /\ 1 \in DOMAIN view.bus /\ k + 1 \in DOMAIN view.bus /\ 1 <= k + 1
            /\ b[k] = view.bus[k + 1]
        BY <2>f
      <3> QED BY <2>f, <3>1 DEF HealthInv, HealthLine
    <2>i. ~view.crossed =>
            \A k, l \in 1..Len(b) : k <= l => HealthUpTo(b[k], b[l])
      <3> SUFFICES ASSUME ~view.crossed, NEW k \in 1..Len(b), NEW l \in 1..Len(b),
                          k <= l
                   PROVE  HealthUpTo(b[k], b[l])
        OBVIOUS
      <3>1. /\ k + 1 \in DOMAIN view.bus /\ l + 1 \in DOMAIN view.bus
            /\ k + 1 <= l + 1
            /\ b[k] = view.bus[k + 1] /\ b[l] = view.bus[l + 1]
        BY <2>f
      <3> QED BY <3>1 DEF HealthInv, HealthLine
    <2>1. HealthShape'
      BY <2>b, <2>c, <2>j, <2>d, <2>e, <2>f, <2>g, <2>h, <2>i, HealthSamples
         DEF HealthInv, HealthShape
    <2>2. HealthSorts'
      BY <2>b, <2>c, <2>j, <2>d, <2>e, <2>f, <2>g, <2>h, <2>i, HealthSamples
         DEF HealthInv, HealthShape, HealthSorts
    <2>3. HealthLine'
      BY <2>b, <2>c, <2>j, <2>d, <2>e, <2>f, <2>g, <2>h, <2>i, HealthSamples
         DEF HealthInv, HealthShape, HealthSorts, HealthLine
    <2>4. HealthRate'
      <3> SUFFICES ASSUME view'.tile.says = "reset", ~view'.crossed
                   PROVE  view'.tile.from.life < view'.srv.life
        BY <2>d DEF HealthRate
      <3> QED
        BY <2>b, <2>c, <2>d, <2>e, <2>g, <2>j DEF HealthInv, HealthSorts, HealthUpTo, HealthSample
    <2>5. HealthDrawn'
      BY <2>b, <2>c, <2>j, <2>d, <2>e, <2>f, <2>g, <2>h, <2>i, HealthSamples
         DEF HealthInv, HealthShape, HealthSorts, HealthLine, HealthDrawn
    <2> QED BY <2>1, <2>2, <2>3, <2>4, <2>5 DEF HealthInv
  <1> QED
    BY <1>1, <1>2, <1>3, <1>4, <1>5, <1>6, <1>7, <1>8, <1>9 DEF AHealth!Next

\* That gives the properties of AHealth.
LEMMA HealthHolds == HealthInv => AHealth!Truthful /\ AHealth!InStep /\ AHealth!Kept
  BY HealthSamples
     DEF HealthInv, HealthSorts, HealthRate, HealthDrawn, AHealth!Truthful,
         AHealth!InStep, AHealth!Kept

\* It holds from the first state on when the page is this one.
LEMMA HealthStays ==
  /\ Init => (subject = "health" => HealthInv)
  /\ (subject = "health" => HealthInv) /\ [Next]_vars
       => (subject = "health" => HealthInv)'
  <1>1. Init => (subject = "health" => HealthInv)
    BY HealthInit DEF Init
  <1>2. (subject = "health" => HealthInv) /\ [Next]_vars
          => (subject = "health" => HealthInv)'
    <2>1. ASSUME HealthInv, view' = view PROVE HealthInv'
      BY <2>1 DEF HealthInv, HealthShape, HealthSorts, HealthLine, HealthRate,
          HealthDrawn
    <2> QED BY <2>1, HealthStep DEF Next, vars
  <1> QED BY <1>1, <1>2

-----------------------------------------------------------------------------
(* The janitor.  His pile is one of the room he is in, and nothing but a   *)
(* sweep takes a pile away.                                                *)

JanitorShape ==
  DOMAIN view = {"piles", "made", "room", "pile", "path", "at", "cleaning",
                 "held", "called"}
JanitorSorts ==
  /\ view.piles \in [1..RoomCount -> SUBSET (Nat \ {0})]
  /\ view.made \in Nat /\ view.room \in 1..RoomCount
  /\ view.cleaning \in BOOLEAN /\ view.called \in BOOLEAN
JanitorWay ==
  /\ view.pile # 0 => view.pile \in view.piles[view.room]
  /\ view.path \in {0, view.pile}
  /\ view.cleaning => view.pile # 0
JanitorAt ==
  view.cleaning /\ ~view.called => view.at = view.pile
JanitorInv ==
  /\ JanitorShape /\ JanitorSorts /\ JanitorWay /\ JanitorAt

\* The janitor is called to a pile that lies there, away from the one he
\* scrubs, if any.
LEMMA JanitorSummoned ==
  ASSUME JanitorInv
  PROVE  LET s == AJanitor!Summoned(view)
         IN /\ DOMAIN s = DOMAIN view /\ s.piles = view.piles
            /\ s.made = view.made
            /\ s.cleaning = view.cleaning /\ s.room \in 1..RoomCount
            /\ s.called \in BOOLEAN
            /\ s.pile # 0 => s.pile \in s.piles[s.room]
            /\ s.path \in {0, s.pile}
            /\ s.cleaning => s.pile # 0
            /\ s.cleaning /\ ~s.called => s.at = s.pile
  <1> DEFINE t == AJanitor!Target(view)
             rs == {r \in 1..RoomCount : view.piles[r] # {}}
  <1>1. CASE t.pile = view.pile
    BY <1>1 DEF AJanitor!Summoned, JanitorInv, JanitorSorts, JanitorWay,
                JanitorAt
  <1>2. CASE t.pile # view.pile
    <2>1. rs # {}
      BY <1>2 DEF AJanitor!Target
    <2>2. AJanitor!Least(rs) \in rs
      <3>1. rs \subseteq Nat
        OBVIOUS
      <3> HIDE DEF rs
      <3>2. \E k \in rs : \A l \in rs : k <= l
        BY <2>1, <3>1, LeastOf
      <3> QED BY <3>2 DEF AJanitor!Least
    <2> DEFINE r == AJanitor!Least(rs)
    <2>3. r \in 1..RoomCount /\ view.piles[r] # {}
      BY <2>2
    <2>4. AJanitor!Least(view.piles[r]) \in view.piles[r]
      <3>1. view.piles[r] \subseteq Nat
        BY <2>3 DEF JanitorInv, JanitorSorts
      <3>2. \E n \in view.piles[r] : \A k \in view.piles[r] : n <= k
        BY <2>3, <3>1, LeastOf
      <3> QED BY <3>2 DEF AJanitor!Least
    <2>5. t.room = r /\ t.pile = AJanitor!Least(view.piles[r])
      BY <2>1 DEF AJanitor!Target
    <2>6. t.pile # 0 /\ t.room \in 1..RoomCount
          /\ t.pile \in view.piles[t.room]
      BY <2>3, <2>4, <2>5 DEF JanitorInv, JanitorSorts
    <2> HIDE DEF t
    <2> QED
      BY <1>2, <2>6
         DEF t, AJanitor!Summoned, JanitorInv, JanitorShape, JanitorSorts,
             JanitorWay, JanitorAt
  <1> QED BY <1>1, <1>2

\* The janitor at the start.
LEMMA JanitorInit == AJanitor!Init => JanitorInv
  BY Bounds
  DEF JanitorInv, JanitorShape, JanitorSorts, JanitorWay, JanitorAt,
      AJanitor!Init

\* Every step of it keeps what is said of it.
LEMMA JanitorStep == ASSUME JanitorInv, AJanitor!Next PROVE JanitorInv'
  <1>1. ASSUME NEW r \in 1..RoomCount, NEW cap \in {3,5}, AJanitor!Pile(r, cap) PROVE JanitorInv'
    <2>1. JanitorShape'
      BY <1>1
         DEF JanitorInv, JanitorShape, AJanitor!Pile
    <2>2. JanitorSorts'
      <3> DEFINE b == view.piles[r] \cup {view.made + 1}
      <3>1. b \in SUBSET (Nat \ {0})
        <4>1. view.piles[r] \in SUBSET (Nat \ {0})
          BY DEF JanitorInv, JanitorSorts
        <4>2. view.made + 1 \in Nat \ {0}
          BY DEF JanitorInv, JanitorSorts
        <4> QED BY <4>1, <4>2
      <3>2. /\ view'.piles = [view.piles EXCEPT ![r] = b]
            /\ view'.made = view.made + 1 /\ view'.room = view.room
            /\ view'.cleaning = view.cleaning /\ view'.called = view.called
        BY <1>1 DEF JanitorInv, JanitorShape, AJanitor!Pile
      <3> HIDE DEF b
      <3> QED BY <3>1, <3>2 DEF JanitorInv, JanitorSorts
    <2>3. JanitorWay'
      BY <1>1
         DEF JanitorInv, JanitorShape, JanitorSorts, JanitorWay,
             AJanitor!Pile
    <2>4. JanitorAt'
      BY <1>1
         DEF JanitorInv, JanitorShape, JanitorSorts, JanitorAt, AJanitor!Pile
    <2> QED BY <2>1, <2>2, <2>3, <2>4 DEF JanitorInv
  <1>2. ASSUME NEW there \in BOOLEAN, AJanitor!stepJanitor(there) PROVE JanitorInv'
    <2> DEFINE s == AJanitor!Summoned(view)
    <2>a. /\ DOMAIN s = DOMAIN view /\ s.piles = view.piles
          /\ s.made = view.made
          /\ s.cleaning = view.cleaning /\ s.room \in 1..RoomCount
          /\ s.called \in BOOLEAN
          /\ s.pile # 0 => s.pile \in s.piles[s.room]
          /\ s.path \in {0, s.pile}
          /\ s.cleaning => s.pile # 0
          /\ s.cleaning /\ ~s.called => s.at = s.pile
      BY JanitorSummoned
    <2>b. view' = IF s.pile = 0 THEN [s EXCEPT !.at = 0]
                  ELSE IF s.cleaning THEN (IF there THEN AJanitor!Swept(s) ELSE s)
                  ELSE IF there
                  THEN [s EXCEPT !.path = 0, !.at = s.pile, !.cleaning = TRUE,
                                 !.called = FALSE]
                  ELSE [s EXCEPT !.path = IF @ = 0 THEN s.pile ELSE @, !.at = 0]
      BY <1>2 DEF AJanitor!stepJanitor
    <2> HIDE DEF s
    <2>1. JanitorShape'
      BY <2>a, <2>b
         DEF JanitorInv, JanitorShape, AJanitor!Swept
    <2>2. JanitorSorts'
      BY <2>a, <2>b
         DEF JanitorInv, JanitorShape, JanitorSorts, AJanitor!Swept
    <2>3. JanitorWay'
      BY <2>a, <2>b
         DEF JanitorInv, JanitorShape, JanitorSorts, JanitorWay,
             AJanitor!Swept
    <2>4. JanitorAt'
      BY <2>a, <2>b
         DEF JanitorInv, JanitorShape, JanitorSorts, JanitorAt,
             AJanitor!Swept
    <2> QED BY <2>1, <2>2, <2>3, <2>4 DEF JanitorInv
  <1>3. CASE AJanitor!PickUp
    BY <1>3
       DEF JanitorInv, JanitorShape, JanitorSorts, JanitorWay, JanitorAt,
           AJanitor!PickUp
  <1>4. ASSUME NEW how \in {"no","air"}, AJanitor!endDrag(how) PROVE JanitorInv'
    BY <1>4
       DEF JanitorInv, JanitorShape, JanitorSorts, JanitorWay, JanitorAt,
           AJanitor!endDrag
  <1>5. CASE AJanitor!stepRagdoll
    BY <1>5
       DEF JanitorInv, JanitorShape, JanitorSorts, JanitorWay, JanitorAt,
           AJanitor!stepRagdoll
  <1> QED BY <1>1, <1>2, <1>3, <1>4, <1>5 DEF AJanitor!Next

\* That gives the properties of AJanitor.
LEMMA JanitorHolds == JanitorInv => AJanitor!InStep /\ AJanitor!Kept
  BY DEF JanitorInv, JanitorShape, JanitorSorts, JanitorWay, JanitorAt,
      AJanitor!InStep, AJanitor!Kept

\* It holds from the first state on when the page is this one.
LEMMA JanitorStays ==
  /\ Init => (subject = "janitor" => JanitorInv)
  /\ (subject = "janitor" => JanitorInv) /\ [Next]_vars
       => (subject = "janitor" => JanitorInv)'
  <1>1. Init => (subject = "janitor" => JanitorInv)
    BY JanitorInit DEF Init
  <1>2. (subject = "janitor" => JanitorInv) /\ [Next]_vars
          => (subject = "janitor" => JanitorInv)'
    <2>1. ASSUME JanitorInv, view' = view PROVE JanitorInv'
      BY <2>1 DEF JanitorInv, JanitorShape, JanitorSorts, JanitorWay, JanitorAt
    <2> QED BY <2>1, JanitorStep DEF Next, vars
  <1> QED BY <1>1, <1>2

-----------------------------------------------------------------------------
(* The comparisons.  A pick out is of the comparison and the flag that     *)
(* guards it; every pick the server took before was drawn, unless          *)
(* something stale was.                                                    *)

CompareShape ==
  DOMAIN view = {"srv", "firsts", "id", "shown", "list", "asks", "ask",
                 "picking", "post", "over", "stale"}
CompareSorts ==
  /\ view.srv \in [Things -> Things \cup {0}]
  /\ view.firsts \in [Things -> Things \cup {0}]
  /\ view.id \in Things \cup {0}
  /\ view.shown[1] \in Things \cup {0}
  /\ \A a \in view.asks : a[1] \in Things
  /\ DOMAIN view.post = {"id", "label", "took"}
  /\ view.post.id \in Things \cup {0} /\ view.post.label \in Things \cup {0}
  /\ view.post.took \in BOOLEAN
  /\ view.list \in BOOLEAN /\ view.over \in BOOLEAN /\ view.stale \in BOOLEAN
  /\ view.picking \in BOOLEAN
CompareWaits ==
  /\ view.picking <=> view.post.id # 0
CompareNamed ==
  view.list \/ view.asks # {} \/ view.over \/ view.shown[1] \in {0, view.id}
CompareAsked ==
  view.ask # <<0, 0>> =>
    /\ view.ask[1] \in Things /\ view.ask[2] \in Things /\ ~view.picking
    /\ view.stale \/ view.srv[view.ask[1]] = 0
ComparePosted ==
  view.post.id # 0 =>
    view.stale \/ view.srv[view.post.id]
                   = IF view.post.took THEN view.post.label ELSE 0
CompareShown ==
  \/ view.stale \/ view.shown[1] = 0
  \/ view.shown[2] = view.srv[view.shown[1]]
  \/ view.post.took /\ view.post.id = view.shown[1]
CompareFirsts ==
  view.stale \/ view.srv = view.firsts
CompareInv ==
  /\ CompareShape
  /\ CompareSorts
  /\ CompareWaits
  /\ CompareNamed
  /\ CompareAsked
  /\ ComparePosted
  /\ CompareShown
  /\ CompareFirsts

\* The first comparison of the list is one.
LEMMA CompareFirst == ACompare!First \in Things
  <1>1. \E c \in Things : \A d \in Things : c <= d
    <2>1. Things \subseteq Nat /\ Things # {}
      BY Bounds
    <2> QED BY <2>1, LeastOf
  <1> QED BY <1>1 DEF ACompare!First

\* The comparisons at the start.
LEMMA CompareInit == ACompare!Init => CompareInv
  <1> SUFFICES ASSUME ACompare!Init PROVE CompareInv
    OBVIOUS
  <1> DEFINE p == [id |-> 0, label |-> 0, took |-> FALSE]
             z == <<0, 0>>
             f == [c \in Things |-> 0]
  <1>1. /\ DOMAIN p = {"id", "label", "took"} /\ p.id = 0 /\ p.label = 0
        /\ p.took = FALSE /\ z[1] = 0 /\ f \in [Things -> Things \cup {0}]
    OBVIOUS
  <1>2. view = [srv |-> f, firsts |-> f, id |-> 0, shown |-> z,
                list |-> TRUE, asks |-> {}, ask |-> z, picking |-> FALSE,
                post |-> p, over |-> FALSE, stale |-> FALSE]
    BY DEF ACompare!Init, ACompare!None, ACompare!NoAsk
  <1>3. view.ask = <<0, 0>>
    BY <1>2
  <1> HIDE DEF p, z, f
  <1> QED
    BY <1>1, <1>2, <1>3
       DEF CompareInv, CompareShape, CompareSorts, CompareWaits, CompareNamed,
           CompareAsked, ComparePosted, CompareShown, CompareFirsts

\* Every step of it keeps what is said of it.
LEMMA CompareStep == ASSUME CompareInv, ACompare!Next PROVE CompareInv'
  <1>1. ASSUME NEW c \in Things \cup {ACompare!None}, ACompare!load(c) PROVE CompareInv'
    BY <1>1, Bounds
       DEF CompareInv, CompareShape, CompareSorts, CompareWaits,
           CompareNamed, CompareAsked, ComparePosted, CompareShown,
           CompareFirsts, ACompare!load, ACompare!None, ACompare!Unread,
           ACompare!NoAsk
  <1>2. ASSUME NEW c \in Things, ACompare!Open(c) PROVE CompareInv'
    BY <1>2, Bounds
       DEF CompareInv, CompareShape, CompareSorts, CompareWaits,
           CompareNamed, CompareAsked, ComparePosted, CompareShown,
           CompareFirsts, ACompare!Open, ACompare!fetchComparison,
           ACompare!None, ACompare!Unread, ACompare!NoAsk
  <1>3. ASSUME NEW a \in view.asks, ACompare!Serves(a) PROVE CompareInv'
    <2>1. CompareShape'
      BY <1>3, Bounds
         DEF CompareInv, CompareShape, ACompare!Serves, ACompare!None,
             ACompare!Unread, ACompare!NoAsk
    <2>2. CompareSorts'
      BY <1>3, Bounds
         DEF CompareInv, CompareShape, CompareSorts, ACompare!Serves,
             ACompare!None, ACompare!Unread, ACompare!NoAsk
    <2>3. CompareWaits'
      BY <1>3, Bounds
         DEF CompareInv, CompareShape, CompareSorts, CompareWaits,
             ACompare!Serves, ACompare!None, ACompare!Unread, ACompare!NoAsk
    <2>4. CompareNamed'
      BY <1>3, Bounds
         DEF CompareInv, CompareShape, CompareSorts, CompareNamed,
             ACompare!Serves, ACompare!None, ACompare!Unread, ACompare!NoAsk
    <2>5. CompareAsked'
      BY <1>3, Bounds
         DEF CompareInv, CompareShape, CompareSorts, CompareWaits,
             CompareShown, CompareAsked, ACompare!Serves, ACompare!None,
             ACompare!Unread, ACompare!NoAsk
    <2>6. ComparePosted'
      BY <1>3, Bounds
         DEF CompareInv, CompareShape, CompareSorts, CompareWaits,
             CompareAsked, ComparePosted, ACompare!Serves, ACompare!None,
             ACompare!Unread, ACompare!NoAsk
    <2>7. CompareShown'
      BY <1>3, Bounds
         DEF CompareInv, CompareShape, CompareSorts, CompareWaits,
             ComparePosted, CompareShown, ACompare!Serves, ACompare!None,
             ACompare!Unread, ACompare!NoAsk
    <2>8. CompareFirsts'
      BY <1>3, Bounds
         DEF CompareInv, CompareShape, CompareSorts, ComparePosted,
             CompareFirsts, ACompare!Serves, ACompare!None, ACompare!Unread,
             ACompare!NoAsk
    <2> QED BY <2>1, <2>2, <2>3, <2>4, <2>5, <2>6, <2>7, <2>8 DEF CompareInv
  <1>4. ASSUME NEW a \in view.asks, ACompare!OpenRead(a) PROVE CompareInv'
    BY <1>4, Bounds
       DEF CompareInv, CompareShape, CompareSorts, CompareWaits,
           CompareNamed, CompareAsked, ComparePosted, CompareShown,
           CompareFirsts, ACompare!OpenRead, ACompare!renderComparison,
           ACompare!None, ACompare!Unread, ACompare!NoAsk
  <1>5. ASSUME NEW a \in view.asks, ACompare!OpenFails(a) PROVE CompareInv'
    BY <1>5, Bounds
       DEF CompareInv, CompareShape, CompareSorts, CompareWaits,
           CompareNamed, CompareAsked, ComparePosted, CompareShown,
           CompareFirsts, ACompare!OpenFails, ACompare!renderComparison,
           ACompare!None, ACompare!Unread, ACompare!NoAsk
  <1>6. ASSUME NEW label \in Things, ACompare!Choose(label) PROVE CompareInv'
    BY <1>6, Bounds
       DEF CompareInv, CompareShape, CompareSorts, CompareWaits,
           CompareNamed, CompareAsked, ComparePosted, CompareShown,
           CompareFirsts, ACompare!Choose, ACompare!None, ACompare!Unread,
           ACompare!NoAsk
  <1>7. CASE ACompare!ListRead
    <2> DEFINE c == IF view.id # 0 THEN view.id ELSE ACompare!First
               n == <<c, -1>>
    <2>a. n[1] = c /\ c \in Things
      BY CompareFirst DEF CompareInv, CompareSorts
    <2>b. /\ view' = [[view EXCEPT !.list = FALSE] EXCEPT !.asks = @ \cup {n}]
          /\ n \in view'.asks
      BY <1>7 DEF CompareInv, CompareShape, ACompare!ListRead,
                ACompare!fetchComparison, ACompare!None, ACompare!Unread
    <2> HIDE DEF n, c
    <2>1. CompareShape'
      BY <2>a, <2>b, Bounds
         DEF CompareInv, CompareShape, ACompare!None, ACompare!Unread,
             ACompare!NoAsk
    <2>2. CompareSorts'
      BY <2>a, <2>b, Bounds
         DEF CompareInv, CompareShape, CompareSorts, ACompare!None,
             ACompare!Unread, ACompare!NoAsk
    <2>3. CompareWaits'
      BY <2>a, <2>b, Bounds
         DEF CompareInv, CompareShape, CompareSorts, CompareWaits,
             ACompare!None, ACompare!Unread, ACompare!NoAsk
    <2>4. CompareNamed'
      BY <2>a, <2>b, Bounds
         DEF CompareInv, CompareShape, CompareSorts, CompareNamed,
             ACompare!None, ACompare!Unread, ACompare!NoAsk
    <2>5. CompareAsked'
      BY <2>a, <2>b, Bounds
         DEF CompareInv, CompareShape, CompareSorts, CompareWaits,
             CompareShown, CompareAsked, ACompare!None, ACompare!Unread,
             ACompare!NoAsk
    <2>6. ComparePosted'
      BY <2>a, <2>b, Bounds
         DEF CompareInv, CompareShape, CompareSorts, CompareWaits,
             CompareAsked, ComparePosted, ACompare!None, ACompare!Unread,
             ACompare!NoAsk
    <2>7. CompareShown'
      BY <2>a, <2>b, Bounds
         DEF CompareInv, CompareShape, CompareSorts, CompareWaits,
             ComparePosted, CompareShown, ACompare!None, ACompare!Unread,
             ACompare!NoAsk
    <2>8. CompareFirsts'
      BY <2>a, <2>b, Bounds
         DEF CompareInv, CompareShape, CompareSorts, ComparePosted,
             CompareFirsts, ACompare!None, ACompare!Unread, ACompare!NoAsk
    <2> QED BY <2>1, <2>2, <2>3, <2>4, <2>5, <2>6, <2>7, <2>8 DEF CompareInv
  <1>8. CASE ACompare!ListFails
    BY <1>8, Bounds
       DEF CompareInv, CompareShape, CompareSorts, CompareWaits,
           CompareNamed, CompareAsked, ComparePosted, CompareShown,
           CompareFirsts, ACompare!ListFails, ACompare!None, ACompare!Unread,
           ACompare!NoAsk
  <1>9. CASE ACompare!No
    BY <1>9, Bounds
       DEF CompareInv, CompareShape, CompareSorts, CompareWaits,
           CompareNamed, CompareAsked, ComparePosted, CompareShown,
           CompareFirsts, ACompare!No, ACompare!None, ACompare!Unread,
           ACompare!NoAsk
  <1>10. CASE ACompare!recordPick
    BY <1>10, Bounds
       DEF CompareInv, CompareShape, CompareSorts, CompareWaits,
           CompareNamed, CompareAsked, ComparePosted, CompareShown,
           CompareFirsts, ACompare!recordPick, ACompare!None,
           ACompare!Unread, ACompare!NoAsk
  <1>11. CASE ACompare!PickServed
    BY <1>11, Bounds
       DEF CompareInv, CompareShape, CompareSorts, CompareWaits,
           CompareNamed, CompareAsked, ComparePosted, CompareShown,
           CompareFirsts, ACompare!PickServed, ACompare!None,
           ACompare!Unread, ACompare!NoAsk
  <1>12. CASE ACompare!PickRead
    BY <1>12, Bounds
       DEF CompareInv, CompareShape, CompareSorts, CompareWaits,
           CompareNamed, CompareAsked, ComparePosted, CompareShown,
           CompareFirsts, ACompare!PickRead, ACompare!PickAnswered,
           ACompare!renderComparison, ACompare!None, ACompare!Unread,
           ACompare!NoAsk
  <1>13. CASE ACompare!PickFails
    BY <1>13, Bounds
       DEF CompareInv, CompareShape, CompareSorts, CompareWaits,
           CompareNamed, CompareAsked, ComparePosted, CompareShown,
           CompareFirsts, ACompare!PickFails, ACompare!PickAnswered,
           ACompare!None, ACompare!Unread, ACompare!NoAsk
  <1> QED
    BY <1>1, <1>2, <1>3, <1>4, <1>5, <1>6, <1>7, <1>8, <1>9, <1>10, <1>11,
       <1>12, <1>13 DEF ACompare!Next

\* That gives the properties of ACompare.
LEMMA CompareHolds == CompareInv => ACompare!Settled /\ ACompare!Kept /\ ACompare!Truthful
  BY DEF CompareInv, CompareShape, CompareSorts, CompareWaits, CompareNamed,
      CompareAsked, ComparePosted, CompareShown, CompareFirsts,
      ACompare!Settled, ACompare!Kept, ACompare!Truthful, ACompare!None,
      ACompare!Unread, ACompare!NoAsk

\* It holds from the first state on when the page is this one.
LEMMA CompareStays ==
  /\ Init => (subject = "compare" => CompareInv)
  /\ (subject = "compare" => CompareInv) /\ [Next]_vars
       => (subject = "compare" => CompareInv)'
  <1>1. Init => (subject = "compare" => CompareInv)
    BY CompareInit DEF Init
  <1>2. (subject = "compare" => CompareInv) /\ [Next]_vars
          => (subject = "compare" => CompareInv)'
    <2>1. ASSUME CompareInv, view' = view PROVE CompareInv'
      BY <2>1 DEF CompareInv, CompareShape, CompareSorts, CompareWaits, CompareNamed,
          CompareAsked, ComparePosted, CompareShown, CompareFirsts
    <2> QED BY <2>1, CompareStep DEF Next, vars
  <1> QED BY <1>1, <1>2

-----------------------------------------------------------------------------
(* The searches.  The last one out is for the text last searched for,      *)
(* unless the page forgot that text; what is listed answers it.            *)

FindShape ==
  DOMAIN view = {"box", "input", "query", "timer", "out", "hits",
                 "searching", "error", "busy", "open"}
FindText == Things \cup {0}
FindOne == [text : FindText, last : BOOLEAN]
FindSorts(s) ==
  /\ s.box \in {"page", "room", "docs"} /\ s.out \subseteq FindOne
  /\ s.input \in FindText /\ s.query \in FindText
  /\ s.timer \in FindText \cup {-1}
FindLast(s) ==
  \A o \in s.out :
    o.last => /\ o.text = s.query \/ (s.box = "page" /\ s.query = 0)
              /\ s.box = "docs" => o.text = s.input
FindHits(s) ==
  /\ s.query # 0 => s.hits \in {0, s.query}
  /\ s.box = "docs" => s.hits \in {0, s.input}
FindBusy(s) ==
  /\ s.searching => \E o \in s.out : o.last /\ o.text = s.query
  /\ s.busy => s.searching /\ s.box = "page"
FindTimed(s) ==
  /\ s.box = "page" /\ s.timer = -1 => s.query = s.input
  /\ s.box = "room" /\ s.timer = -1 /\ s.input # 0 => s.query = s.input
  /\ s.box = "room" /\ s.timer # -1
       => s.timer # 0 /\ (s.input = 0 \/ s.timer = s.input)
FindOk ==
  /\ FindSorts(view) /\ FindLast(view) /\ FindHits(view) /\ FindBusy(view)
  /\ FindTimed(view)
FindInv == FindShape /\ FindOk

\* A search is its fields; outdated, it is not the last.
LEMMA FindOnes ==
  /\ \A o \in FindOne : o.text \in FindText /\ o.last \in BOOLEAN
  /\ \A q \in FindText :
       LET o == [text |-> q, last |-> TRUE]
       IN o \in FindOne /\ o.text = q /\ o.last
  /\ \A o \in FindOne :
       LET p == [o EXCEPT !.last = FALSE] IN p \in FindOne /\ ~p.last
  <1> DEFINE no == FALSE
             yes == TRUE
  <1>1. no \in BOOLEAN /\ yes \in BOOLEAN /\ ~no /\ yes
    OBVIOUS
  <1> HIDE DEF no, yes
  <1>2. \A o \in FindOne : o.text \in FindText /\ o.last \in BOOLEAN
    BY DEF FindOne
  <1>3. \A q \in FindText :
          LET o == [text |-> q, last |-> yes]
          IN o \in FindOne /\ o.text = q /\ o.last
    BY <1>1 DEF FindOne
  <1>4. \A o \in FindOne :
          LET p == [o EXCEPT !.last = no] IN p \in FindOne /\ ~p.last
    BY <1>1 DEF FindOne
  <1> QED BY <1>2, <1>3, <1>4, Zenon DEF no, yes

\* What is outdated is a search still, and the last no more.
LEMMA FindOutdated ==
  ASSUME NEW S, S \subseteq FindOne
  PROVE  /\ ASearches!Outdated(S) \subseteq FindOne
         /\ \A o \in ASearches!Outdated(S) : ~o.last
  <1>1. ASSUME NEW o \in S
        PROVE  LET p == [o EXCEPT !.last = FALSE] IN p \in FindOne /\ ~p.last
    BY FindOnes
  <1> QED BY <1>1, Zenon DEF ASearches!Outdated

\* Nothing is shown, and nothing searched for.
LEMMA FindBlank ==
  ASSUME FindShape, NEW s, DOMAIN s = DOMAIN view
  PROVE  LET t == ASearches!Blank(s)
         IN /\ DOMAIN t = DOMAIN view /\ t.box = s.box /\ t.input = s.input
            /\ t.query = 0 /\ t.timer = s.timer /\ t.out = s.out /\ t.hits = 0
            /\ t.searching = FALSE /\ t.error = FALSE /\ t.busy = FALSE
            /\ t.open = s.open
  <1> DEFINE no == FALSE
             t == ASearches!Blank(s)
  <1>1. no = FALSE
    OBVIOUS
  <1>2. t = [s EXCEPT !.query = 0, !.hits = 0, !.searching = no,
                      !.error = no, !.busy = no]
    BY DEF ASearches!Blank, ASearches!Short
  <1> HIDE DEF no
  <1>3. /\ DOMAIN t = DOMAIN view /\ t.box = s.box /\ t.input = s.input
        /\ t.query = 0 /\ t.timer = s.timer /\ t.out = s.out /\ t.hits = 0
        /\ t.searching = no /\ t.error = no /\ t.busy = no /\ t.open = s.open
    BY <1>2 DEF FindShape
  <1> HIDE DEF t
  <1> QED BY <1>1, <1>3 DEF t

\* A search goes out, and is the last.
LEMMA FindSent ==
  ASSUME FindShape, NEW s, DOMAIN s = DOMAIN view, NEW q \in FindText,
         s.out \subseteq FindOne
  PROVE  LET t == ASearches!Sends(s, q)
         IN /\ DOMAIN t = DOMAIN view /\ t.box = s.box /\ t.input = s.input
            /\ t.query = q /\ t.timer = s.timer /\ t.hits = 0 /\ t.open = s.open
            /\ t.searching /\ ~t.error /\ (t.busy <=> s.box = "page")
            /\ t.out \subseteq FindOne /\ \A p \in t.out : p.last => p.text = q
            /\ \E p \in t.out : p.last /\ p.text = q
  <1> DEFINE no == FALSE
             yes == TRUE
             b == s.box = "page"
             n == [text |-> q, last |-> TRUE]
             o == ASearches!Outdated(s.out) \cup {n}
             t == ASearches!Sends(s, q)
  <1>1. no = FALSE /\ yes = TRUE /\ b = (s.box = "page")
    OBVIOUS
  <1>2. t = [s EXCEPT !.query = q, !.hits = 0, !.searching = yes,
                      !.error = no, !.busy = b, !.out = o]
    BY DEF ASearches!Sends, ASearches!Short
  <1>3. o \subseteq FindOne /\ (\A p \in o : p.last => p.text = q)
        /\ \E p \in o : p.last /\ p.text = q
    <2>1. n \in FindOne /\ n.text = q /\ n.last
      BY FindOnes
    <2> HIDE DEF n
    <2>2. /\ ASearches!Outdated(s.out) \subseteq FindOne
          /\ \A p \in ASearches!Outdated(s.out) : ~p.last
      BY FindOutdated
    <2> QED BY <2>1, <2>2
  <1> HIDE DEF no, yes, b, o
  <1>4. /\ DOMAIN t = DOMAIN view /\ t.box = s.box /\ t.input = s.input
        /\ t.query = q /\ t.timer = s.timer /\ t.out = o /\ t.hits = 0
        /\ t.searching = yes /\ t.error = no /\ t.busy = b /\ t.open = s.open
    BY <1>2 DEF FindShape
  <1> HIDE DEF t
  <1> QED BY <1>1, <1>3, <1>4 DEF t

\* The page searches for what is typed, or forgets what it searched for.
LEMMA FindRuns ==
  ASSUME FindShape, NEW s, DOMAIN s = DOMAIN view, NEW q \in FindText,
         FindSorts(s), FindLast(s), s.box = "page",
         s.timer = -1 => q = s.input
  PROVE  LET t == ASearches!runSearch(s, q)
         IN /\ DOMAIN t = DOMAIN view
            /\ FindSorts(t) /\ FindLast(t) /\ FindHits(t)
            /\ FindBusy(t) /\ FindTimed(t)
  <1> DEFINE t == ASearches!runSearch(s, q)
  <1>1. CASE q = 0
    <2>1. /\ DOMAIN t = DOMAIN view /\ t.box = s.box /\ t.input = s.input
          /\ t.query = 0 /\ t.timer = s.timer /\ t.out = s.out /\ t.hits = 0
          /\ t.searching = FALSE /\ t.error = FALSE /\ t.busy = FALSE
          /\ t.open = s.open
      BY <1>1, FindBlank DEF ASearches!runSearch, ASearches!Short
    <2> HIDE DEF t
    <2> QED BY <1>1, <2>1 DEF t, FindText, FindSorts, FindLast, FindHits, FindBusy,
         FindTimed
  <1>2. CASE q # 0
    <2>1. /\ DOMAIN t = DOMAIN view /\ t.box = s.box /\ t.input = s.input
          /\ t.query = q /\ t.timer = s.timer /\ t.hits = 0 /\ t.open = s.open
          /\ t.searching /\ ~t.error /\ (t.busy <=> s.box = "page")
          /\ t.out \subseteq FindOne /\ \A p \in t.out : p.last => p.text = q
          /\ \E p \in t.out : p.last /\ p.text = q
      <3>1. t = ASearches!Sends(s, q)
        BY <1>2 DEF ASearches!runSearch, ASearches!Short
      <3> HIDE DEF t
      <3> QED BY <3>1, FindSent DEF FindSorts
    <2> HIDE DEF t
    <2>2. FindSorts(t) /\ FindLast(t) /\ FindHits(t)
      BY <2>1 DEF FindSorts, FindLast, FindHits
    <2>3. FindBusy(t) /\ FindTimed(t)
      BY <2>1 DEF FindBusy, FindTimed
    <2> QED BY <2>1, <2>2, <2>3 DEF t
  <1> QED BY <1>1, <1>2

\* The room and the documents outdate what is out also for no text.
LEMMA FindRan ==
  ASSUME FindShape, NEW s, DOMAIN s = DOMAIN view, NEW q \in FindText,
         FindSorts(s), s.box # "page", s.hits = 0, ~s.busy,
         q = 0 => ~s.searching,
         s.box = "docs" => q \in {0, s.input},
         s.box = "room" => FindTimed([s EXCEPT !.query = q])
  PROVE  LET t == ASearches!run(s, q)
         IN /\ DOMAIN t = DOMAIN view
            /\ FindSorts(t) /\ FindLast(t) /\ FindHits(t)
            /\ FindBusy(t) /\ FindTimed(t)
  <1> DEFINE o == ASearches!Outdated(s.out)
             t == ASearches!run(s, q)
             r == [s EXCEPT !.query = q]
  <1>0. /\ DOMAIN r = DOMAIN view /\ r.box = s.box /\ r.input = s.input
        /\ r.query = q /\ r.timer = s.timer /\ r.out = s.out
        /\ r.hits = s.hits /\ r.searching = s.searching /\ r.error = s.error
        /\ r.busy = s.busy /\ r.open = s.open
    BY DEF FindShape
  <1>1. CASE q = 0
    <2>1. t = [s EXCEPT !.query = 0, !.out = o]
      BY <1>1 DEF ASearches!run, ASearches!Short
    <2>2. o \subseteq FindOne /\ \A p \in o : ~p.last
      BY FindOutdated DEF FindSorts
    <2> HIDE DEF o
    <2>3. /\ DOMAIN t = DOMAIN view /\ t.box = s.box /\ t.input = s.input
          /\ t.query = 0 /\ t.timer = s.timer /\ t.out = o /\ t.hits = s.hits
          /\ t.searching = s.searching /\ t.error = s.error /\ t.busy = s.busy
          /\ t.open = s.open
      BY <2>1 DEF FindShape
    <2> HIDE DEF t, r
    <2>4. FindSorts(t) /\ FindLast(t) /\ FindHits(t) /\ FindBusy(t)
      BY <1>1, <2>2, <2>3 DEF FindText, FindSorts, FindLast, FindHits, FindBusy
    <2>5. FindTimed(t)
      BY <1>0, <1>1, <2>3 DEF FindTimed, FindSorts, r
    <2> QED BY <2>3, <2>4, <2>5 DEF t
  <1>2. CASE q # 0
    <2>1. /\ DOMAIN t = DOMAIN view /\ t.box = s.box /\ t.input = s.input
          /\ t.query = q /\ t.timer = s.timer /\ t.hits = 0 /\ t.open = s.open
          /\ t.searching /\ ~t.error /\ (t.busy <=> s.box = "page")
          /\ t.out \subseteq FindOne /\ \A p \in t.out : p.last => p.text = q
          /\ \E p \in t.out : p.last /\ p.text = q
      <3>1. t = ASearches!Sends(s, q)
        BY <1>2 DEF ASearches!run, ASearches!Short
      <3> HIDE DEF t, r
      <3> QED BY <3>1, FindSent DEF FindSorts
    <2> HIDE DEF t, r
    <2>2. FindSorts(t) /\ FindLast(t) /\ FindHits(t)
      BY <1>2, <2>1 DEF FindSorts, FindLast, FindHits
    <2>3. FindBusy(t)
      BY <2>1 DEF FindBusy
    <2>4. FindTimed(t)
      BY <1>0, <2>1 DEF FindTimed, FindSorts, r
    <2> QED BY <2>1, <2>2, <2>3, <2>4 DEF t
  <1> QED BY <1>1, <1>2

\* The numbers that are no text to search for.
LEMMA FindNone ==
  /\ ASearches!Short = 0 /\ ASearches!Off = -1 /\ 0 \in FindText
  /\ \A t \in FindText : t # -1
  BY Bounds DEF ASearches!Short, ASearches!Off, FindText

\* Typing in the box keeps the invariant.
LEMMA FindTyped ==
  ASSUME FindInv, NEW t \in FindText, ASearches!TypeInRoom(t)
  PROVE  FindInv'
  <1> DEFINE i == [view EXCEPT !.input = t, !.timer = -1]
             s == ASearches!Blank(i)
             r == ASearches!run(s, t)
             e == [view EXCEPT !.input = t, !.timer = t]
  <1>a. /\ view' = IF t = 0 THEN r ELSE e
        /\ view.box = "room"
    BY DEF ASearches!TypeInRoom, ASearches!On, ASearches!Short, ASearches!Off
  <1>b. /\ DOMAIN i = DOMAIN view /\ i.box = view.box /\ i.input = t
        /\ i.query = view.query /\ i.timer = -1 /\ i.out = view.out
        /\ i.hits = view.hits /\ i.searching = view.searching
        /\ i.error = view.error /\ i.busy = view.busy /\ i.open = view.open
    BY DEF FindInv, FindShape
  <1>c. /\ DOMAIN e = DOMAIN view /\ e.box = view.box /\ e.input = t
        /\ e.query = view.query /\ e.timer = t /\ e.out = view.out
        /\ e.hits = view.hits /\ e.searching = view.searching
        /\ e.error = view.error /\ e.busy = view.busy /\ e.open = view.open
    BY DEF FindInv, FindShape
  <1> HIDE DEF i, e
  <1>d. /\ DOMAIN s = DOMAIN view /\ s.box = i.box /\ s.input = i.input
        /\ s.query = 0 /\ s.timer = i.timer /\ s.out = i.out /\ s.hits = 0
        /\ s.searching = FALSE /\ s.error = FALSE /\ s.busy = FALSE
        /\ s.open = i.open
    BY <1>b, FindBlank DEF FindInv
  <1> HIDE DEF s
  <1>1. CASE t = 0
    <2>1. FindSorts(s) /\ t \in FindText
      BY <1>b, <1>d, FindNone DEF FindInv, FindOk, FindSorts
    <2>2. FindTimed([s EXCEPT !.query = t])
      BY <1>1, <1>b, <1>d DEF FindInv, FindShape, FindTimed
    <2>3. DOMAIN r = DOMAIN view /\ FindSorts(r) /\ FindLast(r) /\ FindHits(r)
          /\ FindBusy(r) /\ FindTimed(r)
      BY <1>1, <1>a, <1>b, <1>d, <2>1, <2>2, FindRan DEF FindInv
    <2> HIDE DEF r
    <2> QED BY <1>1, <1>a, <2>3 DEF FindInv, FindShape, FindOk
  <1>2. CASE t # 0
    <2>1. FindSorts(e) /\ FindLast(e)
      BY <1>a, <1>c, FindNone DEF FindInv, FindOk, FindSorts, FindLast
    <2>2. FindHits(e) /\ FindBusy(e)
      BY <1>a, <1>c DEF FindInv, FindOk, FindHits, FindBusy
    <2>3. FindTimed(e)
      BY <1>2, <1>a, <1>c, FindNone DEF FindInv, FindOk, FindTimed
    <2> QED BY <1>2, <1>a, <1>c, <2>1, <2>2, <2>3 DEF FindInv, FindShape, FindOk
  <1> QED BY <1>1, <1>2

\* The searches at the start.
LEMMA FindInit == ASearches!Init => FindInv
  <1> SUFFICES ASSUME ASearches!Init PROVE FindInv
    OBVIOUS
  <1> DEFINE no == FALSE
  <1>1. ~no
    OBVIOUS
  <1>2. PICK b \in {"page", "room", "docs"} :
          LET e == b # "room"
          IN view = [box |-> b, input |-> 0, query |-> 0, timer |-> -1,
                     out |-> {}, hits |-> 0, searching |-> no, error |-> no,
                     busy |-> no, open |-> e]
    BY DEF ASearches!Init, ASearches!Short, ASearches!Off
  <1> HIDE DEF no
  <1> QED
    BY <1>1, <1>2, FindNone
       DEF FindInv, FindShape, FindOk, FindSorts, FindLast, FindHits, FindBusy,
           FindTimed

\* Every step of it keeps what is said of it.
LEMMA FindStep == ASSUME FindInv, ASearches!Next PROVE FindInv'
  <1>1. ASSUME NEW t \in FindText, ASearches!Type(t) PROVE FindInv'
    <2> DEFINE no == FALSE
    <2>a. view' = [view EXCEPT !.input = t, !.timer = t, !.busy = no] /\ view.box = "page"
      BY <1>1 DEF ASearches!Type, ASearches!On
    <2>c. ~no
      OBVIOUS
    <2> HIDE DEF no
    <2>b. /\ DOMAIN view' = DOMAIN view /\ view'.box = view.box
          /\ view'.input = t /\ view'.query = view.query /\ view'.timer = t
          /\ view'.out = view.out /\ view'.hits = view.hits
          /\ view'.searching = view.searching /\ view'.error = view.error
          /\ view'.busy = no /\ view'.open = view.open
      BY <2>a DEF FindInv, FindShape
    <2>1. FindSorts(view') /\ FindLast(view')
      BY <2>a, <2>b, <2>c, FindNone DEF FindInv, FindOk, FindSorts, FindLast
    <2>2. FindHits(view')
      BY <2>a, <2>b, <2>c, FindNone DEF FindInv, FindOk, FindSorts, FindLast, FindHits
    <2>3. FindBusy(view')
      BY <2>a, <2>b, <2>c DEF FindInv, FindOk, FindBusy
    <2>4. FindTimed(view')
      BY <2>a, <2>b, <2>c, FindNone DEF FindInv, FindOk, FindSorts, FindTimed
    <2> QED BY <2>b, <2>1, <2>2, <2>3, <2>4 DEF FindInv, FindShape, FindOk
  <1>2. ASSUME NEW t \in FindText, ASearches!load(t) PROVE FindInv'
    <2> DEFINE no == FALSE
               s == IF t = 0 THEN view ELSE [view EXCEPT !.input = t]
               e == [s EXCEPT !.busy = no]
               r == ASearches!runSearch(s, s.input)
    <2>a. /\ view' = IF s.input = 0 THEN e ELSE r
          /\ view.box = "page"
      BY <1>2 DEF ASearches!load, ASearches!On, ASearches!Short
    <2>b. /\ s.input = IF t = 0 THEN view.input ELSE t
          /\ DOMAIN s = DOMAIN view /\ s.box = view.box /\ s.query = view.query
          /\ s.timer = view.timer /\ s.out = view.out /\ s.hits = view.hits
          /\ s.searching = view.searching /\ s.error = view.error
          /\ s.busy = view.busy /\ s.open = view.open
      BY DEF FindInv, FindShape
    <2> HIDE DEF s
    <2>c. ~no
      OBVIOUS
    <2> HIDE DEF no
    <2>d. /\ DOMAIN e = DOMAIN view /\ e.box = s.box /\ e.input = s.input
          /\ e.query = s.query /\ e.timer = s.timer /\ e.out = s.out
          /\ e.hits = s.hits /\ e.searching = s.searching /\ e.error = s.error
          /\ e.busy = no /\ e.open = s.open
      BY <2>b DEF FindInv, FindShape
    <2> HIDE DEF e
    <2>e. FindSorts(s) /\ FindLast(s) /\ s.input \in FindText
      BY <2>a, <2>b DEF FindInv, FindOk, FindSorts, FindLast
    <2>1. CASE s.input = 0
      <3>1. s.input = view.input
        BY <2>1, <2>b
      <3>2. FindSorts(e) /\ FindLast(e)
        BY <2>b, <2>d, <3>1 DEF FindInv, FindOk, FindSorts, FindLast
      <3>3. FindHits(e) /\ FindBusy(e)
        BY <2>b, <2>c, <2>d, <3>1 DEF FindInv, FindOk, FindHits, FindBusy
      <3>4. FindTimed(e)
        BY <2>b, <2>d, <3>1 DEF FindInv, FindOk, FindTimed
      <3> QED BY <2>1, <2>a, <2>b, <2>d, <3>2, <3>3, <3>4
                 DEF FindInv, FindShape, FindOk
    <2>2. CASE s.input # 0
      <3>1. DOMAIN r = DOMAIN view /\ FindSorts(r) /\ FindLast(r) /\ FindHits(r)
            /\ FindBusy(r) /\ FindTimed(r)
        BY <2>a, <2>b, <2>e, FindRuns DEF FindInv
      <3> HIDE DEF r
      <3> QED BY <2>2, <2>a, <3>1 DEF FindInv, FindShape, FindOk
    <2> QED BY <2>1, <2>2
  <1>3. ASSUME NEW t \in FindText, ASearches!TypeInRoom(t) PROVE FindInv'
    BY <1>3, FindTyped
  <1>4. ASSUME NEW t \in FindText, ASearches!clearSearch(t) PROVE FindInv'
    <2> DEFINE i == [view EXCEPT !.input = t]
               s == ASearches!Blank(i)
               r == ASearches!run(s, 0)
    <2>a. view' = r /\ view.box = "docs"
      BY <1>4 DEF ASearches!clearSearch, ASearches!On, ASearches!Short
    <2>b. /\ DOMAIN i = DOMAIN view /\ i.box = view.box /\ i.input = t
          /\ i.query = view.query /\ i.timer = view.timer /\ i.out = view.out
          /\ i.hits = view.hits /\ i.searching = view.searching
          /\ i.error = view.error /\ i.busy = view.busy /\ i.open = view.open
      BY DEF FindInv, FindShape
    <2> HIDE DEF i
    <2>c. /\ DOMAIN s = DOMAIN view /\ s.box = i.box /\ s.input = i.input
          /\ s.query = 0 /\ s.timer = i.timer /\ s.out = i.out /\ s.hits = 0
          /\ s.searching = FALSE /\ s.error = FALSE /\ s.busy = FALSE
          /\ s.open = i.open
      BY <2>b, FindBlank DEF FindInv
    <2> HIDE DEF s
    <2>d. FindSorts(s) /\ 0 \in FindText
      BY <2>b, <2>c, FindNone DEF FindInv, FindOk, FindSorts

    <2>z. DOMAIN r = DOMAIN view /\ FindSorts(r) /\ FindLast(r)
          /\ FindHits(r) /\ FindBusy(r) /\ FindTimed(r)
      BY <2>a, <2>b, <2>c, <2>d, FindRan DEF FindInv
    <2> QED BY <2>a, <2>z DEF FindInv, FindShape, FindOk
  <1>5. CASE ASearches!Fires
    <2> DEFINE s == [view EXCEPT !.timer = -1]
               t == ASearches!runSearch(s, view.input)
    <2>a. view' = t /\ view.box = "page"
      BY <1>5 DEF ASearches!Fires, ASearches!On, ASearches!Off
    <2>b. /\ DOMAIN s = DOMAIN view /\ s.box = view.box /\ s.input = view.input
          /\ s.query = view.query /\ s.timer = -1 /\ s.out = view.out
          /\ s.hits = view.hits /\ s.searching = view.searching
          /\ s.error = view.error /\ s.busy = view.busy /\ s.open = view.open
      BY DEF FindInv, FindShape
    <2> HIDE DEF s
    <2>c. FindSorts(s) /\ FindLast(s)
      BY <2>b DEF FindInv, FindOk, FindSorts, FindLast
    <2>d. view.input \in FindText /\ (s.timer = -1 => view.input = s.input)
      BY <2>a, <2>b DEF FindInv, FindOk, FindSorts, FindTimed

    <2>z. DOMAIN t = DOMAIN view /\ FindSorts(t) /\ FindLast(t)
          /\ FindHits(t) /\ FindBusy(t) /\ FindTimed(t)
      BY <2>a, <2>b, <2>c, <2>d, FindRuns DEF FindInv
    <2> QED BY <2>a, <2>z DEF FindInv, FindShape, FindOk
  <1>6. CASE ASearches!Search
    <2> DEFINE s == view
               t == ASearches!runSearch(s, view.input)
    <2>a. view' = t /\ view.box = "page"
      BY <1>6 DEF ASearches!Search, ASearches!On
    <2>b. /\ DOMAIN s = DOMAIN view /\ s.box = view.box /\ s.input = view.input
          /\ s.query = view.query /\ s.timer = view.timer /\ s.out = view.out
          /\ s.hits = view.hits /\ s.searching = view.searching
          /\ s.error = view.error /\ s.busy = view.busy /\ s.open = view.open
      BY DEF FindInv, FindShape
    <2> HIDE DEF s
    <2>c. FindSorts(s) /\ FindLast(s)
      BY <2>b DEF FindInv, FindOk, FindSorts, FindLast
    <2>d. view.input \in FindText /\ (s.timer = -1 => view.input = s.input)
      BY <2>a, <2>b DEF FindInv, FindOk, FindSorts, FindTimed

    <2>z. DOMAIN t = DOMAIN view /\ FindSorts(t) /\ FindLast(t)
          /\ FindHits(t) /\ FindBusy(t) /\ FindTimed(t)
      BY <2>a, <2>b, <2>c, <2>d, FindRuns DEF FindInv
    <2> QED BY <2>a, <2>z DEF FindInv, FindShape, FindOk
  <1>7. CASE ASearches!Retry
    <2> DEFINE s == view
               t == ASearches!runSearch(s, view.query)
    <2>a. view' = t /\ view.box = "page"
      BY <1>7 DEF ASearches!Retry, ASearches!On
    <2>b. /\ DOMAIN s = DOMAIN view /\ s.box = view.box /\ s.input = view.input
          /\ s.query = view.query /\ s.timer = view.timer /\ s.out = view.out
          /\ s.hits = view.hits /\ s.searching = view.searching
          /\ s.error = view.error /\ s.busy = view.busy /\ s.open = view.open
      BY DEF FindInv, FindShape
    <2> HIDE DEF s
    <2>c. FindSorts(s) /\ FindLast(s)
      BY <2>b DEF FindInv, FindOk, FindSorts, FindLast
    <2>d. view.query \in FindText /\ (s.timer = -1 => view.query = s.input)
      BY <2>a, <2>b DEF FindInv, FindOk, FindSorts, FindTimed

    <2>z. DOMAIN t = DOMAIN view /\ FindSorts(t) /\ FindLast(t)
          /\ FindHits(t) /\ FindBusy(t) /\ FindTimed(t)
      BY <2>a, <2>b, <2>c, <2>d, FindRuns DEF FindInv
    <2> QED BY <2>a, <2>z DEF FindInv, FindShape, FindOk
  <1>8. CASE ASearches!Clear
    <2>a. view' = [view EXCEPT !.input = 0, !.query = 0] /\ ~view.searching
          /\ view.box = "page" /\ view.hits = 0
      BY <1>8 DEF ASearches!Clear, ASearches!On, ASearches!Short
    <2>b. /\ DOMAIN view' = DOMAIN view /\ view'.box = view.box
          /\ view'.input = 0 /\ view'.query = 0 /\ view'.timer = view.timer
          /\ view'.out = view.out /\ view'.hits = view.hits
          /\ view'.searching = view.searching /\ view'.error = view.error
          /\ view'.busy = view.busy /\ view'.open = view.open
      BY <2>a DEF FindInv, FindShape
    <2>1. FindSorts(view') /\ FindLast(view')
      BY <2>a, <2>b, FindNone DEF FindInv, FindOk, FindSorts, FindLast
    <2>2. FindHits(view')
      BY <2>a, <2>b, FindNone DEF FindInv, FindOk, FindSorts, FindLast, FindHits
    <2>3. FindBusy(view')
      BY <2>a, <2>b DEF FindInv, FindOk, FindBusy
    <2>4. FindTimed(view')
      BY <2>a, <2>b, FindNone DEF FindInv, FindOk, FindSorts, FindTimed
    <2> QED BY <2>b, <2>1, <2>2, <2>3, <2>4 DEF FindInv, FindShape, FindOk
  <1>9. CASE ASearches!FiresInRoom
    <2> DEFINE s == [view EXCEPT !.timer = -1]
               r == ASearches!run(s, view.timer)
               q == view.timer
    <2>a. view' = r /\ view.box = "room" /\ q # -1
      BY <1>9 DEF ASearches!FiresInRoom, ASearches!On, ASearches!Off
    <2>b. /\ DOMAIN s = DOMAIN view /\ s.box = view.box /\ s.input = view.input
          /\ s.query = view.query /\ s.timer = -1 /\ s.out = view.out
          /\ s.hits = view.hits /\ s.searching = view.searching
          /\ s.error = view.error /\ s.busy = view.busy /\ s.open = view.open
      BY DEF FindInv, FindShape
    <2> HIDE DEF s
    <2>c. FindSorts(s) /\ q \in FindText /\ q # 0
      BY <2>a, <2>b DEF FindInv, FindOk, FindSorts, FindTimed
    <2>d. FindTimed([s EXCEPT !.query = q])
      BY <2>a, <2>b DEF FindInv, FindOk, FindShape, FindTimed
    <2>e. /\ DOMAIN r = DOMAIN view /\ r.box = s.box /\ r.input = s.input
          /\ r.query = q /\ r.timer = s.timer /\ r.hits = 0 /\ r.open = s.open
          /\ r.searching /\ ~r.error /\ (r.busy <=> s.box = "page")
          /\ r.out \subseteq FindOne /\ \A o \in r.out : o.last => o.text = q
          /\ \E o \in r.out : o.last /\ o.text = q
      <3>1. r = ASearches!Sends(s, q)
        BY <2>c DEF ASearches!run, ASearches!Short
      <3> HIDE DEF r, q
      <3> QED BY <2>b, <2>c, <3>1, FindSent DEF FindInv, FindSorts
    <2> HIDE DEF r, q
    <2>1. FindSorts(r) /\ FindLast(r) /\ FindHits(r)
      BY <2>a, <2>b, <2>c, <2>e DEF FindSorts, FindLast, FindHits
    <2>2. FindBusy(r)
      BY <2>a, <2>b, <2>e DEF FindBusy
    <2>3. FindTimed(r)
      BY <2>a, <2>b, <2>e DEF FindInv, FindOk, FindTimed, q
    <2> QED BY <2>a, <2>e, <2>1, <2>2, <2>3 DEF FindInv, FindShape, FindOk
  <1>10. CASE ASearches!closeChatSearch
    <2> DEFINE b == ASearches!Blank(view)
               no == FALSE
               s == [b EXCEPT !.input = 0, !.open = no]
               r == ASearches!run(s, 0)
    <2>a. view' = r /\ view.box = "room"
      BY <1>10 DEF ASearches!closeChatSearch, ASearches!On, ASearches!Short
    <2>b. /\ DOMAIN b = DOMAIN view /\ b.box = view.box /\ b.input = view.input
          /\ b.query = 0 /\ b.timer = view.timer /\ b.out = view.out
          /\ b.hits = 0 /\ b.searching = FALSE /\ b.error = FALSE
          /\ b.busy = FALSE /\ b.open = view.open
      BY FindBlank DEF FindInv
    <2> HIDE DEF b, no
    <2>c. /\ DOMAIN s = DOMAIN view /\ s.box = b.box /\ s.input = 0
          /\ s.query = b.query /\ s.timer = b.timer /\ s.out = b.out
          /\ s.hits = b.hits /\ s.searching = b.searching /\ s.error = b.error
          /\ s.busy = b.busy /\ s.open = no
      BY <2>b DEF FindInv, FindShape
    <2> HIDE DEF s
    <2>d. FindSorts(s) /\ 0 \in FindText
      BY <2>b, <2>c, FindNone DEF FindInv, FindOk, FindSorts
    <2>e. FindTimed([s EXCEPT !.query = 0])
      BY <2>a, <2>b, <2>c DEF FindInv, FindOk, FindShape, FindTimed

    <2>z. DOMAIN r = DOMAIN view /\ FindSorts(r) /\ FindLast(r)
          /\ FindHits(r) /\ FindBusy(r) /\ FindTimed(r)
      BY <2>a, <2>b, <2>c, <2>d, <2>e, FindRan DEF FindInv
    <2> QED BY <2>a, <2>z DEF FindInv, FindShape, FindOk
  <1>11. CASE ASearches!ToggleChatSearch
    <2> DEFINE yes == TRUE
    <2>a. view' = [view EXCEPT !.open = yes]
      BY <1>11 DEF ASearches!ToggleChatSearch, ASearches!On
    <2> HIDE DEF yes
    <2>b. /\ DOMAIN view' = DOMAIN view /\ view'.box = view.box
          /\ view'.input = view.input /\ view'.query = view.query
          /\ view'.timer = view.timer /\ view'.out = view.out
          /\ view'.hits = view.hits /\ view'.searching = view.searching
          /\ view'.error = view.error /\ view'.busy = view.busy
          /\ view'.open = yes
      BY <2>a DEF FindInv, FindShape
    <2>1. FindSorts(view') /\ FindLast(view')
      BY <2>a, <2>b, FindNone DEF FindInv, FindOk, FindSorts, FindLast
    <2>2. FindHits(view')
      BY <2>a, <2>b, FindNone DEF FindInv, FindOk, FindSorts, FindLast, FindHits
    <2>3. FindBusy(view')
      BY <2>a, <2>b DEF FindInv, FindOk, FindBusy
    <2>4. FindTimed(view')
      BY <2>a, <2>b, FindNone DEF FindInv, FindOk, FindSorts, FindTimed
    <2> QED BY <2>b, <2>1, <2>2, <2>3, <2>4 DEF FindInv, FindShape, FindOk
  <1>12. CASE ASearches!RetryInRoom
    BY <1>12, FindTyped DEF ASearches!RetryInRoom, FindInv, FindOk, FindSorts
  <1>13. CASE ASearches!doSearch
    <2> DEFINE s == ASearches!Blank(view)
               r == ASearches!run(s, view.input)
    <2>a. view' = r /\ view.box = "docs"
      BY <1>13 DEF ASearches!doSearch, ASearches!On
    <2>c. /\ DOMAIN s = DOMAIN view /\ s.box = view.box /\ s.input = view.input
          /\ s.query = 0 /\ s.timer = view.timer /\ s.out = view.out
          /\ s.hits = 0 /\ s.searching = FALSE /\ s.error = FALSE
          /\ s.busy = FALSE /\ s.open = view.open
      BY FindBlank DEF FindInv
    <2> HIDE DEF s
    <2>d. FindSorts(s) /\ view.input \in FindText
      BY <2>c, FindNone DEF FindInv, FindOk, FindSorts

    <2>z. DOMAIN r = DOMAIN view /\ FindSorts(r) /\ FindLast(r)
          /\ FindHits(r) /\ FindBusy(r) /\ FindTimed(r)
      BY <2>a, <2>c, <2>d, FindRan DEF FindInv
    <2> QED BY <2>a, <2>z DEF FindInv, FindShape, FindOk
  <1>14. ASSUME NEW o \in view.out, ASearches!Fails(o) PROVE FindInv'
    <2> DEFINE s == [view EXCEPT !.out = @ \ {o}]
               yes == TRUE
               no == FALSE
               t == [s EXCEPT !.hits = 0, !.error = yes, !.searching = no, !.busy = no]
    <2>a. /\ view' = IF ~o.last THEN s ELSE t
          /\ view.box = "page"
      BY <1>14 DEF ASearches!Fails, ASearches!Ends, ASearches!On, ASearches!Short
    <2>b. /\ DOMAIN s = DOMAIN view /\ s.box = view.box /\ s.input = view.input
          /\ s.query = view.query /\ s.timer = view.timer
          /\ s.out = view.out \ {o} /\ s.hits = view.hits
          /\ s.searching = view.searching /\ s.error = view.error
          /\ s.busy = view.busy /\ s.open = view.open
      BY DEF FindInv, FindShape
    <2>c. ~no
      OBVIOUS
    <2> HIDE DEF s, yes, no
    <2>d. /\ DOMAIN t = DOMAIN view /\ t.box = s.box /\ t.input = s.input
          /\ t.query = s.query /\ t.timer = s.timer /\ t.out = s.out
          /\ t.hits = 0 /\ t.searching = no /\ t.error = yes /\ t.busy = no
          /\ t.open = s.open
      BY <2>b DEF FindInv, FindShape
    <2> HIDE DEF t
    <2>1. CASE ~o.last
      <3>1. FindSorts(s) /\ FindLast(s)
        BY <2>b DEF FindInv, FindOk, FindSorts, FindLast
      <3>2. FindHits(s) /\ FindBusy(s)
        BY <2>1, <2>b DEF FindInv, FindOk, FindHits, FindBusy
      <3>3. FindTimed(s)
        BY <2>b DEF FindInv, FindOk, FindTimed
      <3> QED BY <2>1, <2>a, <2>b, <3>1, <3>2, <3>3 DEF FindInv, FindShape, FindOk
    <2>2. CASE o.last
      <3>1. FindSorts(t) /\ FindLast(t)
        BY <2>a, <2>b, <2>d DEF FindInv, FindOk, FindSorts, FindLast
      <3>2. FindHits(t)
        BY <2>2, <2>a, <2>b, <2>c, <2>d DEF FindInv, FindOk, FindLast, FindHits
      <3>3. FindBusy(t)
        BY <2>a, <2>b, <2>c, <2>d DEF FindInv, FindOk, FindBusy
      <3>4. FindTimed(t)
        BY <2>a, <2>b, <2>d DEF FindInv, FindOk, FindTimed
      <3> QED BY <2>2, <2>a, <2>b, <2>d, <3>1, <3>2, <3>3, <3>4
                 DEF FindInv, FindShape, FindOk
    <2> QED BY <2>1, <2>2
  <1>15. ASSUME NEW o \in view.out, NEW some \in BOOLEAN, ASearches!Found(o, some) PROVE FindInv'
    <2> DEFINE s == [view EXCEPT !.out = @ \ {o}]
               h == IF some THEN o.text ELSE 0
               no == FALSE
               t == [s EXCEPT !.hits = h, !.error = no, !.searching = no, !.busy = no]
    <2>a. /\ view' = IF ~o.last THEN s ELSE t
          /\ view.box = "page"
      BY <1>15 DEF ASearches!Found, ASearches!Ends, ASearches!On, ASearches!Short
    <2>b. /\ DOMAIN s = DOMAIN view /\ s.box = view.box /\ s.input = view.input
          /\ s.query = view.query /\ s.timer = view.timer
          /\ s.out = view.out \ {o} /\ s.hits = view.hits
          /\ s.searching = view.searching /\ s.error = view.error
          /\ s.busy = view.busy /\ s.open = view.open
      BY DEF FindInv, FindShape
    <2>c. ~no /\ h \in {0, o.text}
      OBVIOUS
    <2> HIDE DEF s, h, no
    <2>d. /\ DOMAIN t = DOMAIN view /\ t.box = s.box /\ t.input = s.input
          /\ t.query = s.query /\ t.timer = s.timer /\ t.out = s.out
          /\ t.hits = h /\ t.searching = no /\ t.error = no /\ t.busy = no
          /\ t.open = s.open
      BY <2>b DEF FindInv, FindShape
    <2> HIDE DEF t
    <2>1. CASE ~o.last
      <3>1. FindSorts(s) /\ FindLast(s)
        BY <2>b DEF FindInv, FindOk, FindSorts, FindLast
      <3>2. FindHits(s) /\ FindBusy(s)
        BY <2>1, <2>b DEF FindInv, FindOk, FindHits, FindBusy
      <3>3. FindTimed(s)
        BY <2>b DEF FindInv, FindOk, FindTimed
      <3> QED BY <2>1, <2>a, <2>b, <3>1, <3>2, <3>3 DEF FindInv, FindShape, FindOk
    <2>2. CASE o.last
      <3>1. FindSorts(t) /\ FindLast(t)
        BY <2>a, <2>b, <2>d DEF FindInv, FindOk, FindSorts, FindLast
      <3>2. FindHits(t)
        BY <2>2, <2>a, <2>b, <2>c, <2>d DEF FindInv, FindOk, FindLast, FindHits
      <3>3. FindBusy(t)
        BY <2>a, <2>b, <2>c, <2>d DEF FindInv, FindOk, FindBusy
      <3>4. FindTimed(t)
        BY <2>a, <2>b, <2>d DEF FindInv, FindOk, FindTimed
      <3> QED BY <2>2, <2>a, <2>b, <2>d, <3>1, <3>2, <3>3, <3>4
                 DEF FindInv, FindShape, FindOk
    <2> QED BY <2>1, <2>2
  <1>16. ASSUME NEW o \in view.out, NEW some \in BOOLEAN, NEW ok \in BOOLEAN, ASearches!drawChatSearchState(o, some, ok) PROVE FindInv'
    <2> DEFINE s == [view EXCEPT !.out = @ \ {o}]
               h == IF o.last /\ some /\ ok THEN o.text ELSE 0
               e == o.last /\ ~ok
               no == FALSE
               t == [s EXCEPT !.hits = h, !.error = e, !.searching = no]
    <2>a. /\ view' = t
          /\ view.box = "room"
      BY <1>16 DEF ASearches!drawChatSearchState, ASearches!Ends, ASearches!On, ASearches!Short
    <2>b. /\ DOMAIN s = DOMAIN view /\ s.box = view.box /\ s.input = view.input
          /\ s.query = view.query /\ s.timer = view.timer
          /\ s.out = view.out \ {o} /\ s.hits = view.hits
          /\ s.searching = view.searching /\ s.error = view.error
          /\ s.busy = view.busy /\ s.open = view.open
      BY DEF FindInv, FindShape
    <2>c. ~no /\ (h = 0 \/ (o.last /\ h = o.text))
      OBVIOUS
    <2> HIDE DEF s, h, e, no
    <2>d. /\ DOMAIN t = DOMAIN view /\ t.box = s.box /\ t.input = s.input
          /\ t.query = s.query /\ t.timer = s.timer /\ t.out = s.out
          /\ t.hits = h /\ t.searching = no /\ t.error = e /\ t.busy = s.busy
          /\ t.open = s.open
      BY <2>b DEF FindInv, FindShape
    <2> HIDE DEF t
    <2>2. FindInv'
      <3>1. FindSorts(t) /\ FindLast(t)
        BY <2>a, <2>b, <2>d DEF FindInv, FindOk, FindSorts, FindLast
      <3>2. FindHits(t)
        BY <2>a, <2>b, <2>c, <2>d DEF FindInv, FindOk, FindLast, FindHits
      <3>3. FindBusy(t)
        BY <2>a, <2>b, <2>c, <2>d DEF FindInv, FindOk, FindBusy
      <3>4. FindTimed(t)
        BY <2>a, <2>b, <2>d DEF FindInv, FindOk, FindTimed
      <3> QED BY <2>a, <2>b, <2>d, <3>1, <3>2, <3>3, <3>4
                 DEF FindInv, FindShape, FindOk
    <2> QED BY <2>2
  <1>17. ASSUME NEW o \in view.out, NEW some \in BOOLEAN, NEW ok \in BOOLEAN, ASearches!DocsFound(o, some, ok) PROVE FindInv'
    <2> DEFINE s == [view EXCEPT !.out = @ \ {o}]
               h == IF some /\ ok THEN o.text ELSE 0
               e == ~ok
               no == FALSE
               t == [s EXCEPT !.hits = h, !.error = e, !.searching = no]
    <2>a. /\ view' = IF ~o.last THEN s ELSE t
          /\ view.box = "docs"
      BY <1>17 DEF ASearches!DocsFound, ASearches!Ends, ASearches!On, ASearches!Short
    <2>b. /\ DOMAIN s = DOMAIN view /\ s.box = view.box /\ s.input = view.input
          /\ s.query = view.query /\ s.timer = view.timer
          /\ s.out = view.out \ {o} /\ s.hits = view.hits
          /\ s.searching = view.searching /\ s.error = view.error
          /\ s.busy = view.busy /\ s.open = view.open
      BY DEF FindInv, FindShape
    <2>c. ~no /\ h \in {0, o.text}
      OBVIOUS
    <2> HIDE DEF s, h, e, no
    <2>d. /\ DOMAIN t = DOMAIN view /\ t.box = s.box /\ t.input = s.input
          /\ t.query = s.query /\ t.timer = s.timer /\ t.out = s.out
          /\ t.hits = h /\ t.searching = no /\ t.error = e /\ t.busy = s.busy
          /\ t.open = s.open
      BY <2>b DEF FindInv, FindShape
    <2> HIDE DEF t
    <2>1. CASE ~o.last
      <3>1. FindSorts(s) /\ FindLast(s)
        BY <2>b DEF FindInv, FindOk, FindSorts, FindLast
      <3>2. FindHits(s) /\ FindBusy(s)
        BY <2>1, <2>b DEF FindInv, FindOk, FindHits, FindBusy
      <3>3. FindTimed(s)
        BY <2>b DEF FindInv, FindOk, FindTimed
      <3> QED BY <2>1, <2>a, <2>b, <3>1, <3>2, <3>3 DEF FindInv, FindShape, FindOk
    <2>2. CASE o.last
      <3>1. FindSorts(t) /\ FindLast(t)
        BY <2>a, <2>b, <2>d DEF FindInv, FindOk, FindSorts, FindLast
      <3>2. FindHits(t)
        BY <2>2, <2>a, <2>b, <2>c, <2>d DEF FindInv, FindOk, FindLast, FindHits
      <3>3. FindBusy(t)
        BY <2>a, <2>b, <2>c, <2>d DEF FindInv, FindOk, FindBusy
      <3>4. FindTimed(t)
        BY <2>a, <2>b, <2>d DEF FindInv, FindOk, FindTimed
      <3> QED BY <2>2, <2>a, <2>b, <2>d, <3>1, <3>2, <3>3, <3>4
                 DEF FindInv, FindShape, FindOk
    <2> QED BY <2>1, <2>2
  <1>t. Things \cup {ASearches!Short} = FindText
    BY DEF FindText, ASearches!Short
  <1> QED
    BY <1>1, <1>2, <1>3, <1>4, <1>5, <1>6, <1>7, <1>8, <1>9, <1>10, <1>11,
       <1>12, <1>13, <1>14, <1>15, <1>16, <1>17, <1>t DEF ASearches!Next

\* That gives the properties of ASearches.
LEMMA FindHolds == FindInv => ASearches!Settled /\ ASearches!Truthful /\ ASearches!InStep
  <1> SUFFICES ASSUME FindInv
               PROVE  ASearches!Settled /\ ASearches!Truthful /\ ASearches!InStep
    OBVIOUS
  <1>1. ASearches!Settled
    BY DEF FindInv, FindOk, FindBusy, ASearches!Settled
  <1>2. ASearches!Truthful
    BY DEF FindInv, FindOk, FindHits, ASearches!Truthful, ASearches!Short,
           ASearches!On
  <1>3. ASearches!InStep
    BY DEF FindInv, FindOk, FindTimed, ASearches!InStep, ASearches!Short,
           ASearches!On, ASearches!Off
  <1> QED BY <1>1, <1>2, <1>3

\* It holds from the first state on when the page is this one.
LEMMA FindStays ==
  /\ Init => (subject = "find" => FindInv)
  /\ (subject = "find" => FindInv) /\ [Next]_vars
       => (subject = "find" => FindInv)'
  <1>1. Init => (subject = "find" => FindInv)
    BY FindInit DEF Init
  <1>2. (subject = "find" => FindInv) /\ [Next]_vars
          => (subject = "find" => FindInv)'
    <2>1. ASSUME FindInv, view' = view PROVE FindInv'
      BY <2>1 DEF FindInv, FindShape, FindOk, FindSorts, FindLast, FindHits,
          FindBusy, FindTimed
    <2> QED BY <2>1, FindStep DEF Next, vars
  <1> QED BY <1>1, <1>2

=============================================================================
