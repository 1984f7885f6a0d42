-------------------------------- MODULE Runs --------------------------------
(***************************************************************************)
(* The Runs page (features/runs.js, lib/runs-list.js): the recorded runs,  *)
(* the one selected, its graph, and the comparison of two.  No request     *)
(* carries a token, so that answers draw in the order they arrive, beside  *)
(* the ticks of a run in flight and the redraws of the window.             *)
(***************************************************************************)
EXTENDS Integers, Sequences, FiniteSets, FiniteSetsExt

CONSTANTS
  MaxRuns,    \* the runs recorded, the newest has the largest number
  Hits,       \* those that match what the user types in the filter
  MaxAsked    \* bound: requests for a run out at once

Ids == 1..MaxRuns
None == -1
Live == 0     \* the synthetic run a run in flight is drawn as

VARIABLE
  runs        \* a record:
              \*   listed, whether allRuns has the list; loaded,
              \*     viewLoaded.runs; wanted, pendingRunId
              \*   query, whether the filter has text; sel, the select's value
              \*   lists, asks, diffs, the requests out; a run of asks is
              \*     tagged when the first load of the page waits for it
              \*   module, where graph.js is; waits, what it is to draw
              \*   graph, what runGraph shows; last, lastGraph, the run it
              \*     has drawn; kept, preCompareGraph
              \*   detail, the run whose step is open; clear, the button

Init ==
  runs = [listed |-> FALSE, loaded |-> FALSE, wanted |-> None,
          query |-> FALSE, sel |-> None, lists |-> 1, asks |-> {},
          diffs |-> {}, module |-> "absent", waits |-> None,
          graph |-> "loading", last |-> None, kept |-> None,
          detail |-> None, clear |-> FALSE]

matchesRunQuery(s) == {r \in Ids : s.listed /\ (s.query => r \in Hits)}

\* The options are built anew; a selection that still matches is kept.
renderRunOptions(s) ==
  LET matches == matchesRunQuery(s)
  IN IF matches = {}
     THEN [s EXCEPT !.sel = None, !.graph = "none", !.detail = None]
     ELSE [s EXCEPT !.sel = IF s.sel \in matches THEN s.sel ELSE Max(matches)]

loadRun(s, id, first) ==
  [s EXCEPT !.graph = "loading", !.asks = @ \cup {<<id, first>>}]

showRunsError(s) == [s EXCEPT !.graph = "error"]

\* Without graph.js a run waits for the import, and only what is drawn last
\* stays.
Waits(s, g) == [s EXCEPT !.waits = g, !.module = "asked"]

\* Mutant: the detail of another run's step is left open.
BugDrawRun(s, g) ==
  IF s.module # "loaded" THEN Waits(s, g)
  ELSE [s EXCEPT !.graph = "drawn", !.last = g]

\* Another run closes the detail.
drawRun(s, g) ==
  IF s.module # "loaded" THEN Waits(s, g)
  ELSE [s EXCEPT !.graph = "drawn", !.last = g,
                 !.detail = IF s.last = g THEN @ ELSE None]

Room(s) == Cardinality(s.asks) < MaxAsked

-----------------------------------------------------------------------------
(* The list.                                                                *)

\* A run asked for by a link is opened with the first list that arrives.
RunsRead ==
  LET first == ~runs.loaded
      s == [runs EXCEPT !.lists = @ - 1, !.listed = TRUE, !.wanted = None,
                        !.query = IF runs.wanted # None THEN FALSE ELSE @]
      o == renderRunOptions(s)
  IN /\ runs.lists > 0 /\ Room(runs)
     /\ runs' = IF runs.wanted # None
                THEN loadRun([o EXCEPT !.sel = runs.wanted],
                             runs.wanted, first)
                ELSE IF o.sel = None THEN [o EXCEPT !.loaded = TRUE]
                ELSE loadRun(o, o.sel, first)
RunsFailed ==
  /\ runs.lists > 0
  /\ runs' = [showRunsError(runs) EXCEPT !.lists = @ - 1, !.loaded = TRUE]

\* Refresh is disabled until the list and its run have answered.
Refresh == /\ runs.loaded /\ runs.lists = 0
           /\ \A a \in runs.asks : ~a[2]
           /\ runs' = [runs EXCEPT !.lists = 1,
                                   !.graph = IF @ = "blank" THEN "loading"
                                                            ELSE @]

openRun(id) ==
  IF runs.loaded
  THEN LET o == renderRunOptions([runs EXCEPT !.query = FALSE])
       IN /\ Room(runs)
          /\ runs' = loadRun([o EXCEPT !.sel = IF o.listed THEN id
                                                               ELSE None],
                             id, FALSE)
  ELSE /\ runs.lists < 2
       /\ runs' = [runs EXCEPT !.wanted = id, !.lists = @ + 1]

\* A row or an option: both end in the select's change, or reload what is
\* selected already.
selectRunFromList(id) ==
  /\ id \in matchesRunQuery(runs) /\ runs.sel # None /\ Room(runs)
  /\ runs' = loadRun([runs EXCEPT !.sel = id], id, FALSE)

\* The filter, and 120 ms.  What is being loaded does not count for it, only
\* what was drawn.
Filter ==
  LET o == renderRunOptions([runs EXCEPT !.query = ~@])
  IN /\ Room(runs)
     /\ runs' = IF o.sel # None /\ runs.last # o.sel
                THEN loadRun(o, o.sel, FALSE) ELSE o

-----------------------------------------------------------------------------
(* The graph.                                                               *)

Answers(a) == [runs EXCEPT !.asks = @ \ {a}, !.loaded = @ \/ a[2],
                           !.graph = "blank"]
RunRead(a) == a \in runs.asks /\ runs' = drawRun(Answers(a), a[1])
RunFailed(a) == a \in runs.asks /\ runs' = showRunsError(Answers(a))

GraphLands ==
  /\ runs.module = "asked"
  /\ runs' = drawRun([runs EXCEPT !.module = "loaded", !.waits = None],
                     runs.waits)
GraphFails ==
  /\ runs.module = "asked"
  /\ runs' = [runs EXCEPT !.module = "absent", !.graph = "retry"]
Retry ==
  /\ runs.graph = "retry"
  /\ runs' = drawRun([runs EXCEPT !.graph = "blank"], runs.waits)

\* A window that changes its size draws again what was drawn last.
Resize == /\ runs.last # None
          /\ runs' = drawRun(runs, runs.last)

\* pushLiveNode, while the page is on screen.
LiveTick == Room(runs) /\ runs' = drawRun(runs, Live)

showNodeDetail ==
  /\ runs.graph = "drawn"
  /\ runs' = [runs EXCEPT !.detail = runs.last]
closeNodeDetail ==
  runs.detail # None /\ runs' = [runs EXCEPT !.detail = None]

-----------------------------------------------------------------------------
(* The comparison of two runs.                                              *)

diffRuns(a, b) ==
  /\ a # b /\ runs.listed /\ runs.diffs = {}
  /\ runs' = [runs EXCEPT !.diffs = {a}]

\* The graph before the first comparison is what Clear comes back to.
DiffRead(a) ==
  /\ a \in runs.diffs
  /\ runs' = [drawRun([runs EXCEPT !.kept = IF @ = None THEN runs.last ELSE @],
                      a)
              EXCEPT !.diffs = {}, !.clear = TRUE, !.detail = a]
DiffFailed == runs.diffs # {} /\ runs' = [runs EXCEPT !.diffs = {}]

Clear ==
  LET s == [runs EXCEPT !.clear = FALSE, !.kept = None, !.detail = None]
      back == IF runs.kept # None THEN runs.kept ELSE runs.last
  IN /\ runs.clear
     /\ runs' = IF back = None THEN s ELSE drawRun(s, back)

Next ==
  \/ RunsRead \/ RunsFailed \/ Refresh \/ Filter
  \/ \E id \in Ids : openRun(id) \/ selectRunFromList(id)
  \/ \E a \in Ids \X BOOLEAN : RunRead(a) \/ RunFailed(a)
  \/ GraphLands \/ GraphFails \/ Retry \/ Resize \/ LiveTick
  \/ showNodeDetail \/ closeNodeDetail
  \/ \E a, b \in Ids : diffRuns(a, b)
  \/ \E a \in Ids : DiffRead(a)
  \/ DiffFailed \/ Clear
-----------------------------------------------------------------------------
\* Whatever says it is loading has a request that will say otherwise.
Settled == runs.graph = "loading" => runs.asks # {} \/ runs.lists > 0

\* The step on screen is one of the run on screen, whatever drew it last.
Truthful == runs.detail # None /\ runs.last # None => runs.detail = runs.last
=============================================================================
