------------------------------- MODULE Arena --------------------------------
(***************************************************************************)
(* The Arena page (features/arena.js): the match chosen and the poll of    *)
(* one that runs, beside the events of the live stream.  The page stops    *)
(* its timer when it leaves the screen, not the requests that are out.     *)
(***************************************************************************)
EXTENDS Integers, FiniteSets

CONSTANTS
  Matches,    \* the matches recorded; the page starts with the least
  GiveUp,     \* POLL_GIVE_UP: quiet updates that may fail in a row
  MaxAsks     \* bound: requests for a match out at once

None == 0
First == CHOOSE m \in Matches : \A n \in Matches : m <= n

VARIABLE
  arena       \* a record:
              \*   on, whether the page is on screen; over, the matches ended
              \*   id, match, state.id and state.match; live, whether that
              \*     match runs; shown, the match on screen
              \*   timer, state.timer; fails, state.pollFails; list, asks,
              \*     the requests out: of an ask, the match and whether quiet
              \*   pending, window._pendingArenaId; err, whether the page says
              \*     that a load failed or that it gave up
              \*   want, the match the user last asked for; late, an answer
              \*     was of another

Init ==
  arena = [on |-> TRUE, over |-> {}, id |-> None, match |-> None,
           live |-> FALSE, shown |-> None, timer |-> FALSE, fails |-> 0,
           list |-> TRUE, asks |-> {}, pending |-> None, err |-> FALSE,
           want |-> None, late |-> FALSE]

fetchMatch(s, id, quiet) == [s EXCEPT !.asks = @ \cup {<<id, quiet>>}]
Room == Cardinality(arena.asks) < MaxAsks

-----------------------------------------------------------------------------
(* The page.                                                                *)

\* Another view, or another tab of the browser.
stopArena == /\ arena.on
             /\ arena' = [arena EXCEPT !.on = FALSE, !.timer = FALSE]

\* The view again, the tab again, Refresh.
loadArenaView ==
  LET linked == arena.pending # None
  IN arena' = [arena EXCEPT !.on = TRUE, !.list = TRUE, !.pending = None,
                            !.id = IF linked THEN arena.pending ELSE @,
                            !.want = IF linked THEN arena.pending ELSE @]
Link(m) == /\ arena.pending = None
           /\ arena' = [arena EXCEPT !.pending = m]

ListRead ==
  LET id == IF arena.id # None THEN arena.id ELSE First
  IN /\ arena.list /\ Room
     /\ arena' = [fetchMatch(arena, id, FALSE) EXCEPT
                    !.list = FALSE,
                    !.want = IF @ = None THEN id ELSE @]
ListFails == /\ arena.list
             /\ arena' = [arena EXCEPT !.list = FALSE, !.err = TRUE]

\* A row of the list.
Pick(m) == /\ arena.on /\ Room
           /\ arena' = [fetchMatch(arena, m, FALSE) EXCEPT !.want = m]

-----------------------------------------------------------------------------
(* The match.                                                               *)

\* The timer and an event of the stream, which comes wherever the user is.
Poll == /\ arena.timer /\ Room
        /\ arena' = fetchMatch(arena, arena.id, TRUE)
LiveEvent == /\ arena.id # None /\ Room
             /\ arena' = fetchMatch(arena, arena.id, TRUE)

MatchRead(a) ==
  LET running == a[1] \notin arena.over
  IN /\ a \in arena.asks
     /\ arena' = [arena EXCEPT
          !.asks = @ \ {a}, !.id = a[1], !.match = a[1], !.shown = a[1],
          !.live = running, !.timer = running, !.fails = 0, !.err = FALSE,
          !.late = a[1] # arena.want]
\* A quiet one is let pass until there are too many.
MatchFails(a) ==
  /\ a \in arena.asks
  /\ arena' =
       IF ~a[2]
       THEN [arena EXCEPT !.asks = @ \ {a}, !.timer = FALSE, !.shown = None,
                          !.err = TRUE]
       ELSE IF arena.fails + 1 < GiveUp
       THEN [arena EXCEPT !.asks = @ \ {a}, !.fails = @ + 1]
       ELSE [arena EXCEPT !.asks = @ \ {a}, !.fails = GiveUp,
                          !.timer = FALSE, !.err = TRUE]

\* A theme or the wish for less motion draws the match there is.
renderMatch == /\ arena.match # None
               /\ arena' = [arena EXCEPT !.shown = arena.match]

Ends(m) == /\ m \notin arena.over
           /\ arena' = [arena EXCEPT !.over = @ \cup {m}]

Next ==
  \/ stopArena \/ loadArenaView \/ ListRead \/ ListFails
  \/ \E m \in Matches : Link(m) \/ Pick(m) \/ Ends(m)
  \/ Poll \/ LiveEvent \/ renderMatch
  \/ \E a \in arena.asks : MatchRead(a) \/ MatchFails(a)
-----------------------------------------------------------------------------
\* A match shown as running is asked for again, or the page says it is not.
\* What is polled was running when last heard of, and did not fail to answer too
\* often: an answer may start the poll of a page off screen, never that of a
\* match that is over.
Settled ==
  /\ arena.on /\ arena.shown # None /\ arena.live =>
       arena.timer \/ arena.list \/ arena.err \/ arena.asks # {}
  /\ arena.timer => arena.live /\ arena.fails < GiveUp

\* The match on screen is the one asked for, once every answer is there and
\* the last was of that one.
Truthful ==
  arena.shown \in {None, arena.want} \/ arena.late \/ arena.err \/ arena.list
    \/ \E a \in arena.asks : ~a[2]
=============================================================================
