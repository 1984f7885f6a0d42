-------------------------------- MODULE Health --------------------------------
(***************************************************************************)
(* The server's health (plugins/health/app.js): samples of its counters    *)
(* come from a request and, on their own, from the live bus; a rate is     *)
(* measured between the last two that were drawn.                          *)
(***************************************************************************)
EXTENDS Integers, Sequences

CONSTANTS
  MaxCount,   \* bound: the requests the server counts
  MaxLives,   \* bound: the samples of the bus on their way
  Lives       \* bound: the lives of the server

None == [life |-> 0, count |-> 0]

VARIABLE
  health      \* a record:
              \*   srv, the counter and the life of the server it counts
              \*   load, the request: none, asked or read; got, what it read
              \*   bus, the samples on their way; crossed, one was while the
              \*     request was out
              \*   prev, the sample before; tile, what the rate says and the
              \*     sample it was measured from
              \*   shown, the sample on screen, none with an error

Init ==
  health = [srv |-> [life |-> 1, count |-> 0], load |-> "asked",
            got |-> None, bus |-> <<>>, crossed |-> FALSE, prev |-> None,
            tile |-> [says |-> "none", rate |-> 0, from |-> None],
            shown |-> None]

-----------------------------------------------------------------------------
(* The server.                                                              *)

Serves == /\ health.srv.count < MaxCount
          /\ health' = [health EXCEPT !.srv.count = @ + 1]
Restarts == /\ health.srv.life < Lives
            /\ health' = [health EXCEPT !.srv = [life |-> @.life + 1,
                                                 count |-> 0]]
Reads == /\ health.load = "asked"
         /\ health' = [health EXCEPT !.load = "read", !.got = health.srv]
Ticks == /\ Len(health.bus) < MaxLives
         /\ health' = [health EXCEPT !.bus = Append(@, health.srv),
                                  !.crossed = @ \/ health.load # "none"]

-----------------------------------------------------------------------------
(* The page.                                                                *)

\* Nothing to compare with, no time between, or a counter that went back.
rateOf(before, after, apart) ==
  IF before = None \/ ~apart
  THEN [says |-> "first", rate |-> 0, from |-> before]
  ELSE IF after.count < before.count
  THEN [says |-> "reset", rate |-> 0, from |-> before]
  ELSE [says |-> "rate", rate |-> after.count - before.count, from |-> before]

applySample(s, d, apart) ==
  [s EXCEPT !.tile = rateOf(s.prev, d, apart), !.prev = d, !.shown = d]

load(s) == IF s.load # "none" THEN s
           ELSE [s EXCEPT !.load = "asked", !.crossed = @ \/ s.bus # <<>>]
Refresh == health.load = "none" /\ health' = load(health)
\* Shown again: what was measured before is not compared with.
resume == health' = load([health EXCEPT !.prev = None])

LoadRead(apart) ==
  /\ health.load = "read"
  /\ health' = applySample([health EXCEPT !.load = "none", !.got = None],
                           health.got, apart)
drawFailure ==
  /\ health.load # "none"
  /\ health' = [health EXCEPT !.load = "none", !.got = None, !.prev = None,
                              !.shown = None]
Live(apart) ==
  /\ health.bus # <<>>
  /\ health' = applySample([health EXCEPT !.bus = Tail(@)],
                           Head(health.bus), apart)

Next == \/ Serves \/ Restarts \/ Reads \/ Ticks
        \/ Refresh \/ resume \/ drawFailure
        \/ \E apart \in BOOLEAN : LoadRead(apart) \/ Live(apart)

-----------------------------------------------------------------------------

Older(a, b) == a.life < b.life \/ (a.life = b.life /\ a.count < b.count)

\* The rate is never below zero and is of the sample on screen; the counters
\* are said to be reset only when the server began another life, unless a
\* sample of the bus and the request's answer crossed.
Truthful ==
  /\ health.tile.rate >= 0
  /\ health.tile.says = "reset" /\ ~health.crossed
       => health.tile.from.life < health.srv.life

\* A sample on screen is what the next is compared with, or nothing is.
InStep == health.prev # None => health.prev = health.shown

\* Samples are drawn in the order they were taken, unless two crossed.
Kept == ~health.crossed /\ health.tile.says # "none"
          => ~Older(health.shown, health.tile.from) \/ health.shown = None

=============================================================================
