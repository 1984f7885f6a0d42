---------------------------- MODULE SchedulePage ----------------------------
(***************************************************************************)
(* The Schedule page (plugins/schedule/app.js): the entries with a button  *)
(* each that pauses or resumes it, one at a time, beside loads of the list *)
(* that may have been read before the change they arrive after.            *)
(***************************************************************************)
EXTENDS Integers, Sequences

CONSTANTS
  Plans,      \* the entries
  MaxLoads    \* bound: loads out at once

None == 0

\* The list without its i-th element.
Without(q, i) ==
  [k \in 1..(Len(q) - 1) |-> IF k < i THEN q[k] ELSE q[k + 1]]

VARIABLE
  sched       \* a record:
              \*   srv, the entries that are enabled; others may change them
              \*   entries, those the page has as enabled; rows, drawn so
              \*   shown: loading, rows or failed
              \*   loads: what the server read, whether it has, and whether
              \*     nothing was written since
              \*   busy, state.busy; post, the change out: the entry, what it
              \*     is to be, and whether the server did
              \*   crossed, a list was drawn that is older than a change

Init ==
  \E s \in SUBSET Plans :
    sched = [srv |-> s, entries |-> {}, rows |-> {}, shown |-> "loading",
             loads |-> <<[read |-> FALSE, at |-> {}, fresh |-> TRUE]>>,
             busy |-> None,
             post |-> [id |-> None, on |-> FALSE, done |-> FALSE],
             crossed |-> FALSE]

render(s) == [s EXCEPT !.rows = s.entries, !.shown = "rows"]
Written(s) ==
  LET Older(l) == [l EXCEPT !.fresh = l.fresh /\ ~l.read]
  IN [s EXCEPT !.loads = [i \in DOMAIN s.loads |-> Older(s.loads[i])]]
With(set, e, on) == IF on THEN set \cup {e} ELSE set \ {e}

load == /\ Len(sched.loads) < MaxLoads
        /\ sched' = [sched EXCEPT
             !.loads = Append(@, [read |-> FALSE, at |-> {}, fresh |-> TRUE])]
Reads(i) == /\ i \in DOMAIN sched.loads /\ ~sched.loads[i].read
            /\ sched' = [sched EXCEPT !.loads[i].read = TRUE,
                                      !.loads[i].at = sched.srv]
LoadRead(i) ==
  LET l == sched.loads[i]
  IN /\ i \in DOMAIN sched.loads /\ l.read
     /\ sched' = render([sched EXCEPT !.loads = Without(@, i),
                                      !.entries = l.at,
                                      !.crossed = ~l.fresh])
LoadFails(i) ==
  /\ i \in DOMAIN sched.loads
  /\ sched' = [sched EXCEPT !.loads = Without(@, i), !.shown = "failed"]

\* The button of a row says what the row was drawn with.
setEnabled(e) ==
  /\ sched.shown = "rows" /\ sched.busy = None
  /\ sched' = render([sched EXCEPT
       !.busy = e,
       !.post = [id |-> e, on |-> e \notin sched.rows, done |-> FALSE]])
Sets == LET p == sched.post
        IN /\ p.id # None /\ ~p.done
           /\ sched' = [Written(sched) EXCEPT !.post.done = TRUE,
                                              !.srv = With(@, p.id, p.on)]
\* Whatever the answer, the rows are drawn again, over a failed load as well.
SetAnswered(ok) ==
  LET p == sched.post
      s == [sched EXCEPT !.busy = None, !.post.id = None,
                         !.post.on = FALSE, !.post.done = FALSE]
  IN /\ p.id # None /\ (ok => p.done)
     /\ sched' = render(IF ok
                        THEN [s EXCEPT !.entries = With(@, p.id, p.on)]
                        ELSE [s EXCEPT !.crossed = @ \/ p.done])

Next ==
  \/ load \/ Sets
  \/ \E i \in 1..MaxLoads : Reads(i) \/ LoadRead(i) \/ LoadFails(i)
  \/ \E e \in Plans : setEnabled(e)
  \/ \E ok \in BOOLEAN : SetAnswered(ok)

-----------------------------------------------------------------------------

\* What the rows say is what the server has once nothing is out, but after a
\* list that was older than a change, or a change nothing was heard of.
InStep == sched.shown = "rows" /\ sched.loads = <<>> /\ sched.post.id = None
            => sched.crossed \/ sched.rows = sched.srv

\* A button that waits has a change out, and no two are.
Settled == sched.busy = sched.post.id

=============================================================================
