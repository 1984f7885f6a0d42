-------------------------------- MODULE Mesh --------------------------------
(***************************************************************************)
(* The Mesh page (plugins/mesh/app.js): the members and the peers who ask  *)
(* to join, a poll and live events that load both with two requests, and   *)
(* the verbs, one at a time, each followed by a load of its own.           *)
(***************************************************************************)
EXTENDS Integers, Sequences, FiniteSets

CONSTANTS
  Peers,
  MaxOut      \* bound: loads, and verbs, out at once

Unread == {0}     \* not a set of peers
Unset == {-1}
Verbs == {"join", "leave", "leave all", "admit", "deny"}

\* The list without its i-th element.
Without(q, i) ==
  [k \in 1..(Len(q) - 1) |-> IF k < i THEN q[k] ELSE q[k + 1]]

VARIABLE
  mesh        \* a record:
              \*   members, pending: the server's, which others change too
              \*   status (Unset before a load and after one failed), asking,
              \*     busy, failed: state, as the page has drawn it
              \*   loads: what each has read of either list, and whether
              \*     nothing of it changed since it was sent
              \*   acts: the verbs out, the peer, and what the server said
              \*   asked: the verbs whose confirmation is open
              \*   fresh: the lists drawn are of the newest load, and nothing
              \*     changed since

NewLoad == [members |-> Unread, asking |-> Unread, fresh |-> TRUE]

\* load(): nothing keeps two of them apart.
load(s) == [s EXCEPT !.busy = "Loading", !.failed = FALSE, !.fresh = FALSE,
                     !.loads = Append(@, NewLoad)]

Init ==
  \E m \in SUBSET Peers : \E p \in SUBSET (Peers \ m) :
    mesh = load([members |-> m, pending |-> p, status |-> Unset, asking |-> {},
                 busy |-> "", failed |-> FALSE, loads |-> <<>>, acts |-> <<>>,
                 asked |-> {}, fresh |-> FALSE])

-----------------------------------------------------------------------------
(* The server.                                                              *)

Changed(s, m, p) ==
  [s EXCEPT !.members = m, !.pending = p, !.fresh = FALSE,
            !.loads = [i \in DOMAIN @ |-> [@[i] EXCEPT !.fresh = FALSE]]]

\* A peer asks to join, or leaves, or another page answers him (bound: no verb
\* is out, and a load could be sent).
PeerMoves(x) ==
  \E m \in {mesh.members \ {x}, mesh.members \cup {x}} :
    \E p \in {mesh.pending \ {x}, mesh.pending \cup {x}} :
      /\ mesh.acts = <<>> /\ Len(mesh.loads) < MaxOut
      /\ m \cap p = {} /\ <<m, p>> # <<mesh.members, mesh.pending>>
      /\ mesh' = Changed(mesh, m, p)

ReadsMembers(i) ==
  /\ i \in DOMAIN mesh.loads /\ mesh.loads[i].members = Unread
  /\ mesh' = [mesh EXCEPT !.loads[i].members = mesh.members]
\* A list of those who ask that cannot be had counts as an empty one.
ReadsPending(i) ==
  /\ i \in DOMAIN mesh.loads /\ mesh.loads[i].asking = Unread
  /\ \/ mesh' = [mesh EXCEPT !.loads[i].asking = mesh.pending]
     \/ mesh' = [mesh EXCEPT !.loads[i].asking = {}, !.loads[i].fresh = FALSE]

Obeys(i) ==
  LET a == mesh.acts[i]
      m == CASE a.verb \in {"join", "admit"} -> mesh.members \cup {a.peer}
             [] a.verb = "leave" -> mesh.members \ {a.peer}
             [] a.verb = "leave all" -> {}
             [] OTHER -> mesh.members
      known == a.verb \in {"admit", "deny"} => a.peer \in mesh.pending
  IN /\ i \in DOMAIN mesh.acts /\ ~mesh.acts[i].done
     /\ mesh' = IF known
          THEN [Changed(mesh, m, mesh.pending \ {a.peer}) EXCEPT !.acts[i].done = TRUE]
          ELSE [mesh EXCEPT !.acts[i].done = TRUE]

-----------------------------------------------------------------------------
(* The page.                                                                *)

\* Both lists are in.
LoadRead(i) ==
  LET l == mesh.loads[i]
  IN /\ i \in DOMAIN mesh.loads /\ l.members # Unread /\ l.asking # Unread
     /\ mesh' = [mesh EXCEPT
          !.loads = Without(@, i), !.status = l.members, !.asking = l.asking,
          !.busy = "", !.fresh = l.fresh /\ i = Len(mesh.loads)]
LoadFails(i) ==
  /\ i \in DOMAIN mesh.loads
  /\ mesh' = [mesh EXCEPT !.loads = Without(@, i), !.status = Unset, !.asking = {},
                          !.busy = "", !.failed = TRUE, !.fresh = FALSE]

Room(s) == Len(s.loads) < MaxOut

\* No button is disabled, and no question is open over them.
Free == mesh.busy = "" /\ mesh.asked = {}

\* The button, which is drawn disabled while anything is busy; the poll, which
\* looks at the same; and a live event, which looks at neither.
Refresh == Free /\ Room(mesh) /\ mesh' = load(mesh)
Polls == mesh.busy = "" /\ Room(mesh) /\ mesh' = load(mesh)
Live == Room(mesh) /\ mesh' = load(mesh)

\* act(): a load does not stop it, another verb does.
act(s, verb, x) ==
  IF s.busy = "Working" \/ Len(s.acts) = MaxOut THEN s
  ELSE [s EXCEPT !.busy = "Working",
                 !.acts = Append(@, [verb |-> verb, peer |-> x, done |-> FALSE])]

\* The rows of those who ask, and the form.
Answer(x) ==
  \E verb \in {"admit", "deny"} :
    /\ Free /\ x \in mesh.asking
    /\ mesh' = act(mesh, verb, x)
Join(x) == /\ Free /\ x \notin mesh.members
           /\ mesh' = act(mesh, "join", x)

\* Leave, of a row or of all, asks first; the page goes on behind the question.
AskLeave(x) ==
  /\ Free
  /\ mesh.status # Unset
  /\ \/ x \in mesh.status /\ mesh' = [mesh EXCEPT !.asked = {"leave"}]
     \/ mesh.status # {} /\ mesh' = [mesh EXCEPT !.asked = {"leave all"}]
Confirm(yes, x) ==
  \E verb \in mesh.asked :
    LET s == [mesh EXCEPT !.asked = {}]
    IN mesh' = IF yes THEN act(s, verb, x) ELSE s

\* However a verb ends, the lists are loaded again.
ActEnds(i) ==
  /\ i \in DOMAIN mesh.acts /\ Room(mesh)
  /\ mesh' = load([mesh EXCEPT !.acts = Without(@, i)])

Next ==
  \/ \E x \in Peers : \/ PeerMoves(x) \/ Answer(x) \/ Join(x) \/ AskLeave(x)
                      \/ \E yes \in BOOLEAN : Confirm(yes, x)
  \/ \E i \in 1..MaxOut : \/ ReadsMembers(i) \/ ReadsPending(i) \/ Obeys(i)
                          \/ LoadRead(i) \/ LoadFails(i) \/ ActEnds(i)
  \/ Refresh \/ Polls \/ Live

-----------------------------------------------------------------------------
\* Nothing out: no button stays disabled, and where no list is there is an
\* error; one may stay over lists that a second load brought after it.
Settled ==
  mesh.loads = <<>> /\ mesh.acts = <<>> =>
    mesh.busy = "" /\ (mesh.status = Unset => mesh.failed)

\* The lists drawn of the newest load, while nothing changed since it was sent,
\* are the server's; a peer who moves between its two reads is in both or none.
Truthful ==
  mesh.fresh => mesh.status = mesh.members /\ mesh.asking = mesh.pending
=============================================================================
