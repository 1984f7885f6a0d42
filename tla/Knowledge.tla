------------------------------ MODULE Knowledge ------------------------------
(***************************************************************************)
(* The collections of the Knowledge view (features/knowledge.js): a list   *)
(* with a box each for the next chat, the collection that is open and the  *)
(* row that links it to a folder, whose answers carry no token.            *)
(***************************************************************************)
EXTENDS Integers, Sequences, FiniteSets

CONSTANTS
  Cols,       \* collections
  MaxLoads,   \* bound: the loads of the list out
  MaxOpens    \* bound: the collections asked for

\* The list without its i-th element.
Without(q, i) ==
  [k \in 1..(Len(q) - 1) |-> IF k < i THEN q[k] ELSE q[k + 1]]

VARIABLE
  know        \* a record:
              \*   srv, the collections on the server
              \*   list, those on screen; ticks, the boxes drawn as checked;
              \*     sel, those the next chat includes
              \*   loads, of the list: read by the server, what it read, and
              \*     whether nothing was deleted meanwhile; crossed, the list
              \*     on screen was read while something was
              \*   cleared, the selection was emptied and the boxes stand
              \*   opens, the collections asked for; detail, what is on
              \*     screen: loading, open or failed, and which one
              \*   sync, the id the row acts on, and path, the collection
              \*     whose folder it names; 0 for none
              \*   ask, the confirmation on screen: of a deletion or a prune
              \*   dels, and whether the server did; syncs, the collection and
              \*     the one whose folder was sent, confirmed or not

Init ==
  \E s \in SUBSET Cols :
    know = [srv |-> Cols, list |-> {}, ticks |-> {}, sel |-> s,
            loads |-> <<[read |-> FALSE, at |-> {}, clean |-> TRUE]>>,
            crossed |-> FALSE, cleared |-> FALSE, opens |-> <<>>,
            detail |-> [is |-> "none", id |-> 0], sync |-> 0, path |-> 0,
            ask |-> [what |-> "none", id |-> 0], dels |-> {}, syncs |-> {}]

\* The list is emptied until it comes.
loadKnowledge(s) ==
  [s EXCEPT !.list = {}, !.ticks = {}, !.cleared = FALSE,
            !.loads = Append(@, [read |-> FALSE, at |-> {},
                                 clean |-> s.dels = {}])]
openCollection(s, c) ==
  [s EXCEPT !.opens = Append(@, c), !.detail = [is |-> "loading", id |-> 0]]
closed(s) == [s EXCEPT !.detail = [is |-> "none", id |-> 0], !.sync = 0,
                       !.path = 0]

-----------------------------------------------------------------------------
(* The user; a confirmation is modal.                                       *)

Free == know.ask.what = "none"
Refresh == Free /\ know' = loadKnowledge(know)
Open(c) == Free /\ c \in know.list /\ know' = openCollection(know, c)
closeCollection == Free /\ know.detail.is = "open" /\ know' = closed(know)
Include(c) ==
  /\ Free /\ c \in know.list
  /\ know' = IF c \in know.ticks
             THEN [know EXCEPT !.ticks = @ \ {c}, !.sel = @ \ {c}]
             ELSE [know EXCEPT !.ticks = @ \cup {c}, !.sel = @ \cup {c}]
\* The badge under the composer empties the selection, not the boxes.
ClearSelection == /\ know.sel # {}
                  /\ know' = [know EXCEPT !.sel = {}, !.cleared = TRUE]

Ask(what, c) == Free /\ know' = [know EXCEPT !.ask = [what |-> what, id |-> c]]
AskDelete(c) == c \in know.list /\ Ask("delete", c)
No == ~Free /\ know' = [know EXCEPT !.ask = [what |-> "none", id |-> 0]]
deleteCollection ==
  /\ know.ask.what = "delete"
  /\ know' = [know EXCEPT
       !.ask = [what |-> "none", id |-> 0],
       !.dels = @ \cup {[id |-> know.ask.id, done |-> FALSE]},
       !.loads = [i \in DOMAIN @ |-> [@[i] EXCEPT !.clean = FALSE]]]

\* The folder is the one typed, the collection the one open when it is sent.
runFolderSync ==
  /\ Free /\ know.sync # 0
  /\ know' = [know EXCEPT !.syncs = @ \cup {[id |-> know.sync,
                                             of |-> know.path, pruned |-> FALSE]}]
AskPrune == know.sync # 0 /\ Ask("prune", know.path)
Prune ==
  /\ know.ask.what = "prune"
  /\ know' = [know EXCEPT
       !.ask = [what |-> "none", id |-> 0],
       !.syncs = @ \cup {[id |-> know.sync, of |-> know.ask.id,
                          pruned |-> TRUE]}]

-----------------------------------------------------------------------------
(* The server and its answers.                                              *)

Reads(i) == /\ i \in DOMAIN know.loads /\ ~know.loads[i].read
            /\ know' = [know EXCEPT !.loads[i].read = TRUE,
                                    !.loads[i].at = know.srv]
ListRead(i) ==
  LET l == know.loads[i]
  IN /\ i \in DOMAIN know.loads /\ l.read
     /\ know' = [know EXCEPT !.loads = Without(@, i), !.list = l.at,
                             !.ticks = know.sel \cap l.at,
                             !.crossed = ~l.clean, !.cleared = FALSE]
ListFails(i) ==
  /\ i \in DOMAIN know.loads
  /\ know' = [know EXCEPT !.loads = Without(@, i), !.list = {}, !.ticks = {}]

\* The answers of two opens come in any order, after a Close as well.
OpenRead(i) ==
  LET c == know.opens[i]
  IN /\ i \in DOMAIN know.opens
     /\ know' = [know EXCEPT !.opens = Without(@, i),
                             !.detail = [is |-> "open", id |-> c],
                             !.sync = c, !.path = c]
OpenFails(i) ==
  /\ i \in DOMAIN know.opens
  /\ know' = [know EXCEPT !.opens = Without(@, i),
                          !.detail = [is |-> "failed", id |-> know.opens[i]]]

Deletes(d) ==
  /\ d \in know.dels /\ ~d.done
  /\ know' = [know EXCEPT !.srv = @ \ {d.id},
                          !.dels = (@ \ {d}) \cup {[d EXCEPT !.done = TRUE]}]
Deleted(d) ==
  LET s == [know EXCEPT !.dels = @ \ {d}, !.sel = @ \ {d.id}]
  IN /\ d \in know.dels /\ d.done
     /\ know' = loadKnowledge(IF know.sync = d.id THEN closed(s) ELSE s)
DeleteFails(d) == /\ d \in know.dels /\ ~d.done
                  /\ know' = [know EXCEPT !.dels = @ \ {d}]

\* What is then open is opened again.
Synced(y, ok) ==
  LET s == [know EXCEPT !.syncs = @ \ {y}]
  IN /\ y \in know.syncs
     /\ know' = IF ok THEN loadKnowledge(openCollection(s, know.sync)) ELSE s

Next ==
  /\ \/ Refresh \/ closeCollection \/ ClearSelection \/ No
     \/ deleteCollection \/ runFolderSync \/ AskPrune \/ Prune
     \/ \E c \in Cols : Open(c) \/ Include(c) \/ AskDelete(c)
     \/ \E i \in 1..MaxLoads : Reads(i) \/ ListRead(i) \/ ListFails(i)
     \/ \E i \in 1..MaxOpens : OpenRead(i) \/ OpenFails(i)
     \/ \E d \in know.dels : Deletes(d) \/ Deleted(d) \/ DeleteFails(d)
     \/ \E y \in know.syncs, ok \in BOOLEAN : Synced(y, ok)
  /\ Len(know'.loads) <= MaxLoads /\ Len(know'.opens) <= MaxOpens
  /\ Cardinality(know'.dels) + Cardinality(know'.syncs) <= 1

-----------------------------------------------------------------------------

\* The row below an open collection is that collection's, with its folder,
\* and none acts on a collection that was closed.
InStep == /\ know.detail.is = "open"
               => know.sync = know.detail.id /\ know.path = know.sync
          /\ know.detail.is = "none" => know.sync = 0

\* The boxes on screen are the selection, unless the badge emptied it.
Truthful == ~know.cleared => know.ticks = know.sel \cap know.list

\* A sync that asked nothing sends the folder of the collection it acts on.
Kept == \A y \in know.syncs : ~y.pruned => y.id = y.of

\* The list holds no collection that was deleted here, unless it was read
\* while it was.
Settled == know.dels = {} /\ ~know.crossed => know.list \subseteq know.srv

=============================================================================
