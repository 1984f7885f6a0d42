----------------------------- MODULE CardParts ------------------------------
(***************************************************************************)
(* The parts of a card that a click changes at once (features/board.js):   *)
(* the labels, posted as a whole list computed from the board as drawn,    *)
(* and an item of the checklist, whose box moves before the answer.        *)
(***************************************************************************)
EXTENDS Integers, FiniteSets

CONSTANTS
  Colors,     \* the colours of the labels
  MaxOut      \* bound: posts of each kind out at once

VARIABLE
  parts       \* a record:
              \*   labels, as the page has them; stored, as the server has;
              \*     meant, the clicks applied one after the other
              \*   updates, the lists out, each with the list it comes from
              \*     and the colour it adds or removes
              \*   done, the item as the page has it; box, as it is shown
              \*   toggles, the values out, and whether the box of each is
              \*     still on screen; twice, two were out for one box
              \*   raced: a list was written over one it does not come from

Init ==
  \E l \in SUBSET Colors, d \in BOOLEAN :
    parts = [labels |-> l, stored |-> l, meant |-> l, updates |-> {},
             done |-> d, box |-> d, toggles |-> {}, twice |-> FALSE,
             raced |-> FALSE]

flip(set, c) == (set \cup {c}) \ (set \cap {c})

\* Every drawing of the board builds the parts anew.
Drawn(s) == [s EXCEPT !.labels = s.stored, !.box = s.done,
                      !.toggles = {<<t[1], FALSE>> : t \in @},
                      !.twice = FALSE]
BoardRead == parts' = Drawn(parts)

-----------------------------------------------------------------------------
\* A pill removes its label, a swatch adds one by name or removes it.
UpdateLabels(c) ==
  LET u == <<parts.labels, c>>
  IN /\ Cardinality(parts.updates) < MaxOut /\ u \notin parts.updates
     /\ parts' = [parts EXCEPT !.updates = @ \cup {u}]
LabelsRead(u) ==
  /\ u \in parts.updates
  /\ parts' = Drawn([parts EXCEPT
       !.updates = @ \ {u}, !.stored = flip(u[1], u[2]),
       !.meant = IF u[2] \in u[1] THEN @ \ {u[2]} ELSE @ \cup {u[2]},
       !.raced = @ \/ u[1] # parts.stored])
UpdateFails(u) == /\ u \in parts.updates
                  /\ parts' = [parts EXCEPT !.updates = @ \ {u}]

\* Somebody else, on the server.
OthersLabel(c) == parts' = [parts EXCEPT !.stored = flip(@, c),
                                         !.meant = flip(@, c)]

-----------------------------------------------------------------------------
Toggle ==
  LET t == <<~parts.box, TRUE>>
  IN /\ Cardinality(parts.toggles) < MaxOut /\ t \notin parts.toggles
     /\ parts' = [parts EXCEPT
          !.box = t[1], !.toggles = @ \cup {t},
          !.twice = @ \/ \E o \in parts.toggles : o[2]]
ToggleRead(t) ==
  /\ t \in parts.toggles
  /\ parts' = Drawn([parts EXCEPT !.toggles = @ \ {t}, !.done = t[1]])
\* A box still on screen is put back.
ToggleFails(t) ==
  /\ t \in parts.toggles
  /\ parts' = [parts EXCEPT !.toggles = @ \ {t},
                            !.box = IF t[2] THEN ~t[1] ELSE @]

Next ==
  \/ BoardRead \/ Toggle
  \/ \E c \in Colors : UpdateLabels(c) \/ OthersLabel(c)
  \/ \E u \in parts.updates : LabelsRead(u) \/ UpdateFails(u)
  \/ \E t \in parts.toggles : ToggleRead(t) \/ ToggleFails(t)
-----------------------------------------------------------------------------
\* No label that somebody set is lost and none removed comes back, unless a
\* list was written over one it does not come from.
Kept == parts.stored = parts.meant \/ parts.raced

\* A box shows what the item is, or what it was just clicked to be.
Truthful ==
  parts.box = parts.done \/ parts.twice \/ \E t \in parts.toggles : t[2]
=============================================================================
