------------------------------- MODULE Picker -------------------------------
(***************************************************************************)
(* The model picker (core/modelpicker.js): a popup of its own over the     *)
(* hidden select whose value a run is sent with.  A load fills both; one   *)
(* that fails empties the select and leaves the popup its rows.            *)
(***************************************************************************)
EXTENDS Integers, FiniteSets

CONSTANTS
  Offers,     \* the models of the configuration; the least is its default
  MaxLoads    \* bound: loads out at once

None == 0
Unread == {-1}
Least(S) == CHOOSE m \in S : \A n \in S : m <= n

VARIABLE
  pick        \* a record:
              \*   srv, the models enabled; loads, the loads out: what the
              \*     server read
              \*   options, those of the select, {None} when a load failed;
              \*     value, the select's
              \*   index, _modelIndex; open; query; rows, those drawn;
              \*     active, the highlighted one
              \*   saved, what the browser and the conversation remember
              \*   chosen, what was picked last

Init ==
  \E s \in SUBSET Offers :
    pick = [srv |-> s, loads |-> {Unread}, options |-> {None}, value |-> None,
            index |-> {}, open |-> FALSE, query |-> None, rows |-> {},
            active |-> None, saved |-> None, chosen |-> None]

\* Every load draws the rows again, and highlights the one selected.
renderList(s, q) ==
  LET hits == {m \in s.index : q \in {None, m}}
  IN [s EXCEPT !.query = q, !.rows = hits,
               !.active = IF hits = {} THEN None
                          ELSE IF s.value \in hits THEN s.value
                          ELSE Least(hits)]

\* What is remembered is selected where the select has it; else the default of
\* the configuration, or the first there is.
Selected(s) ==
  [s EXCEPT !.value = IF s.saved \in s.options THEN s.saved
                      ELSE IF s.options = {} THEN None ELSE Least(s.options)]

loadProviders(s) == [s EXCEPT !.loads = @ \cup {Unread}]

-----------------------------------------------------------------------------

\* The Models page writes the configuration, and tells the picker.
Visibility(m) ==
  pick' = loadProviders([pick EXCEPT !.srv = IF m \in @ THEN @ \ {m}
                                             ELSE @ \cup {m}])
Reads == /\ Unread \in pick.loads
         /\ pick' = [pick EXCEPT !.loads = (@ \ {Unread}) \cup {pick.srv}]
ListRead(l) ==
  LET s == Selected([pick EXCEPT !.loads = @ \ {l},
                                 !.options = l, !.index = l])
  IN /\ l \in pick.loads /\ l # Unread
     /\ pick' = IF s.open THEN renderList(s, s.query) ELSE s
ListFails(l) == /\ l \in pick.loads
                /\ pick' = [pick EXCEPT !.loads = @ \ {l},
                                        !.options = {None}, !.value = None]

openModelPicker ==
  /\ ~pick.open
  /\ pick' = renderList([pick EXCEPT
       !.open = TRUE,
       !.index = IF @ = {} THEN pick.options \ {None} ELSE @], None)
\* Escape, Tab, the chip again, or a click elsewhere.
closeModelPicker(s) == [s EXCEPT !.open = FALSE, !.rows = {}, !.query = None,
                                 !.active = None]
dismissModelPicker == pick.open /\ pick' = closeModelPicker(pick)
Search(q) == pick.open /\ pick' = renderList(pick, q)
moveActive(m) == /\ m \in pick.rows \ {pick.active}
                 /\ pick' = [pick EXCEPT !.active = m]

\* The select's change handler writes over what was just remembered, with the
\* value the select took: none, if it has no such option.
selectValue(m) ==
  LET v == IF m \in pick.options THEN m ELSE None
  IN /\ m \in pick.rows
     /\ pick' = closeModelPicker([pick EXCEPT !.value = v, !.saved = v,
                                              !.chosen = v])
Enter == pick.open /\ selectValue(pick.active)

Next ==
  /\ \/ \E m \in Offers : Visibility(m) \/ moveActive(m) \/ selectValue(m)
     \/ \E l \in pick.loads : ListRead(l) \/ ListFails(l)
     \/ \E q \in Offers \cup {None} : Search(q)
     \/ Reads \/ openModelPicker \/ dismissModelPicker \/ Enter
  /\ Cardinality(pick'.loads) <= MaxLoads

-----------------------------------------------------------------------------

\* A model that was picked stays the one runs are sent with, whatever loads
\* come, fail or cross, for as long as the select offers it.
Kept == pick.chosen \in pick.options \ {None} => pick.value = pick.chosen

\* Every row is one that can be selected, unless the last load failed, and the
\* highlighted one is among them.
InStep ==
  pick.open => /\ pick.options = {None} \/ pick.rows \subseteq pick.options
               /\ pick.active = None <=> pick.rows = {}
               /\ pick.active \in pick.rows \cup {None}
=============================================================================
