----------------------------- MODULE ModelTable -----------------------------
(***************************************************************************)
(* The configured models (features/models.js): one entry of config.local,  *)
(* its row in the table, and the panel that edits it.  The row's checkbox  *)
(* and the panel both write the whole entry, from the copies they hold.    *)
(***************************************************************************)
EXTENDS Integers, FiniteSets

CONSTANT
  MaxVer      \* bound: versions of the entry the user may save

Entry == [on : BOOLEAN, ver : 0..MaxVer]     \* version 0: no entry
NoEntry == [on |-> TRUE, ver |-> 0]
Asked == [on |-> FALSE, ver |-> -1]          \* a list the server has to read

VARIABLE
  models      \* a record:
              \*   server, the entry on disk; row, that of the table
              \*   lists, the GET /api/providers out, asked or read
              \*   toggle, save, remove: the POST of each, an entry and how
              \*     far it got; old, whether the row was drawn anew since
              \*   box, saving: the checkbox and the Save button disabled
              \*   panel, shut, new or edit; mine, whether editEntry is still
              \*     the row's own object; its, the on it holds otherwise
              \*   kept, history: the version last written by the panel, or
              \*     by a row that was behind; clean, history: nothing was
              \*     being written while the list was out
              \*   crossed, history: the table may be behind.  Two writes
              \*     were out at once or an answer was lost, and no clean
              \*     list was read since, or the last was not clean

Idle == [at |-> "none", entry |-> NoEntry]

Init ==
  \E e \in {NoEntry, [on |-> TRUE, ver |-> 1]} :
  models = [server |-> e, row |-> NoEntry, lists |-> {Asked},
            toggle |-> Idle, save |-> Idle, remove |-> Idle, old |-> FALSE,
            box |-> FALSE, saving |-> FALSE, panel |-> "shut", mine |-> FALSE,
            its |-> TRUE, kept |-> e.ver, clean |-> TRUE, crossed |-> FALSE]

Writing(s) == \E w \in {s.toggle, s.save, s.remove} : w.at # "none"
Calm(s) == s.lists = {}     \* bound: one list is out at a time
Asks(s) == [s EXCEPT !.crossed = @ \/ Writing(s), !.clean = FALSE]

-----------------------------------------------------------------------------
(* The table.                                                               *)

\* The rows are drawn anew: an open panel keeps the object it was opened on.
Draws(s, e) == [s EXCEPT !.row = e, !.box = FALSE,
                         !.old = s.toggle.at # "none", !.mine = FALSE,
                         !.its = IF s.mine THEN s.row.on ELSE @]
\* Refresh, and what a write that went well asks for: the table goes first.
loadConfigured(s) == [Draws(s, NoEntry) EXCEPT !.lists = @ \cup {Asked},
                                               !.clean = ~Writing(s)]
Refresh == Calm(models) /\ models' = loadConfigured(models)

Read ==
  /\ Asked \in models.lists
  /\ models' = [models EXCEPT !.lists = (@ \ {Asked}) \cup {models.server}]

Listed(e) == /\ e \in models.lists \ {Asked}
             /\ models' = [Draws(models, e) EXCEPT !.lists = @ \ {e},
                                                   !.crossed = ~models.clean]
ListFails(e) == /\ e \in models.lists
                /\ models' = [Draws(models, NoEntry) EXCEPT !.lists = @ \ {e}]

\* The checkbox: its entry is changed, and written whole.
saveModelEntry ==
  LET e == [models.row EXCEPT !.on = ~@]
  IN /\ models.row.ver > 0 /\ ~models.box /\ models.toggle.at = "none"
     /\ models' = [Asks(models) EXCEPT !.row = e, !.box = TRUE, !.old = FALSE,
                                       !.toggle = [at |-> "sent", entry |-> e]]

\* Mutant: a refusal leaves the row as it was clicked.
BugToggleAnswered(ok) ==
  LET s == [models EXCEPT !.toggle = Idle]
  IN /\ models.toggle.at = (IF ok THEN "done" ELSE "failed")
     /\ models' = IF models.old THEN s ELSE [s EXCEPT !.box = FALSE]

\* An answer frees the box; a refusal takes the change back.  Neither reaches
\* a row that was drawn since.
ToggleAnswered(ok) ==
  LET s == [models EXCEPT !.toggle = Idle]
  IN /\ models.toggle.at = (IF ok THEN "done" ELSE "failed")
     /\ models' = IF models.old THEN s
                  ELSE [s EXCEPT !.box = FALSE,
                                 !.row.on = IF ok THEN @ ELSE ~@]

-----------------------------------------------------------------------------
(* The panel.                                                               *)

\* A row's Edit, or Add model; Save is enabled again, Remove is not.
showEditPanel(new) ==
  /\ models.panel = "shut" /\ (new \/ models.row.ver > 0)
  /\ models' = [models EXCEPT !.panel = IF new THEN "new" ELSE "edit",
                              !.mine = ~new, !.its = TRUE, !.saving = FALSE]
hideEditPanel == /\ models.panel # "shut"
                 /\ models' = [models EXCEPT !.panel = "shut", !.mine = FALSE,
                                             !.its = TRUE]

\* The form or the raw table.  What it says of enabled is its own copy's.
editOn(s) == IF s.mine THEN s.row.on ELSE s.its
saveEdit(ver) ==
  /\ models.panel # "shut" /\ ~models.saving /\ models.save.at = "none"
  /\ models' = [Asks(models) EXCEPT
       !.saving = TRUE,
       !.save = [at |-> "sent", entry |-> [on |-> editOn(models), ver |-> ver]]]
SaveAnswered(ok) ==
  LET s == [models EXCEPT !.save = Idle, !.saving = FALSE]
  IN /\ Calm(models) /\ models.save.at = (IF ok THEN "done" ELSE "failed")
     /\ models' = IF ok THEN loadConfigured(s) ELSE s

removeEdit ==
  /\ models.panel = "edit" /\ models.remove.at = "none"
  /\ models' = [Asks(models) EXCEPT
                  !.remove = [at |-> "sent", entry |-> NoEntry]]
RemoveAnswered(ok) ==
  LET s == [models EXCEPT !.remove = Idle]
  IN /\ Calm(models) /\ models.remove.at = (IF ok THEN "done" ELSE "failed")
     /\ models' = IF ok THEN loadConfigured(s) ELSE s

-----------------------------------------------------------------------------
(* The server writes what it is sent, or refuses it; an answer may be lost. *)

Write(s, w, way) ==
  /\ w.at = "sent"
  /\ \E took, told \in BOOLEAN :
       /\ told => took
       /\ models' = [s EXCEPT
            ![way] = [Idle EXCEPT !.at = IF told THEN "done" ELSE "failed"],
            !.server = IF took THEN w.entry ELSE @,
            !.kept = IF took /\ (way # "toggle" \/ s.crossed)
                     THEN w.entry.ver ELSE @,
            !.crossed = @ \/ (took /\ ~told)]
Writes == \E way \in {"toggle", "save", "remove"} :
            Write(models, models[way], way)

Next ==
  \/ Refresh \/ Read \/ Writes \/ saveModelEntry
  \/ \E e \in Entry \cup {Asked} : Listed(e) \/ ListFails(e)
  \/ \E ok \in BOOLEAN :
       ToggleAnswered(ok) \/ SaveAnswered(ok) \/ RemoveAnswered(ok)
  \/ \E new \in BOOLEAN : showEditPanel(new)
  \/ hideEditPanel \/ removeEdit
  \/ \E ver \in 1..MaxVer : saveEdit(ver)
-----------------------------------------------------------------------------
\* A control that is disabled has a request out that will free it.
Settled == /\ models.box => models.toggle.at # "none"
           /\ models.saving => models.save.at # "none"

\* A toggle never takes back what the panel saved, and the row says what is on
\* disk once nothing is being written, but where the table may be behind: two
\* writes crossed or one was written and its answer lost, and no list was read
\* since with nothing being written.
InStep == /\ models.server.ver = models.kept
          /\ ~models.crossed /\ ~Writing(models) /\ models.row.ver # 0 =>
               models.row = models.server
=============================================================================
