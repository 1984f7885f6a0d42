-------------------------------- MODULE Files --------------------------------
(***************************************************************************)
(* The file browser (plugins/files/app.js): a folder is listed, filtered   *)
(* and sorted, an entry is opened by a click or from the keyboard, and one *)
(* counter, generation, tells the newest request from the answers that     *)
(* come late, whether they carry a folder or a file.                       *)
(***************************************************************************)
EXTENDS Integers, Sequences, FiniteSets

CONSTANT MaxOut   \* bound: the requests out

\* The tree, in the order of the names: the folder 0 holds the folder 1 and
\* the files 2, 3 and, hidden, 4; the folder 1 holds the file 5.
Folders == {0, 1}
Entries(f) == IF f = 0 THEN {1, 2, 3, 4} ELSE {5}
HiddenFiles == {4}
Matches(e, filter) == filter = 0 \/ e = filter   \* 0: nothing typed
Texts == {0, 3}

VARIABLE
  files       \* a record:
              \*   cur, the folder; here, its entries, none if the load failed
              \*   filter, hidden, dir: what is typed, shown and the order
              \*   rows, on screen; focus, the highlighted one
              \*   out, the requests: the entry, of a folder or not, and
              \*     whether it is of the last generation
              \*   able, whether Up and Refresh may be clicked
              \*   open, the file previewed; of, whose text is on screen
              \*   swept, a load emptied the filter and the rows still stand
              \*   last, the entry asked for last

\* Folders first, hidden files if asked, each kind by name: the whole tree in
\* that order, less what is not listed.
visibleEntries(s) ==
  LET Row(e) == IF /\ e \in s.here /\ (e \in HiddenFiles => s.hidden)
                   /\ Matches(e, s.filter)
                THEN <<e>> ELSE <<>>
  IN Row(1) \o (IF s.dir THEN Row(2) \o Row(3) \o Row(4) \o Row(5)
                ELSE Row(5) \o Row(4) \o Row(3) \o Row(2))
renderEntries(s) ==
  [s EXCEPT !.rows = visibleEntries(s), !.focus = 0, !.swept = FALSE]

Ask(s, e, folder) ==
  [s EXCEPT !.last = e,
            !.out = {[q EXCEPT !.mine = FALSE] : q \in @}
                      \cup {[to |-> e, folder |-> folder, mine |-> TRUE]}]
openFile(s, e) == Ask(s, e, FALSE)
load(s, f) == Ask([s EXCEPT !.able = FALSE, !.filter = 0, !.swept = TRUE],
                  f, TRUE)
activate(s, e) == IF e \in Folders THEN load(s, e) ELSE openFile(s, e)

Init ==
  files = load([cur |-> 0, here |-> {}, filter |-> 0, hidden |-> FALSE,
                dir |-> TRUE, rows |-> <<>>, focus |-> 0, out |-> {},
                able |-> FALSE, open |-> 0, of |-> 0, swept |-> FALSE,
                last |-> 0], 0)

-----------------------------------------------------------------------------
(* The user.                                                                *)

Click(i) == /\ i \in DOMAIN files.rows
            /\ files' = activate([files EXCEPT !.focus = i], files.rows[i])
Arrow(i) == /\ i \in DOMAIN visibleEntries(files)
            /\ i \in {files.focus - 1, files.focus + 1}
            /\ files' = [files EXCEPT !.focus = i]
Enter == /\ files.focus \in DOMAIN visibleEntries(files)
         /\ files' = activate(files, visibleEntries(files)[files.focus])
Hover(i) == /\ i \in DOMAIN files.rows
            /\ files' = [files EXCEPT !.focus = i]

Filter(t) == files' = renderEntries([files EXCEPT !.filter = t])
hiddenBtn == files' = renderEntries([files EXCEPT !.hidden = ~@])
makeSortBtn == files' = renderEntries([files EXCEPT !.dir = ~@])

\* A crumb, Go up, Refresh, the retry, another workspace: a folder again.
Crumb(f) == files' = load(files, f)
Retry == /\ files.open # 0 /\ files.of = 0
         /\ files' = openFile(files, files.open)
closeViewer == files' = [files EXCEPT !.open = 0, !.of = 0]

-----------------------------------------------------------------------------
(* The answers.                                                             *)

\* A failed load shows the folder that was asked for, with nothing in it.
ListRead(q, ok) ==
  /\ q \in files.out /\ q.folder
  /\ files' = LET s == [files EXCEPT !.out = @ \ {q}]
              IN IF ~q.mine THEN s
                 ELSE renderEntries(
                        [s EXCEPT !.cur = q.to, !.able = TRUE,
                                  !.here = IF ok THEN Entries(q.to) ELSE {}])
FileRead(q, ok) ==
  /\ q \in files.out /\ ~q.folder
  /\ files' = LET s == [files EXCEPT !.out = @ \ {q}]
              IN IF ~q.mine THEN s
                 ELSE [s EXCEPT !.open = q.to, !.of = IF ok THEN q.to ELSE 0]

Next ==
  /\ \/ \E i \in 1..4 : Click(i) \/ Arrow(i) \/ Hover(i)
     \/ \E t \in Texts : Filter(t)
     \/ Enter \/ Retry \/ hiddenBtn \/ makeSortBtn \/ closeViewer
     \/ \E f \in Folders : Crumb(f)
     \/ \E q \in files.out, ok \in BOOLEAN : ListRead(q, ok) \/ FileRead(q, ok)
  /\ Cardinality(files'.out) <= MaxOut

-----------------------------------------------------------------------------

Waiting == \E q \in files.out : q.mine

\* Once nothing is awaited, what was asked for last is what is shown: that
\* folder, with its buttons, or that file's preview unless it was closed.
Settled ==
  ~Waiting => /\ files.last \in Folders => /\ files.cur = files.last
                                           /\ files.able /\ ~files.swept
              /\ files.last \notin Folders => files.open \in {0, files.last}

\* The rows are entries of the folder the crumbs name, the text is that of
\* the file the preview names.
Truthful == /\ \A i \in DOMAIN files.rows : files.rows[i] \in Entries(files.cur)
            /\ files.of \in {0, files.open}

\* The keyboard opens the row it points at: the rows are what visibleEntries
\* counts, unless a load emptied the filter and drew nothing yet.
InStep == ~files.swept => files.rows = visibleEntries(files)

=============================================================================
