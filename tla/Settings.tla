------------------------------ MODULE Settings ------------------------------
(***************************************************************************)
(* The System page (features/system.js): the editor of the config files    *)
(* and the panel of MCP servers, which writes one of them.  A text is the  *)
(* set of servers it declares.  The server restarts into what was written  *)
(* some time later, and lists the servers of the config it runs.           *)
(***************************************************************************)
EXTENDS Integers, Sequences

CONSTANTS
  Servers,    \* the names of MCP servers, none of them 0
  MaxLoads,   \* bound: reads of a file that are out at once
  MaxLists,   \* bound: reads of the list that are out at once
  MaxClicks   \* bound: what the user does besides typing and dialogs

Local == 1    \* config.local.toml
Shared == 2   \* config.toml
TomlFiles == {Local, Shared}

\* The list without its i-th element.
Without(q, i) ==
  [k \in 1..(Len(q) - 1) |-> IF k < i THEN q[k] ELSE q[k + 1]]

VARIABLE
  sys         \* a record:
              \*   disk, the files; run, the servers of the config in force
              \*   file, fileSel; text, the textarea; saved, savedText
              \*   ask, the file to load if the user agrees to discard, or 0
              \*   loads: the file, whether the server read it, the text, and
              \*     whether nothing was written to it since
              \*   post, the save out: its file (0 when none is), its text,
              \*     whether it was written, and nothing else to it since
              \*   crossed, savedText is not known to be the file on screen
              \*   list, the servers drawn; lists, the reads out
              \*   form, the server in the form, or 0; add and cut, the write
              \*     and the removal out, and whether the server did them
              \*   clicks, bound: what the user did

Out(f) == [file |-> f, read |-> FALSE, text |-> {}, fresh |-> TRUE]
NoPost == [file |-> 0, text |-> {}, done |-> FALSE, fresh |-> FALSE]
NoCall == [name |-> 0, done |-> FALSE]

Init ==
  \E d \in [TomlFiles -> SUBSET Servers] :
    sys = [disk |-> d, run |-> d[Local] \cup d[Shared],
           file |-> Local, text |-> {}, saved |-> {}, ask |-> 0,
           loads |-> <<Out(Local)>>, post |-> NoPost, crossed |-> TRUE,
           list |-> {}, lists |-> <<[read |-> FALSE, at |-> {}]>>,
           form |-> 0, add |-> NoCall, cut |-> NoCall, clicks |-> 0]

\* The dialog is modal: nothing else is clicked while it asks.
Clicks(s) ==
  /\ sys.ask = 0 /\ sys.clicks < MaxClicks
  /\ sys' = [s EXCEPT !.clicks = @ + 1]

isDirty == sys.text # sys.saved

\* A file is written: what was read of it before is no longer fresh, nor is
\* what the editor shows of it.
Written(f, t) ==
  LET Older(l) == [l EXCEPT !.fresh = l.fresh /\ ~(l.read /\ l.file = f)]
      p == sys.post
  IN [sys EXCEPT !.disk[f] = t,
                 !.loads = [i \in DOMAIN sys.loads |-> Older(sys.loads[i])],
                 !.post.fresh = p.fresh /\ p.file # f,
                 !.crossed = @ \/ f = sys.file]

-----------------------------------------------------------------------------
(* The editor.                                                              *)

\* The text of the file before stays under the new name until the answer.
load(s, f) ==
  [s EXCEPT !.file = f, !.ask = 0, !.loads = Append(@, Out(f)),
            !.crossed = @ \/ f # s.file]

\* The select, and Reload when f is the file on screen: at once when the text
\* is clean, else a dialog asks.  Both controls wait for a save.
Choose(f) ==
  /\ sys.post.file = 0 /\ Len(sys.loads) < MaxLoads
  /\ Clicks(IF isDirty THEN [sys EXCEPT !.ask = f] ELSE load(sys, f))
confirmDiscard(yes) ==
  /\ sys.ask # 0 /\ Len(sys.loads) < MaxLoads
  /\ sys' = IF yes THEN load(sys, sys.ask) ELSE [sys EXCEPT !.ask = 0]

Reads(i) ==
  /\ i \in DOMAIN sys.loads /\ ~sys.loads[i].read
  /\ sys' = [sys EXCEPT !.loads[i].read = TRUE,
                        !.loads[i].text = sys.disk[sys.loads[i].file]]
\* The answer fills the editor whichever file is on screen, and over what was
\* typed since.
LoadRead(i) ==
  LET l == sys.loads[i]
  IN /\ i \in DOMAIN sys.loads /\ l.read
     /\ sys' = [sys EXCEPT !.loads = Without(@, i), !.text = l.text,
                           !.saved = l.text,
                           !.crossed = l.file # sys.file \/ ~l.fresh]
LoadFails(i) ==
  /\ i \in DOMAIN sys.loads
  /\ sys' = [sys EXCEPT !.loads = Without(@, i)]

Type(t) == /\ sys.ask = 0 /\ t # sys.text
           /\ sys' = [sys EXCEPT !.text = t]

save == /\ sys.post.file = 0
        /\ Clicks([sys EXCEPT !.post =
             [file |-> sys.file, text |-> sys.text, done |-> FALSE,
              fresh |-> FALSE]])
\* The server writes what it could load.
Saves == LET p == sys.post
         IN /\ p.file # 0 /\ ~p.done
            /\ sys' = [Written(p.file, p.text) EXCEPT !.post.done = TRUE,
                                                      !.post.fresh = TRUE]
\* What was sent is what is saved: the text may have moved on.  The file is
\* the same, as the select waited.
SaveRead ==
  /\ sys.post.done
  /\ sys' = [sys EXCEPT !.saved = sys.post.text, !.post = NoPost,
                        !.crossed = ~sys.post.fresh]
SaveFails ==
  /\ sys.post.file # 0
  /\ sys' = [sys EXCEPT !.post = NoPost]

-----------------------------------------------------------------------------
(* The servers.                                                             *)

listing(s) == [s EXCEPT !.lists = Append(@, [read |-> FALSE, at |-> {}])]

\* Refresh, which waits for nothing as load returns no promise.
Refresh == Len(sys.lists) < MaxLists /\ Clicks(listing(sys))
Serves(i) ==
  /\ i \in DOMAIN sys.lists /\ ~sys.lists[i].read
  /\ sys' = [sys EXCEPT !.lists[i].read = TRUE, !.lists[i].at = sys.run]
ListRead(i) ==
  /\ i \in DOMAIN sys.lists /\ sys.lists[i].read
  /\ sys' = [sys EXCEPT !.lists = Without(@, i), !.list = sys.lists[i].at]
ListFails(i) ==
  /\ i \in DOMAIN sys.lists
  /\ sys' = [sys EXCEPT !.lists = Without(@, i), !.list = {}]

\* The watcher restarts the server into the files as they are.
Restart ==
  /\ sys.run # sys.disk[Local] \cup sys.disk[Shared]
  /\ sys' = [sys EXCEPT !.run = sys.disk[Local] \cup sys.disk[Shared]]

\* Add server with a name, or Edit on a row.
openEdit(s) == sys.form # s /\ Clicks([sys EXCEPT !.form = s])
Close == sys.form # 0 /\ Clicks([sys EXCEPT !.form = 0])

saveServer ==
  /\ sys.form # 0 /\ sys.add.name = 0
  /\ Clicks([sys EXCEPT !.add.name = sys.form])
\* Remove is there for a server that was listed; it asks first, and answers
\* are not waited for.
removeServer ==
  /\ sys.form \in sys.list /\ sys.cut.name = 0
  /\ Clicks([sys EXCEPT !.cut.name = sys.form])
Adds ==
  /\ sys.add.name # 0 /\ ~sys.add.done
  /\ sys' = [Written(Local, sys.disk[Local] \cup {sys.add.name})
               EXCEPT !.add.done = TRUE]
Cuts ==
  /\ sys.cut.name # 0 /\ ~sys.cut.done
  /\ sys' = [Written(Local, sys.disk[Local] \ {sys.cut.name})
               EXCEPT !.cut.done = TRUE]
\* The form stays open.
AddRead ==
  /\ sys.add.done /\ Len(sys.lists) < MaxLists
  /\ sys' = listing([sys EXCEPT !.add = NoCall])
\* Whichever form is open is closed.
CutRead ==
  /\ sys.cut.done /\ Len(sys.lists) < MaxLists
  /\ sys' = listing([sys EXCEPT !.cut = NoCall, !.form = 0])
CallFails ==
  \/ sys.add.name # 0 /\ sys' = [sys EXCEPT !.add = NoCall]
  \/ sys.cut.name # 0 /\ sys' = [sys EXCEPT !.cut = NoCall]

Next ==
  \/ save \/ Saves \/ SaveRead \/ SaveFails
  \/ Refresh \/ Restart \/ Close \/ saveServer \/ removeServer
  \/ Adds \/ Cuts \/ AddRead \/ CutRead \/ CallFails
  \/ \E f \in TomlFiles : Choose(f)
  \/ \E yes \in BOOLEAN : confirmDiscard(yes)
  \/ \E i \in 1..MaxLoads : Reads(i) \/ LoadRead(i) \/ LoadFails(i)
  \/ \E i \in 1..MaxLists : Serves(i) \/ ListRead(i) \/ ListFails(i)
  \/ \E t \in SUBSET Servers : Type(t)
  \/ \E s \in Servers : openEdit(s)

-----------------------------------------------------------------------------

\* A text the editor takes for saved is the file's, once the file was read
\* and no save is out, whatever was typed while one was: but after an answer
\* for another file or older than a write, or a write by another hand.
Truthful ==
  sys.post.file = 0 /\ ~sys.crossed /\ ~isDirty => sys.text = sys.disk[sys.file]

=============================================================================
