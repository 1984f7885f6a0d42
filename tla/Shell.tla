-------------------------------- MODULE Shell --------------------------------
(***************************************************************************)
(* The views of the page (showView of app.js, core/plugins.js): a view of  *)
(* the page itself, "core", whose loader may fail, and a view of a plugin, *)
(* "plug", whose tab is made when the list of plugins comes, whose script  *)
(* is fetched when it is first shown, and which is mounted once it ran.    *)
(***************************************************************************)
EXTENDS Integers, FiniteSets

CONSTANT MaxWaits   \* bound: the loaders of one view that wait

VARIABLE
  shell       \* a record:
              \*   ready, the list of plugins answered; has, the plugin's tab
              \*     is there; pending, the plugin's view was asked before
              \*   view, the one on screen; loaded, those not loaded again
              \*   core, the loads of core's data; again, one of them is of
              \*     Try again; cored, what it shows
              \*   tag, the script in the page: none, asked, or run
              \*   promise, of the script: none, pending, true or false
              \*   waits, the loaders behind it; busy, Try again was clicked
              \*   spec, the script registered its view; mounted
              \*   mounts, since an error was shown; panel, what it shows

Init ==
  \E p \in BOOLEAN :   \* the address names the plugin's view
    shell = [ready |-> FALSE, has |-> FALSE, pending |-> p, view |-> "chat",
             loaded |-> {}, core |-> 0, again |-> FALSE, cored |-> "empty",
             tag |-> "none", promise |-> "none", waits |-> 0, busy |-> FALSE,
             spec |-> FALSE, mounted |-> FALSE, mounts |-> 0, panel |-> "empty"]

-----------------------------------------------------------------------------
(* The plugin's section.  A hook that throws leaves an error behind.        *)

Error(s) == [s EXCEPT !.panel = "error", !.mounts = 0, !.busy = FALSE]
refresh(s, ok) == IF ok THEN s ELSE Error(s)
mount(s, ok) ==
  LET t == [s EXCEPT !.mounted = TRUE, !.mounts = @ + 1, !.panel = "view",
                     !.busy = FALSE]
  IN IF ok THEN t ELSE Error(t)

\* What a loader does once the script's promise is kept.
Continue(s, came, ok) ==
  IF ~came \/ ~s.spec THEN Error([s EXCEPT !.mounted = FALSE])
  ELSE IF ~s.mounted THEN mount(s, ok) ELSE refresh(s, ok)

loadPluginScript(s) ==
  IF s.promise # "none" THEN s
  ELSE IF s.tag # "none" THEN [s EXCEPT !.promise = "true"]
  ELSE [s EXCEPT !.promise = "pending", !.tag = "asked"]

\* viewLoaders of the plugin: at once if the promise is kept already.
Loader(s, ok) ==
  LET t == loadPluginScript(s)
  IN IF t.promise = "pending" THEN [t EXCEPT !.waits = @ + 1]
     ELSE [Continue(t, t.promise = "true", ok)
             EXCEPT !.loaded = @ \cup {"plug"}]

\* Any answer of the loader counts as loaded, an error shown as well.
ScriptAnswers(came, registers, ok) ==
  LET s == [shell EXCEPT !.promise = IF came THEN "true" ELSE "false",
                         !.tag = IF came THEN "run" ELSE "none",
                         !.spec = came /\ registers, !.waits = 0,
                         !.loaded = @ \cup {"plug"}]
      t == Continue(s, came, ok)
  IN /\ shell.promise = "pending"
     /\ shell' = IF shell.waits > 1 THEN Continue(t, came, ok) ELSE t

\* Try again: of a script, it is asked for anew; of a mount, mounted again.
Retry(ok) ==
  /\ shell.panel = "error" /\ ~shell.busy
  /\ shell' = Loader(IF shell.spec THEN [shell EXCEPT !.mounted = FALSE]
                     ELSE [shell EXCEPT !.promise = "none", !.busy = TRUE], ok)

-----------------------------------------------------------------------------
(* The page.                                                                *)

showView(s, name, ok) ==
  LET v == IF name = "plug" /\ ~s.has THEN "chat" ELSE name
      t == [s EXCEPT !.view = v]
  IN IF name = "plug" /\ ~s.has /\ ~s.ready
     THEN [s EXCEPT !.pending = TRUE]
     ELSE IF v = "core" /\ "core" \notin s.loaded
     THEN [t EXCEPT !.core = @ + 1,
                    !.cored = IF @ = "empty" THEN "loading" ELSE @]
     ELSE IF v = "plug" /\ "plug" \notin s.loaded THEN Loader(t, ok)
     ELSE IF v = "plug" /\ s.mounted THEN refresh(t, ok)
     ELSE t

Show(name, ok) == /\ name # shell.view
                  /\ shell' = showView(shell, name, ok)

\* loadWebuiPlugins answered, with the plugin switched on or not, or failed.
markPluginsReady(on, ok) ==
  LET s == [shell EXCEPT !.ready = TRUE, !.has = on, !.pending = FALSE]
  IN /\ ~shell.ready
     /\ shell' = IF shell.pending THEN showView(s, "plug", ok) ELSE s
Enable == shell.ready /\ ~shell.has /\ shell' = [shell EXCEPT !.has = TRUE]

\* Try again, its own, leaves the error and the button if it fails too.
CoreRetry == /\ shell.cored = "error" /\ ~shell.again
             /\ shell' = [shell EXCEPT !.core = @ + 1, !.again = TRUE]
CoreLoads(ok, own) ==
  /\ IF own THEN shell.again ELSE shell.core > (IF shell.again THEN 1 ELSE 0)
  /\ shell' = [shell EXCEPT
       !.core = @ - 1, !.again = @ /\ ~own,
       !.cored = IF ok THEN "data" ELSE IF own THEN @ ELSE "error",
       !.loaded = IF ok THEN @ \cup {"core"} ELSE @]

Next ==
  /\ \E ok \in BOOLEAN :
       \/ \E n \in {"chat", "core", "plug"} : Show(n, ok)
       \/ \E came \in BOOLEAN, reg \in BOOLEAN : ScriptAnswers(came, reg, ok)
       \/ \E on \in BOOLEAN : markPluginsReady(on, ok)
       \/ \E own \in BOOLEAN : CoreLoads(ok, own)
       \/ Retry(ok) \/ CoreRetry \/ Enable
  /\ shell'.waits <= MaxWaits /\ shell'.core <= MaxWaits

-----------------------------------------------------------------------------

\* A view on screen whose loaders have all answered shows its content or an
\* error with a button, never an empty or a loading panel.
Settled == /\ shell.view = "core" /\ shell.core = 0
                => shell.cored \in {"data", "error"}
           /\ shell.view = "plug" /\ shell.waits = 0
                => shell.panel \in {"view", "error"}

\* However often it is shown before its script comes, a plugin's view is
\* mounted once, and only when its script registered it.
Kept == /\ shell.mounts <= 1
        /\ shell.panel = "view" => shell.mounted /\ shell.spec
        /\ shell.mounted => shell.tag = "run"

\* A view of the page counts as loaded only once its data came.
Truthful == "core" \in shell.loaded => shell.cored # "loading"

=============================================================================
