---------------------------- MODULE ModelSearch -----------------------------
(***************************************************************************)
(* Where the Models page finds a model to add (features/models.js): the    *)
(* models a provider lists, the catalog of models.dev, and the snippet of  *)
(* the one picked, which is saved from there.                              *)
(***************************************************************************)
EXTENDS Integers, FiniteSets

CONSTANTS
  Providers,  \* those configured; the first is the least
  Queries,    \* what is typed in the catalog's field
  MaxOut      \* bound: searches out at once

Nothing == 0

VARIABLE
  search      \* a record:
              \*   sel, the provider selected; lists, the selections that the
              \*     lists of providers out will restore
              \*   live, the provider asked; listed, whose models are shown,
              \*     under which name; button, whether List is disabled
              \*   asks, the searches out; busy, catalogSearching; found,
              \*     the search shown
              \*   picked, the snippet shown; saves, the snippets being
              \*     saved; button2, whether Save is disabled; note, the
              \*     snippet the note is of
              \*   moved, history: the provider was changed while one was
              \*     asked; passed: a snippet was picked over one being saved

Init ==
  search = [sel |-> 1, lists |-> {}, live |-> Nothing,
            listed |-> <<Nothing, Nothing>>, button |-> FALSE,
            asks |-> {}, busy |-> FALSE, found |-> Nothing,
            picked |-> Nothing, saves |-> {},
            button2 |-> FALSE, note |-> Nothing,
            moved |-> FALSE, passed |-> FALSE]

-----------------------------------------------------------------------------
(* The providers.                                                           *)

Choose(p) == /\ p # search.sel
             /\ search' = [search EXCEPT !.sel = p,
                                         !.moved = @ \/ search.live # Nothing]

\* The list of providers, asked for anew, takes the selection with it.
AskProviders == /\ search.lists = {}
                /\ search' = [search EXCEPT !.lists = {search.sel}]
\* It comes back to what was selected then; when that is gone, the first is
\* selected and what was listed is cleared.
restoreProvider(chosen, now) ==
  /\ chosen \in search.lists
  /\ search' = [search EXCEPT
       !.lists = {}, !.sel = now,
       !.listed = IF now = chosen THEN @ ELSE <<Nothing, Nothing>>,
       !.moved = @ \/ (search.live # Nothing /\ now # search.live)]

loadLive == /\ ~search.button /\ search.live = Nothing
            /\ search' = [search EXCEPT !.live = search.sel, !.button = TRUE,
                                        !.listed = <<Nothing, Nothing>>,
                                        !.moved = FALSE]

\* Mutant: the button is not freed.
BugLiveRead == /\ search.live # Nothing
               /\ search' = [search EXCEPT
                    !.listed = <<search.live, search.sel>>, !.live = Nothing]

\* The rows go under the provider that is selected when they arrive.
LiveRead == /\ search.live # Nothing
            /\ search' = [search EXCEPT
                 !.listed = <<search.live, search.sel>>,
                 !.live = Nothing, !.button = FALSE]
LiveFails == /\ search.live # Nothing
             /\ search' = [search EXCEPT !.live = Nothing, !.button = FALSE]

-----------------------------------------------------------------------------
(* The catalog.                                                             *)

HideSnippet(s) == [s EXCEPT !.picked = Nothing]
\* The button, Enter, which does not mind that it is disabled, or Retry.
searchCatalog(q) ==
  /\ Cardinality(search.asks) < MaxOut
  /\ search' = [HideSnippet(search) EXCEPT !.busy = TRUE, !.found = Nothing,
                                           !.asks = @ \cup {q}]
Found(q) == /\ q \in search.asks
            /\ search' = [search EXCEPT !.asks = @ \ {q}, !.busy = FALSE,
                                        !.found = q]
SearchFails(q) == /\ q \in search.asks
                  /\ search' = [search EXCEPT !.asks = @ \ {q}, !.busy = FALSE,
                                              !.found = Nothing]

\* The catalog's own refresh, when it starts and when it is over.
refreshCatalog == /\ search.found # Nothing
                  /\ search' = [search EXCEPT !.found = Nothing]

-----------------------------------------------------------------------------
(* The snippet, of a search or of a provider.                               *)

\* A live model needs its output cap typed first.
showSnippet(m) ==
  /\ m # Nothing /\ m # search.picked
  /\ search' = [search EXCEPT !.picked = m, !.button2 = FALSE,
                              !.note = Nothing,
                              !.passed = search.saves # {}]
hideSnippet == search.picked # Nothing /\ search' = HideSnippet(search)

postConfig ==
  /\ search.picked # Nothing /\ ~search.button2
  /\ search.picked \notin search.saves
  /\ search' = [search EXCEPT !.saves = @ \cup {search.picked},
                              !.button2 = TRUE]
\* Once saved the button stays as it is, and says so.
Saved(m) == /\ m \in search.saves
            /\ search' = [search EXCEPT !.saves = @ \ {m}, !.note = m]
SaveFails(m) == /\ m \in search.saves
                /\ search' = [search EXCEPT !.saves = @ \ {m}, !.note = m,
                                            !.button2 = FALSE]

Offered == {search.found} \cup {-search.listed[1]}
Next ==
  \/ \E p \in Providers : Choose(p)
  \/ \E p, now \in Providers : restoreProvider(p, now)
  \/ AskProviders \/ loadLive \/ LiveRead \/ LiveFails
  \/ \E q \in Queries : searchCatalog(q) \/ Found(q) \/ SearchFails(q)
  \/ refreshCatalog
  \/ \E m \in Offered : showSnippet(m)
  \/ \E m \in search.saves : Saved(m) \/ SaveFails(m)
  \/ hideSnippet \/ postConfig
-----------------------------------------------------------------------------
\* A button that waits for an answer has a request out that will bring it.
Settled == /\ search.button => search.live # Nothing
           /\ search.busy => search.asks # {}

\* What one provider lists is offered as another's only when the selection
\* was changed while it was asked; a note is of the snippet on screen, unless
\* that one was picked while another was being saved.
Truthful ==
  /\ search.listed[1] # search.listed[2] => search.moved
  /\ search.note \in {Nothing, search.picked} \/ search.passed
       \/ search.picked = Nothing
=============================================================================
