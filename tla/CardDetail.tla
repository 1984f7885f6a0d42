----------------------------- MODULE CardDetail -----------------------------
(***************************************************************************)
(* The dialog of a card (features/board.js): it is built anew each time    *)
(* the board is drawn, so that what is being typed lives in cardDrafts.    *)
(***************************************************************************)
EXTENDS Integers, FiniteSets

CONSTANTS
  Cards,      \* the cards of the board
  Texts,      \* descriptions
  MaxPosts    \* bound: posts of the dialog out at once

None == 0

VARIABLE
  card        \* a record:
              \*   body, the description of each card as the page has it
              \*   draft, cardDrafts[id].body; open, openCardId
              \*   field, the editor's text; editing, whether it is visible
              \*   bound, whether the controls on screen write into the
              \*     draft cardDrafts has, or into one it has dropped
              \*   shown, the description shown; busy, the post for which Save is
              \*     disabled
              \*   posts, the updates out: of the editor or of all fields
              \*   typed, what the user typed and has not saved, cancelled
              \*     or closed
              \*   adrift, whether that is in no draft a rebuild would read
              \*   left, the cards with a draft left by Save or Cancel of
              \*     the editor; refused: a save of the editor was

Init ==
  \E t \in Texts :
    card = [body |-> [c \in Cards |-> t], draft |-> [c \in Cards |-> None],
            open |-> None, field |-> None, editing |-> FALSE, bound |-> TRUE,
            shown |-> None, busy |-> {}, posts |-> {}, typed |-> None,
            adrift |-> FALSE,
            left |-> {}, refused |-> FALSE]

\* Mutant: the dialog drawn again does not put the draft back.
BugShowCardDetail(s) ==
  LET of == IF s.open = None THEN None ELSE s.body[s.open]
  IN [s EXCEPT !.field = of, !.shown = of, !.editing = FALSE, !.bound = TRUE,
               !.busy = {}, !.refused = FALSE,
               !.left = {c \in @ : s.draft[c] # None}]

\* The controls of the open card, with the draft or else the saved text.
showCardDetail(s) ==
  IF s.open = None
  THEN [s EXCEPT !.field = None, !.shown = None, !.editing = FALSE,
                 !.bound = TRUE, !.busy = {}, !.refused = FALSE,
                 !.left = {c \in @ : s.draft[c] # None}]
  ELSE LET d == s.draft[s.open]
       IN [s EXCEPT !.field = IF d # None THEN d ELSE s.body[s.open],
                    !.shown = s.body[s.open], !.editing = FALSE,
                    !.bound = TRUE, !.busy = {}, !.refused = FALSE,
                    !.left = {c \in @ : s.draft[c] # None}]

\* The draft goes; controls that are still on screen keep the one they have.
DropDraft(s, c) == [s EXCEPT !.draft[c] = None,
                             !.bound = @ /\ s.open # c,
                             !.adrift = @ \/ (s.open = c /\ s.typed # None)]

-----------------------------------------------------------------------------
openCard(c) ==
  /\ card.open = None
  /\ card' = showCardDetail([card EXCEPT !.open = c])
\* The cross, the backdrop and Escape.
closeCardDetail ==
  /\ card.open # None
  /\ card' = showCardDetail([DropDraft(card, card.open)
                             EXCEPT !.open = None, !.typed = None,
                                    !.adrift = FALSE])

openDescEdit == /\ card.open # None /\ ~card.editing
                /\ card' = [card EXCEPT !.editing = TRUE]

\* bindDraft: a text that is the saved one again is no draft.
Type(t) ==
  /\ card.editing /\ t # card.field
  /\ card' = [card EXCEPT
       !.field = t,
       !.typed = IF t = card.body[card.open] THEN None ELSE t,
       !.adrift = t # card.body[card.open] /\ ~card.bound,
       !.draft[card.open] = IF ~card.bound THEN @
                            ELSE IF t = card.body[card.open] THEN None ELSE t]

Behind(s) == IF s.draft[s.open] # None THEN s.left \cup {s.open} ELSE s.left

\* Cancel puts the text back and leaves the draft.
descCancel ==
  /\ card.editing
  /\ card' = [card EXCEPT !.field = card.body[card.open], !.editing = FALSE,
                          !.typed = None, !.adrift = FALSE,
                          !.left = Behind(card)]

Update(kind) == <<kind, card.open, card.field>>
Post(s, kind) == [s EXCEPT !.posts = @ \cup {Update(kind)}]
Room(kind) == /\ Cardinality(card.posts) < MaxPosts
              /\ Update(kind) \notin card.posts

\* The editor's Save closes it and shows the text before the answer.
descSave ==
  /\ card.editing /\ Room("text")
  /\ card' = [Post(card, "text") EXCEPT
       !.editing = FALSE, !.shown = card.field, !.left = Behind(card),
       !.typed = None, !.adrift = FALSE]

\* Save changes sends every field of the dialog.
Save == /\ card.open # None /\ card.busy = {} /\ Room("all")
        /\ card' = [Post(card, "all") EXCEPT !.busy = {Update("all")}]

\* The card becomes a goal, or its goal's run starts: the draft goes.
asGoal == /\ card.open # None
          /\ card' = DropDraft(card, card.open)

-----------------------------------------------------------------------------
\* The board is drawn before the draft is dropped, so that the controls of
\* that drawing are left with a draft nobody reads.
PostRead(p) ==
  LET saved == p[1] = "all" /\ card.open = p[2] /\ card.typed = p[3]
      s == showCardDetail([card EXCEPT
             !.posts = @ \ {p}, !.body[p[2]] = p[3],
             !.typed = IF saved THEN None ELSE @,
             !.adrift = @ /\ ~saved])
  IN /\ p \in card.posts
     /\ card' = IF p[1] = "all" THEN DropDraft(s, p[2]) ELSE s
PostFails(p) ==
  /\ p \in card.posts
  /\ card' = [card EXCEPT
       !.posts = @ \ {p},
       !.busy = @ \ {p},
       !.refused = @ \/ (p[1] = "text" /\ p[2] = card.open)]

\* The board as others have changed it, or drawn again for a filter, a goal
\* or another field of the card: every field but this one posts at once.
BoardRead(c, t) == card' = showCardDetail([card EXCEPT !.body[c] = t])

Next ==
  \/ \E c \in Cards : openCard(c)
  \/ closeCardDetail \/ openDescEdit \/ descCancel \/ descSave
  \/ Save \/ asGoal
  \/ \E t \in Texts : Type(t)
  \/ \E p \in card.posts : PostRead(p) \/ PostFails(p)
  \/ \E c \in Cards, t \in Texts : BoardRead(c, t)
-----------------------------------------------------------------------------
\* A Save that is disabled waits for an answer.
Settled == card.busy \subseteq card.posts

\* What was typed is in the editor, whatever drew the dialog again, unless
\* the draft it was in had been dropped.
Kept == card.typed # None => card.field = card.typed \/ card.adrift

\* The description shown is the card's, or one being saved or refused; and
\* so is what Save changes would write when nothing has been typed, unless
\* the editor left a draft behind.
Saving == \E p \in card.posts : p[2] = card.open
Truthful ==
  card.open # None =>
    /\ card.shown = card.body[card.open] \/ card.refused \/ Saving
    /\ \/ card.typed # None \/ card.field = card.body[card.open]
       \/ card.open \in card.left \/ card.refused \/ Saving
=============================================================================
