------------------------------- MODULE Janitor -------------------------------
(***************************************************************************)
(* The janitor of the office (plugins/office/app.js): a pile of garbage    *)
(* in any room summons him, he walks to it, scrubs for a while and it is   *)
(* gone.  The user may pick him up, and a piece of furniture thrown at a   *)
(* wall leaves another pile.                                               *)
(***************************************************************************)
EXTENDS Integers, FiniteSets

CONSTANTS
  Rooms,      \* the rooms, in the order of the page
  MaxPiles    \* bound: the piles there ever are

VARIABLE
  janitor     \* a record:
              \*   piles, of each room, numbered as they came; made, how many
              \*   room, where he is; pile, the one he goes for, and path,
              \*     the one his way leads to, 0 for none
              \*   at, the pile he stands at; cleaning, he scrubs
              \*   held, dragged, in the air or not
              \*   called, he was called or carried away while he scrubbed

Init ==
  janitor = [piles |-> [r \in 1..Rooms |-> {}], made |-> 0, room |-> 1,
             pile |-> 0, path |-> 0, at |-> 0, cleaning |-> FALSE,
             held |-> "no", called |-> FALSE]

\* A message that changes the board, or a thrown thing that breaks.
Pile(r, cap) ==
  /\ janitor.made < MaxPiles /\ Cardinality(janitor.piles[r]) < cap
  /\ janitor' = [janitor EXCEPT !.made = @ + 1,
                                !.piles[r] = @ \cup {janitor.made + 1}]

\* The first pile of the first room that has one: the piles of a room are in
\* the order of their numbers.
Least(S) == CHOOSE n \in S : \A m \in S : n <= m
Target(s) ==
  LET rs == {r \in 1..Rooms : s.piles[r] # {}}
      r == Least(rs)
  IN IF rs = {} THEN [room |-> s.room, pile |-> s.pile]
     ELSE [room |-> r, pile |-> Least(s.piles[r])]

\* Another pile than his: in another room he appears in its doorway.
Summoned(s) ==
  LET t == Target(s)
  IN IF t.pile = s.pile THEN s
     ELSE [s EXCEPT !.pile = t.pile, !.path = 0, !.room = t.room,
                    !.called = @ \/ s.cleaning,
                    !.at = IF t.room = s.room THEN @ ELSE 0]

Swept(s) ==
  [s EXCEPT !.piles[s.room] = @ \ {s.pile},
            !.pile = 0, !.cleaning = FALSE, !.path = 0]

\* One frame: the scrub goes on or is over, the walk goes on or he is there.
stepJanitor(there) ==
  LET s == Summoned(janitor)
  IN /\ janitor.held = "no"
     /\ janitor' =
          IF s.pile = 0 THEN [s EXCEPT !.at = 0]
          ELSE IF s.cleaning THEN (IF there THEN Swept(s) ELSE s)
          ELSE IF there
          THEN [s EXCEPT !.path = 0, !.at = s.pile, !.cleaning = TRUE,
                         !.called = FALSE]
          ELSE [s EXCEPT !.path = IF @ = 0 THEN s.pile ELSE @, !.at = 0]

PickUp == /\ janitor.held # "dragged"
          /\ janitor' = [janitor EXCEPT !.held = "dragged", !.at = 0,
                                        !.called = @ \/ janitor.cleaning]
endDrag(how) ==
  janitor.held = "dragged" /\ janitor' = [janitor EXCEPT !.held = how]
stepRagdoll == janitor.held = "air" /\ janitor' = [janitor EXCEPT !.held = "no"]

Next == \/ \E r \in 1..Rooms, cap \in {3, 5} : Pile(r, cap)
        \/ \E there \in BOOLEAN : stepJanitor(there)
        \/ PickUp \/ stepRagdoll
        \/ \E how \in {"no", "air"} : endDrag(how)

-----------------------------------------------------------------------------

\* The pile he goes for lies in his room and his way leads to it; he scrubs
\* only for a pile.
InStep ==
  /\ janitor.pile # 0
       => janitor.pile \in janitor.piles[janitor.room]
  /\ janitor.path \in {0, janitor.pile}
  /\ janitor.cleaning => janitor.pile # 0

\* A pile he scrubs is one he stands at, unless he was called or carried
\* away meanwhile: then it is swept from where he is.
Kept == janitor.cleaning /\ ~janitor.called => janitor.at = janitor.pile

=============================================================================
