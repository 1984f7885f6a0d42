-------------------------------- MODULE Paths --------------------------------
(***************************************************************************)
(* The janitor's way (findPath of plugins/office/app.js): a search over    *)
(* the tiles of a room by the length of the way so far and the distance    *)
(* left; a tile is put on the list once, and the first of the least is     *)
(* taken next.                                                             *)
(***************************************************************************)
EXTENDS Integers, Sequences, FiniteSets, FiniteSetsExt

CONSTANTS
  Width,      \* tiles of the room
  Height,
  MaxBlocked  \* bound: the tiles that are blocked

Tiles == (1..Width) \X (1..Height)
Apart(i, j) == IF i < j THEN j - i ELSE i - j
Distance(a, b) == Apart(a[1], b[1]) + Apart(a[2], b[2])

\* The list without its i-th element.
Without(q, i) ==
  [k \in 1..(Len(q) - 1) |-> IF k < i THEN q[k] ELSE q[k + 1]]

\* Its last element.
Last(q) == q[Len(q)]

VARIABLE
  way         \* a record:
              \*   free, the tiles that are (blockedGrid); goal, a free tile
              \*   open, the ways found and not taken further, each to a tile
              \*     no other leads to; seen, the tiles of all
              \*   done, the search is over, and path, what it found, <<>>
              \*     for none

\* The nearest free tile in the order of the rows, and of a row of the tiles.
snap(free, t) ==
  IF free = {} THEN {}
  ELSE LET Ring(u) == Max({Apart(t[1], u[1]), Apart(t[2], u[2])})
           r == Min({Ring(u) : u \in free})
           near == {u \in free : Ring(u) = r}
       IN {CHOOSE u \in near : \A v \in near :
             u[2] < v[2] \/ (u[2] = v[2] /\ u[1] <= v[1])}

Init ==
  \E blocked \in SUBSET Tiles, from \in Tiles, to \in Tiles :
    /\ Cardinality(blocked) <= MaxBlocked
    /\ \E start \in snap(Tiles \ blocked, from),
          goal \in snap(Tiles \ blocked, to) :
         way = [free |-> Tiles \ blocked, goal |-> goal,
                open |-> <<<<start>>>>, seen |-> {start}, done |-> FALSE,
                path |-> <<>>]

-----------------------------------------------------------------------------

Estimate(w) == Len(w) - 1 + Distance(Last(w), way.goal)
\* The place on the list of the first of those with the least estimate.
Best == CHOOSE i \in DOMAIN way.open : \A k \in DOMAIN way.open :
          \/ Estimate(way.open[i]) < Estimate(way.open[k])
          \/ Estimate(way.open[i]) = Estimate(way.open[k]) /\ i <= k

\* Right, left, below, above.
Steps(t) == <<<<t[1] + 1, t[2]>>, <<t[1] - 1, t[2]>>,
              <<t[1], t[2] + 1>>, <<t[1], t[2] - 1>>>>
Fresh(t) == SelectSeq(Steps(t), LAMBDA u : u \in way.free \ way.seen)

Expand ==
  LET w == way.open[Best]
      fresh == Fresh(Last(w))
  IN /\ ~way.done /\ way.open # <<>> /\ Last(w) # way.goal
     /\ way' = [way EXCEPT
          !.open = Without(@, Best)
                   \o [i \in DOMAIN fresh |-> Append(w, fresh[i])],
          !.seen = @ \cup Range(fresh)]
Arrives == /\ ~way.done /\ way.open # <<>>
           /\ Last(way.open[Best]) = way.goal
           /\ way' = [way EXCEPT !.done = TRUE, !.path = way.open[Best],
                                 !.open = <<>>, !.seen = {}]
GivesUp == /\ ~way.done /\ way.open = <<>>
           /\ way' = [way EXCEPT !.done = TRUE]

Next == Expand \/ Arrives \/ GivesUp

-----------------------------------------------------------------------------

\* The tiles one comes to from a tile in so many steps.
Reach(t) ==
  LET reach[n \in 0..Width * Height] ==
        IF n = 0 THEN {t}
        ELSE LET near == reach[n - 1]
             IN near \cup {u \in way.free : \E v \in near : Distance(u, v) = 1}
  IN reach[Width * Height]

\* A path goes from tile to next tile over free ones to the goal, and there
\* is none only when there is no way; a tile is on the list once.
Sound ==
  /\ \A i, k \in DOMAIN way.open :
       Last(way.open[i]) = Last(way.open[k]) => i = k
  /\ way.path # <<>> => /\ Range(way.path) \subseteq way.free
                        /\ Last(way.path) = way.goal
                        /\ \A i \in 1..Len(way.path) - 1 :
                             Distance(way.path[i], way.path[i + 1]) = 1
  /\ way.done /\ way.path = <<>> => \A t \in way.seen : t \notin Reach(way.goal)

=============================================================================
