----------------------------- MODULE Questions ------------------------------
(***************************************************************************)
(* What a run may rely on when it asks its user something: a question is   *)
(* settled once, by one of the options it offered or by the passing of     *)
(* time, and it is settled in the end.                                     *)
(***************************************************************************)
CONSTANTS Ids, Offered, Nobody

VARIABLES state, answer
vars == <<state, answer>>

Init ==
  /\ state = [q \in Ids |-> "unasked"]
  /\ answer = [q \in Ids |-> Nobody]

Ask(q) ==
  /\ state[q] = "unasked"
  /\ state' = [state EXCEPT ![q] = "open"]
  /\ UNCHANGED answer

Settle(q, option) ==
  /\ state[q] = "open"
  /\ state' = [state EXCEPT ![q] = "settled"]
  /\ answer' = [answer EXCEPT ![q] = option]

Next == \E q \in Ids : Ask(q) \/ \E o \in Offered \cup {Nobody} : Settle(q, o)

Spec ==
  /\ Init /\ [][Next]_vars
  /\ \A q \in Ids : WF_vars(\E o \in Offered \cup {Nobody} : Settle(q, o))
=============================================================================
