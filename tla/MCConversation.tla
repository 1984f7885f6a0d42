--------------------------- MODULE MCConversation ---------------------------
(* A small instance of Conversation: one saved conversation of two turns,   *)
(* another of one with a draft, and ids for new ones.                       *)
EXTENDS Conversation, TLC

CONSTANTS sA, sB, n1, n2, i1, i2, t1, t2

MCHistory == (sA :> 2) @@ (sB :> 1) @@ [s \in Sessions \ {sA, sB} |-> 0]
MCStored == (sB :> t2) @@ [s \in Sessions \ {sB} |-> Blank]

MCSymmetry == Permutations(Sessions \ {sA, sB})
                \cup Permutations(Slots)
=============================================================================
