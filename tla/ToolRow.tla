------------------------------- MODULE ToolRow -------------------------------
(***************************************************************************)
(* A tool of the Tools view (core/tools.js): an object of the list that    *)
(* was loaded, a row drawn from it, and the requests that switch the tool  *)
(* or save its settings, each holding the object and the button it began   *)
(* with while the list may be loaded or drawn again.                       *)
(***************************************************************************)
EXTENDS Integers, Sequences

CONSTANTS
  MaxPosts,   \* bound: the requests out that write
  MaxLoads    \* bound: the loads of the list out

Numbers == {0, 1}
Bad == 2                 \* a text that is no number

\* The list without its i-th element.
Without(q, i) ==
  [k \in 1..(Len(q) - 1) |-> IF k < i THEN q[k] ELSE q[k + 1]]

VARIABLE
  tool        \* a record:
              \*   srv and obj, whether the tool is on and its setting, on the
              \*     server and in the object of the list
              \*   row, what the row says, the text of its field, and whether
              \*     its two buttons wait; shown, unless the last load
              \*     failed, the filter leaves it out or its group is folded
              \*   posts, sent and whether the server took them; mine and here,
              \*     whether the list still has the object, the page the row
              \*   loads, asked, read by the server or not; clean, no post was
              \*     out meanwhile
              \*   crossed, the list read may be older than a post, two posts
              \*     were out at once, or a post's answer was lost
              \*   torn, drawn with a post out

At(on, cfg) == [on |-> on, cfg |-> cfg]

\* Every row is built anew: what was typed in its field is gone.
renderTools(s, shown) ==
  [s EXCEPT !.row = [on |-> s.obj.on, text |-> s.obj.cfg,
                     switching |-> FALSE, saving |-> FALSE],
            !.shown = shown, !.torn = s.posts # <<>>,
            !.posts = [i \in DOMAIN @ |-> [@[i] EXCEPT !.here = FALSE]]]

Init ==
  \E on \in BOOLEAN :
    tool = [srv |-> At(on, 0), obj |-> At(on, 0),
            row |-> [on |-> on, text |-> 0, switching |-> FALSE,
                     saving |-> FALSE],
            shown |-> TRUE, failed |-> FALSE, posts |-> <<>>, loads |-> <<>>,
            crossed |-> FALSE, torn |-> FALSE]

-----------------------------------------------------------------------------
(* The user.                                                                *)

Post(s, toggles, value) ==
  [s EXCEPT !.posts = Append(@, [toggles |-> toggles, value |-> value,
                                 took |-> FALSE, mine |-> TRUE, here |-> TRUE]),
            !.loads = [i \in DOMAIN @ |-> [@[i] EXCEPT !.clean = FALSE]],
            !.crossed = @ \/ s.posts # <<>>]

toggleTool ==
  /\ tool.shown /\ ~tool.row.switching /\ Len(tool.posts) < MaxPosts
  /\ tool' = [Post(tool, TRUE, IF tool.obj.on THEN 0 ELSE 1)
                EXCEPT !.row.switching = TRUE]
Type(v) == tool.shown /\ tool' = [tool EXCEPT !.row.text = v]
saveToolConfig ==
  /\ tool.shown /\ ~tool.row.saving /\ Len(tool.posts) < MaxPosts
  /\ tool.row.text # Bad
  /\ tool' = [Post(tool, FALSE, tool.row.text) EXCEPT !.row.saving = TRUE]

\* The filter, or a group folded or opened.
Redraw == \E shown \in BOOLEAN :
            tool' = renderTools(tool, shown /\ ~tool.failed)

loadTools ==
  /\ Len(tool.loads) < MaxLoads
  /\ tool' = [tool EXCEPT !.loads =
       Append(@, [read |-> FALSE, at |-> At(FALSE, 0),
                  clean |-> tool.posts = <<>>])]

-----------------------------------------------------------------------------
(* The server, and its answers in any order.                                *)

Wrote(at, p) == IF p.toggles THEN [at EXCEPT !.on = p.value = 1]
                ELSE [at EXCEPT !.cfg = p.value]

Takes(i) == /\ i \in DOMAIN tool.posts /\ ~tool.posts[i].took
            /\ tool' = [tool EXCEPT !.posts[i].took = TRUE,
                                    !.srv = Wrote(@, tool.posts[i])]
Reads(i) == /\ i \in DOMAIN tool.loads /\ ~tool.loads[i].read
            /\ tool' = [tool EXCEPT !.loads[i].read = TRUE,
                                    !.loads[i].at = tool.srv]

\* Refused, or its answer is lost.
Answered(s, i, ok) ==
  LET p == s.posts[i]
      obj == IF ok /\ p.mine THEN Wrote(s.obj, p) ELSE s.obj
      row == IF ~p.here THEN s.row
             ELSE IF p.toggles
             THEN [s.row EXCEPT !.switching = FALSE,
                                !.on = IF ok THEN p.value = 1 ELSE @]
             ELSE [s.row EXCEPT !.saving = FALSE]
  IN [s EXCEPT !.obj = obj, !.row = row, !.posts = Without(@, i),
               !.crossed = @ \/ (p.took /\ ~ok)]
PostAnswered(i, ok) == /\ i \in DOMAIN tool.posts
                       /\ ok => tool.posts[i].took
                       /\ tool' = Answered(tool, i, ok)

\* The list read takes the place of the objects; a failed one leaves them.
LoadRead(i) ==
  LET l == tool.loads[i]
      s == [tool EXCEPT !.obj = l.at, !.loads = Without(@, i),
                        !.crossed = ~l.clean, !.failed = FALSE,
                        !.posts = [k \in DOMAIN @ |->
                                     [@[k] EXCEPT !.mine = FALSE]]]
  IN /\ i \in DOMAIN tool.loads /\ l.read
     /\ tool' = renderTools(s, TRUE)
LoadFails(i) ==
  /\ i \in DOMAIN tool.loads
  /\ tool' = renderTools([tool EXCEPT !.loads = Without(@, i),
                                    !.failed = TRUE], FALSE)

Next == \/ toggleTool \/ saveToolConfig \/ Redraw \/ loadTools
        \/ \E v \in Numbers \cup {Bad} : Type(v)
        \/ \E i \in 1..MaxPosts : \/ Takes(i)
                                  \/ \E ok \in BOOLEAN : PostAnswered(i, ok)
        \/ \E i \in 1..MaxLoads : Reads(i) \/ LoadRead(i) \/ LoadFails(i)

-----------------------------------------------------------------------------

\* Once every answer is in, the list holds what the server holds, unless it
\* was read while a change was on its way, two changes crossed, or the
\* answer of one was lost.
Settled == tool.posts = <<>> /\ tool.loads = <<>> /\ ~tool.crossed
             => tool.obj = tool.srv

\* The button says what the object says, unless a change was on its way
\* when it was drawn.
Truthful == tool.shown /\ ~tool.torn => tool.row.on = tool.obj.on

=============================================================================
