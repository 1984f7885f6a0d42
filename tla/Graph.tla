------------------------------- MODULE Graph --------------------------------
(***************************************************************************)
(* The execution graph of one run (lib/graph.js): the recorded steps are   *)
(* grouped into stages, one per model call with the tools it ran; the      *)
(* stages become a graph, of which the reader follows parts.               *)
(***************************************************************************)
EXTENDS Integers, Sequences, FiniteSets, Functions

CONSTANTS
  MaxSteps    \* bound: steps of the run

\* check and decision steps are laid out as tools are.
Kinds == {"llm", "tool", "final"}

VARIABLE
  graph       \* a record: steps, the kinds of the recorded run; at, the
              \* node under the pointer, 0 when none

Init == \E steps \in UNION {[1..n -> Kinds] : n \in 1..MaxSteps} :
          graph = [steps |-> steps, at |-> 0]

Built == [stages |-> <<>>, final |-> 0]
\* A stage is the step of its model call and those of its tools.
AddStep(steps, b, i) ==
  LET n == Len(b.stages)
  IN CASE steps[i] = "llm" ->
            [b EXCEPT !.stages = Append(@, [llm |-> i, tools |-> <<>>])]
       [] steps[i] = "tool" /\ n > 0 ->
            [b EXCEPT !.stages[n].tools = Append(@, i)]
       [] steps[i] = "final" -> [b EXCEPT !.final = i]
       [] OTHER -> b
buildStages(steps) ==
  LET upTo[i \in 0..Len(steps)] ==
        IF i = 0 THEN Built ELSE AddStep(steps, upTo[i - 1], i)
  IN upTo[Len(steps)]

\* Each stage hangs off what the one before it ended with, and its tools off
\* the model call.  What ends the graph may be missing: it is then 0.
AddStage(data, stage) ==
  LET llm == [step |-> stage.llm, parents |-> data.ends]
      tools == [k \in DOMAIN stage.tools |->
                 [step |-> stage.tools[k], parents |-> {stage.llm}]]
  IN [rows |-> data.rows \o <<llm>> \o tools,
      ends |-> IF stage.tools = <<>> THEN {stage.llm}
                                     ELSE Range(stage.tools)]
toDagInput(steps) ==
  LET b == buildStages(steps)
      upTo[k \in 0..Len(b.stages)] ==
        IF k = 0 THEN [rows |-> <<>>, ends |-> {}]
                 ELSE AddStage(upTo[k - 1], b.stages[k])
      data == upTo[Len(b.stages)]
  IN IF data.rows = <<>> THEN <<>>
     ELSE Append(data.rows, [step |-> b.final, parents |-> data.ends])

Drawn(g) == {r.step : r \in Range(toDagInput(g.steps))}
Edges(g) == UNION {{<<p, r.step>> : p \in r.parents} :
                     r \in Range(toDagInput(g.steps))}

\* highlightPath: up to the root and down to the end, one edge at a time.
Up(g, S) == S \cup {e[1] : e \in {f \in Edges(g) : f[2] \in S}}
Down(g, S) == S \cup {e[2] : e \in {f \in Edges(g) : f[1] \in S}}
Walk(step(_, _), g, at) ==
  LET after[i \in 0..MaxSteps] ==
        IF i = 0 THEN {at} ELSE step(g, after[i - 1])
  IN after[MaxSteps]
highlightPath(g) ==
  IF g.at = 0 THEN {} ELSE Walk(Up, g, g.at) \cup Walk(Down, g, g.at)

Enter(i) == i # 0 /\ graph.at = 0 /\ graph' = [graph EXCEPT !.at = i]
Leave == graph.at # 0 /\ graph' = [graph EXCEPT !.at = 0]

Next == \/ \E i \in Drawn(graph) : Enter(i)
        \/ Leave
-----------------------------------------------------------------------------
\* Every step since the first model call is drawn, but for an answer that a
\* later one replaced; there is one root and one end, every edge goes forward,
\* and a node under the pointer shows one way from the one to the other at
\* least.
Sound ==
  LET rows == toDagInput(graph.steps)
      steps == graph.steps
      calls == {i \in DOMAIN steps : steps[i] = "llm"}
      later(i) == \E j \in DOMAIN steps : j > i /\ steps[j] = "final"
      lost == {i \in DOMAIN steps : /\ \E c \in calls : c <= i
                                    /\ ~(steps[i] = "final" /\ later(i))}
      lit == highlightPath(graph)
  IN rows # <<>> =>
       /\ lost \subseteq Drawn(graph)
       /\ Cardinality({r \in Range(rows) : r.parents = {}}) = 1
       /\ {i \in Drawn(graph) : ~\E e \in Edges(graph) : e[1] = i}
            = {rows[Len(rows)].step}
       /\ \A e \in Edges(graph) : e[1] # 0 /\ (e[2] # 0 => e[1] < e[2]
                                        \/ steps[e[2]] = "final")
       /\ lit # {} => {rows[1].step, rows[Len(rows)].step} \subseteq lit
=============================================================================
