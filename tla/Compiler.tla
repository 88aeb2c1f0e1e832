------------------------------ MODULE Compiler ------------------------------
(***************************************************************************)
(* The work-graph compiler (shiroe/work/compiler.py with the types of      *)
(* work/schema.py): a raw specification is parsed node by node and edge by *)
(* edge, searched for a directed cycle with an explicit stack, and built   *)
(* into the graph the supervisor runs.  Everything a field can hold that   *)
(* no check tells apart is one value here.                                 *)
(***************************************************************************)
EXTENDS Naturals, Sequences, FiniteSetsExt

CONSTANT Specs    \* the raw specifications a caller may pass

\* A raw node: its id (0 is a blank one), the fields a check looks at, and
\* whether its metadata hides a placement.
RawNodes(ids) ==
  [id : ids \cup {0}, objective : {"text", "blank"},
   kind : {"task", "decision", "approval", "review", "other"},
   approval_required : BOOLEAN, max_attempts : 0..1,
   mode : {"local", "node", "other"}, node_id : {"none", "some"},
   hidden_placement : BOOLEAN]

ASSUME SpecsAssumption ==
  \A s \in Specs : /\ s.nodes \in Seq(RawNodes(Nat))
                    /\ s.edges \in Seq(Nat \X Nat)

VARIABLES spec,      \* the specification being compiled
          stage,     \* parse, search, or the verdict
          visiting, visited,   \* the marks of _reject_cycles
          stack      \* pairs of a node and the edges its iterator has left

cvars == <<spec, stage, visiting, visited, stack>>

CompilerInit ==
  /\ spec \in Specs
  /\ stage = "parse"
  /\ visiting = {} /\ visited = {} /\ stack = <<>>
-----------------------------------------------------------------------------
(* Parsing.                                                                  *)

\* What the types of schema.py check when a value is made.
RetryPolicy(n) == n.max_attempts >= 1

Placement(n) ==
  \/ n.mode = "local" /\ n.node_id = "none"
  \/ n.mode = "node" /\ n.node_id = "some"

WorkNode(n) ==
  /\ n.id # 0 /\ n.objective = "text" /\ n.kind # "other"
  /\ RetryPolicy(n) /\ Placement(n)

\* Two names, and not the same one.
WorkEdge(e) == e[1] # 0 /\ e[2] # 0 /\ e[1] # e[2]

\* The nodes and edges were made with the graph's own id.
WorkGraph(s) ==
  /\ s.id # "blank" /\ s.objective = "text"
  /\ s.version >= 1 /\ s.status # "other"

\* Mutant: any node kind may go without approval.
NodeWithoutApproval(n) == WorkNode(n)

_node(n) ==
  /\ ~n.hidden_placement
  /\ WorkNode(n)
  /\ n.kind = "approval" => n.approval_required

NodeIds(s) == {s.nodes[i].id : i \in DOMAIN s.nodes}

NoDuplicates(s) ==
  \A i, j \in DOMAIN s.nodes : s.nodes[i].id = s.nodes[j].id => i = j

\* Mutant: only the source of an edge is looked up.
SourcesKnown(s) == \A i \in DOMAIN s.edges : s.edges[i][1] \in NodeIds(s)

EdgesKnown(s) ==
  \A i \in DOMAIN s.edges :
    s.edges[i][1] \in NodeIds(s) /\ s.edges[i][2] \in NodeIds(s)

\* compile_work_graph up to the cycle search; a blank graph id is met by the
\* first node.
Parse ==
  /\ stage = "parse"
  /\ stage' = IF /\ spec.nodes # <<>>
                 /\ spec.id # "blank"
                 /\ \A i \in DOMAIN spec.nodes : _node(spec.nodes[i])
                 /\ NoDuplicates(spec)
                 /\ \A i \in DOMAIN spec.edges : WorkEdge(spec.edges[i])
                 /\ EdgesKnown(spec)
              THEN "search" ELSE "invalid"
  /\ UNCHANGED <<spec, visiting, visited, stack>>
-----------------------------------------------------------------------------
(* _reject_cycles.                                                           *)

\* outgoing[n]: the edges out of n, by their place in the list, since the
\* same edge may be listed twice.
outgoing(n) == {i \in DOMAIN spec.edges : spec.edges[i][1] = n}

\* The iterators follow the sorted edges.
NextEdge(rest) ==
  CHOOSE i \in rest : \A j \in rest :
    \/ spec.edges[i][2] < spec.edges[j][2]
    \/ spec.edges[i][2] = spec.edges[j][2] /\ i =< j

Frame(n) == [node |-> n, rest |-> outgoing(n)]

\* The outer loop: the next root in order that no search has finished.
NextRoot ==
  /\ stage = "search" /\ stack = <<>>
  /\ NodeIds(spec) \ visited # {}
  /\ LET root == Min(NodeIds(spec) \ visited)
     IN  /\ visiting' = visiting \cup {root}
         /\ stack' = <<Frame(root)>>
  /\ UNCHANGED <<spec, stage, visited>>

\* Mutant: a finished node is not marked visited.
PopUnmarked ==
  /\ stage = "search" /\ stack # <<>>
  /\ stack[Len(stack)].rest = {}
  /\ visiting' = visiting \ {stack[Len(stack)].node}
  /\ stack' = SubSeq(stack, 1, Len(stack) - 1)
  /\ UNCHANGED <<spec, stage, visited>>

\* Mutant: a finished node stays in visiting.
PopKeepsVisiting ==
  /\ stage = "search" /\ stack # <<>>
  /\ stack[Len(stack)].rest = {}
  /\ visited' = visited \cup {stack[Len(stack)].node}
  /\ stack' = SubSeq(stack, 1, Len(stack) - 1)
  /\ UNCHANGED <<spec, stage, visiting>>

\* The iterator of the top frame is exhausted.
PopFrame ==
  /\ stage = "search" /\ stack # <<>>
  /\ LET top == stack[Len(stack)]
     IN  /\ top.rest = {}
         /\ visiting' = visiting \ {top.node}
         /\ visited' = visited \cup {top.node}
  /\ stack' = SubSeq(stack, 1, Len(stack) - 1)
  /\ UNCHANGED <<spec, stage>>

\* Mutant: a child that was ever reached counts as a cycle.
ReachedBefore(child) == child \in visiting \cup visited

ClosesCycle(child) == child \in visiting

\* The top frame's next child: a cycle, a node already done, or a new frame.
Descend ==
  /\ stage = "search" /\ stack # <<>>
  /\ LET top == stack[Len(stack)]
         edge == NextEdge(top.rest)
         child == spec.edges[edge][2]
         moved == [stack EXCEPT ![Len(stack)].rest = top.rest \ {edge}]
     IN  /\ top.rest # {}
         /\ \/ /\ ClosesCycle(child)
               /\ stage' = "cyclic"
               /\ UNCHANGED <<visiting, stack>>
            \/ /\ ~ClosesCycle(child)
               /\ child \in visited
               /\ stack' = moved
               /\ UNCHANGED <<stage, visiting>>
            \/ /\ ~ClosesCycle(child)
               /\ child \notin visited
               /\ stack' = Append(moved, Frame(child))
               /\ visiting' = visiting \cup {child}
               /\ UNCHANGED stage
  /\ UNCHANGED <<spec, visited>>

\* Every root is done: the graph is made, which checks the rest.
Build ==
  /\ stage = "search" /\ stack = <<>>
  /\ NodeIds(spec) \subseteq visited
  /\ stage' = IF WorkGraph(spec) THEN "compiled" ELSE "invalid"
  /\ UNCHANGED <<spec, visiting, visited, stack>>

CompilerNext == Parse \/ NextRoot \/ PopFrame \/ Descend \/ Build

\* The compiler is one function: it runs until it returns or raises.
CompilerSpec == CompilerInit /\ [][CompilerNext]_cvars /\ WF_cvars(CompilerNext)
-----------------------------------------------------------------------------
Over == stage \in {"compiled", "invalid", "cyclic"}

\* The marks and the stack are over the graph's own nodes and edges.
CompilerTypeOK ==
  /\ stage \in {"parse", "search"} \/ Over
  /\ visiting \subseteq NodeIds(spec) /\ visited \subseteq NodeIds(spec)
  /\ \A d \in DOMAIN stack : /\ stack[d].node \in NodeIds(spec)
                             /\ stack[d].rest \subseteq DOMAIN spec.edges

Edges == {spec.edges[i] : i \in DOMAIN spec.edges}

\* Every set of unfinished nodes has one that waits for none of them: the
\* supervisor can run the graph to its end whatever has been done so far.
Schedulable ==
  \A S \in SUBSET NodeIds(spec) :
    S # {} => \E n \in S : \A m \in S : <<m, n>> \notin Edges

\* The comment on _reject_cycles: it raises if and only if a directed cycle
\* exists, duplicated edges, diamonds and unconnected parts included.
CycleVerdictExact ==
  /\ stage = "compiled" => Schedulable
  /\ stage = "cyclic" => ~Schedulable

\* The search is a walk: visiting is exactly the nodes on the stack, each
\* one a child of the one below it, and what is visited has only visited
\* children.
SearchIsAWalk ==
  stage = "search" =>
    /\ visiting = {stack[d].node : d \in DOMAIN stack}
    /\ visiting \cap visited = {}
    /\ \A d \in 1..(Len(stack) - 1) :
         <<stack[d].node, stack[d + 1].node>> \in Edges
    /\ \A e \in Edges : e[1] \in visited => e[2] \in visited

\* A graph that was compiled never asks for an approval node nobody has to
\* approve, never names a node it does not have, and never has one node
\* twice.
CompiledIsWellFormed ==
  stage = "compiled" =>
    /\ Cardinality(NodeIds(spec)) = Len(spec.nodes)
    /\ \A e \in Edges : {e[1], e[2]} \subseteq NodeIds(spec)
    /\ \A i \in DOMAIN spec.nodes :
         spec.nodes[i].kind = "approval" => spec.nodes[i].approval_required

\* A search that has started ends, whatever the graph.
SearchEnds == stage = "search" ~> Over
\* The search and its verdicts: a plan is refused as cyclic, or compiled, only
\* for the reason the words say (_reject_cycles, compile_work_graph).
CompilerInv ==
  CompilerTypeOK /\ CycleVerdictExact /\ SearchIsAWalk /\ CompiledIsWellFormed
=============================================================================
