----------------------------- MODULE FlowDiagram -----------------------------
(***************************************************************************)
(* FlowDiagram.tsx: the nodes and edges drawn for a tree of executions.  A *)
(* sub-flow has a node where it starts and one where it ends; executions   *)
(* that are alternative or disabled are drawn side by side, the others one *)
(* after the other.                                                        *)
(***************************************************************************)
EXTENDS ExecutionList, FiniteSets

Node(id) == <<"at", id>>
EndOf(id) == <<"end", id>>     \* flow-end-<id>
Start == <<"start">>
End   == <<"end">>

\* The nodes between which the list of row i is drawn.
From(rows, i) == IF i = 0 THEN Start ELSE Node(rows[i].id)
To(rows, i)   == IF i = 0 THEN End ELSE EndOf(rows[i].id)

\* renderFlowNodes and renderSubFlowNodes, which call each other for every list of the tree.
RenderNodes(rows) ==
  LET tree == Expandable(rows)
  IN {Node(rows[i].id) : i \in UNION {ToSet(tree[p]) : p \in DOMAIN tree}} \cup
     {EndOf(rows[i].id) : i \in {p \in DOMAIN rows : tree[p] # <<>>}}

\* renderParallelEdges, renderSequentialEdges: of the k-th row of a list.
LeafEdges(rows, list, k, from, to, parallel) ==
  LET me == Node(rows[list[k]].id)
  IN IF rows[list[k]].id \in parallel THEN {<<from, me>>, <<me, to>>}
     ELSE {<<IF k = 1 THEN from ELSE Node(rows[list[k - 1]].id), me>>} \cup
          (IF k = Len(list) THEN {<<me, to>>} ELSE {})

\* Mutant of EntryOfSubFlow: an alternative before it also leads into the sub-flow, the
\* first one has no edge.
EntryOfSubFlow_NoStart(rows, list, k, from, alternative) ==
  IF k > 1 THEN {<<Node(rows[list[k - 1]].id), Node(rows[list[k]].id)>>} ELSE {}

EntryOfSubFlow(rows, list, k, from, alternative) ==
  IF k > 1 /\ rows[list[k - 1]].id \notin alternative
  THEN {<<Node(rows[list[k - 1]].id), Node(rows[list[k]].id)>>}
  ELSE {<<from, Node(rows[list[k]].id)>>}

\* renderFlowEdges and renderSubFlowEdges, for every list of the tree.
EdgesOf(rows, tree, i, alternative, disabled) ==
  LET list == tree[i]
  IN UNION {IF tree[list[k]] = <<>>
            THEN LeafEdges(rows, list, k, From(rows, i), To(rows, i), alternative \cup disabled)
            ELSE EntryOfSubFlow(rows, list, k, From(rows, i), alternative) \cup
                 {<<To(rows, list[k]), To(rows, i)>>} :
            k \in DOMAIN list}

RenderEdges(rows, alternative, disabled) ==
  LET tree == Expandable(rows)
  IN UNION {EdgesOf(rows, tree, i, alternative, disabled) : i \in DOMAIN tree}

\* The nodes that so many edges lead to from the start.
Reached(edges, steps) ==
  LET R[n \in 0..steps] ==
        IF n = 0 THEN {Start}
        ELSE LET before == R[n - 1]
             IN before \cup {e[2] : e \in {x \in edges : x[1] \in before}}
  IN R[steps]

\* Every edge joins two nodes that are drawn, and every node, the end included, is
\* reached from the start: with sub-flows in sub-flows, in any place and whatever the
\* requirements of the executions are.  A way without a circle has no more edges than
\* there are nodes besides the start: one or two of each row, and the end.
Connected(rows, alternative, disabled) ==
  LET nodes == RenderNodes(rows) \cup {Start, End}
      edges == RenderEdges(rows, alternative, disabled)
  IN /\ \A e \in edges : e[1] \in nodes /\ e[2] \in nodes
     /\ Reached(edges, 2 * Len(rows) + 1) = nodes
=============================================================================
