----------------------------- MODULE GraphCycle -----------------------------
(***************************************************************************)
(* Graph.find_cycle and Graph.find_cycle_from_node of src/ndk/graph.py.    *)
(* Nodes are the numbers 1..N, so sorting by name is numeric order.  The   *)
(* Python code mutates one `visited` set and one `path` list throughout    *)
(* the search; here the recursion returns the visited set with its answer, *)
(* and `path` is passed down (path.pop() on return is the caller keeping   *)
(* its own path).                                                          *)
(*                                                                         *)
(* Each state is a graph a caller could build; the invariant compares the  *)
(* search with the reference definition Graphs!HasCycle.                   *)
(***************************************************************************)
EXTENDS Naturals, Sequences, SequencesExt

CONSTANT N  \* number of nodes

VARIABLE edges  \* the edges of the graph under search: <<from, to>> pairs

Nodes == 1..N
None == <<>>   \* no cycle: find_cycle returns None (a cycle is never empty)

G == INSTANCE Graphs

\* Node.__init__: the out-edges of a node, sorted.
Outs(n) == SetToSortSeq({m \in Nodes : <<n, m>> \in edges}, <)

\* Mutant: the visited short-circuit tested before the path check.
RECURSIVE VisitedFirstFromNode(_, _, _)
RECURSIVE VisitedFirstOuts(_, _, _)
VisitedFirstFromNode(node, visited, path) ==
    LET p == Append(path, node) IN
    IF node \in visited THEN [cycle |-> None, visited |-> visited]
    ELSE IF node \in ToSet(path)
         THEN [cycle |-> SubSeq(p, SelectInSeq(path, LAMBDA x : x = node), Len(p)), visited |-> visited]
    ELSE VisitedFirstOuts(Outs(node), visited \cup {node}, p)
VisitedFirstOuts(outs, visited, path) ==
    IF outs = <<>> THEN [cycle |-> None, visited |-> visited]
    ELSE LET r == VisitedFirstFromNode(Head(outs), visited, path) IN
         IF r.cycle # None THEN r ELSE VisitedFirstOuts(Tail(outs), r.visited, path)

(* find_cycle_from_node: append the node to the path; if it was already on *)
(* the path, the cycle is the path from its first occurrence; if it was    *)
(* visited, give up on it; otherwise mark it and search its out-edges in   *)
(* order, stopping at the first cycle.  FindCycleFromOuts is the for loop. *)
RECURSIVE FindCycleFromNode(_, _, _)
RECURSIVE FindCycleFromOuts(_, _, _)
FindCycleFromNode(node, visited, path) ==
    LET p == Append(path, node) IN
    IF node \in ToSet(path)
    THEN [cycle |-> SubSeq(p, SelectInSeq(path, LAMBDA x : x = node), Len(p)), visited |-> visited]
    ELSE IF node \in visited THEN [cycle |-> None, visited |-> visited]
    ELSE FindCycleFromOuts(Outs(node), visited \cup {node}, p)
FindCycleFromOuts(outs, visited, path) ==
    IF outs = <<>> THEN [cycle |-> None, visited |-> visited]
    ELSE LET r == FindCycleFromNode(Head(outs), visited, path) IN
         IF r.cycle # None THEN r ELSE FindCycleFromOuts(Tail(outs), r.visited, path)

(* find_cycle: a search from every node in sorted order, sharing visited,  *)
(* returning the first cycle found.                                        *)
RECURSIVE FindCycleFrom(_, _)
FindCycleFrom(nodes, visited) ==
    IF nodes = <<>> THEN None
    ELSE LET r == FindCycleFromNode(Head(nodes), visited, <<>>) IN
         IF r.cycle # None THEN r.cycle ELSE FindCycleFrom(Tail(nodes), r.visited)
FindCycle == FindCycleFrom(SetToSortSeq(Nodes, <), {})

\* Graph(nodes) is built from Node objects whose outs are filled in one by
\* one; the search starts from the empty graph and each step adds or removes
\* one edge, so every graph over Nodes is reached.
Init == edges = {}

NewGraph ==
    \E e \in Nodes \X Nodes :
        edges' = IF e \in edges THEN edges \ {e} ELSE edges \cup {e}

Spec == Init /\ [][NewGraph]_edges

----------------------------------------------------------------------------

Graph == [node |-> Nodes, edge |-> edges]

(* find_cycle returns a cycle exactly when the graph has one (the search   *)
(* is complete although it skips nodes visited by earlier searches), and   *)
(* what it returns is a cycle of the graph, [A, B, A] style: it begins and *)
(* ends with the same node and follows edges.                              *)
FindsCycleIffCyclic ==
    /\ (FindCycle # None) <=> G!HasCycle(Graph)
    /\ FindCycle # None =>
         /\ Len(FindCycle) >= 2
         /\ FindCycle[1] = Last(FindCycle)
         /\ \A i \in 1..Len(FindCycle) - 1 : <<FindCycle[i], FindCycle[i + 1]>> \in edges
=============================================================================
