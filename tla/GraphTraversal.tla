---------------------------- MODULE GraphTraversal ----------------------------
(***************************************************************************)
(* ProtocolGraphTraversal on the graph a discovery was turned into, valid  *)
(* or refused: how far it is reached from its root (bfs), the topological  *)
(* order and the depth-first search for cycles, one turn of their loops at *)
(* a time.  The recursion of _visit is a stack: the path, and for every    *)
(* address on it the neighbours that are still to be looked at.            *)
(*                                                                         *)
(* An operator named F_xxx is F with a bug, a mutant.                      *)
(***************************************************************************)
EXTENDS ProtocolDiscovery

VARIABLES
    walk,       \* the traversal that runs, "none" before the first
    queue,      \* the deque of bfs and of topological_sort
    reached,    \* what bfs has seen
    placed,     \* ordering of topological_sort
    path,       \* the addresses _visit is in, the root of the search first
    todo,       \* what is left of their loops, below them the loop over all nodes
    visited,    \* what find_cycles has visited
    cycles      \* and the cycles it reports

searchVars == <<path, todo, visited, cycles>>
traversalVars == <<walk, queue, reached, placed, path, todo, visited, cycles>>

TraversalInit ==
    /\ DiscoveryInit
    /\ walk = "none"
    /\ queue = <<>> /\ placed = <<>> /\ path = <<>> /\ todo = <<>>
    /\ reached = {} /\ visited = {} /\ cycles = {}

\* One traversal follows the other.
Turns(from, to) == walk = from /\ walk' = to /\ UNCHANGED discoveryVars

\* bfs, from the root if it is a node
BfsStart ==
    /\ Turns("none", "bfs")
    /\ stage \in {"built", "refused"}
    /\ reached' = {graph.root} \cap graph.nodes
    /\ queue' = Ascending(reached')
    /\ UNCHANGED <<placed, searchVars>>

BfsStep ==
    /\ Turns("bfs", "bfs")
    /\ queue # <<>>
    /\ LET fresh == graph.next[Head(queue)] \ reached
       IN  /\ queue' = Tail(queue) \o Ascending(fresh)
           /\ reached' = reached \cup fresh
    /\ UNCHANGED <<placed, searchVars>>

\* topological_sort: the queue holds the addresses whose parents are all placed.
Parents(g, a) == {p \in g.nodes : a \in g.next[p]}

SortStart ==
    /\ Turns("bfs", "sort")
    /\ queue = <<>>
    /\ queue' = Ascending({a \in graph.nodes : Parents(graph, a) = {}})
    /\ UNCHANGED <<reached, placed, searchVars>>

SortStep ==
    /\ Turns("sort", "sort")
    /\ queue # <<>>
    /\ placed' = Append(placed, Head(queue))
    /\ queue' = Tail(queue) \o
                Ascending({a \in graph.next[Head(queue)] : Parents(graph, a) \subseteq ToSet(placed')})
    /\ UNCHANGED <<reached, searchVars>>

F_TopologicalSort == placed
TopologicalSort == IF Len(placed) # Cardinality(graph.nodes) THEN <<>> ELSE placed

\* find_cycles: the loop over all nodes is at the bottom of the stack.
SearchStart ==
    /\ Turns("sort", "search")
    /\ queue = <<>>
    /\ todo' = <<Ascending(graph.nodes)>>
    /\ UNCHANGED <<queue, reached, placed, path, visited, cycles>>

\* The innermost loop looks at its next address.
Looks(a) ==
    /\ Turns("search", "search")
    /\ todo # <<>> /\ Last(todo) # <<>> /\ a = Head(Last(todo))
    /\ UNCHANGED <<queue, reached, placed>>
Rest == [todo EXCEPT ![Len(todo)] = Tail(@)]

Visit(a) ==
    /\ Looks(a)
    /\ a \notin visited
    /\ visited' = visited \cup {a}
    /\ path' = Append(path, a)
    /\ todo' = Append(Rest, Ascending(graph.next[a]))
    /\ UNCHANGED cycles

\* A neighbour on the path closes a cycle: the path from it on, and it again.
Closes(a) ==
    /\ Looks(a)
    /\ a \in ToSet(path)
    /\ \E i \in DOMAIN path : path[i] = a /\ cycles' = cycles \cup {Append(SubSeq(path, i, Len(path)), a)}
    /\ todo' = Rest
    /\ UNCHANGED <<path, visited>>

Passes(a) ==
    /\ Looks(a)
    /\ a \in visited \ ToSet(path)
    /\ todo' = Rest
    /\ UNCHANGED <<path, visited, cycles>>

Returns ==
    /\ Turns("search", "search")
    /\ todo # <<>> /\ Last(todo) = <<>>
    /\ todo' = Front(todo)
    /\ path' = IF path = <<>> THEN <<>> ELSE Front(path)
    /\ UNCHANGED <<queue, reached, placed, visited, cycles>>

Discovers == DiscoveryNext /\ UNCHANGED traversalVars

TraversalNext ==
    \/ Discovers
    \/ BfsStart
    \/ BfsStep
    \/ SortStart
    \/ SortStep
    \/ SearchStart
    \/ \E a \in graph.nodes : Visit(a) \/ Closes(a) \/ Passes(a)
    \/ Returns

TraversalSpec == TraversalInit /\ [][TraversalNext]_<<discoveryVars, traversalVars>>
-----------------------------------------------------------------------------
\* No edge leads out of S.
Closed(g, S) == \A a \in S : g.next[a] \subseteq S

\* The edges lead along s.
Along(g, s) == \A i \in 1 .. Len(s) - 1 : s[i + 1] \in g.next[s[i]]
IsCycle(g, c) == Len(c) > 1 /\ ToSet(c) \subseteq g.nodes /\ c[1] = Last(c) /\ Along(g, c)

Walked == walk = "search" /\ todo = <<>>

\* The traversals agree on every graph a discovery yields: bfs has seen what the
\* edges lead to from the root and no more; what find_cycles reports are cycles; and
\* either there is a topological order, of all addresses and with every edge pointing
\* forward, or a cycle is reported.
TraversalsAgree ==
    Walked =>
        LET order == TopologicalSort
        IN  /\ Closed(graph, reached)
            /\ \A S \in SUBSET graph.nodes : graph.root \in S /\ Closed(graph, S) => reached \subseteq S
            /\ \A c \in cycles : IsCycle(graph, c)
            /\ (order = <<>>) <=> (cycles # {})
            /\ order # <<>> => ToSet(order) = graph.nodes
            /\ \A i, j \in DOMAIN order : order[j] \in graph.next[order[i]] => i < j
=============================================================================
