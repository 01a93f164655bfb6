---------------------------- MODULE ProtocolGraph ----------------------------
(***************************************************************************)
(* The protocol dependency graph (backend/app/blockchain/protocol_graph):  *)
(* nodes and typed edges built from what a discovery reports, and the      *)
(* validation that refuses a graph.  Confidences of edges decide only      *)
(* which duplicate is kept, so an edge is its ends and its type.           *)
(* Addresses are numbers because the code sorts them.                      *)
(*                                                                         *)
(* An operator named F_xxx is F with a bug, a mutant.                      *)
(***************************************************************************)
EXTENDS Naturals, FiniteSets, SequencesExt

\* The contracts of a discovery have one entry per address.
Known(contracts) == {c.at : c \in contracts}

\* _infer_admin_to_proxy, _infer_oracle_to_protocol: ROOT is never moved to
\* another address, ORACLE may be the root itself.
AdminEdges(contracts) ==
    {<<c.admin, c.at, "ADMIN_TO_PROXY">> :
        c \in {d \in contracts : d.role \in {"proxy", "root"} /\ d.admin \in Known(contracts)}}
OracleEdges(contracts, root) ==
    {<<c.at, root, "ORACLE_TO_PROTOCOL">> : c \in {d \in contracts : d.role = "oracle"}}

\* build_edges; no contract the engine reports has a depends_on entry.
Edges(contracts, relations, root) ==
    {r \in relations : {r[1], r[2]} \subseteq Known(contracts)}
        \cup AdminEdges(contracts) \cup OracleEdges(contracts, root)

\* ProtocolGraphBuilder.build before the validation
Graph(contracts, relations, root) ==
    LET edges == Edges(contracts, relations, root)
    IN  [nodes |-> Known(contracts), edges |-> edges, root |-> root,
         next |-> [a \in Known(contracts) |-> {e[2] : e \in {x \in edges : x[1] = a}}]]

\* The issue codes that make a graph invalid; there is one node per address.
Issues(g) ==
    {code \in {"missing_root", "invalid_edge", "self_loop"} :
        CASE code = "missing_root" -> g.root \notin g.nodes
          [] code = "invalid_edge" -> \E e \in g.edges : ~({e[1], e[2]} \subseteq g.nodes)
          [] code = "self_loop" -> \E e \in g.edges : e[1] = e[2]}

Orphans(g) ==
    IF Cardinality(g.nodes) <= 1 THEN {}
    ELSE {a \in g.nodes \ {g.root} : \A e \in g.edges : a \notin {e[1], e[2]}}

\* sorted(): the i-th address has i - 1 below it.
Ascending(S) == [i \in 1 .. Cardinality(S) |-> CHOOSE a \in S : Cardinality({b \in S : b < a}) = i - 1]
=============================================================================
