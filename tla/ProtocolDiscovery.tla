-------------------------- MODULE ProtocolDiscovery --------------------------
(***************************************************************************)
(* Discovery of the contracts of a protocol from its root                  *)
(* (backend/app/blockchain/protocol_scan) and the dependency graph built   *)
(* from what it reports.  discover() awaits one source of contracts after  *)
(* the other; every source appends entries, several about one address with *)
(* different roles.  The relationships are drawn between all entries, the  *)
(* builder then keeps one entry per address.                               *)
(*                                                                         *)
(* A failing probe fails the discovery; the analyzers' failures are caught.*)
(* The wallet source adds nothing: the wallet intelligence never names a   *)
(* treasury.  Nor does any source name the factory of a pool.              *)
(*                                                                         *)
(* An operator named F_xxx is F with a bug, a mutant.                      *)
(***************************************************************************)
EXTENDS ProtocolGraph

CONSTANTS
    Addresses,      \* contracts on the chain
    Root,           \* the address the discovery starts from
    Pools,          \* pairs the liquidity analyzer may report
    None,           \* no address, no protocol
    Deployments,    \* the registries to run with: address -> <<registry role, protocol>>
    Links,          \* the addresses the root's source may mention
    Signs,          \* what the intelligence may recognise the root by
    Scores,         \* confidences the intelligence may have
    Levels          \* confidences the governance source may have

\* The role maps of the classifier, for the registry roles of the tables
RegistryRole ==
    [factory |-> "factory", router |-> "router", pool |-> "pool", comptroller |-> "governor",
     vault |-> "vault", core |-> "bridge", messenger |-> "messenger",
     governor |-> "governor", timelock |-> "timelock"]

\* A registry is a finite table.
ASSUME DiscoveryAssumption ==
    /\ Root \in Addresses /\ Addresses \cup Pools \subseteq Nat /\ None \notin Addresses \cup Pools
    /\ IsFiniteSet(Addresses) /\ IsFiniteSet(Pools)
    /\ \A d \in Deployments :
        IsFiniteSet(DOMAIN d) /\ DOMAIN d \subseteq Nat /\ \A a \in DOMAIN d : d[a][1] \in DOMAIN RegistryRole
    /\ Links \subseteq SUBSET Addresses /\ Scores \subseteq 1 .. 100
    /\ Levels \subseteq {85, 65, 45, 55, 75}

VARIABLES
    registry,   \* the element of Deployments of this run
    root,       \* what the root's probe says: implementation and admin
    probes,     \* addresses with a probe
    contracts,  \* the entries, in the order they were found
    stage,      \* the source asked next, or how the run ended
    result,     \* what the builder kept: entries, relations, confidence
    graph       \* the protocol graph

discoveryVars == <<registry, root, probes, contracts, stage, result, graph>>

Found(a, role, score) ==
    [at |-> a, role |-> role, score |-> score, impl |-> None, admin |-> None,
     protocol |-> None, isRoot |-> FALSE]

\* classify_from_registry, for a registered address
FromRegistry(a) ==
    [Found(a, RegistryRole[registry[a][1]], 92) EXCEPT !.protocol = registry[a][2]]
Registered(a) == a \in DOMAIN registry

\* _find_defi_peer, _find_bridge_peer, _find_paired_deployment
Peers(protocol, role) == {a \in DOMAIN registry : registry[a] = <<role, protocol>>}

DiscoveryInit ==
    /\ registry \in Deployments
    /\ root = [impl |-> None, admin |-> None]
    /\ probes = {}
    /\ contracts = <<>>
    /\ stage = "root"
    /\ result = [contracts |-> {}, relations |-> {}, confidence |-> 0]
    /\ graph = Graph({}, {}, Root)

Others == Addresses \ {Root}

\* A source hands over to the next one.
Asked(source, next) == stage = source /\ stage' = next /\ UNCHANGED <<registry, result, graph>>
Adds(entries) == contracts' = contracts \o entries

\* The root is probed and takes its entry: the registry's, or ROOT.
ProbeRoot ==
    /\ Asked("root", "proxy")
    /\ root' \in [{"impl", "admin"} -> Others \cup {None}]
    /\ probes' = {Root}
    /\ Adds(<<IF Registered(Root) THEN [FromRegistry(Root) EXCEPT !.score = 95, !.isRoot = TRUE]
                                  ELSE Found(Root, "root", 95)>>)

\* _resolve_role: what the implementation is taken for
ResolvedRole(a, impl, timelock) ==
    CASE Registered(a) -> FromRegistry(a)
      [] ~Registered(a) /\ impl # None -> Found(a, "proxy", 85)
      [] ~Registered(a) /\ impl = None -> Found(a, IF timelock THEN "timelock" ELSE "implementation", 85)

\* _discover_proxy_chain; the implementation may itself be a proxy
ProxyChain ==
    /\ Asked("proxy", "governance")
    /\ UNCHANGED root
    /\ IF root.impl = None THEN UNCHANGED <<probes, contracts>>
       ELSE \E impl \in (Addresses \ {root.impl}) \cup {None}, admin \in {root.admin, None}, timelock \in BOOLEAN :
              /\ probes' = probes \cup {root.impl}
              /\ Adds(<<[Found(Root, "proxy", 90) EXCEPT !.impl = root.impl],
                        Found(root.impl, "implementation", 90),
                        [ResolvedRole(root.impl, impl, timelock) EXCEPT
                            !.impl = impl, !.admin = admin, !.protocol = None]>>)

\* _discover_governance_chain: with the analyzer's verdict and its confidence,
\* or without one, by what the admin's probe says
GovernanceChain ==
    /\ Asked("governance", "peers")
    /\ UNCHANGED root
    /\ IF root.admin = None THEN UNCHANGED <<probes, contracts>>
       ELSE \E timelock \in BOOLEAN, score \in Levels :
              /\ probes' = probes \cup {root.admin}
              /\ Adds(<<Found(root.admin, IF timelock THEN "timelock" ELSE "governor", score)>>)

\* _discover_registry_peers
PeerOf(d) ==
    CASE d[1] = "factory" -> Peers(d[2], "router")
      [] d[1] = "core" -> Peers(d[2], "messenger")
      [] OTHER -> {}
RegistryPeers ==
    /\ Asked("peers", "intelligence")
    /\ UNCHANGED <<root, probes>>
    /\ LET peers == IF Registered(Root) THEN PeerOf(registry[Root]) \ {Root} ELSE {}
       IN  Adds([i \in 1 .. Cardinality(peers) |-> FromRegistry(Ascending(peers)[i])])

\* resolve_protocol_identity and _INTELLIGENCE_ROLE_MAP: the first sign decides.
Identity(signs) ==
    CASE signs \cap {"bridge", "dex", "lending", "oracle"} # {} -> "unknown"
      [] OTHER -> IF "vault" \in signs THEN "vault"
                  ELSE IF "governance" \in signs THEN "governor"
                  ELSE IF "token" \in signs THEN "token"
                  ELSE IF "timelock" \in signs THEN "timelock" ELSE "proxy"

\* _discover_from_intelligence: no entry when nothing is recognised
FromIntelligence ==
    /\ Asked("intelligence", "pools")
    /\ UNCHANGED <<root, probes>>
    /\ \E signs \in SUBSET Signs, score, least \in Scores :
          /\ signs = {} => score = least
          /\ Adds((IF signs = {} THEN <<>> ELSE <<Found(Root, Identity(signs), score)>>)
                  \o (IF "vault" \in signs THEN <<Found(Root, "strategy", least)>> ELSE <<>>)
                  \o (IF "oracle" \in signs THEN <<Found(Root, "oracle", least)>> ELSE <<>>))

LiquidityPools ==
    /\ Asked("pools", "linked")
    /\ UNCHANGED <<root, probes>>
    /\ \E pools \in SUBSET Pools :
          /\ Cardinality(pools) <= 3
          /\ Adds([i \in 1 .. Cardinality(pools) |-> Found(Ascending(pools)[i], "pool", 70)])

\* _discover_source_linked_contracts: the first five addresses in the source
SourceLinked ==
    /\ Asked("linked", "assemble")
    /\ UNCHANGED <<root, probes>>
    /\ \E linked \in Links :
          LET first == {a \in linked : Cardinality({b \in linked : b < a}) < 5}
              fresh == {a \in first \ probes : Registered(a)}
          IN  Adds([i \in 1 .. Cardinality(fresh) |-> FromRegistry(Ascending(fresh)[i])])

\* A probe raises and with it discover().
ProbeFails ==
    /\ \/ stage = "root"
       \/ stage = "proxy" /\ root.impl # None
       \/ stage = "governance" /\ root.admin # None
    /\ stage' = "failed"
    /\ UNCHANGED <<registry, root, probes, contracts, result, graph>>
-----------------------------------------------------------------------------
\* _dedupe_contracts: the first of the best entries of each address
F_Beats(new, old) == new.score >= old.score
Beats(new, old) == new.score > old.score
Best(entries) ==
    {entries[i] : i \in {j \in DOMAIN entries :
        \A k \in DOMAIN entries : entries[k].at = entries[j].at =>
            IF k < j THEN Beats(entries[j], entries[k]) ELSE k = j \/ ~Beats(entries[k], entries[j])}}

\* RelationshipDetector.detect over a sequence of entries
F_With(entries, role) == {e \in Best(entries) : e.role = role}
With(entries, role) == {e \in ToSet(entries) : e.role = role}
Between(from, to, type) == {<<f.at, t.at, type>> : f \in from, t \in to}
SameProtocol(a, b) == a.protocol # None /\ a.protocol = b.protocol

ProxyRelations(entries) ==
    LET impls == With(entries, "implementation")
        told(p) == {i \in impls : p.impl \in {None, i.at}}
    IN  UNION {Between({p}, IF told(p) = {} THEN impls ELSE told(p), "PROXY_TO_IMPLEMENTATION") :
                  p \in With(entries, "proxy")}

\* With both ends found they are paired by protocol; otherwise the registry's
\* router is taken, which may not be a contract of this discovery.
Paired(from, to, type) == UNION {Between({f}, {t \in to : SameProtocol(f, t)}, type) : f \in from}

DexRelations(entries) ==
    LET routers == With(entries, "router")
        factories == With(entries, "factory")
    IN  IF routers # {} /\ factories # {} THEN Paired(routers, factories, "ROUTER_TO_FACTORY")
        ELSE UNION {{<<r, f.at, "ROUTER_TO_FACTORY">> : r \in Peers(f.protocol, "router")} : f \in factories}

BridgeRelations(entries) ==
    Paired(With(entries, "bridge"), With(entries, "messenger"), "BRIDGE_TO_MESSENGER")

Relations(entries) ==
    ProxyRelations(entries)
    \cup Between(With(entries, "governor"), With(entries, "timelock"), "GOVERNOR_TO_TIMELOCK")
    \cup DexRelations(entries)
    \cup Between(With(entries, "vault"), With(entries, "strategy"), "VAULT_TO_STRATEGY")
    \cup BridgeRelations(entries)

\* _dedupe_relationships: only between contracts that are kept
F_Inner(relations, kept) == relations
Inner(relations, kept) == {r \in relations : {r[1], r[2]} \subseteq Known(kept)}

Least(scores) == CHOOSE s \in scores : \A t \in scores : s <= t

\* _aggregate_confidence
Rootish(kept) == {c \in kept : c.role = "root" \/ c.isRoot}
Confidence(kept) == Least({c.score : c \in IF Rootish(kept) # {} THEN Rootish(kept) ELSE kept})

Assemble ==
    /\ stage = "assemble"
    /\ LET kept == Best(contracts)
       IN  result' = [contracts |-> kept, relations |-> Inner(Relations(contracts), kept),
                      confidence |-> Confidence(kept)]
    /\ stage' = "graph"
    /\ UNCHANGED <<registry, root, probes, contracts, graph>>

\* ProtocolGraphBuilder.build returns the graph or raises on an invalid one.
BuildGraph ==
    /\ stage = "graph"
    /\ graph' = Graph(result.contracts, result.relations, Root)
    /\ stage' = IF Issues(graph') = {} THEN "built" ELSE "refused"
    /\ UNCHANGED <<registry, root, probes, contracts, result>>

DiscoveryNext ==
    \/ ProbeRoot
    \/ ProxyChain
    \/ GovernanceChain
    \/ RegistryPeers
    \/ FromIntelligence
    \/ LiquidityPools
    \/ SourceLinked
    \/ ProbeFails
    \/ Assemble
    \/ BuildGraph

DiscoverySpec == DiscoveryInit /\ [][DiscoveryNext]_discoveryVars
-----------------------------------------------------------------------------
Assembled == stage \in {"graph", "built", "refused"}

\* The root comes out of the discovery as what it went in, however many entries
\* the sources add about its address: as long as the intelligence is no surer of
\* its role than 95, the root stays the root (or its registered role) and the
\* confidence of the result is the root's own.
RootStands ==
    Assembled /\ (\A c \in ToSet(contracts) : c.score <= 95) =>
        /\ \E c \in Rootish(result.contracts) : c.at = Root
        /\ result.confidence = 95

\* An upgradeable root stays tied to its implementation: although the root's
\* PROXY entry loses to its root entry, the result has the implementation and
\* the relation to it.
ProxyIsTied ==
    Assembled /\ root.impl # None =>
        /\ root.impl \in Known(result.contracts)
        /\ <<Root, root.impl, "PROXY_TO_IMPLEMENTATION">> \in result.relations

\* The builder and the graph, which each drop relations to contracts they do not
\* know (a router only the registry has met), agree: every relation reported is
\* an edge, and a graph is refused for a contract related to itself or not at all.
RefusedForSelfLoops ==
    stage \in {"built", "refused"} =>
        /\ result.relations \subseteq graph.edges
        /\ stage = "refused" <=> (\E r \in result.relations : r[1] = r[2])
                                 \/ (\E c \in result.contracts : c.at = Root /\ c.role = "oracle")
=============================================================================
