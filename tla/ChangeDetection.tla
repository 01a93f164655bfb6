-------------------------- MODULE ChangeDetection --------------------------
(***************************************************************************)
(* What a monitoring cycle finds changed: DiffEngine over two snapshots of *)
(* one protocol, the immutable baseline and the current one.  A snapshot   *)
(* maps the addresses of its contracts to their fields.  The events of the *)
(* code are deduplicated by a hash of all they say, so they are a set.     *)
(*                                                                         *)
(* An operator named F_xxx is F with a bug, a mutant.                      *)
(***************************************************************************)
EXTENDS Naturals

CONSTANTS
    Addresses,      \* contracts a protocol may have
    Values,         \* field values: an owner, a hash, a fingerprint
    None            \* a field without a value

ASSUME ChangeDetectionAssumption == None \notin Values

\* CONTRACT_FIELDS, with the change each is reported as
ContractChange ==
    [proxy_implementation |-> "implementation_changed", owner |-> "owner_changed",
     proxy_admin |-> "proxy_admin_changed", bytecode_hash |-> "bytecode_changed",
     treasury |-> "treasury_changed"]
ProtocolChange ==
    [dependency |-> "dependency_changed", liquidity |-> "liquidity_changed",
     runtime |-> "runtime_fingerprint_changed"]

ContractFields == DOMAIN ContractChange
GovernanceFields == {"governor", "timelock"}
Fingerprints == DOMAIN ProtocolChange
ChangeTypes ==
    {ContractChange[f] : f \in ContractFields} \cup {"governance_changed"}
        \cup {ProtocolChange[f] : f \in Fingerprints}

Contract == [ContractFields \cup GovernanceFields \cup {"abi_hash"} -> Values \cup {None}]
IsSnapshot(s) ==
    /\ DOMAIN s.contracts \subseteq Addresses
    /\ \A a \in DOMAIN s.contracts : s.contracts[a] \in Contract
    /\ s.fingerprints \in [Fingerprints -> Values \cup {None}]

\* A contract that is not in a snapshot has no value in any field.
FieldOf(s, a, f) == IF a \in DOMAIN s.contracts THEN s.contracts[a][f] ELSE None

\* A contract without governance and no contract look the same.
F_Governance(s, a) == [f \in GovernanceFields |-> FieldOf(s, a, f)]

\* _governance_value: a text even when both are unset, nothing for no contract
Governance(s, a) ==
    IF a \in DOMAIN s.contracts
       THEN [f \in GovernanceFields |-> s.contracts[a][f]]
       ELSE [f \in {} |-> None]

ContractsOf(base, current) == DOMAIN base.contracts \cup DOMAIN current.contracts

ContractChanges(base, current, a) ==
    {[type |-> ContractChange[f], contracts |-> {a}] :
        f \in {x \in ContractFields : FieldOf(base, a, x) # FieldOf(current, a, x)}}
    \cup {[type |-> "governance_changed", contracts |-> {a}] :
            x \in {y \in {a} : Governance(base, a) # Governance(current, a)}}

ProtocolChanges(base, current) ==
    {[type |-> ProtocolChange[f], contracts |-> ContractsOf(base, current)] :
        f \in {x \in Fingerprints : base.fingerprints[x] # current.fingerprints[x]}}

Changes(base, current) ==
    (UNION {ContractChanges(base, current, a) : a \in ContractsOf(base, current)})
        \cup ProtocolChanges(base, current)

\* ChangeDetectionResult.unchanged
Unchanged(base, current) == Changes(base, current) = {}

\* What the detector watches: which contracts there are, their fields except the
\* ABI hash, and the fingerprints.
Watched(s) ==
    [contracts |-> [a \in DOMAIN s.contracts |->
                       [f \in ContractFields \cup GovernanceFields |-> s.contracts[a][f]]],
     fingerprints |-> s.fingerprints]
=============================================================================
