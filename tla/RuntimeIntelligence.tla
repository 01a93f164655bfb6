------------------------ MODULE RuntimeIntelligence ------------------------
(***************************************************************************)
(* What the engines of runtime intelligence say of one transaction: the    *)
(* transaction engine of its envelope and call data, the trace engine of   *)
(* its call frames, the state engine of its net effect.  Evidence is a set *)
(* of [signal, severity], one for each signal (merge_evidence).            *)
(*                                                                         *)
(* Amounts are orders of magnitude: an allowance of 2 is unlimited (10^30  *)
(* and more), a supply that moves by LargeDelta moves by 10^24 or more.    *)
(*                                                                         *)
(* An operator named F_xxx is F with a bug, a mutant.                      *)
(***************************************************************************)
EXTENDS Integers, FiniteSets, Sequences, SequencesExt

CONSTANTS NoAddress   \* None, and the zero address

Unlimited == 2
LargeDelta == 2
DeepPath == 4         \* the depth from which a path is deep

If(condition, signal) == IF condition THEN {signal} ELSE {}
Signals(evidence) == {e.signal : e \in evidence}

Severity ==
    [delegatecall_chain |-> "high", proxy_execution |-> "medium", runtime_create |-> "medium",
     runtime_selfdestruct |-> "high", recursive_execution |-> "medium", flash_loan_callback |-> "medium",
     unexpected_external_call |-> "high", execution_revert |-> "medium", deep_execution_path |-> "low",
     implementation_changed |-> "high", unlimited_allowance_granted |-> "high",
     large_supply_inflation |-> "high", supply_mint |-> "medium", supply_burn |-> "low",
     state_transition_observed |-> "info"]
Graded(signals) == {[signal |-> s, severity |-> Severity[s]] : s \in signals}

------------------------------------------------------------------------------
(* The trace: frames in the order they were entered, 0 the parent of the root *)

CallTypes == {"CALL", "STATICCALL", "DELEGATECALL", "CREATE", "SELFDESTRUCT"}
Children(frames, i) == {j \in DOMAIN frames : frames[j].parent = i}
OfType(frames, type) == {i \in DOMAIN frames : frames[i].type = type}

\* CallClassifier
Classification(frame) ==
    CASE frame.type = "CREATE" -> "creation"
      [] frame.type = "SELFDESTRUCT" -> "destruction"
      [] frame.type = "DELEGATECALL" -> "delegate"
      [] frame.type = "STATICCALL" -> "static"
      [] frame.type = "CALL" /\ frame.depth = 0 -> "top_level"
      [] frame.type = "CALL" /\ frame.depth > 0 /\ frame.value /\ frame.selector = "none" -> "value_transfer"
      [] frame.type = "CALL" /\ frame.depth = 1 /\ ~(frame.value /\ frame.selector = "none") -> "external"
      [] OTHER -> "internal"

DelegatecallEvents(frames) ==
    If(Cardinality(OfType(frames, "DELEGATECALL")) >= 2, "delegatecall_chain")
    \cup If(\E i \in OfType(frames, "DELEGATECALL") :
              LET parent == frames[i].parent
              IN  parent # 0 /\ NoAddress \notin {frames[parent].to, frames[i].to}
                             /\ frames[parent].to # frames[i].to,
            "proxy_execution")

SameCall(f, g) == f.from = g.from /\ f.to = g.to /\ f.selector = g.selector

\* Only the caller's own frame is compared.
F_Recursive(frames) ==
    \E i \in DOMAIN frames :
        frames[i].parent # 0 /\ frames[i].to # NoAddress /\ SameCall(frames[i], frames[frames[i].parent])

\* A call seen before, under its caller or beside it.
Recursive(frames) ==
    \E i, j \in DOMAIN frames : i # j /\ frames[i].to # NoAddress /\ SameCall(frames[i], frames[j])

\* The known selectors, and those that start as one of them does: burn(uint256)
\* is 42966c68 and safeTransferFrom(address,address,uint256) is 42842e0e.
FlashLoans == {"flashLoan", "sendMessage"}
LooksLikeFlashLoan == {"burn", "safeTransferFrom"}
FlashLoanCallback(frames) ==
    \E i \in DOMAIN frames :
        frames[i].selector \in FlashLoans \cup LooksLikeFlashLoan /\ Children(frames, i) # {}

\* No frame below depth 1 is external: the classifier calls it internal.
UnexpectedExternalCall(frames, trusted) ==
    \E i \in DOMAIN frames :
        /\ Classification(frames[i]) \in {"external", "top_level"}
        /\ frames[i].to \notin trusted \cup {NoAddress}
        /\ frames[i].depth > 1

\* RevertAnalyzer: the frames that ended with an error
Failures(frames) == {i \in DOMAIN frames : frames[i].failed}
DeepestDepth(frames) == CHOOSE d \in {f.depth : f \in Range(frames)} : \A f \in Range(frames) : f.depth <= d

TraceSignals(frames, trusted) ==
    DelegatecallEvents(frames)
    \cup If(OfType(frames, "CREATE") # {}, "runtime_create")
    \cup If(OfType(frames, "SELFDESTRUCT") # {}, "runtime_selfdestruct")
    \cup If(Recursive(frames), "recursive_execution")
    \cup If(FlashLoanCallback(frames), "flash_loan_callback")
    \cup If(UnexpectedExternalCall(frames, trusted), "unexpected_external_call")
    \cup If(Failures(frames) # {}, "execution_revert")
    \cup If(DeepestDepth(frames) >= DeepPath, "deep_execution_path")

------------------------------------------------------------------------------
(* The net effect: diffs a set of [slot, before, after], logs the events *)

\* The slots StorageAnalyzer knows that hold an authority, as OwnershipAnalyzer ranks them
Roles == <<"governor", "owner", "proxy_admin">>
StorageSlots == {"implementation", "paused"} \cup Range(Roles)

\* A slot that was only read is listed by the provider too.
F_StorageChanges(diffs) == {d \in diffs : d.slot \in StorageSlots}
StorageChanges(diffs) == {d \in diffs : d.slot \in StorageSlots /\ d.before # d.after}

\* EventStateMapper knows an event by the topic constants of its own module,
\* none of which is the hash an EVM writes for the event.
Mapped(logs) == {l \in logs : l.topic = "constant"}

RolesChanged(diffs, logs) ==
    {d.slot : d \in {d \in StorageChanges(diffs) : d.slot \in Range(Roles)}}
    \cup If(\E l \in Mapped(logs) : l.event = "OwnershipTransferred", "owner")

AllowancesGranted(diffs, logs) ==
    (\E d \in diffs : d.slot = "allowance" /\ d.after >= Unlimited)
    \/ (\E l \in Mapped(logs) : l.event = "Approval" /\ l.value >= Unlimited)

SupplySignals(diffs) ==
    {CASE d.after - d.before >= LargeDelta -> "large_supply_inflation"
       [] d.after - d.before \in 1 .. (LargeDelta - 1) -> "supply_mint"
       [] d.after < d.before -> "supply_burn" : d \in {d \in diffs : d.slot = "supply" /\ d.before # d.after}}

\* All changes of an authority have one evidence id: the first role stands for all.
OwnershipEvidence(roles) ==
    IF roles = {} THEN {}
    ELSE LET first == CHOOSE i \in 1 .. Len(Roles) : Roles[i] \in roles /\ \A j \in 1 .. (i - 1) : Roles[j] \notin roles
         IN  {[signal |-> "owner_changed",
               severity |-> IF Roles[first] = "proxy_admin" THEN "high" ELSE "medium"]}

\* emit_state_evidence; frames is the trace the report is correlated with
StateEvidence(diffs, logs, frames) ==
    OwnershipEvidence(RolesChanged(diffs, logs))
    \cup Graded(
        If(\E d \in StorageChanges(diffs) : d.slot = "implementation", "implementation_changed")
        \cup If(AllowancesGranted(diffs, logs), "unlimited_allowance_granted")
        \cup SupplySignals(diffs)
        \cup If(Failures(frames) = {}, "state_transition_observed"))

------------------------------------------------------------------------------
(* The transaction: what its call data asks for, whatever became of it *)

\* The functions whose selector the registry knows, with the category it gives them
Registry ==
    [approve |-> "approval", permit |-> "approval", setApprovalForAll |-> "approval",
     transfer |-> "transfer", safeTransferFrom |-> "transfer",
     upgradeTo |-> "upgrade", upgradeToAndCall |-> "upgrade", setImplementation |-> "upgrade",
     pause |-> "governance", mint |-> "mint", burn |-> "burn", burnFrom |-> "burn",
     transferOwnership |-> "governance", renounceOwnership |-> "governance", grantRole |-> "governance",
     execute |-> "governance", swapExactTokensForTokens |-> "swap", addLiquidity |-> "liquidity",
     sendMessage |-> "bridge", initialize |-> "deployment"]

\* The functions with a selector of their own that only a verified ABI names
Unregistered == [swapTokens |-> "swap", flashLoanSimple |-> "flash_loan", bridgeAsset |-> "bridge"]

Upgrades == {"upgradeTo", "upgradeToAndCall", "setImplementation"}
Authorities == {"transferOwnership", "grantRole"}
Abilities == {"mint", "burn", "pause"}

\* An envelope: to, the selector of its call data ("none": less than four bytes),
\* whether a verified ABI has the function and its name there, its payload and
\* what that asks for (amount: 0 little or none, 1 large, Unlimited), and the
\* value sent (0 none, 1 some, 2 large).
Transactions ==
    [to : {"contract", NoAddress}, selector : DOMAIN Registry \cup {"other", "none"},
     name : DOMAIN Unregistered \cup {"mint"}, verified : BOOLEAN,
     payload : {"none", "malformed", "good"}, amount : 0 .. Unlimited, value : 0 .. 2]

\* ABIDecoder: the verified ABI, then the registry
Decoded(tx) == tx.selector # "none"
DecodedByAbi(tx) == Decoded(tx) /\ tx.verified /\ tx.to # NoAddress
FunctionName(tx) ==
    IF tx.selector \in DOMAIN Registry THEN tx.selector
    ELSE IF DecodedByAbi(tx) THEN tx.name ELSE "unknown"
WithoutParameters == {"pause", "renounceOwnership"}
HasArguments(tx) ==
    /\ tx.payload = "good"
    /\ tx.selector \in DOMAIN Registry \ WithoutParameters \/ DecodedByAbi(tx)

\* A payload the verified ABI cannot decode raises, as does a safeTransferFrom
\* without arguments: there is no report.
Raises(tx) ==
    \/ DecodedByAbi(tx) /\ tx.payload = "malformed" /\ tx.selector \notin WithoutParameters
    \/ tx.selector = "safeTransferFrom" /\ ~HasArguments(tx)

\* ApprovalAnalyzer, and whether what it found is unlimited
Approves(tx) ==
    /\ tx.to # NoAddress
    /\ HasArguments(tx)
    /\ \/ tx.selector \in {"approve", "permit"}
       \/ tx.selector = "setApprovalForAll" /\ tx.amount > 0
UnlimitedApproval(tx) == tx.selector = "setApprovalForAll" \/ tx.amount >= Unlimited

\* burnFrom has no operation of its own.
F_PrivilegedOperation(tx) ==
    IF tx.to # NoAddress /\ Decoded(tx) THEN {FunctionName(tx)} \cap (Upgrades \cup Authorities \cup Abilities) ELSE {}

\* PrivilegeAnalyzer: by selector, then by name; burnFrom's operation is a burn
PrivilegedOperation(tx) ==
    LET named == IF FunctionName(tx) = "burnFrom" THEN "burn" ELSE FunctionName(tx)
    IN  IF tx.to # NoAddress /\ Decoded(tx) THEN {named} \cap (Upgrades \cup Authorities \cup Abilities) ELSE {}

\* LARGE_VALUE_THRESHOLD of the first amount of a mint or a burn, or of the value sent
LargeTransfer(tx) ==
    \/ HasArguments(tx) /\ FunctionName(tx) \in {"mint", "burn"} /\ tx.amount >= 1
    \/ tx.value = 2

\* TransactionClassifier: the first of creation, approval, privileged
\* operation, registry, name and transfer that applies
Category(tx) ==
    LET asked == PrivilegedOperation(tx)
    IN  IF tx.to = NoAddress THEN "deployment"
        ELSE IF Approves(tx) THEN "approval"
        ELSE IF asked # {} THEN
            IF asked \subseteq Upgrades THEN "upgrade"
            ELSE IF asked \subseteq {"mint", "burn"} THEN CHOOSE o \in asked : TRUE ELSE "governance"
        ELSE IF tx.selector \in DOMAIN Registry THEN Registry[tx.selector]
        ELSE IF FunctionName(tx) \in DOMAIN Unregistered /\ Decoded(tx) THEN Unregistered[FunctionName(tx)]
        ELSE IF tx.value > 0 THEN "transfer" ELSE "unknown"

\* The signal of a category, and that of an operation that is not an upgrade
Classified ==
    [deployment |-> "transaction_deployment", approval |-> "transaction_approval",
     upgrade |-> "transaction_upgrade", governance |-> "transaction_governance",
     mint |-> "transaction_mint", burn |-> "transaction_burn", transfer |-> "transaction_transfer",
     swap |-> "transaction_swap", liquidity |-> "transaction_liquidity", bridge |-> "transaction_bridge",
     flash_loan |-> "transaction_flash_loan", unknown |-> "transaction_unknown"]
Privileged ==
    [transferOwnership |-> "privileged_transferOwnership", grantRole |-> "privileged_grantRole",
     mint |-> "privileged_mint", burn |-> "privileged_burn", pause |-> "privileged_pause"]

\* emit_transaction_evidence, the signals
TransactionSignals(tx) ==
    {Classified[Category(tx)]}
    \cup If(Approves(tx), IF UnlimitedApproval(tx) THEN "unlimited_approval" ELSE "token_approval")
    \cup {IF o \in Upgrades THEN "upgrade_executed" ELSE Privileged[o] : o \in PrivilegedOperation(tx)}
    \cup If(PrivilegedOperation(tx) # {} /\ LargeTransfer(tx), "large_privileged_transfer")
=============================================================================
