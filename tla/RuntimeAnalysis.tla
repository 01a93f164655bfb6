-------------------------- MODULE RuntimeAnalysis --------------------------
(***************************************************************************)
(* One transaction executed by an EVM, the external ground truth, and what *)
(* the engines of RuntimeIntelligence report of it.  The EVM calls, writes *)
(* and fails in any way an EVM can: a frame that fails takes back what it  *)
(* and the frames below it wrote, and its caller goes on or fails too.     *)
(***************************************************************************)
EXTENDS ExploitSimulation

CONSTANTS
    Entrances,   \* how a transaction may arrive: sequences of nested calls
    Calls,       \* the calls a frame may make: [type, to, selector, value]
    Worlds,      \* what the watched slots may hold before
    Writes,      \* the writes a frame may do: [slot, value]
    Contexts,    \* contexts a scenario is simulated in
    MaxFrames,   \* frames a trace may have besides its first
    MaxWrites,   \* writes an execution may do
    MaxFailures  \* frames that may fail

Slots == {"implementation", "owner", "governor", "proxy_admin", "paused", "allowance", "supply"}

Asked == Calls \cup UNION {Range(e) : e \in Entrances}
Amounts == {"allowance", "supply"}

\* No account runs at the zero address.
ASSUME RuntimeAssumption ==
    /\ \A c \in Asked : c.type \in CallTypes /\ c.to # NoAddress
    /\ \A e \in Entrances :
           /\ e \in Seq(Range(e)) /\ e # <<>>
           /\ Len(e) > 1 => \A i \in DOMAIN e : e[i].type = "CALL"
    /\ \A w \in Worlds : w \in [Slots -> Range(w)] /\ \A a \in Amounts : w[a] \in Int
    /\ \A w \in Writes : w.slot \in Slots /\ (w.slot \in Amounts => w.value \in Int)
    /\ MaxFrames \in Nat /\ MaxWrites \in Nat /\ MaxFailures \in Nat

VARIABLES
    stage,   \* "pending", "running", "mined", then "reported"; "classified"; "simulated"
    frames,  \* the trace so far
    open,    \* the frames that have not ended, the running one last
    world,   \* the watched slots
    before,  \* what they held before the transaction
    logs,    \* the events that stand
    writes,  \* writes done
    undone,  \* a frame that failed took a write back
    again,   \* a call was made while the same call was open
    report   \* the slots listed and the evidence of the engines, the category,
             \* the attack simulated

runtimeVars == <<stage, frames, open, world, before, logs, writes, undone, again, report>>

NoReport ==
    [listed |-> {}, trace |-> {}, state |-> {}, transaction |-> {}, category |-> "none",
     attack |-> "none", context |-> "none", found |-> {}]

RuntimeInit ==
    /\ stage = "pending"
    /\ world \in Worlds
    /\ before = world
    /\ frames = <<>> /\ open = <<>>
    /\ logs = {} /\ writes = 0
    /\ undone = FALSE /\ again = FALSE
    /\ report = NoReport

------------------------------------------------------------------------------
(* The EVM *)

\* An open frame: the account it acts for, and what its failure restores
Opened(i, account, static) ==
    [frame |-> i, account |-> account, static |-> static, world |-> world, logs |-> logs]
Running == Last(open)

Begin(entrance) ==
    /\ stage = "pending"
    /\ stage' = "running"
    /\ LET caller(i) == IF i = 1 THEN "sender" ELSE entrance[i - 1].to
       IN  frames' = [i \in DOMAIN entrance |->
               Frame(entrance[i].type, caller(i), entrance[i].to, entrance[i].selector,
                     entrance[i].value, i - 1, i - 1)]
    /\ open' = [i \in DOMAIN entrance |-> Opened(i, entrance[i].to, FALSE)]
    /\ again' = \E i, j \in DOMAIN entrance : i # j /\ SameCall(frames'[i], frames'[j])
    /\ UNCHANGED <<world, before, logs, writes, undone, report>>

Entered(c) ==
    Frame(c.type, Running.account, c.to, c.selector, c.value, Running.frame, Len(open))

Call(c) ==
    /\ stage = "running" /\ c.type # "SELFDESTRUCT"
    /\ Len(frames) <= MaxFrames
    /\ Running.static => c.type # "CREATE" /\ ~c.value
    /\ frames' = Append(frames, Entered(c))
    /\ open' = Append(open, Opened(Len(frames) + 1,
                                 IF c.type = "DELEGATECALL" THEN Running.account ELSE c.to,
                                 Running.static \/ c.type = "STATICCALL"))
    /\ again' = (again \/ \E o \in Range(open) : SameCall(frames[o.frame], Entered(c)))
    /\ UNCHANGED <<stage, world, before, logs, writes, undone, report>>

\* The event a token or an ownable contract emits for the write, under its hash
Event(w) ==
    If(w.slot = "owner", [topic |-> "hash", event |-> "OwnershipTransferred", value |-> 0])
    \cup If(w.slot = "allowance", [topic |-> "hash", event |-> "Approval", value |-> w.value])

Write(w) ==
    /\ stage = "running" /\ ~Running.static
    /\ writes < MaxWrites
    /\ world[w.slot] # w.value
    /\ writes' = writes + 1
    /\ world' = [world EXCEPT ![w.slot] = w.value]
    /\ logs' = logs \cup Event(w)
    /\ UNCHANGED <<stage, frames, open, before, undone, again, report>>

\* The running frame ends, and with the last one the transaction.
End ==
    /\ stage = "running"
    /\ open' = Front(open)
    /\ stage' = IF Len(open) = 1 THEN "mined" ELSE "running"

Return ==
    /\ End
    /\ UNCHANGED <<frames, world, before, logs, writes, undone, again, report>>

Destroy(c) ==
    /\ End
    /\ c.type = "SELFDESTRUCT" /\ ~Running.static
    /\ Len(frames) <= MaxFrames
    /\ frames' = Append(frames, Entered(c))
    /\ UNCHANGED <<world, before, logs, writes, undone, again, report>>

Revert ==
    /\ End
    /\ Cardinality(Failures(frames)) < MaxFailures
    /\ frames' = [frames EXCEPT ![Running.frame].failed = TRUE]
    /\ world' = Running.world
    /\ logs' = Running.logs
    /\ undone' = (undone \/ world # Running.world)
    /\ UNCHANGED <<before, writes, again, report>>

------------------------------------------------------------------------------
(* The engines *)

Changed(slot) == world[slot] # before[slot]
Net == {slot \in Slots : Changed(slot)}

\* The slots the state provider may list: those that changed, with storage slots
\* that were only read, or with all that were.
Listings == {Net, Net \cup StorageSlots, Slots}

\* The trace and the state engine, given the slots the state provider lists
Analyze(listed) ==
    /\ stage = "mined"
    /\ stage' = "reported"
    /\ LET diffs == {Diff(s, before[s], world[s]) : s \in listed}
       IN  report' = [report EXCEPT !.listed = listed,
                                    !.trace = Graded(TraceSignals(frames, {})),
                                    !.state = StateEvidence(diffs, logs, frames)]
    /\ UNCHANGED <<frames, open, world, before, logs, writes, undone, again>>

\* The transaction engine is given an envelope, before or without the others.
Classify ==
    /\ stage = "pending"
    /\ stage' = "classified"
    /\ \E tx \in Transactions :
        /\ ~Raises(tx)
        /\ report' = [report EXCEPT !.transaction = TransactionSignals(tx), !.category = Category(tx)]
    /\ UNCHANGED <<frames, open, world, before, logs, writes, undone, again>>

\* An attack of the library is simulated, with no transaction at all.
Simulate(attack, c) ==
    /\ stage = "pending"
    /\ stage' = "simulated"
    /\ report' = [report EXCEPT !.attack = attack, !.context = c, !.found = Found(attack, c)]
    /\ UNCHANGED <<frames, open, world, before, logs, writes, undone, again>>

RuntimeNext ==
    \/ \E e \in Entrances : Begin(e)
    \/ \E c \in Calls : Call(c) \/ Destroy(c)
    \/ \E w \in Writes : Write(w)
    \/ Return
    \/ Revert
    \/ \E listed \in Listings : Analyze(listed)
    \/ Classify
    \/ \E a \in DOMAIN Attacks, c \in Contexts : Simulate(a, c)

RuntimeSpec == RuntimeInit /\ [][RuntimeNext]_runtimeVars

------------------------------------------------------------------------------
(* Properties *)

TraceTold == Signals(report.trace)
StateTold == Signals(report.state)

\* What a transaction really did is told: a call it made again while that call
\* was open, and, net of all that failed, a new implementation, a new holder of
\* an authority, an unlimited allowance, and the way and size in which the
\* supply moved (emit_runtime_evidence, emit_state_evidence).
ChangesAreTold ==
    stage = "reported" =>
        /\ again => "recursive_execution" \in TraceTold
        /\ Changed("implementation") => "implementation_changed" \in StateTold
        /\ (\E r \in Range(Roles) : Changed(r)) => "owner_changed" \in StateTold
        /\ Changed("allowance") /\ world["allowance"] >= Unlimited => "unlimited_allowance_granted" \in StateTold
        /\ LET delta == world["supply"] - before["supply"]
           IN  /\ delta >= LargeDelta => "large_supply_inflation" \in StateTold
               /\ delta > 0 => StateTold \cap {"large_supply_inflation", "supply_mint"} # {}
               /\ delta < 0 => "supply_burn" \in StateTold

\* A transaction's category and its evidence agree, although an approval hides
\* an operation, two spellings of a burn are one, and the registry, a verified
\* ABI and the name each have a say (TransactionClassifier.classify against
\* emit_transaction_evidence).
CategoryIsBacked ==
    stage = "classified" =>
        LET backs(category, signal) == (report.category = category) <=> (signal \in report.transaction)
        IN  /\ backs("upgrade", "upgrade_executed")
            /\ backs("mint", "privileged_mint")
            /\ backs("burn", "privileged_burn")
            /\ report.transaction \cap {"token_approval", "unlimited_approval"} # {} => report.category = "approval"

\* A slot the provider lists though it is as it was
OnlyRead(slot) == slot \in report.listed /\ ~Changed(slot)

\* Nothing is told that did not last: a change that a failing frame took back,
\* a write that restored a slot and a slot that was only read give no evidence,
\* but for one, an allowance that was unlimited already: AllowanceAnalyzer does
\* not compare, and tells of it as granted whenever it is listed.  The highest
\* severity of an authority is that of the proxy's admin alone, and a state
\* transition is observed only where no frame lost its writes; and the category
\* of a transaction has its evidence.
ToldIsTrue ==
    /\ CategoryIsBacked
    /\ stage = "reported" =>
           /\ "implementation_changed" \in StateTold => Changed("implementation")
           /\ "owner_changed" \in StateTold => \E r \in Range(Roles) : Changed(r)
           /\ [signal |-> "owner_changed", severity |-> "high"] \in report.state =>
                  \A r \in Range(Roles) : Changed(r) <=> r = "proxy_admin"
           /\ "unlimited_allowance_granted" \in StateTold =>
                  world["allowance"] >= Unlimited /\ (Changed("allowance") \/ OnlyRead("allowance"))
           /\ StateTold \cap {"large_supply_inflation", "supply_mint"} # {} => world["supply"] > before["supply"]
           /\ "state_transition_observed" \in StateTold => ~undone

\* A context that leaves no fallback: the change it asks for is one.
Complete(c) ==
    /\ NoAddress \notin {c.implementation, c.newImplementation, c.owner, c.newOwner, c.recipient}
    /\ c.implementation # c.newImplementation
    /\ c.owner # c.newOwner
    /\ c.actor # c.recipient
    /\ c.contract \notin {NoAddress, c.newImplementation}

\* What a simulated scenario predicts of the state is what is told of a real
\* transaction with that net effect and no failure, unless its report tells of an
\* allowance that was only read (SimulationEngine.simulate).  And of the evidence
\* its definition expects (expected_evidence in attack_library), an attack
\* simulated in a complete context misses no more and no less than Unmet: the
\* mint and the oracle attack never find all that theirs declare.
PredictionsHold ==
    /\ stage = "reported" /\ Failures(frames) = {} /\ ~OnlyRead("allowance") =>
           LET diffs == {Diff(slot, before[slot], world[slot]) : slot \in Net}
           IN  \A s \in Scenarios, c \in Contexts :
                   Complete(c) /\ diffs = PredictedDiffs(s, c) => StateTold = PredictedState(s, c)
    /\ stage = "simulated" /\ Complete(report.context) =>
           Expected[report.attack] \ report.found = Expected[report.attack] \cap Unmet
=============================================================================
