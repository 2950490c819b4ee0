-------------------------- MODULE DeploymentProofs ---------------------------
(***************************************************************************)
(* Proofs, for any number of commands and lost transactions, that the      *)
(* deployment scripts hand over what they print and lock nobody out.       *)
(***************************************************************************)
EXTENDS Deployment, WellFoundedInduction, SequenceTheorems, TLAPS

Ops == {"new", "grantProposer", "openExecutor", "revokeAdmin", "delegate",
        "setDelegationManager", "transferOwnership"}

Names == {"SPYToken", "Timelock", "Governor", "StakeManager", "DelegationManager",
          "SlashingManager", "RewardsDistributor", "Curation", "DelegationPool",
          "WormholeBridge", "WormholeReceiver"}

\* The files a command has read before it starts the child process of a stage.
Before == [governance |-> {}, staking |-> {}, curation |-> {"governance"},
           delegation |-> {"governance", "staking"},
           saving |-> {"governance", "staking"}, bridge |-> {"governance", "curation"}]

\* The contracts a script takes as arguments.
Foreign(s) == {n \in DOMAIN Source : Source[n] \in Before[s] \cup Needs[s]}

\* The scripts deployAll runs after s.
Later == [governance |-> {"staking", "curation", "delegation"},
          staking |-> {"curation", "delegation"}, curation |-> {"delegation"},
          delegation |-> {}, bridge |-> {}]

-----------------------------------------------------------------------------
(* The inductive invariant.                                                *)

Args == UNION {[names -> Runs] : names \in SUBSET Names}
Txs == [op : Ops, on : Names, at : Runs, args : Args]

\* The transaction step k of the current script sends.
Sent(k) ==
    LET step == Steps(stage)[k]
    IN  [op |-> step.op, on |-> step.on, at |-> Known(step.on),
         args |-> [n \in step.uses |-> Known(n)]]

\* The command is where it can be, and what it has read and what the operator
\* has saved was printed by the script the file belongs to.
Control ==
    /\ run \in 0..MaxRuns
    /\ stage \in Scripts \cup {"idle", "saving"}
    /\ pc \in 0..(IF stage \in Scripts THEN Len(Steps(stage)) + 1 ELSE 0)
    /\ stage # "idle" => run \in Runs
    /\ \A p \in printed : /\ p = <<p[1], p[2]>>
                          /\ p[1] \in Scripts
                          /\ p[2] \in Summaries(p[1])
    /\ DOMAIN read = ReadBack \cup {"curation"}
    /\ \A f \in DOMAIN read : read[f] # NoFile => <<f, read[f]>> \in printed
    /\ DOMAIN files = ReadBack
    /\ \A f \in ReadBack : files[f] # NoFile => <<f, files[f]>> \in printed
    /\ all = NoFile \/ all \in [UNION {Listed(f) : f \in ReadBack} -> Runs]
    /\ stage # "idle" => \A f \in Before[stage] : read[f] # NoFile
    /\ pc > 0 => \A f \in Needs[stage] : read[f] # NoFile

\* No command still has this transaction to send.
Past(tx) ==
    /\ tx.at <= run
    /\ tx.at = run /\ stage \in Scripts =>
           /\ \A k \in 1..Len(Steps(stage)) :
                  k >= pc => ~ (Steps(stage)[k].op = tx.op /\ Steps(stage)[k].on = tx.on)
           /\ \A s \in Later[stage] : tx.on \notin Deploys(s)

\* A transaction is broadcast once, and executed once.
Queue ==
    /\ mined \subseteq Txs
    /\ lost \subseteq Txs
    /\ pending \in Seq(Txs \cup {NoTx})
    /\ \A tx \in mined : Past(tx)
    /\ \A i \in DOMAIN pending : pending[i] # NoTx => Past(pending[i]) /\ pending[i] \notin mined
    /\ \A i, j \in DOMAIN pending : i # j /\ pending[i] = pending[j] => pending[i] = NoTx

\* The script waits for the transaction it sent last.
Waiting ==
    awaited # NoTx =>
        /\ stage \in Scripts
        /\ pc - 1 \in 1..Len(Steps(stage))
        /\ Steps(stage)[pc - 1].wait
        /\ awaited = Sent(pc - 1)
        /\ awaited \in mined \cup lost \cup Range(pending)

\* What the script has waited for is on chain.
Answered ==
    stage \in Scripts =>
        \A k \in 1..Len(Steps(stage)) :
            /\ k < pc
            /\ Steps(stage)[k].wait
            /\ k = pc - 1 => awaited = NoTx
            => Sent(k) \in mined

\* The pool a summary lists was deployed for what the summary lists beside it.
PoolFor(summary) ==
    \E tx \in mined :
        /\ tx.op = "new" /\ tx.on = "DelegationPool"
        /\ tx.at = summary["DelegationPool"]
        /\ \A n \in DOMAIN tx.args : n \in Listed("delegation") /\ tx.args[n] = summary[n]

\* What was printed and what was saved is in place.
Handed ==
    /\ PrintedInPlace
    /\ \A p \in printed : p[1] = "delegation" => PoolFor(p[2])
    /\ PoolWired

IsGrant(tx, r) == tx.op = "grantProposer" /\ tx.on = "Timelock" /\ tx.at = r

\* The role is granted, or the grant is before nonce k.
GrantedBefore(k, r) ==
    \/ Done("grantProposer", "Timelock", r)
    \/ \E j \in DOMAIN pending : j < k /\ IsGrant(pending[j], r)

\* Every role given up was granted.
GivenUpLate ==
    \A m \in mined : m.op = "revokeAdmin" => Done("grantProposer", "Timelock", m.at)

\* While no transaction is lost, a role is given up after the grant only.
Roles ==
    lost = {} =>
        /\ Gaps(pending) = {}
        /\ stage = "governance" /\ pc > 4 => GrantedBefore(Len(pending) + 1, run)
        /\ \A k \in DOMAIN pending :
               pending[k].op = "revokeAdmin" => GrantedBefore(k, pending[k].at)
        /\ GivenUpLate

-----------------------------------------------------------------------------
(* The scripts.                                                            *)

\* The scripts there are.
LEMMA ScriptsAre ==
    Scripts = {"governance", "staking", "curation", "delegation", "bridge"}
BY DEF Scripts, Script

\* How many transactions each script sends, and what it prints.
LEMMA Lengths ==
    /\ Len(Steps("governance")) = 7
    /\ Len(Steps("staking")) = 5
    /\ Len(Steps("curation")) = 2
    /\ Len(Steps("delegation")) = 2
    /\ Len(Steps("bridge")) = 4
    /\ \A s \in Scripts : DOMAIN Steps(s) = 1 .. Len(Steps(s))
<1> USE DEF Steps, Script
<1>1. Len(Steps("governance")) = 7 /\ DOMAIN Steps("governance") = 1 .. 7
  BY DEF GovernanceScript
<1>2. Len(Steps("staking")) = 5 /\ DOMAIN Steps("staking") = 1 .. 5
  BY DEF StakingScript
<1>3. Len(Steps("curation")) = 2 /\ DOMAIN Steps("curation") = 1 .. 2
  BY DEF CurationScript
<1>4. Len(Steps("delegation")) = 2 /\ DOMAIN Steps("delegation") = 1 .. 2
  BY DEF DelegationScript
<1>5. Len(Steps("bridge")) = 4 /\ DOMAIN Steps("bridge") = 1 .. 4
  BY DEF BridgeScript
<1> HIDE DEF Steps, Script
<1> QED
  BY <1>1, <1>2, <1>3, <1>4, <1>5, ScriptsAre

\* The transactions of deployGovernance.ts.
LEMMA GovernanceSteps ==
    /\ Steps("governance")[1] = New("SPYToken", {})
    /\ Steps("governance")[2] = New("Timelock", {})
    /\ Steps("governance")[3] = New("Governor", {"SPYToken", "Timelock"})
    /\ Steps("governance")[4] = Send("grantProposer", "Timelock", {"Governor"})
    /\ Steps("governance")[5] = Send("openExecutor", "Timelock", {})
    /\ Steps("governance")[6] = Send("revokeAdmin", "Timelock", {})
    /\ Steps("governance")[7] = Send("delegate", "SPYToken", {})
    /\ \A k \in 1 .. 7 : k \in {1, 2, 3, 4, 5, 6, 7}
BY DEF Steps, Script, GovernanceScript

\* The transactions of deployStaking.ts.
LEMMA StakingSteps ==
    /\ Steps("staking")[1] = New("StakeManager", {"SPYToken"})
    /\ Steps("staking")[2] = New("DelegationManager", {"SPYToken", "StakeManager"})
    /\ Steps("staking")[3] = Call("setDelegationManager", "StakeManager", {"DelegationManager"})
    /\ Steps("staking")[4] = New("SlashingManager", {"StakeManager"})
    /\ Steps("staking")[5] = New("RewardsDistributor", {"SPYToken", "StakeManager"})
    /\ \A k \in 1 .. 5 : k \in {1, 2, 3, 4, 5}
BY DEF Steps, Script, StakingScript

\* The transactions of deployCuration.ts.
LEMMA CurationSteps ==
    /\ Steps("curation")[1] = New("Curation", {"SPYToken"})
    /\ Steps("curation")[2] = Call("transferOwnership", "Curation", {"Governor"})
    /\ \A k \in 1 .. 2 : k \in {1, 2}
BY DEF Steps, Script, CurationScript

\* The transactions of deployDelegation.ts.
LEMMA DelegationSteps ==
    /\ Steps("delegation")[1] =
           New("DelegationPool", {"SPYToken", "StakeManager", "RewardsDistributor"})
    /\ Steps("delegation")[2] = Call("transferOwnership", "DelegationPool", {"Governor"})
    /\ \A k \in 1 .. 2 : k \in {1, 2}
BY DEF Steps, Script, DelegationScript

\* The transactions of deployBridge.ts.
LEMMA BridgeSteps ==
    /\ Steps("bridge")[1] = New("WormholeBridge", {})
    /\ Steps("bridge")[2] = Call("transferOwnership", "WormholeBridge", {"Governor"})
    /\ Steps("bridge")[3] = New("WormholeReceiver", {"Curation"})
    /\ Steps("bridge")[4] = Call("transferOwnership", "WormholeReceiver", {"Governor"})
    /\ \A k \in 1 .. 4 : k \in {1, 2, 3, 4}
BY DEF Steps, Script, BridgeScript

\* What a script deploys is what it has a step for.
LEMMA DeploysStep ==
    ASSUME NEW s \in Scripts
    PROVE  Deploys(s) = {Steps(s)[k].on : k \in {j \in 1 .. Len(Steps(s)) : Steps(s)[j].op = "new"}}
BY Lengths DEF Deploys, Range

\* What each script deploys.
LEMMA Deployed ==
    /\ Deploys("governance") = {"SPYToken", "Timelock", "Governor"}
    /\ Deploys("staking") = {"StakeManager", "DelegationManager", "SlashingManager",
                             "RewardsDistributor"}
    /\ Deploys("curation") = {"Curation"}
    /\ Deploys("delegation") = {"DelegationPool"}
    /\ Deploys("bridge") = {"WormholeBridge", "WormholeReceiver"}
<1> DEFINE News(s) == {j \in 1 .. Len(Steps(s)) : Steps(s)[j].op = "new"}
<1>1. Deploys("governance") = {"SPYToken", "Timelock", "Governor"}
  <2>1. News("governance") = {1, 2, 3}
    <3>1. \A j \in 1 .. 7 : Steps("governance")[j].op = "new" <=> j \in {1, 2, 3}
      BY GovernanceSteps DEF New, Send
    <3> QED
      BY <3>1, Lengths
  <2>2. Deploys("governance") = {Steps("governance")[k].on : k \in {1, 2, 3}}
    BY <2>1, ScriptsAre, DeploysStep
  <2> QED
    BY <2>2, GovernanceSteps DEF New
<1>2. Deploys("staking") = {"StakeManager", "DelegationManager", "SlashingManager",
                            "RewardsDistributor"}
  <2>1. News("staking") = {1, 2, 4, 5}
    BY Lengths, StakingSteps DEF New, Call
  <2>2. Deploys("staking") = {Steps("staking")[k].on : k \in {1, 2, 4, 5}}
    BY <2>1, ScriptsAre, DeploysStep
  <2> QED
    BY <2>2, StakingSteps DEF New
<1>3. Deploys("curation") = {"Curation"}
  BY ScriptsAre, Lengths, DeploysStep, CurationSteps DEF New, Call
<1>4. Deploys("delegation") = {"DelegationPool"}
  BY ScriptsAre, Lengths, DeploysStep, DelegationSteps DEF New, Call
<1>5. Deploys("bridge") = {"WormholeBridge", "WormholeReceiver"}
  <2>1. News("bridge") = {1, 3}
    BY Lengths, BridgeSteps DEF New, Call
  <2>2. Deploys("bridge") = {Steps("bridge")[k].on : k \in {1, 3}}
    BY <2>1, ScriptsAre, DeploysStep
  <2> QED
    BY <2>2, BridgeSteps DEF New
<1> QED
  BY <1>1, <1>2, <1>3, <1>4, <1>5

\* What each script prints.
LEMMA Lists ==
    /\ Listed("governance") = {"SPYToken", "Timelock", "Governor"}
    /\ Listed("staking") = {"SPYToken", "StakeManager", "DelegationManager",
                            "SlashingManager", "RewardsDistributor"}
    /\ Listed("curation") = {"Curation", "SPYToken", "Governor"}
    /\ Listed("delegation") = {"DelegationPool", "SPYToken", "StakeManager",
                               "RewardsDistributor", "Governor"}
    /\ Listed("bridge") = {"WormholeBridge", "WormholeReceiver", "Curation", "Governor"}
BY DEF Listed, Script, GovernanceScript, StakingScript, CurationScript,
       DelegationScript, BridgeScript

\* What each script takes from files.
LEMMA Foreigns ==
    /\ Foreign("governance") = {}
    /\ Foreign("staking") = {"SPYToken", "Governor"}
    /\ Foreign("curation") = {"SPYToken", "Governor", "StakeManager", "RewardsDistributor"}
    /\ Foreign("delegation") = {"SPYToken", "Governor", "StakeManager", "RewardsDistributor"}
    /\ Foreign("bridge") = {"SPYToken", "Governor", "Curation"}
BY DEF Foreign, Source, Before, Needs

\* A step of a script deploys a contract of its own or calls one, with addresses
\* the script has; only deployGovernance.ts gives a role up, in its sixth step.
LEMMA StepFacts ==
    ASSUME NEW s \in Scripts, NEW k \in 1 .. Len(Steps(s))
    PROVE  /\ Steps(s)[k].op \in Ops
           /\ Steps(s)[k].on \in Deploys(s)
           /\ Steps(s)[k].uses \subseteq Deploys(s) \cup Foreign(s)
           /\ Steps(s)[k].op = "revokeAdmin" =>
                  s = "governance" /\ k = 6 /\ Steps(s)[k].on = "Timelock"
<1> USE DEF New, Send, Call
<1>1. CASE s = "governance"
  <2> DEFINE step == Steps("governance")[k]
  <2>1. k \in {1, 2, 3, 4, 5, 6, 7}
    BY <1>1, Lengths, GovernanceSteps
  <2>2. \/ step = New("SPYToken", {}) \/ step = New("Timelock", {})
        \/ step = New("Governor", {"SPYToken", "Timelock"})
        \/ step = Send("grantProposer", "Timelock", {"Governor"})
        \/ step = Send("openExecutor", "Timelock", {})
        \/ step = Send("revokeAdmin", "Timelock", {}) /\ k = 6
        \/ step = Send("delegate", "SPYToken", {})
    BY <2>1, GovernanceSteps
  <2> HIDE DEF step
  <2>3. /\ step.op \in Ops
        /\ step.op = "revokeAdmin" => k = 6 /\ step.on = "Timelock"
    BY <2>2 DEF Ops
  <2>4. step.on \in {"SPYToken", "Timelock", "Governor"}
    BY <2>2
  <2>5. step.uses \subseteq {"SPYToken", "Timelock", "Governor"}
    BY <2>2
  <2> QED
    BY <1>1, <2>3, <2>4, <2>5, Deployed DEF step
<1>2. CASE s = "staking"
  <2>1. /\ Steps(s)[k].op \in Ops
        /\ Steps(s)[k].op = "revokeAdmin" =>
               s = "governance" /\ k = 6 /\ Steps(s)[k].on = "Timelock"
    BY <1>2, Lengths, StakingSteps DEF Ops
  <2>2. Steps(s)[k].on \in Deploys(s)
    BY <1>2, Lengths, StakingSteps, Deployed
  <2>3. Steps(s)[k].uses \subseteq Deploys(s) \cup Foreign(s)
    BY <1>2, Lengths, StakingSteps, Deployed, Foreigns
  <2> QED
    BY <2>1, <2>2, <2>3
<1>3. CASE s = "curation"
  <2>1. /\ Steps(s)[k].op \in Ops
        /\ Steps(s)[k].op = "revokeAdmin" =>
               s = "governance" /\ k = 6 /\ Steps(s)[k].on = "Timelock"
    BY <1>3, Lengths, CurationSteps DEF Ops
  <2>2. Steps(s)[k].on \in Deploys(s)
    BY <1>3, Lengths, CurationSteps, Deployed
  <2>3. Steps(s)[k].uses \subseteq Deploys(s) \cup Foreign(s)
    BY <1>3, Lengths, CurationSteps, Deployed, Foreigns
  <2> QED
    BY <2>1, <2>2, <2>3
<1>4. CASE s = "delegation"
  <2>1. /\ Steps(s)[k].op \in Ops
        /\ Steps(s)[k].op = "revokeAdmin" =>
               s = "governance" /\ k = 6 /\ Steps(s)[k].on = "Timelock"
    BY <1>4, Lengths, DelegationSteps DEF Ops
  <2>2. Steps(s)[k].on \in Deploys(s)
    BY <1>4, Lengths, DelegationSteps, Deployed
  <2>3. Steps(s)[k].uses \subseteq Deploys(s) \cup Foreign(s)
    BY <1>4, Lengths, DelegationSteps, Deployed, Foreigns
  <2> QED
    BY <2>1, <2>2, <2>3
<1>5. CASE s = "bridge"
  <2>1. /\ Steps(s)[k].op \in Ops
        /\ Steps(s)[k].op = "revokeAdmin" =>
               s = "governance" /\ k = 6 /\ Steps(s)[k].on = "Timelock"
    BY <1>5, Lengths, BridgeSteps DEF Ops
  <2>2. Steps(s)[k].on \in Deploys(s)
    BY <1>5, Lengths, BridgeSteps, Deployed
  <2>3. Steps(s)[k].uses \subseteq Deploys(s) \cup Foreign(s)
    BY <1>5, Lengths, BridgeSteps, Deployed, Foreigns
  <2> QED
    BY <2>1, <2>2, <2>3
<1> QED
  BY <1>1, <1>2, <1>3, <1>4, <1>5, ScriptsAre

\* No script awaits a call of the timelock.
LEMMA TimelockCalls ==
    ASSUME NEW s \in Scripts, NEW k \in 1 .. Len(Steps(s)),
           Steps(s)[k].wait, Steps(s)[k].on = "Timelock"
    PROVE  Steps(s)[k].op = "new"
<1> USE DEF New, Send, Call
<1>1. CASE s = "governance"
  BY <1>1, Lengths, GovernanceSteps
<1>2. CASE s = "staking"
  BY <1>2, Lengths, StakingSteps
<1>3. CASE s = "curation"
  BY <1>3, Lengths, CurationSteps
<1>4. CASE s = "delegation"
  BY <1>4, Lengths, DelegationSteps
<1>5. CASE s = "bridge"
  BY <1>5, Lengths, BridgeSteps
<1> QED
  BY <1>1, <1>2, <1>3, <1>4, <1>5, ScriptsAre

\* No script sends the same transaction twice.
LEMMA StepsDiffer ==
    ASSUME NEW s \in Scripts, NEW k \in 1 .. Len(Steps(s)), NEW j \in 1 .. Len(Steps(s)),
           Steps(s)[k].op = Steps(s)[j].op, Steps(s)[k].on = Steps(s)[j].on
    PROVE  k = j
<1> USE DEF New, Send, Call
<1>1. CASE s = "governance"
  BY <1>1, Lengths, GovernanceSteps
<1>2. CASE s = "staking"
  BY <1>2, Lengths, StakingSteps
<1>3. CASE s = "curation"
  BY <1>3, Lengths, CurationSteps
<1>4. CASE s = "delegation"
  BY <1>4, Lengths, DelegationSteps
<1>5. CASE s = "bridge"
  BY <1>5, Lengths, BridgeSteps
<1> QED
  BY <1>1, <1>2, <1>3, <1>4, <1>5, ScriptsAre

\* What a script deploys, it awaits the deployment of.
LEMMA DeploysAwaited ==
    ASSUME NEW s \in Scripts, NEW n \in Deploys(s)
    PROVE  \E k \in 1 .. Len(Steps(s)) :
               Steps(s)[k].op = "new" /\ Steps(s)[k].on = n /\ Steps(s)[k].wait
<1>1. PICK k \in 1 .. Len(Steps(s)) : Steps(s)[k].op = "new" /\ Steps(s)[k].on = n
  BY DeploysStep
<1>2. Steps(s)[k].wait
  <2>1. \A j \in 1 .. Len(Steps(s)) : Steps(s)[j].op = "new" => Steps(s)[j].wait
    <3> USE DEF New, Send, Call
    <3>1. CASE s = "governance"
      BY <3>1, Lengths, GovernanceSteps
    <3>2. CASE s = "staking"
      BY <3>2, Lengths, StakingSteps
    <3>3. CASE s = "curation"
      BY <3>3, Lengths, CurationSteps
    <3>4. CASE s = "delegation"
      BY <3>4, Lengths, DelegationSteps
    <3>5. CASE s = "bridge"
      BY <3>5, Lengths, BridgeSteps
    <3> QED
      BY <3>1, <3>2, <3>3, <3>4, <3>5, ScriptsAre
  <2> QED
    BY <1>1, <2>1
<1> QED
  BY <1>1, <1>2

\* A script awaits the hand-over of a contract to the governor.
HandsOver(s, n) ==
    \E k \in 1..Len(Steps(s)) :
        /\ Steps(s)[k].op = "transferOwnership"
        /\ Steps(s)[k].on = n
        /\ Steps(s)[k].uses = {"Governor"}
        /\ Steps(s)[k].wait

\* The curation, pool and bridge scripts await the hand-over of what they deploy.
LEMMA HandOver ==
    ASSUME NEW s \in {"curation", "delegation", "bridge"}, NEW n \in Deploys(s)
    PROVE  "Governor" \in Listed(s) /\ HandsOver(s, n)
<1> USE DEF New, Call, HandsOver
<1>1. CASE s = "curation"
  BY <1>1, Lengths, CurationSteps, Deployed, Foreigns, Lists
<1>2. CASE s = "delegation"
  BY <1>2, Lengths, DelegationSteps, Deployed, Foreigns, Lists
<1>3. CASE s = "bridge"
  BY <1>3, Lengths, BridgeSteps, Deployed, Foreigns, Lists
<1> QED
  BY <1>1, <1>2, <1>3

\* A script prints what it deploys and what it takes from files, and a file is
\* the summary of a script that printed the address.
LEMMA Addresses ==
    ASSUME NEW s \in Scripts
    PROVE  /\ Deploys(s) \subseteq Listed(s)
           /\ Listed(s) \subseteq Deploys(s) \cup Foreign(s)
           /\ Deploys(s) \cup Foreign(s) \subseteq Names
           /\ Deploys(s) \cap Foreign(s) = {}
           /\ Listed(s) # {}
           /\ \A n \in Foreign(s) : /\ Source[n] \in Before[s] \cup Needs[s]
                                    /\ n \in Listed(Source[n])
                                    /\ n \in Deploys(Source[n])
<1> USE DEF Names
<1>1. \A n \in DOMAIN Source : n \in Listed(Source[n]) /\ n \in Deploys(Source[n])
  BY Lists, Deployed DEF Source
<1>2. \A n \in Foreign(s) : n \in DOMAIN Source /\ Source[n] \in Before[s] \cup Needs[s]
  BY DEF Foreign
<1>3. /\ Deploys(s) \subseteq Listed(s)
      /\ Listed(s) \subseteq Deploys(s) \cup Foreign(s)
      /\ Deploys(s) \cup Foreign(s) \subseteq Names
      /\ Deploys(s) \cap Foreign(s) = {}
      /\ Listed(s) # {}
  BY ScriptsAre, Lists, Deployed, Foreigns
<1> QED
  BY <1>1, <1>2, <1>3

\* The order of the scripts.
LEMMA Orders ==
    ASSUME NEW s \in Scripts
    PROVE  /\ Following[s] \in Later[s] \cup {"saving", "idle"}
           /\ Later[s] \subseteq Scripts
           /\ Following[s] \in Scripts => Later[Following[s]] \subseteq Later[s]
           /\ Following[s] # "idle" =>
                  Before[Following[s]] \subseteq Before[s] \cup Needs[s]
           /\ \A z \in Later[s] : Deploys(s) \cap Deploys(z) = {}
           /\ Before[s] \cup Needs[s] \subseteq ReadBack \cup {"curation"}
           /\ Needs[s] \subseteq ReadBack
BY ScriptsAre, Deployed DEF Following, Later, Before, Needs, ReadBack

-----------------------------------------------------------------------------
(* The queue of transactions.                                              *)

\* A set of naturals that is not empty has a least member.
LEMMA SetMin ==
    ASSUME NEW S, S \subseteq Nat, S # {}
    PROVE  \E x \in S : \A y \in S : x <= y
<1>1. IsWellFoundedOn(OpToRel(<, Nat), Nat)
  BY NatLessThanWellFounded
<1>2. PICK x \in S : \A y \in S : ~ (<<y, x>> \in OpToRel(<, Nat))
  BY <1>1, WFMin
<1>3. ASSUME NEW y \in S PROVE x <= y
  <2>1. ~ (y < x)
    BY <1>2 DEF OpToRel
  <2> QED
    BY <2>1
<1> QED
  BY <1>3

\* The queue is left with tx at one nonce, free until then, and the others stay.
Placed(txs, tx, left) ==
    \E p \in 1 .. Len(txs) + 1 :
        /\ p \in DOMAIN txs => txs[p] = NoTx
        /\ DOMAIN left = DOMAIN txs \cup {p}
        /\ left[p] = tx
        /\ \A i \in DOMAIN txs : i # p => left[i] = txs[i]

\* A transaction is put at a free nonce.
LEMMA BroadcastFacts ==
    ASSUME NEW T, NEW txs \in Seq(T), NEW tx \in T
    PROVE  Broadcast(txs, tx) \in Seq(T) /\ Placed(txs, tx, Broadcast(txs, tx))
<1> USE DEF Placed
<1>1. CASE Gaps(txs) = {}
  <2>1. Broadcast(txs, tx) = Append(txs, tx)
    BY <1>1 DEF Broadcast
  <2>2. Len(txs) + 1 \in 1 .. Len(txs) + 1 /\ Len(txs) + 1 \notin DOMAIN txs
    OBVIOUS
  <2> QED
    BY <2>1, <2>2
<1>2. CASE Gaps(txs) # {}
  <2> DEFINE p == CHOOSE k \in Gaps(txs) : \A g \in Gaps(txs) : k <= g
  <2>1. Gaps(txs) \subseteq DOMAIN txs /\ DOMAIN txs = 1 .. Len(txs) /\ Len(txs) \in Nat
    BY DEF Gaps
  <2>2. Gaps(txs) \subseteq Nat
    BY <2>1
  <2>3. \E k \in Gaps(txs) : \A g \in Gaps(txs) : k <= g
    BY <1>2, <2>2, SetMin
  <2>4. p \in Gaps(txs)
    BY <2>3
  <2>5. Broadcast(txs, tx) = [txs EXCEPT ![p] = tx]
    BY <1>2 DEF Broadcast
  <2> HIDE DEF p
  <2>6. p \in DOMAIN txs /\ txs[p] = NoTx /\ p \in 1 .. Len(txs) + 1
    BY <2>1, <2>4 DEF Gaps
  <2> QED
    BY <2>1, <2>5, <2>6
<1> QED
  BY <1>1, <1>2

\* Losing a transaction leaves a gap, or shortens the queue.
LEMMA LoseFacts ==
    ASSUME NEW T, NoTx \in T, NEW txs \in Seq(T), NEW k \in DOMAIN txs, NEW left,
           left = IF k = Len(txs) THEN SubSeq(txs, 1, k - 1) ELSE [txs EXCEPT ![k] = NoTx]
    PROVE  /\ left \in Seq(T)
           /\ DOMAIN left \subseteq DOMAIN txs
           /\ \A i \in DOMAIN txs : i # k => i \in DOMAIN left /\ left[i] = txs[i]
           /\ k \in DOMAIN left => left[k] = NoTx
<1>1. DOMAIN txs = 1 .. Len(txs) /\ Len(txs) \in Nat
  OBVIOUS
<1>2. CASE k = Len(txs)
  <2>1. left = SubSeq(txs, 1, Len(txs) - 1)
    BY <1>2
  <2>2. left = [i \in 1 .. Len(txs) - 1 |-> txs[i]]
    BY <1>1, <1>2, <2>1
  <2>3. left \in Seq(T)
    <3>1. \A i \in 1 .. Len(txs) - 1 : txs[i] \in T
      BY <1>1
    <3>2. 1 \in Int /\ Len(txs) - 1 \in Int
      BY <1>1
    <3>3. SubSeq(txs, 1, Len(txs) - 1) \in Seq(T)
      BY <3>1, <3>2, SubSeqProperties, Zenon
    <3> QED
      BY <2>1, <3>3
  <2>4. DOMAIN left = 1 .. Len(txs) - 1
    BY <2>2
  <2> QED
    BY <1>1, <1>2, <2>2, <2>3, <2>4
<1>3. CASE k # Len(txs)
  <2>1. left = [txs EXCEPT ![k] = NoTx]
    BY <1>3
  <2> QED
    BY <1>1, <2>1
<1> QED
  BY <1>2, <1>3

\* What is left of the queue when its head is mined.
LEMMA TailFacts ==
    ASSUME NEW T, NEW txs \in Seq(T), txs # <<>>
    PROVE  /\ Tail(txs) \in Seq(T)
           /\ Head(txs) = txs[1] /\ 1 \in DOMAIN txs
           /\ Len(Tail(txs)) = Len(txs) - 1
           /\ \A i \in DOMAIN Tail(txs) : i + 1 \in DOMAIN txs /\ Tail(txs)[i] = txs[i + 1]
           /\ \A i \in DOMAIN txs : i # 1 => i - 1 \in DOMAIN Tail(txs) /\ Tail(txs)[i - 1] = txs[i]
<1>1. DOMAIN txs = 1 .. Len(txs) /\ Len(txs) \in Nat /\ Len(txs) # 0
  OBVIOUS
<1>2. Tail(txs) \in Seq(T) /\ Len(Tail(txs)) = Len(txs) - 1 /\ Head(txs) = txs[1]
  OBVIOUS
<1>3. \A i \in 1 .. Len(txs) - 1 : Tail(txs)[i] = txs[i + 1]
  OBVIOUS
<1>4. DOMAIN Tail(txs) = 1 .. Len(txs) - 1
  BY <1>1, <1>2
<1> QED
  BY <1>1, <1>2, <1>3, <1>4

-----------------------------------------------------------------------------
(* Commands and files.                                                     *)

\* No summary is empty.
LEMMA SummaryNotEmpty ==
    ASSUME NEW s \in Scripts, NEW summary \in Summaries(s)
    PROVE  summary # NoFile
<1>1. DOMAIN summary # {}
  BY Addresses DEF Summaries
<1>2. DOMAIN NoFile = {}
  BY DEF NoFile
<1> QED
  BY <1>1, <1>2

\* A running script has the address of every contract it deploys or takes.
LEMMA AddressKnown ==
    ASSUME Control, stage \in Scripts, pc > 0, NEW n \in Deploys(stage) \cup Foreign(stage)
    PROVE  /\ Known(n) \in Runs
           /\ n \notin Deploys(stage) =>
                  /\ <<Source[n], read[Source[n]]>> \in printed
                  /\ n \in Listed(Source[n]) \cap Deploys(Source[n])
                  /\ Known(n) = read[Source[n]][n]
<1>1. CASE n \in Deploys(stage)
  BY <1>1, ScriptsAre DEF Known, Control
<1>2. CASE n \notin Deploys(stage)
  <2>1. /\ Source[n] \in Before[stage] \cup Needs[stage]
        /\ Source[n] \in ReadBack \cup {"curation"}
        /\ n \in Listed(Source[n]) \cap Deploys(Source[n])
    BY <1>2, Addresses, Orders
  <2>2. <<Source[n], read[Source[n]]>> \in printed
    BY <2>1, ScriptsAre DEF Control
  <2>3. read[Source[n]] \in Summaries(Source[n])
    BY <2>2 DEF Control
  <2> QED
    BY <1>2, <2>1, <2>2, <2>3 DEF Known, Summaries
<1> QED
  BY <1>1, <1>2

\* Nothing is known, read or printed at first.
LEMMA ControlInit ==
    Init => Control
<1> SUFFICES ASSUME Init PROVE Control
  OBVIOUS
<1> USE BoundsAssumption
<1>1. "idle" \notin Scripts
  BY ScriptsAre
<1>2. /\ \A f \in DOMAIN read : read[f] = NoFile
      /\ \A f \in DOMAIN files : files[f] = NoFile
      /\ DOMAIN read = ReadBack \cup {"curation"}
      /\ DOMAIN files = ReadBack
  BY DEF Init, NothingRead
<1> QED
  BY <1>1, <1>2 DEF Init, Control

\* No command loses its place, and no file holds what no script printed.
LEMMA ControlStep ==
    Control /\ [Next]_vars => Control'
<1> SUFFICES ASSUME Control, [Next]_vars PROVE Control'
  OBVIOUS
<1> USE BoundsAssumption, ScriptsAre
<1>1. CASE DeployAll
  <2>1. /\ run' = run + 1 /\ run < MaxRuns /\ stage' = "governance" /\ pc' = 0
        /\ read' = NothingRead /\ UNCHANGED <<files, all, printed>>
    BY <1>1 DEF DeployAll, Start, disk
  <2>2. /\ DOMAIN NothingRead = ReadBack \cup {"curation"}
        /\ \A f \in DOMAIN NothingRead : NothingRead[f] = NoFile
    BY DEF NothingRead
  <2>3. run' \in Runs /\ run' \in 0..MaxRuns /\ Before["governance"] = {}
    BY <2>1 DEF Control, Runs, Before
  <2>4. Len(Steps("governance")) + 1 \in Nat
    BY Lengths
  <2> QED
    BY <2>1, <2>2, <2>3, <2>4 DEF Control
<1>2. CASE DeployBridge
  <2>1. PICK g \in printed, c \in printed :
            /\ g[1] = "governance" /\ c[1] = "curation"
            /\ Start("bridge", [NothingRead EXCEPT !["governance"] = g[2], !["curation"] = c[2]])
    BY <1>2 DEF DeployBridge
  <2>2. /\ run' = run + 1 /\ run < MaxRuns /\ stage' = "bridge" /\ pc' = 0
        /\ read' = [NothingRead EXCEPT !["governance"] = g[2], !["curation"] = c[2]]
        /\ UNCHANGED <<files, all, printed>>
    BY <2>1 DEF Start, disk
  <2>3. /\ DOMAIN read' = ReadBack \cup {"curation"}
        /\ read'["governance"] = g[2] /\ read'["curation"] = c[2]
        /\ \A f \in DOMAIN read' : f \notin {"governance", "curation"} => read'[f] = NoFile
    BY <2>2 DEF NothingRead, ReadBack
  <2>4. /\ <<"governance", g[2]>> \in printed /\ <<"curation", c[2]>> \in printed
        /\ g[2] # NoFile /\ c[2] # NoFile
    BY <2>1, SummaryNotEmpty DEF Control
  <2>5. run' \in Runs /\ run' \in 0..MaxRuns /\ Before["bridge"] = {"governance", "curation"}
    BY <2>2 DEF Control, Runs, Before
  <2>6. Len(Steps("bridge")) + 1 \in Nat
    BY Lengths
  <2> QED
    <3>1. \A f \in DOMAIN read' : read'[f] # NoFile => <<f, read'[f]>> \in printed'
      BY <2>2, <2>3, <2>4
    <3>2. \A f \in Before[stage'] : read'[f] # NoFile
      BY <2>2, <2>3, <2>4, <2>5
    <3>3. DOMAIN read' = ReadBack \cup {"curation"}
      BY <2>3
    <3>4. stage' = "bridge" /\ pc' = 0 /\ "bridge" # "idle" /\ run' \in Runs
      BY <2>2, <2>5
    <3>5. \A p \in printed' : p = <<p[1], p[2]>> /\ p[1] \in Scripts /\ p[2] \in Summaries(p[1])
      BY <2>2 DEF Control
    <3>6. /\ DOMAIN files' = ReadBack
          /\ \A f \in ReadBack : files'[f] # NoFile => <<f, files'[f]>> \in printed'
          /\ all' = NoFile \/ all' \in [UNION {Listed(f) : f \in ReadBack} -> Runs]
      BY <2>2 DEF Control
    <3>7. 0 \in 0..Len(Steps("bridge")) + 1
      BY Lengths
    <3> QED
      BY <2>5, <3>1, <3>2, <3>3, <3>4, <3>5, <3>6, <3>7 DEF Control
<1>3. CASE Save
  <2>1. PICK p \in printed : p[1] \in ReadBack /\ files' = [files EXCEPT ![p[1]] = p[2]]
    BY <1>3 DEF Save
  <2>2. UNCHANGED <<run, stage, pc, read, all, printed>>
    BY <1>3 DEF Save, command
  <2>3. /\ DOMAIN files' = ReadBack
        /\ \A f \in ReadBack : files'[f] # NoFile => <<f, files'[f]>> \in printed
    BY <2>1 DEF Control
  <2> QED
    BY <2>2, <2>3 DEF Control
<1>4. CASE Launch
  <2>1. /\ stage \in Scripts /\ pc = 0 /\ pc' = 1
        /\ read' = [f \in DOMAIN read |-> IF f \in Needs[stage] THEN files[f] ELSE read[f]]
        /\ \A f \in Needs[stage] : files[f] # NoFile
        /\ UNCHANGED <<run, stage, files, all, printed>>
    BY <1>4 DEF Launch, disk
  <2>2. /\ DOMAIN read' = DOMAIN read
        /\ \A f \in DOMAIN read : read'[f] = IF f \in Needs[stage] THEN files[f] ELSE read[f]
    BY <2>1
  <2>3. Before[stage] \cup Needs[stage] \subseteq DOMAIN read /\ Needs[stage] \subseteq ReadBack
    BY <2>1, Orders DEF Control
  <2>4. \A f \in DOMAIN read' : read'[f] # NoFile => <<f, read'[f]>> \in printed'
    BY <2>1, <2>2, <2>3 DEF Control
  <2>5. \A f \in Before[stage] \cup Needs[stage] : read'[f] # NoFile
    BY <2>1, <2>2, <2>3 DEF Control
  <2>6. pc' \in 0..Len(Steps(stage)) + 1
    BY <2>1, Lengths
  <2> QED
    BY <2>1, <2>2, <2>4, <2>5, <2>6 DEF Control
<1>5. CASE Step
  <2>1. /\ stage \in Scripts /\ pc \in 1..Len(Steps(stage)) /\ pc' = pc + 1
        /\ UNCHANGED <<run, stage, read, files, all, printed>>
    BY <1>5 DEF Step, disk
  <2>2. pc' \in 0..Len(Steps(stage)) + 1 /\ pc > 0
    BY <2>1, Lengths
  <2> QED
    BY <2>1, <2>2 DEF Control
<1>6. CASE Finish
  <2> DEFINE summary == [n \in Listed(stage) |-> Known(n)]
  <2>1. /\ stage \in Scripts /\ pc = Len(Steps(stage)) + 1 /\ pc' = 0
        /\ printed' = printed \cup {<<stage, summary>>} /\ stage' = Following[stage]
        /\ UNCHANGED <<run, read, files, all>>
    BY <1>6 DEF Finish, disk
  <2>2. pc > 0
    BY <2>1, Lengths
  <2>3. summary \in Summaries(stage)
    BY <2>1, <2>2, AddressKnown, Addresses DEF Summaries
  <2> HIDE DEF summary
  <2>4. \A p \in printed' : p = <<p[1], p[2]>> /\ p[1] \in Scripts /\ p[2] \in Summaries(p[1])
    BY <2>1, <2>3 DEF Control
  <2>5. stage' \in Scripts \cup {"idle", "saving"} /\ stage # "idle"
    BY <2>1, Orders
  <2>6. stage' # "idle" => \A f \in Before[stage'] : read[f] # NoFile
    BY <2>1, <2>2, <2>5, Orders DEF Control
  <2>7. stage' \in Scripts => 0 \in 0..Len(Steps(stage')) + 1
    BY Lengths
  <2> QED
    BY <2>1, <2>4, <2>5, <2>6, <2>7 DEF Control
<1>7. CASE SaveAll
  <2>1. /\ stage = "saving" /\ stage' = "idle" /\ pc' = pc /\ run' = run
        /\ all' = Spread(files["delegation"]) /\ files["delegation"] # NoFile
        /\ read' = NothingRead /\ UNCHANGED <<files, printed>>
    BY <1>7 DEF SaveAll
  <2>2. /\ DOMAIN NothingRead = ReadBack \cup {"curation"}
        /\ \A f \in DOMAIN NothingRead : NothingRead[f] = NoFile
    BY DEF NothingRead
  <2>3. /\ files["delegation"] \in Summaries("delegation")
        /\ read["staking"] \in Summaries("staking")
        /\ read["governance"] \in Summaries("governance")
    <3>1. Before["saving"] = {"governance", "staking"}
      BY DEF Before
    <3>2. /\ <<"delegation", files["delegation"]>> \in printed
          /\ <<"staking", read["staking"]>> \in printed
          /\ <<"governance", read["governance"]>> \in printed
      BY <2>1, <3>1 DEF Control, ReadBack
    <3> QED
      BY <3>2 DEF Control
  <2>4. all' \in [UNION {Listed(f) : f \in ReadBack} -> Runs]
    BY <2>1, <2>3 DEF Spread, Merged, Summaries, ReadBack
  <2>5. pc = 0
    BY <2>1 DEF Control
  <2> QED
    BY <2>1, <2>2, <2>4, <2>5 DEF Control
<1>8. CASE Abort
  <2>1. stage' = "idle" /\ pc' = 0 /\ read' = NothingRead /\ UNCHANGED <<run, files, all, printed>>
    BY <1>8 DEF Abort, disk
  <2>2. /\ DOMAIN NothingRead = ReadBack \cup {"curation"}
        /\ \A f \in DOMAIN NothingRead : NothingRead[f] = NoFile
    BY DEF NothingRead
  <2> QED
    BY <2>1, <2>2 DEF Control
<1>9. CASE UNCHANGED <<command, disk, printed>>
  BY <1>9 DEF Control, command, disk
<1> QED
  <2>1. Resume => UNCHANGED <<run, stage, pc, read, files, all, printed>>
    BY DEF Resume, disk
  <2>2. UNCHANGED <<run, stage, pc, read, files, all, printed>> => Control'
    BY DEF Control
  <2>3. Mine \/ (\E k \in DOMAIN pending : Lose(k)) \/ UNCHANGED vars
            => UNCHANGED <<command, disk, printed>>
    BY DEF Mine, Lose, vars, command, disk
  <2> QED
    BY <1>1, <1>2, <1>3, <1>4, <1>5, <1>6, <1>7, <1>8, <1>9, <2>1, <2>2, <2>3 DEF Next

\* A command that runs, and the files it goes by, are always in order.
LEMMA AlwaysControl ==
    Spec => []Control
BY ControlInit, ControlStep, PTL DEF Spec

-----------------------------------------------------------------------------
(* Transactions.                                                           *)

\* What a running script sends next is a transaction of this command.
LEMMA SentIs ==
    ASSUME Control, stage \in Scripts, pc > 0, NEW k \in 1 .. Len(Steps(stage))
    PROVE  /\ Sent(k) \in Txs
           /\ Sent(k).op = Steps(stage)[k].op
           /\ Sent(k).on = Steps(stage)[k].on
           /\ Sent(k).at = run
           /\ Sent(k).args = [n \in Steps(stage)[k].uses |-> Known(n)]
<1>1. /\ Steps(stage)[k].op \in Ops
      /\ Steps(stage)[k].on \in Deploys(stage)
      /\ Steps(stage)[k].uses \subseteq Deploys(stage) \cup Foreign(stage)
  BY StepFacts
<1>2. Known(Steps(stage)[k].on) = run
  BY <1>1 DEF Known
<1>3. Deploys(stage) \cup Foreign(stage) \subseteq Names /\ run \in Runs
  BY Addresses, ScriptsAre DEF Control
<1>4. [n \in Steps(stage)[k].uses |-> Known(n)] \in Args
  <2>1. [n \in Steps(stage)[k].uses |-> Known(n)] \in [Steps(stage)[k].uses -> Runs]
    BY <1>1, AddressKnown
  <2>2. Steps(stage)[k].uses \in SUBSET Names
    BY <1>1, <1>3
  <2> QED
    BY <2>1, <2>2 DEF Args
<1>5. Sent(k) = [op |-> Steps(stage)[k].op, on |-> Steps(stage)[k].on, at |-> run,
                 args |-> [n \in Steps(stage)[k].uses |-> Known(n)]]
  BY <1>2 DEF Sent
<1> HIDE DEF Sent
<1>6. Steps(stage)[k].on \in Names
  BY <1>1, <1>3
<1> QED
  BY <1>1, <1>3, <1>4, <1>5, <1>6 DEF Txs

\* What stands for a gap is no transaction.
LEMMA NoTxIsNone ==
    NoTx \notin Txs /\ NoTx.op = "none" /\ \A tx \in Txs : tx.op \in Ops
<1>1. NoTx.op = "none"
  BY DEF NoTx
<1>2. \A tx \in Txs : tx.op \in Ops
  BY DEF Txs
<1>3. "none" \notin Ops
  BY DEF Ops
<1> QED
  BY <1>1, <1>2, <1>3

\* What the script sends next was never sent.
LEMMA NeverSent ==
    ASSUME Control, stage \in Scripts, pc \in 1 .. Len(Steps(stage)), NEW tx, Past(tx)
    PROVE  tx # Sent(pc)
<1>0. pc > 0
  BY Lengths
<1>1. Sent(pc).op = Steps(stage)[pc].op /\ Sent(pc).on = Steps(stage)[pc].on /\ Sent(pc).at = run
  BY <1>0, SentIs, Zenon
<1>2. pc >= pc
  BY Lengths
<1>3. tx.at = run => ~ (Steps(stage)[pc].op = tx.op /\ Steps(stage)[pc].on = tx.on)
  BY <1>2 DEF Past
<1> QED
  BY <1>1, <1>3

\* What the script sends next, it does not send again.
LEMMA SentOnce ==
    ASSUME Control, stage \in Scripts, pc \in 1 .. Len(Steps(stage)), Step,
           NEW tx, tx = Sent(pc)
    PROVE  Past(tx)'
<1>0. pc > 0
  BY Lengths
<1>1. /\ tx.op = Steps(stage)[pc].op /\ tx.on = Steps(stage)[pc].on
      /\ tx.at = run /\ tx.on \in Deploys(stage)
  BY <1>0, SentIs, StepFacts, Zenon
<1>2. run' = run /\ stage' = stage /\ pc' = pc + 1
  BY DEF Step
<1>3. ASSUME NEW k \in 1 .. Len(Steps(stage)), k >= pc + 1
      PROVE  ~ (Steps(stage)[k].op = tx.op /\ Steps(stage)[k].on = tx.on)
  BY <1>1, <1>3, StepsDiffer, Lengths
<1>4. \A s \in Later[stage] : tx.on \notin Deploys(s)
  BY <1>1, Orders
<1>5. run \in Nat
  BY DEF Control
<1> QED
  BY <1>1, <1>2, <1>3, <1>4, <1>5 DEF Past

\* What no command still has to send, none ever has.
LEMMA PastKept ==
    ASSUME Control, [Next]_vars, NEW tx \in Txs, Past(tx)
    PROVE  Past(tx)'
<1>1. tx.at \in Nat /\ run \in Nat /\ pc \in Nat
  <2>1. run \in Nat
    BY BoundsAssumption DEF Control
  <2>2. pc \in Nat
    BY Lengths DEF Control
  <2>3. tx.at \in Nat
    BY DEF Txs, Runs
  <2> QED
    BY <2>1, <2>2, <2>3
<1>2. CASE run' = run + 1
  <2>1. tx.at <= run' /\ tx.at # run'
    BY <1>1, <1>2 DEF Past
  <2> QED
    BY <2>1 DEF Past
<1>3. CASE run' = run /\ stage' = stage /\ pc' \in {pc, pc + 1}
  <2>1. \A k \in 1..Len(Steps(stage)) : k >= pc' => k >= pc
    BY <1>1, <1>3
  <2> QED
    BY <1>3, <2>1 DEF Past
<1>4. CASE Finish
  <2>1. stage \in Scripts /\ stage' = Following[stage] /\ run' = run
    BY <1>4 DEF Finish
  <2>2. CASE stage' \in Scripts /\ tx.at = run
    <3>1. stage' \in Later[stage] /\ Later[stage'] \subseteq Later[stage]
      BY <2>1, <2>2, Orders, ScriptsAre
    <3>2. \A s \in Later[stage] : tx.on \notin Deploys(s)
      BY <2>1, <2>2 DEF Past
    <3>3. \A k \in 1..Len(Steps(stage')) : Steps(stage')[k].on \in Deploys(stage')
      BY <2>2, StepFacts
    <3>4. tx.at <= run'
      BY <2>1 DEF Past
    <3> QED
      BY <2>1, <3>1, <3>2, <3>3, <3>4 DEF Past
  <2> QED
    BY <2>1, <2>2 DEF Past
<1>5. CASE run' = run /\ stage' = "idle"
  BY <1>5, ScriptsAre DEF Past
<1> QED
  <2>1. DeployAll \/ DeployBridge => run' = run + 1
    BY DEF DeployAll, DeployBridge, Start
  <2>2. Launch \/ Step => run' = run /\ stage' = stage /\ pc' \in {pc, pc + 1}
    BY DEF Launch, Step
  <2>3. SaveAll \/ Abort => run' = run /\ stage' = "idle"
    BY DEF SaveAll, Abort
  <2>4. Save \/ Resume \/ Mine \/ (\E k \in DOMAIN pending : Lose(k)) \/ UNCHANGED vars
            => run' = run /\ stage' = stage /\ pc' = pc
    BY DEF Save, Resume, Mine, Lose, vars, command
  <2> QED
    BY <1>2, <1>3, <1>4, <1>5, <2>1, <2>2, <2>3, <2>4 DEF Next

\* The queue is empty at first.
LEMMA QueueInit ==
    Init => Queue
BY DEF Init, Queue

\* No transaction is broadcast or executed twice.
LEMMA QueueStep ==
    Control /\ Queue /\ [Next]_vars => Queue'
<1> SUFFICES ASSUME Control, Queue, [Next]_vars PROVE Queue'
  OBVIOUS
<1> DEFINE T == Txs \cup {NoTx}
<1>1. pending \in Seq(T) /\ mined \subseteq Txs /\ lost \subseteq Txs
  BY DEF Queue
<1>2. \A i \in DOMAIN pending : pending[i] \in T
  BY <1>1
<1>3. ASSUME NEW tx \in Txs, Past(tx) PROVE Past(tx)'
  BY <1>3, PastKept
<1>4. \A i \in DOMAIN pending :
          pending[i] # NoTx => Past(pending[i]) /\ pending[i] \notin mined /\ pending[i] \in Txs
  BY <1>2 DEF Queue
<1>5. ASSUME NEW tx \in mined PROVE tx \in Txs /\ Past(tx)'
  BY <1>1, <1>3 DEF Queue
<1>6. ASSUME NEW i \in DOMAIN pending, NEW tx, tx = pending[i], tx # NoTx
      PROVE  Past(tx)'
  BY <1>3, <1>4, <1>6
<1>7. CASE UNCHANGED chain
  <2>1. pending' = pending /\ mined' = mined /\ lost' = lost
    BY <1>7 DEF chain
  <2>2. \A tx \in mined' : Past(tx)'
    BY <2>1, <1>5
  <2>3. \A i \in DOMAIN pending' :
            pending'[i] # NoTx => Past(pending[i])' /\ pending'[i] \notin mined'
    BY <2>1, <1>4, <1>6
  <2> QED
    BY <2>1, <2>2, <2>3 DEF Queue
<1>8. CASE Step
  <2>1. PICK tx : tx = Sent(pc)
    OBVIOUS
  <2>2. /\ stage \in Scripts /\ pc \in 1..Len(Steps(stage)) /\ pc > 0
        /\ pending' = Broadcast(pending, tx) /\ mined' = mined /\ lost' = lost
    BY <1>8, <2>1, Lengths DEF Step, Sent
  <2>3. tx \in Txs
    BY <2>1, <2>2, SentIs
  <2>4. Past(tx)'
    BY <1>8, <2>1, <2>2, SentOnce
  <2>5. \A z : Past(z) => z # tx
    BY <2>1, <2>2, NeverSent
  <2>6. PICK p \in 1 .. Len(pending) + 1 :
            /\ p \in DOMAIN pending => pending[p] = NoTx
            /\ DOMAIN pending' = DOMAIN pending \cup {p}
            /\ pending'[p] = tx
            /\ \A i \in DOMAIN pending : i # p => pending'[i] = pending[i]
    <3>1. Placed(pending, tx, pending')
      BY <1>1, <2>2, <2>3, BroadcastFacts
    <3> QED
      BY <3>1 DEF Placed
  <2>7. pending' \in Seq(T)
    BY <1>1, <2>2, <2>3, BroadcastFacts
  <2>8. \A z \in mined' : Past(z)'
    BY <1>5, <2>2
  <2>9. tx \notin mined
    BY <2>5 DEF Queue
  <2>10. ASSUME NEW i \in DOMAIN pending', pending'[i] # NoTx, NEW z, z = pending'[i]
         PROVE  Past(z)' /\ z \notin mined'
    BY <1>4, <1>6, <2>2, <2>4, <2>6, <2>9, <2>10
  <2>11. ASSUME NEW i \in DOMAIN pending', NEW j \in DOMAIN pending', i # j,
                pending'[i] = pending'[j]
         PROVE  pending'[i] = NoTx
    BY <1>4, <2>5, <2>6, <2>11 DEF Queue
  <2> QED
    BY <1>1, <2>2, <2>7, <2>8, <2>10, <2>11 DEF Queue
<1>9. CASE Mine
  <2>1. /\ pending # <<>> /\ Head(pending) # NoTx
        /\ pending' = Tail(pending) /\ lost' = lost
        /\ mined' = mined \/ mined' = mined \cup {Head(pending)}
    BY <1>9 DEF Mine
  <2>2. /\ pending' \in Seq(T)
        /\ Head(pending) = pending[1] /\ 1 \in DOMAIN pending
        /\ \A i \in DOMAIN pending' : /\ i + 1 \in DOMAIN pending
                                      /\ pending'[i] = pending[i + 1]
                                      /\ i \in Nat /\ i # 0
    BY <1>1, <2>1, TailFacts
  <2>3. PICK head : head = pending[1]
    OBVIOUS
  <2>4. Past(head)' /\ head \in Txs
    BY <1>4, <1>6, <2>1, <2>2, <2>3
  <2>5. mined' \subseteq Txs /\ \A z \in mined' : Past(z)'
    BY <1>1, <1>5, <2>1, <2>2, <2>3, <2>4
  <2>6. ASSUME NEW i \in DOMAIN pending', pending'[i] # NoTx, NEW z, z = pending'[i]
        PROVE  Past(z)' /\ z \notin mined'
    <3>1. i + 1 \in DOMAIN pending /\ z = pending[i + 1] /\ i + 1 # 1
      BY <2>2, <2>6
    <3>2. Past(z)' /\ z \notin mined
      BY <1>4, <1>6, <2>6, <3>1
    <3>3. z # head
      BY <2>2, <2>3, <2>6, <3>1 DEF Queue
    <3> QED
      BY <2>1, <2>2, <2>3, <3>2, <3>3
  <2>7. ASSUME NEW i \in DOMAIN pending', NEW j \in DOMAIN pending', i # j,
               pending'[i] = pending'[j]
        PROVE  pending'[i] = NoTx
    <3>1. i + 1 \in DOMAIN pending /\ j + 1 \in DOMAIN pending /\ i + 1 # j + 1
      BY <2>2, <2>7
    <3> QED
      BY <2>2, <2>7, <3>1 DEF Queue
  <2> QED
    BY <1>1, <2>1, <2>2, <2>5, <2>6, <2>7 DEF Queue
<1>10. CASE \E k \in DOMAIN pending : Lose(k)
  <2>1. PICK k \in DOMAIN pending : Lose(k)
    BY <1>10
  <2>2. /\ pending[k] # NoTx /\ lost' = lost \cup {pending[k]} /\ mined' = mined
        /\ pending' = IF k = Len(pending) THEN SubSeq(pending, 1, k - 1)
                      ELSE [pending EXCEPT ![k] = NoTx]
    BY <2>1 DEF Lose
  <2>3. /\ pending' \in Seq(T)
        /\ DOMAIN pending' \subseteq DOMAIN pending
        /\ \A i \in DOMAIN pending' : pending'[i] # NoTx => pending'[i] = pending[i]
    BY <1>1, <2>2, LoseFacts
  <2>4. lost' \subseteq Txs
    BY <1>1, <1>2, <2>2
  <2>5. \A z \in mined' : Past(z)'
    BY <1>5, <2>2
  <2>6. ASSUME NEW i \in DOMAIN pending', pending'[i] # NoTx, NEW z, z = pending'[i]
        PROVE  Past(z)' /\ z \notin mined'
    BY <1>4, <1>6, <2>2, <2>3, <2>6
  <2>7. ASSUME NEW i \in DOMAIN pending', NEW j \in DOMAIN pending', i # j,
               pending'[i] = pending'[j]
        PROVE  pending'[i] = NoTx
    BY <2>3, <2>7 DEF Queue
  <2> QED
    BY <1>1, <2>2, <2>3, <2>4, <2>5, <2>6, <2>7 DEF Queue
<1> QED
  <2>1. DeployAll \/ DeployBridge \/ Save \/ Launch \/ Resume \/ Finish \/ SaveAll \/ Abort
        \/ UNCHANGED vars => UNCHANGED chain
    BY DEF DeployAll, DeployBridge, Start, Save, Launch, Resume, Finish, SaveAll, Abort,
           vars, chain
  <2> QED
    BY <1>7, <1>8, <1>9, <1>10, <2>1 DEF Next

\* Every transaction is broadcast and executed at most once.
LEMMA AlwaysQueue ==
    Spec => []Queue
<1>1. Control /\ Control' /\ Queue /\ [Next]_vars => Queue'
  BY QueueStep
<1> QED
  BY <1>1, QueueInit, AlwaysControl, PTL DEF Spec

-----------------------------------------------------------------------------
(* What a script waits for.                                                *)

\* A running script does not change what it sends.
LEMMA SentKept ==
    ASSUME run' = run, stage' = stage, read' = read, NEW k
    PROVE  Sent(k)' = Sent(k)
BY DEF Sent, Known

\* A script waits for what it sent last, and only while it runs.
LEMMA WaitingStep ==
    Control /\ Queue /\ Waiting /\ [Next]_vars => Waiting'
<1> SUFFICES ASSUME Control, Queue, Waiting, [Next]_vars PROVE Waiting'
  OBVIOUS
<1>1. awaited # NoTx =>
          /\ stage \in Scripts /\ stage # "idle" /\ stage # "saving"
          /\ pc > 0 /\ pc - 1 \in 1 .. Len(Steps(stage))
  <2>1. pc \in Nat
    BY Lengths DEF Control
  <2> QED
    BY <2>1, ScriptsAre, Lengths DEF Waiting
<1>2. ASSUME awaited' # NoTx, awaited' = awaited, pc' = pc, stage' = stage, run' = run, read' = read,
             awaited \in mined \cup lost \cup Range(pending)
                 => awaited \in mined' \cup lost' \cup Range(pending')
      PROVE  Waiting'
  <2>1. PICK k : k = pc - 1
    OBVIOUS
  <2>2. awaited = Sent(k) /\ Sent(k)' = Sent(k)
    BY <1>2, <2>1, SentKept DEF Waiting
  <2>3. pc' - 1 = k
    BY <1>2, <2>1
  <2>4. awaited' = Sent(k)'
    BY <1>2, <2>2
  <2>5. awaited' = Sent(pc - 1)'
    BY <2>3, <2>4
  <2> QED
    BY <1>2, <2>5 DEF Waiting
<1>3. CASE awaited' = NoTx
  BY <1>3 DEF Waiting
<1>4. CASE Step
  <2>1. PICK k, tx : k = pc /\ tx = Sent(k)
    OBVIOUS
  <2>2. /\ stage \in Scripts /\ k \in 1..Len(Steps(stage)) /\ pc' = k + 1 /\ k > 0
        /\ pending' = Broadcast(pending, tx)
        /\ awaited' = (IF Steps(stage)[k].wait THEN tx ELSE NoTx)
        /\ run' = run /\ stage' = stage /\ read' = read
    BY <1>4, <2>1, Lengths DEF Step, Sent
  <2>3. tx \in Txs
    BY <2>1, <2>2, SentIs
  <2>4. Placed(pending, tx, pending')
    BY <2>2, <2>3, BroadcastFacts DEF Queue
  <2>5. tx \in Range(pending')
    BY <2>4 DEF Placed, Range
  <2>6. Sent(k)' = tx
    BY <2>1, <2>2, SentKept
  <2>7. pc' - 1 = k
    BY <2>2, Lengths
  <2>8. Sent(pc - 1)' = tx
    BY <2>6, <2>7
  <2> QED
    BY <2>2, <2>5, <2>7, <2>8 DEF Waiting
<1>5. CASE Mine
  <2>1. /\ pending # <<>> /\ pending' = Tail(pending) /\ lost' = lost
        /\ mined' = IF Permitted(Head(pending)) THEN mined \cup {Head(pending)} ELSE mined
        /\ awaited' = awaited /\ pc' = pc /\ stage' = stage /\ run' = run /\ read' = read
    BY <1>5 DEF Mine, command
  <2>2. ASSUME awaited # NoTx, awaited \in mined \cup lost \cup Range(pending)
        PROVE  awaited \in mined' \cup lost' \cup Range(pending')
    <3>1. Permitted(awaited)
      <4>1. PICK k \in 1 .. Len(Steps(stage)) : k = pc - 1 /\ awaited = Sent(k) /\ Steps(stage)[k].wait
        BY <2>2 DEF Waiting
      <4>2. stage \in Scripts /\ pc > 0
        BY <1>1, <2>2
      <4>3. awaited.op = Steps(stage)[k].op /\ awaited.on = Steps(stage)[k].on
        BY <4>1, <4>2, SentIs
      <4>4. awaited.on = "Timelock" => awaited.op = "new"
        BY <4>1, <4>2, <4>3, TimelockCalls
      <4> QED
        BY <4>4 DEF Permitted
    <3>2. /\ Head(pending) = pending[1]
          /\ \A i \in DOMAIN pending : i # 1 =>
                 i - 1 \in DOMAIN pending' /\ pending'[i - 1] = pending[i]
      BY <2>1, TailFacts DEF Queue
    <3>3. CASE awaited \in Range(pending)
      <4>1. PICK i \in DOMAIN pending : awaited = pending[i]
        BY <3>3 DEF Range
      <4>2. i # 1 => awaited \in Range(pending')
        BY <3>2, <4>1 DEF Range
      <4> QED
        BY <2>1, <3>1, <3>2, <4>1, <4>2
    <3> QED
      BY <2>1, <2>2, <3>3
  <2> QED
    BY <1>2, <1>3, <2>1, <2>2
<1>6. CASE \E k \in DOMAIN pending : Lose(k)
  <2>1. PICK k \in DOMAIN pending : Lose(k)
    BY <1>6
  <2>2. /\ lost' = lost \cup {pending[k]} /\ mined' = mined
        /\ pending' = IF k = Len(pending) THEN SubSeq(pending, 1, k - 1)
                      ELSE [pending EXCEPT ![k] = NoTx]
        /\ awaited' = awaited /\ pc' = pc /\ stage' = stage /\ run' = run /\ read' = read
    BY <2>1 DEF Lose, command
  <2>3. \A i \in DOMAIN pending : i # k => i \in DOMAIN pending' /\ pending'[i] = pending[i]
    BY <2>2, LoseFacts DEF Queue
  <2>4. awaited \in Range(pending) => awaited \in lost' \cup Range(pending')
    BY <2>2, <2>3 DEF Range
  <2> QED
    BY <1>2, <1>3, <2>2, <2>4
<1>7. CASE DeployAll \/ DeployBridge \/ Launch \/ SaveAll
  <2>1. awaited' = awaited /\ (stage \in {"idle", "saving"} \/ pc = 0)
    BY <1>7 DEF DeployAll, DeployBridge, Start, Launch, SaveAll
  <2> QED
    BY <1>1, <1>3, <2>1
<1>8. CASE Resume \/ Finish \/ Abort
  BY <1>3, <1>8 DEF Resume, Finish, Abort
<1>9. CASE Save \/ UNCHANGED vars
  <2>1. UNCHANGED command /\ UNCHANGED chain
    BY <1>9 DEF Save, vars, command, chain
  <2> QED
    BY <1>2, <1>3, <2>1 DEF command, chain
<1> QED
  BY <1>4, <1>5, <1>6, <1>7, <1>8, <1>9 DEF Next

\* What a script waited for is on chain when it goes on.
LEMMA AnsweredStep ==
    Control /\ Waiting /\ Answered /\ [Next]_vars => Answered'
<1> SUFFICES ASSUME Control, Waiting, Answered, [Next]_vars,
                    NEW k, stage' \in Scripts, k \in 1..Len(Steps(stage')), k < pc',
                    Steps(stage')[k].wait, k = pc' - 1 => awaited' = NoTx
             PROVE  Sent(k)' \in mined'
  BY DEF Answered
<1>1. mined \subseteq mined'
  BY DEF Next, DeployAll, DeployBridge, Start, Save, Launch, Step, Resume, Finish, SaveAll,
         Abort, Mine, Lose, vars, chain
<1>2. \A s \in Scripts : Len(Steps(s)) \in Nat
  BY Lengths, ScriptsAre
<1>3. CASE pc' \in {0, 1}
  BY <1>2, <1>3
<1>4. ASSUME run' = run, stage' = stage, read' = read, Sent(k) \in mined
      PROVE  Sent(k)' \in mined'
  BY <1>1, <1>4, SentKept
<1>5. CASE Step
  <2>1. /\ stage' = stage /\ run' = run /\ read' = read /\ awaited = NoTx
        /\ pc \in 1..Len(Steps(stage)) /\ stage \in Scripts /\ pc' = pc + 1
        /\ awaited' = (IF Steps(stage)[pc].wait THEN Sent(pc) ELSE NoTx)
    BY <1>5 DEF Step, Sent
  <2>2. k # pc
    <3>1. pc > 0
      BY <1>2, <2>1
    <3>2. Sent(pc) # NoTx
      BY <2>1, <3>1, SentIs, NoTxIsNone
    <3> QED
      BY <1>2, <2>1, <3>2
  <2>3. k < pc
    BY <1>2, <2>1, <2>2
  <2>4. Sent(k) \in mined
    BY <2>1, <2>3 DEF Answered
  <2> QED
    BY <1>4, <2>1, <2>4
<1>6. CASE Resume
  <2>1. stage' = stage /\ run' = run /\ read' = read /\ pc' = pc /\ awaited \in mined
    BY <1>6 DEF Resume
  <2>2. CASE k = pc - 1 /\ awaited # NoTx
    <3>1. Sent(k) = awaited
      BY <2>2 DEF Waiting
    <3> QED
      BY <1>4, <2>1, <3>1
  <2>3. CASE ~ (k = pc - 1 /\ awaited # NoTx)
    <3>1. Sent(k) \in mined
      BY <2>1, <2>3 DEF Answered
    <3> QED
      BY <1>4, <2>1, <3>1
  <2> QED
    BY <2>2, <2>3
<1>7. CASE UNCHANGED command
  <2>1. stage' = stage /\ run' = run /\ read' = read /\ pc' = pc /\ awaited' = awaited
    BY <1>7 DEF command
  <2>2. Sent(k) \in mined
    BY <2>1 DEF Answered
  <2> QED
    BY <1>4, <2>1, <2>2
<1> QED
  <2>1. DeployAll \/ DeployBridge \/ Launch \/ Finish \/ Abort => pc' \in {0, 1}
    BY DEF DeployAll, DeployBridge, Start, Launch, Finish, Abort
  <2>2. SaveAll => stage' \notin Scripts
    BY ScriptsAre DEF SaveAll
  <2>3. Save \/ Mine \/ (\E j \in DOMAIN pending : Lose(j)) \/ UNCHANGED vars => UNCHANGED command
    BY DEF Save, Mine, Lose, vars, command
  <2> QED
    BY <1>3, <1>5, <1>6, <1>7, <2>1, <2>2, <2>3 DEF Next

\* A script waits for what it sent, and goes on when that is on chain.
LEMMA AlwaysAnswered ==
    Spec => [](Waiting /\ Answered)
<1>1. Init => Waiting /\ Answered
  BY ScriptsAre DEF Init, Waiting, Answered
<1>2. Control /\ Queue /\ Waiting /\ [Next]_vars => Waiting'
  BY WaitingStep
<1>3. Control /\ Waiting /\ Answered /\ [Next]_vars => Answered'
  BY AnsweredStep
<1> QED
  BY <1>1, <1>2, <1>3, AlwaysControl, AlwaysQueue, PTL DEF Spec

\* A command, the files and the chain always have their types, nothing is
\* executed twice, and a script waits for what it has sent.
THEOREM TypeCorrect ==
    Spec => []TypeOK
<1>1. Control /\ Queue /\ Waiting => TypeOK
  <2> SUFFICES ASSUME Control, Queue, Waiting PROVE TypeOK
    OBVIOUS
  <2>1. \A f \in ReadBack : files[f] = NoFile \/ files[f] \in Summaries(f)
    BY DEF Control
  <2>2. \A f \in DOMAIN read : read[f] = NoFile \/ read[f] \in Summaries(f)
    BY DEF Control
  <2>3. Range(pending) \cap mined = {}
    BY NoTxIsNone DEF Queue, Range
  <2>4. awaited # NoTx => awaited \in mined \cup lost \cup Range(pending)
    BY DEF Waiting
  <2> QED
    BY <2>1, <2>2, <2>3, <2>4 DEF Control, TypeOK
<1> QED
  BY <1>1, AlwaysControl, AlwaysQueue, AlwaysAnswered, PTL

-----------------------------------------------------------------------------
(* What the scripts hand over.                                             *)

\* What is on chain stays there.
LEMMA MinedGrows ==
    ASSUME [Next]_vars
    PROVE  mined \subseteq mined'
BY DEF Next, DeployAll, DeployBridge, Start, Save, Launch, Step, Resume, Finish, SaveAll,
       Abort, Mine, Lose, vars, chain

\* A deployment, a hand-over and a pool stay what they are.
LEMMA InPlaceKept ==
    ASSUME mined \subseteq mined', NEW op, NEW name, NEW r, NEW summary
    PROVE  /\ Done(op, name, r) => Done(op, name, r)'
           /\ Owned(name, summary) => Owned(name, summary)'
           /\ PoolFor(summary) => PoolFor(summary)'
BY DEF Done, Owned, PoolFor

\* What a summary says is in place, for the script that prints it.
InPlace(s, summary) ==
    /\ \A n \in Listed(s) : Done("new", n, summary[n])
    /\ s \in {"curation", "delegation", "bridge"} => \A n \in Deploys(s) : Owned(n, summary)
    /\ s = "delegation" => PoolFor(summary)

\* What is in place stays in place.
LEMMA StaysInPlace ==
    ASSUME mined \subseteq mined', NEW s, NEW summary, InPlace(s, summary)
    PROVE  InPlace(s, summary)'
BY InPlaceKept DEF InPlace

\* What a script prints when it exits is in place.
LEMMA FinishInPlace ==
    ASSUME Control, Answered, PrintedInPlace, Finish,
           NEW summary, summary = [n \in Listed(stage) |-> Known(n)]
    PROVE  InPlace(stage, summary)
<1>1. /\ stage \in Scripts /\ pc = Len(Steps(stage)) + 1 /\ pc > 0 /\ awaited = NoTx
      /\ Len(Steps(stage)) \in Nat
  BY Lengths DEF Finish
<1>2. ASSUME NEW k \in 1 .. Len(Steps(stage)), Steps(stage)[k].wait
      PROVE  /\ Sent(k) \in mined
             /\ Sent(k).op = Steps(stage)[k].op
             /\ Sent(k).on = Steps(stage)[k].on
             /\ Sent(k).at = run
             /\ Sent(k).args = [n \in Steps(stage)[k].uses |-> Known(n)]
  <2>1. k < pc
    BY <1>1
  <2>2. Sent(k) \in mined
    BY <1>1, <1>2, <2>1 DEF Answered
  <2> QED
    BY <1>1, <2>2, SentIs
<1>3. /\ \A n \in Deploys(stage) : n \in Listed(stage) /\ summary[n] = run
      /\ \A n \in Listed(stage) : n \in Deploys(stage) \cup Foreign(stage) /\ summary[n] = Known(n)
  BY <1>1, Addresses DEF Known
<1>4. ASSUME NEW n \in Listed(stage) PROVE Done("new", n, summary[n])
  <2>1. CASE n \in Deploys(stage)
    <3>1. PICK k \in 1 .. Len(Steps(stage)) :
              Steps(stage)[k].op = "new" /\ Steps(stage)[k].on = n /\ Steps(stage)[k].wait
      BY <1>1, <2>1, DeploysAwaited
    <3>2. Sent(k) \in mined /\ Sent(k).op = "new" /\ Sent(k).on = n /\ Sent(k).at = summary[n]
      BY <1>2, <1>3, <2>1, <3>1
    <3> QED
      BY <3>2 DEF Done
  <2>2. CASE n \notin Deploys(stage)
    <3>1. /\ <<Source[n], read[Source[n]]>> \in printed
          /\ n \in Listed(Source[n])
          /\ summary[n] = read[Source[n]][n]
      BY <1>1, <1>3, <2>2, AddressKnown
    <3> QED
      BY <3>1 DEF PrintedInPlace
  <2> QED
    BY <2>1, <2>2
<1>5. ASSUME stage \in {"curation", "delegation", "bridge"}, NEW n \in Deploys(stage)
      PROVE  Owned(n, summary)
  <2>1. HandsOver(stage, n) /\ "Governor" \in Listed(stage)
    BY <1>5, HandOver
  <2>2. PICK k \in 1 .. Len(Steps(stage)) :
            /\ Steps(stage)[k].op = "transferOwnership"
            /\ Steps(stage)[k].on = n
            /\ Steps(stage)[k].uses = {"Governor"}
            /\ Steps(stage)[k].wait
    BY <2>1 DEF HandsOver
  <2>3. /\ Sent(k) \in mined /\ Sent(k).op = "transferOwnership" /\ Sent(k).on = n
        /\ Sent(k).at = summary[n] /\ Sent(k).args["Governor"] = summary["Governor"]
    BY <1>2, <1>3, <1>5, <2>1, <2>2
  <2> QED
    BY <2>3 DEF Owned
<1>6. ASSUME stage = "delegation" PROVE PoolFor(summary)
  <2>1. /\ 1 \in 1 .. Len(Steps(stage))
        /\ Steps(stage)[1] = New("DelegationPool", {"SPYToken", "StakeManager", "RewardsDistributor"})
    BY <1>6, Lengths, DelegationSteps
  <2>2. /\ Steps(stage)[1].op = "new" /\ Steps(stage)[1].on = "DelegationPool"
        /\ Steps(stage)[1].uses = {"SPYToken", "StakeManager", "RewardsDistributor"}
        /\ Steps(stage)[1].wait
    BY <2>1 DEF New
  <2>3. {"SPYToken", "StakeManager", "RewardsDistributor"} \subseteq Listed("delegation")
        /\ "DelegationPool" \in Deploys("delegation")
    BY Lists, Deployed
  <2>4. /\ Sent(1) \in mined /\ Sent(1).op = "new" /\ Sent(1).on = "DelegationPool"
        /\ Sent(1).at = summary["DelegationPool"]
        /\ Sent(1).args = [n \in {"SPYToken", "StakeManager", "RewardsDistributor"} |-> Known(n)]
    BY <1>2, <1>3, <1>6, <2>1, <2>2, <2>3
  <2>5. \A n \in DOMAIN Sent(1).args : n \in Listed("delegation") /\ Sent(1).args[n] = summary[n]
    BY <1>3, <1>6, <2>3, <2>4
  <2> QED
    BY <2>4, <2>5 DEF PoolFor
<1> QED
  BY <1>4, <1>5, <1>6 DEF InPlace

\* What was printed and saved is in place from one state to the next.
LEMMA HandedStep ==
    Control /\ Answered /\ Handed /\ [Next]_vars => Handed'
<1> SUFFICES ASSUME Control, Answered, Handed, [Next]_vars PROVE Handed'
  OBVIOUS
<1>1. mined \subseteq mined'
  BY MinedGrows
<1>2. \A p \in printed : InPlace(p[1], p[2])
  BY DEF Handed, PrintedInPlace, InPlace
<1>3. ASSUME NEW p \in printed PROVE InPlace(p[1], p[2])'
  BY <1>1, <1>2, StaysInPlace
<1>4. \A p \in printed' : InPlace(p[1], p[2])'
  <2>1. CASE Finish
    <3>1. PICK s, summary : s = stage /\ summary = [n \in Listed(stage) |-> Known(n)]
      OBVIOUS
    <3>2. printed' = printed \cup {<<s, summary>>}
      BY <2>1, <3>1 DEF Finish
    <3>3. InPlace(s, summary)
      BY <2>1, <3>1, FinishInPlace DEF Handed
    <3>4. InPlace(s, summary)'
      BY <1>1, <3>3, StaysInPlace
    <3> QED
      BY <1>3, <3>2, <3>4
  <2>2. CASE printed' = printed
    BY <1>3, <2>2
  <2>3. Finish \/ printed' = printed
    BY DEF Next, DeployAll, DeployBridge, Start, Save, Launch, Step, Resume, SaveAll,
           Abort, Mine, Lose, vars
  <2> QED
    BY <2>1, <2>2, <2>3
<1>5. PoolWired'
  <2>1. CASE SaveAll
    <3>1. PICK q : q = files["delegation"]
      OBVIOUS
    <3>2. all' = Spread(q) /\ <<"delegation", q>> \in printed
      BY <2>1, <3>1 DEF SaveAll, Control, ReadBack
    <3>3. q \in Summaries("delegation")
      BY <3>2 DEF Control
    <3>4. \A n \in Listed("delegation") : all'[n] = q[n]
      BY <3>2, <3>3 DEF Spread, Merged, Summaries
    <3>5. InPlace("delegation", q)'
      BY <1>3, <3>2
    <3>6. {"DelegationPool", "Governor"} \subseteq Listed("delegation")
          /\ "DelegationPool" \in Deploys("delegation")
      BY Lists, Deployed
    <3>7. Owned("DelegationPool", q)' /\ PoolFor(q)'
      BY <3>5, <3>6 DEF InPlace
    <3>8. Owned("DelegationPool", all)'
      BY <3>4, <3>6, <3>7 DEF Owned
    <3>9. PoolFor(all)'
      BY <3>4, <3>6, <3>7 DEF PoolFor
    <3> QED
      BY <3>8, <3>9 DEF PoolWired, PoolFor
  <2>2. CASE all' = all
    BY <1>1, <2>2 DEF Handed, PoolWired, Owned
  <2>3. SaveAll \/ all' = all
    BY DEF Next, DeployAll, DeployBridge, Start, Save, Launch, Step, Resume, Finish,
           Abort, Mine, Lose, vars, disk
  <2> QED
    BY <2>1, <2>2, <2>3
<1>6. PrintedInPlace' /\ \A p \in printed' : p[1] = "delegation" => PoolFor(p[2])'
  BY <1>4 DEF PrintedInPlace, InPlace
<1> QED
  BY <1>5, <1>6 DEF Handed

\* What was printed and saved is always in place.
LEMMA AlwaysHanded ==
    Spec => []Handed
<1>1. Init => Handed
  BY DEF Init, Handed, PrintedInPlace, PoolWired
<1>2. Control /\ Answered /\ Handed /\ [Next]_vars => Handed'
  BY HandedStep
<1> QED
  BY <1>1, <1>2, AlwaysControl, AlwaysAnswered, PTL DEF Spec

\* A script prints addresses of contracts that are
\* on chain, and the contracts it deployed belong to the governor it prints,
\* whichever transactions the node lost and wherever other commands stopped.
THEOREM AlwaysPrintedInPlace ==
    Spec => []PrintedInPlace
<1>1. Handed => PrintedInPlace
  BY DEF Handed
<1> QED
  BY <1>1, AlwaysHanded, PTL

\* The pool in spyro-all.json was deployed for the
\* contracts and belongs to the governor listed beside it.
THEOREM PoolAlwaysWired ==
    Spec => []PoolWired
<1>1. Handed => PoolWired
  BY DEF Handed
<1> QED
  BY <1>1, AlwaysHanded, PTL

-----------------------------------------------------------------------------
(* Who can act on a timelock.                                              *)

\* A grant that was made or is on its way is made or on its way when another
\* transaction is broadcast behind it.
LEMMA GrantStays ==
    ASSUME mined \subseteq mined', DOMAIN pending \subseteq DOMAIN pending',
           \A i \in DOMAIN pending : pending'[i] = pending[i],
           NEW k, NEW r, GrantedBefore(k, r)
    PROVE  GrantedBefore(k, r)'
BY DEF GrantedBefore, Done

\* A grant that was on its way is made, or one nonce nearer, when the head of
\* the queue is mined: it is only refused when the role was given up before.
LEMMA GrantMined ==
    ASSUME Queue, Mine, GivenUpLate,
           NEW k \in Nat, NEW r \in Runs, GrantedBefore(k, r)
    PROVE  GrantedBefore(k - 1, r)'
<1>1. /\ pending # <<>> /\ pending' = Tail(pending)
      /\ mined' = IF Permitted(Head(pending)) THEN mined \cup {Head(pending)} ELSE mined
  BY DEF Mine
<1>2. /\ Head(pending) = pending[1]
      /\ DOMAIN pending \subseteq Nat
      /\ \A i \in DOMAIN pending : i # 1 =>
             i - 1 \in DOMAIN pending' /\ pending'[i - 1] = pending[i]
  BY <1>1, TailFacts DEF Queue
<1>3. CASE Done("grantProposer", "Timelock", r)
  BY <1>1, <1>3 DEF GrantedBefore, Done
<1>4. ASSUME NEW j \in DOMAIN pending, j < k, IsGrant(pending[j], r)
      PROVE  GrantedBefore(k - 1, r)'
  <2>1. CASE j # 1
    <3>1. j - 1 \in DOMAIN pending' /\ j - 1 < k - 1 /\ IsGrant(pending'[j - 1], r)
      BY <1>2, <1>4, <2>1 DEF IsGrant
    <3> QED
      BY <3>1 DEF GrantedBefore, IsGrant
  <2>2. CASE j = 1 /\ Permitted(Head(pending))
    BY <1>1, <1>2, <1>4, <2>2 DEF GrantedBefore, Done, IsGrant
  <2>3. CASE j = 1 /\ ~ Permitted(Head(pending))
    <3>1. PICK m \in mined : m.op = "revokeAdmin" /\ m.at = r
      BY <1>2, <1>4, <2>3 DEF Permitted, IsGrant
    <3> QED
      BY <1>3, <3>1 DEF GivenUpLate
  <2> QED
    BY <2>1, <2>2, <2>3
<1> QED
  BY <1>3, <1>4 DEF GrantedBefore

\* While nothing is lost, roles are given up behind the grant.
LEMMA RolesStep ==
    Control /\ Queue /\ Roles /\ [Next]_vars => Roles'
<1> SUFFICES ASSUME Control, Queue, Roles, [Next]_vars, lost' = {} PROVE Roles'
  BY DEF Roles
<1>1. lost = {}
  BY DEF Next, DeployAll, DeployBridge, Start, Save, Launch, Step, Resume, Finish, SaveAll,
         Abort, Mine, Lose, vars, chain
<1>2. /\ \A i \in DOMAIN pending : pending[i] # NoTx
      /\ stage = "governance" /\ pc > 4 => GrantedBefore(Len(pending) + 1, run)
      /\ \A k \in DOMAIN pending :
             pending[k].op = "revokeAdmin" => GrantedBefore(k, pending[k].at)
      /\ GivenUpLate
  BY <1>1 DEF Roles, Gaps
<1>3. /\ DOMAIN pending = 1 .. Len(pending) /\ Len(pending) \in Nat
      /\ \A i \in DOMAIN pending : pending[i] \in Txs
  BY <1>2 DEF Queue
<1>4. CASE UNCHANGED chain /\ (stage' = "governance" /\ pc' > 4 =>
                                   stage = "governance" /\ pc > 4 /\ run' = run)
  BY <1>2, <1>4 DEF chain, Roles, Gaps, GrantedBefore, GivenUpLate, Done
<1>5. CASE Step
  <2>1. PICK tx : tx = Sent(pc)
    OBVIOUS
  <2>2. /\ stage \in Scripts /\ pc \in 1 .. Len(Steps(stage)) /\ pc > 0
        /\ pending' = Broadcast(pending, tx) /\ mined' = mined
        /\ stage' = stage /\ pc' = pc + 1 /\ run' = run
    BY <1>5, <2>1, Lengths DEF Step, Sent
  <2>3. /\ tx \in Txs /\ tx.op = Steps(stage)[pc].op /\ tx.on = Steps(stage)[pc].on
        /\ tx.at = run
    BY <2>1, <2>2, SentIs
  <2>4. pending' = Append(pending, tx)
    BY <1>2, <2>2 DEF Broadcast, Gaps
  <2>5. /\ DOMAIN pending' = 1 .. Len(pending) + 1 /\ Len(pending') = Len(pending) + 1
        /\ \A i \in DOMAIN pending : pending'[i] = pending[i]
        /\ pending'[Len(pending) + 1] = tx
    BY <1>3, <2>3, <2>4
  <2>6. ASSUME NEW k, NEW r, GrantedBefore(k, r) PROVE GrantedBefore(k, r)'
    BY <1>3, <2>2, <2>5, <2>6, GrantStays
  <2>7. Gaps(pending') = {}
    BY <1>2, <1>3, <2>3, <2>5, NoTxIsNone DEF Gaps
  <2>8. tx.op = "revokeAdmin" => GrantedBefore(Len(pending) + 1, run)
    <3>1. tx.op = "revokeAdmin" => stage = "governance" /\ pc = 6
      BY <2>2, <2>3, StepFacts
    <3> QED
      BY <1>2, <3>1
  <2>9. ASSUME NEW k \in DOMAIN pending', pending'[k].op = "revokeAdmin",
               NEW r, r = pending'[k].at
        PROVE  GrantedBefore(k, r)'
    <3>1. CASE k \in DOMAIN pending
      BY <1>2, <2>5, <2>6, <2>9, <3>1
    <3>2. CASE k = Len(pending) + 1
      BY <2>3, <2>5, <2>6, <2>8, <2>9, <3>2
    <3> QED
      BY <1>3, <2>5, <3>1, <3>2
  <2>10. ASSUME stage = "governance", pc' > 4, NEW n, n = Len(pending) + 2, NEW r, r = run
         PROVE  GrantedBefore(n, r)'
    <3>1. CASE pc > 4
      <4>1. GrantedBefore(Len(pending) + 1, r)
        BY <1>2, <2>10, <3>1
      <4>2. GrantedBefore(n, r)
        BY <1>3, <2>10, <4>1 DEF GrantedBefore
      <4> QED
        BY <2>6, <4>2
    <3>2. CASE pc = 4
      <4>1. IsGrant(tx, r)
        BY <2>3, <2>10, <3>2, GovernanceSteps DEF Send, IsGrant
      <4>2. Len(pending) + 1 \in DOMAIN pending' /\ Len(pending) + 1 < n
        BY <1>3, <2>5, <2>10
      <4> QED
        BY <2>5, <4>1, <4>2 DEF GrantedBefore, IsGrant
    <3> QED
      BY <2>2, <2>10, <3>1, <3>2, Lengths
  <2>11. GivenUpLate'
    BY <1>2, <2>2 DEF GivenUpLate, Done
  <2>12. stage' = "governance" /\ pc' > 4 => GrantedBefore(Len(pending) + 1, run)'
    <3>1. Len(pending') + 1 = Len(pending) + 2
      BY <1>3, <2>5
    <3> QED
      BY <2>2, <2>10, <3>1
  <2> QED
    BY <2>7, <2>9, <2>11, <2>12 DEF Roles
<1>6. CASE Mine
  <2>1. /\ pending # <<>> /\ pending' = Tail(pending)
        /\ mined' = IF Permitted(Head(pending)) THEN mined \cup {Head(pending)} ELSE mined
        /\ stage' = stage /\ pc' = pc /\ run' = run
    BY <1>6 DEF Mine, command
  <2>2. /\ Head(pending) = pending[1] /\ 1 \in DOMAIN pending
        /\ Len(pending') = Len(pending) - 1
        /\ \A i \in DOMAIN pending' : i + 1 \in DOMAIN pending /\ pending'[i] = pending[i + 1]
    BY <2>1, TailFacts DEF Queue
  <2>3. ASSUME NEW k \in Nat, NEW r \in Runs, GrantedBefore(k, r)
        PROVE  GrantedBefore(k - 1, r)'
    BY <1>2, <1>6, <2>3, GrantMined
  <2>4. DOMAIN pending' \subseteq Nat
    BY <1>3, <2>1
  <2>5. Gaps(pending') = {}
    BY <1>2, <2>2 DEF Gaps
  <2>6. ASSUME NEW k \in DOMAIN pending', pending'[k].op = "revokeAdmin",
               NEW r, r = pending'[k].at
        PROVE  GrantedBefore(k, r)'
    <3>1. k + 1 \in DOMAIN pending /\ pending'[k] = pending[k + 1] /\ k + 1 \in Nat /\ (k + 1) - 1 = k
      BY <2>2, <2>4, <2>6
    <3>2. GrantedBefore(k + 1, r) /\ r \in Runs
      BY <1>2, <1>3, <2>6, <3>1 DEF Txs
    <3>3. GrantedBefore((k + 1) - 1, r)'
      BY <2>3, <3>1, <3>2
    <3> QED
      BY <3>1, <3>3
  <2>7. ASSUME stage = "governance", pc > 4, NEW r, r = run, NEW n, n = Len(pending) + 1
        PROVE  GrantedBefore(n - 1, r)'
    <3>1. r \in Runs /\ n \in Nat /\ GrantedBefore(n, r)
      BY <1>2, <1>3, <2>7 DEF Control
    <3> QED
      BY <2>3, <3>1
  <2>8. GivenUpLate'
    <3>1. ASSUME NEW m \in mined PROVE m.op = "revokeAdmin" => Done("grantProposer", "Timelock", m.at)'
      BY <1>2, <2>1 DEF GivenUpLate, Done
    <3>2. pending[1].op = "revokeAdmin" => Done("grantProposer", "Timelock", pending[1].at)
      BY <1>2, <1>3, <2>2 DEF GrantedBefore
    <3> QED
      BY <2>1, <2>2, <3>1, <3>2 DEF GivenUpLate, Done
  <2>9. stage' = "governance" /\ pc' > 4 => GrantedBefore(Len(pending) + 1, run)'
    <3>1. Len(pending') + 1 = (Len(pending) + 1) - 1
      BY <1>3, <2>2
    <3> QED
      BY <2>1, <2>7, <3>1
  <2> QED
    BY <2>5, <2>6, <2>8, <2>9 DEF Roles
<1>7. ~ (\E k \in DOMAIN pending : Lose(k))
  BY DEF Lose
<1> QED
  <2>1. DeployAll \/ DeployBridge \/ Launch \/ Finish \/ Abort => pc' \in {0, 1} /\ UNCHANGED chain
    BY DEF DeployAll, DeployBridge, Start, Launch, Finish, Abort, chain
  <2>2. SaveAll => stage' = "idle" /\ UNCHANGED chain
    BY DEF SaveAll
  <2>3. Save \/ Resume \/ UNCHANGED vars
            => UNCHANGED chain /\ run' = run /\ stage' = stage /\ pc' = pc
    BY DEF Save, Resume, vars, command, chain
  <2> QED
    BY <1>4, <1>5, <1>6, <1>7, <2>1, <2>2, <2>3 DEF Next

\* As long as the node loses nothing, a deployer gives up the admin role of a
\* timelock only after its governor can propose.
THEOREM NeverLockedOut ==
    Spec => []NotLockedOut
<1>1. Init => Roles
  BY DEF Init, Roles, Gaps, GivenUpLate
<1>2. Control /\ Queue /\ Roles /\ [Next]_vars => Roles'
  BY RolesStep
<1>3. Roles => NotLockedOut
  BY DEF Roles, GivenUpLate, NotLockedOut, Done
<1> QED
  BY <1>1, <1>2, <1>3, AlwaysControl, AlwaysQueue, PTL DEF Spec
=============================================================================
