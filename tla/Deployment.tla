----------------------------- MODULE Deployment -----------------------------
(***************************************************************************)
(* The deployment scripts: scripts/deployAll.ts runs the scripts of the    *)
(* four stacks as child processes, one after the other; deployBridge.ts is *)
(* run by itself.  All of them sign with one deployer key.                 *)
(*                                                                         *)
(* A script awaits the mining of what it deploys and of the calls it waits *)
(* for, and only broadcasts the others.  The node keeps broadcast          *)
(* transactions in nonce order, may lose one of them, and gives the next   *)
(* transaction the lowest free nonce.  A script may fail or be killed      *)
(* between any two steps, and the operator runs it again.                  *)
(*                                                                         *)
(* No script writes the summaries deployAll reads back: the operator saves *)
(* what a script printed under artifacts/deployments, at any later time.   *)
(* A contract is named by its class and the command that deployed it.      *)
(*                                                                         *)
(* Any step may throw.  Two always do as the contracts stand: StakeManager *)
(* has no setDelegationManager and DelegationPool no owner.  The scripts   *)
(* are modelled with the contracts they are written for.                   *)
(***************************************************************************)
EXTENDS Naturals, Sequences, FiniteSets, Functions

CONSTANTS
    MaxRuns, \* bound: commands the operator runs
    MaxLost  \* bound: transactions the node loses

ASSUME BoundsAssumption == MaxRuns \in Nat /\ MaxLost \in Nat

VARIABLES
    run,     \* number of commands run so far; names what the current one deploys
    stage,   \* the script that runs, "saving" at the end of deployAll, or "idle"
    pc,      \* its next step; 0 before the child process has started
    awaited, \* the transaction the script waits for, or NoTx
    read,    \* read[f]: what the command has read of f.json, or <<>>
    files,   \* files[f]: artifacts/deployments/f.json, <<>> when absent
    all,     \* artifacts/deployments/spyro-all.json, <<>> when absent
    printed, \* the summaries printed so far: <<script, summary>>
    pending, \* the deployer's broadcast transactions by nonce; NoTx is a gap
    mined,   \* the transactions executed on chain
    lost     \* the transactions the node lost

command == <<run, stage, pc, awaited, read>>
disk == <<files, all>>
chain == <<pending, mined, lost>>
vars == <<run, stage, pc, awaited, read, files, all, printed, pending, mined, lost>>

Runs == 1..MaxRuns
NoFile == <<>>
NoTx == [op |-> "none"]

-----------------------------------------------------------------------------
(* The scripts.                                                            *)

\* { ...under, ...over }: the fields of `over`, and those of `under` it lacks.
Merged(over, under) ==
    [n \in DOMAIN over \cup DOMAIN under |->
        IF n \in DOMAIN over THEN over[n] ELSE under[n]]

\* Faults a change to the scripts could bring in; they are no part of Spec.
FaultyCall(op, name, uses) == [op |-> op, on |-> name, uses |-> uses, wait |-> FALSE]
FaultyNonce(txs, tx) == Append(Append(txs, NoTx), tx)
FaultySpread(delegation) == Merged(delegation, read["governance"])
FaultyOverride(delegation) ==
    Merged(read["governance"], Merged(read["staking"], delegation))

New(name, uses) == [op |-> "new", on |-> name, uses |-> uses, wait |-> TRUE]
Call(op, name, uses) == [op |-> op, on |-> name, uses |-> uses, wait |-> TRUE]
Send(op, name, uses) == [op |-> op, on |-> name, uses |-> uses, wait |-> FALSE]

\* A fault: the deployer gives its role up first.
FaultyGovernanceScript ==
    [txs |-> << New("SPYToken", {}),
                New("Timelock", {}),
                New("Governor", {"SPYToken", "Timelock"}),
                Send("revokeAdmin", "Timelock", {}),
                Send("grantProposer", "Timelock", {"Governor"}),
                Send("openExecutor", "Timelock", {}),
                Send("delegate", "SPYToken", {}) >>,
     prints |-> {"SPYToken", "Timelock", "Governor"}]

\* A script's transactions, and the contracts whose addresses it prints.
GovernanceScript ==
    [txs |-> << New("SPYToken", {}),
                New("Timelock", {}),
                New("Governor", {"SPYToken", "Timelock"}),
                Send("grantProposer", "Timelock", {"Governor"}),
                Send("openExecutor", "Timelock", {}),
                Send("revokeAdmin", "Timelock", {}),
                Send("delegate", "SPYToken", {}) >>,
     prints |-> {"SPYToken", "Timelock", "Governor"}]

\* The hand-over of step 6 is commented out.
StakingScript ==
    [txs |-> << New("StakeManager", {"SPYToken"}),
                New("DelegationManager", {"SPYToken", "StakeManager"}),
                Call("setDelegationManager", "StakeManager", {"DelegationManager"}),
                New("SlashingManager", {"StakeManager"}),
                New("RewardsDistributor", {"SPYToken", "StakeManager"}) >>,
     prints |-> {"SPYToken", "StakeManager", "DelegationManager",
                 "SlashingManager", "RewardsDistributor"}]

CurationScript ==
    [txs |-> << New("Curation", {"SPYToken"}),
                Call("transferOwnership", "Curation", {"Governor"}) >>,
     prints |-> {"Curation", "SPYToken", "Governor"}]

DelegationScript ==
    [txs |-> << New("DelegationPool", {"SPYToken", "StakeManager", "RewardsDistributor"}),
                Call("transferOwnership", "DelegationPool", {"Governor"}) >>,
     prints |-> {"DelegationPool", "SPYToken", "StakeManager",
                 "RewardsDistributor", "Governor"}]

BridgeScript ==
    [txs |-> << New("WormholeBridge", {}),
                Call("transferOwnership", "WormholeBridge", {"Governor"}),
                New("WormholeReceiver", {"Curation"}),
                Call("transferOwnership", "WormholeReceiver", {"Governor"}) >>,
     prints |-> {"WormholeBridge", "WormholeReceiver", "Curation", "Governor"}]

Script == [governance |-> GovernanceScript, staking |-> StakingScript,
           curation |-> CurationScript, delegation |-> DelegationScript,
           bridge |-> BridgeScript]

Scripts == DOMAIN Script
Steps(s) == Script[s].txs
Listed(s) == Script[s].prints
Deploys(s) == {tx.on : tx \in {t \in Range(Steps(s)) : t.op = "new"}}

\* The file a command line argument is taken from.
Source == [SPYToken |-> "governance", Governor |-> "governance",
           StakeManager |-> "staking", RewardsDistributor |-> "staking",
           Curation |-> "curation"]

\* deployAll reads a file before it starts the stage.
Needs == [governance |-> {}, staking |-> {"governance"}, curation |-> {"staking"},
          delegation |-> {}, saving |-> {"delegation"}, bridge |-> {}]

Following == [governance |-> "staking", staking |-> "curation",
              curation |-> "delegation", delegation |-> "saving",
              bridge |-> "idle"]

\* The command that deployed the contract a script means by `name`.
Known(name) ==
    IF name \in Deploys(stage) THEN run ELSE read[Source[name]][name]

Summaries(s) == [Listed(s) -> Runs]
ReadBack == {"governance", "staking", "delegation"}
NothingRead == [f \in ReadBack \cup {"curation"} |-> NoFile]

TypeOK ==
    /\ run \in 0..MaxRuns
    /\ stage \in Scripts \cup {"idle", "saving"}
    /\ pc \in 0..(IF stage \in Scripts THEN Len(Steps(stage)) + 1 ELSE 0)
    /\ \A f \in ReadBack : files[f] = NoFile \/ files[f] \in Summaries(f)
    /\ \A f \in DOMAIN read : read[f] = NoFile \/ read[f] \in Summaries(f)
    /\ all = NoFile \/ all \in [UNION {Listed(f) : f \in ReadBack} -> Runs]
    /\ \A p \in printed : p[1] \in Scripts /\ p[2] \in Summaries(p[1])
    /\ Range(pending) \cap mined = {}
    /\ awaited # NoTx => awaited \in mined \cup lost \cup Range(pending)

Init ==
    /\ run = 0
    /\ stage = "idle"
    /\ pc = 0
    /\ awaited = NoTx
    /\ read = NothingRead
    /\ files = [f \in ReadBack |-> NoFile]
    /\ all = NoFile
    /\ printed = {}
    /\ pending = <<>>
    /\ mined = {}
    /\ lost = {}

-----------------------------------------------------------------------------
(* The node.                                                               *)

Gaps(txs) == {k \in DOMAIN txs : txs[k] = NoTx}

\* A transaction takes the lowest free nonce.
Broadcast(txs, tx) ==
    IF Gaps(txs) = {} THEN Append(txs, tx)
    ELSE [txs EXCEPT ![CHOOSE k \in Gaps(txs) : \A g \in Gaps(txs) : k <= g] = tx]

\* A timelock's roles are changed by its admin: the deployer, until revokeAdmin.
Permitted(tx) ==
    tx.on = "Timelock" /\ tx.op # "new" =>
        \A m \in mined : ~ (m.op = "revokeAdmin" /\ m.at = tx.at)

\* The transaction of the lowest nonce is executed, or reverts.
Mine ==
    /\ pending # <<>>
    /\ Head(pending) # NoTx
    /\ pending' = Tail(pending)
    /\ mined' = IF Permitted(Head(pending)) THEN mined \cup {Head(pending)} ELSE mined
    /\ UNCHANGED <<command, disk, printed, lost>>

\* The node loses a transaction; those after it wait for its nonce.
Lose(k) ==
    /\ Cardinality(lost) < MaxLost
    /\ pending[k] # NoTx
    /\ pending' = IF k = Len(pending) THEN SubSeq(pending, 1, k - 1)
                  ELSE [pending EXCEPT ![k] = NoTx]
    /\ lost' = lost \cup {pending[k]}
    /\ UNCHANGED <<command, disk, printed, mined>>

-----------------------------------------------------------------------------
(* The operator.                                                           *)

Start(s, inputs) ==
    /\ stage = "idle"
    /\ run < MaxRuns
    /\ run' = run + 1
    /\ stage' = s
    /\ pc' = 0
    /\ read' = inputs
    /\ UNCHANGED <<awaited, disk, printed, chain>>

DeployAll == Start("governance", NothingRead)

\* deployBridge.ts takes the governor and the curation contract as arguments.
DeployBridge ==
    \E g, c \in printed :
        /\ g[1] = "governance"
        /\ c[1] = "curation"
        /\ Start("bridge", [NothingRead EXCEPT !["governance"] = g[2], !["curation"] = c[2]])

\* A printed summary is saved where deployAll looks for it.
Save ==
    \E p \in printed :
        /\ p[1] \in ReadBack
        /\ files' = [files EXCEPT ![p[1]] = p[2]]
        /\ UNCHANGED <<command, all, printed, chain>>

-----------------------------------------------------------------------------
(* The scripts' steps.                                                     *)

\* The child process of the stage is started, after the files it takes its
\* arguments from are read.
Launch ==
    /\ stage \in Scripts
    /\ pc = 0
    /\ \A f \in Needs[stage] : files[f] # NoFile
    /\ read' = [f \in DOMAIN read |-> IF f \in Needs[stage] THEN files[f] ELSE read[f]]
    /\ pc' = 1
    /\ UNCHANGED <<run, stage, awaited, disk, printed, chain>>

\* The next transaction is broadcast.
Step ==
    /\ stage \in Scripts
    /\ pc \in 1..Len(Steps(stage))
    /\ awaited = NoTx
    /\ LET step == Steps(stage)[pc]
           tx   == [op |-> step.op, on |-> step.on, at |-> Known(step.on),
                    args |-> [n \in step.uses |-> Known(n)]]
       IN  /\ pending' = Broadcast(pending, tx)
           /\ awaited' = IF step.wait THEN tx ELSE NoTx
    /\ pc' = pc + 1
    /\ UNCHANGED <<run, stage, read, disk, printed, mined, lost>>

\* deployed() or wait() resolves.
Resume ==
    /\ awaited \in mined
    /\ awaited' = NoTx
    /\ UNCHANGED <<run, stage, pc, read, disk, printed, chain>>

\* The script prints its addresses and exits; deployAll goes on.
Finish ==
    /\ stage \in Scripts
    /\ pc = Len(Steps(stage)) + 1
    /\ awaited = NoTx
    /\ printed' = printed \cup {<<stage, [n \in Listed(stage) |-> Known(n)]>>}
    /\ stage' = Following[stage]
    /\ pc' = 0
    /\ UNCHANGED <<run, awaited, read, disk, chain>>

\* { ...gov, ...stake, ...delegation }
Spread(delegation) == Merged(delegation, Merged(read["staking"], read["governance"]))

SaveAll ==
    /\ stage = "saving"
    /\ files["delegation"] # NoFile
    /\ all' = Spread(files["delegation"])
    /\ stage' = "idle"
    /\ read' = NothingRead
    /\ UNCHANGED <<run, pc, awaited, files, printed, chain>>

\* The command ends before its next step: require finds no file, a call or a
\* wait throws, a child process fails, or the process is killed.
Abort ==
    /\ stage # "idle"
    /\ stage' = "idle"
    /\ pc' = 0
    /\ awaited' = NoTx
    /\ read' = NothingRead
    /\ UNCHANGED <<run, disk, printed, chain>>

MissingFile == Abort /\ pc = 0 /\ \E f \in Needs[stage] : files[f] = NoFile

Next ==
    \/ DeployAll \/ DeployBridge \/ Save
    \/ Launch \/ Step \/ Resume \/ Finish \/ SaveAll \/ Abort
    \/ Mine \/ (\E k \in DOMAIN pending : Lose(k))

Spec == Init /\ [][Next]_vars

Progress == Launch \/ Step \/ Resume \/ Finish \/ SaveAll \/ MissingFile

\* A script runs on by itself, and the network mines what it can.
FairSpec == Spec /\ WF_vars(Progress) /\ WF_vars(Mine)

-----------------------------------------------------------------------------
(* What the scripts keep.                                                  *)

Done(op, name, r) == \E tx \in mined : tx.op = op /\ tx.on = name /\ tx.at = r

\* As long as the node loses nothing, a timelock always has someone who can act
\* on it: the deployer keeps the admin role until the governor can propose.
NotLockedOut ==
    lost = {} =>
        \A r \in Runs : Done("revokeAdmin", "Timelock", r)
                            => Done("grantProposer", "Timelock", r)

Owned(name, s) ==
    \E tx \in mined : /\ tx.op = "transferOwnership"
                      /\ tx.on = name
                      /\ tx.at = s[name]
                      /\ tx.args["Governor"] = s["Governor"]

\* What a script prints is on chain, and the curation, pool and bridge contracts
\* it prints already belong to the governor it prints, whatever was lost.
PrintedInPlace ==
    \A p \in printed :
        /\ \A n \in Listed(p[1]) : Done("new", n, p[2][n])
        /\ p[1] \in {"curation", "delegation", "bridge"} =>
               \A n \in Deploys(p[1]) : Owned(n, p[2])

\* The pool in spyro-all.json was deployed for the token, the stake manager and
\* the distributor listed beside it, and is owned by the governor listed there,
\* even when deployAll read the summaries of different runs.
PoolWired ==
    all # NoFile =>
        /\ Owned("DelegationPool", all)
        /\ \E tx \in mined :
              /\ tx.op = "new" /\ tx.on = "DelegationPool"
              /\ tx.at = all["DelegationPool"]
              /\ \A n \in DOMAIN tx.args : tx.args[n] = all[n]

\* A command ends, unless the node loses a transaction it waits for.
CommandsEnd == (stage # "idle") ~> (stage = "idle" \/ lost # {})

-----------------------------------------------------------------------------
(* What the repository says of the scripts and the code does not keep.     *)

\* "The deployGovernance script prints a JSON summary; read it back"
\* (deployAll.ts:36): the governor deployAll reads is the one it deployed.
ReadsItsOwnBack ==
    stage \in {"staking", "curation", "delegation", "saving"} /\ read["governance"] # NoFile
        => read["governance"]["Governor"] = run
=============================================================================
