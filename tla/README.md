# Spyro: a TLA+ model of the protocol, checked and proved

Spyro is a protocol for indexing AI models.  Indexers lock SPY tokens and serve
queries, delegators bond SPY to indexers, curators signal which AI-Graphs are
worth indexing, a keeper mints inflation, and a Wormhole relayer carries
curation signals between chains.  This directory models the repository's
contracts, the processes that run beside them, the scripts that deploy them,
the SDK that calls them and the adapters' mappings.  TLC checks them on small
instances, and TLAPS proves for instances of any size every safety property that
these checks pass.  All paths below are relative to the repository
(`contracts/` is `spyro-contracts/contracts/`).

## The system

| component | state | operations | what is hard | what makes it correct | modules |
|---|---|---|---|---|---|
| DelegationPool (`contracts/delegation/delegationPool.sol`, `libraries/shareMath.sol`) | pools, sharesOf, withdrawals | delegate, undelegate, withdraw, claimRewards | truncated share prices, one queue slot for all exits, rewards pulled by whoever claims first | every pool a fair share vault, shares accounted for, books match the balance, exits neither early nor stuck | `DelegationPool`, `ShareMath`, `ShareVault` |
| Curation (`contracts/curation/curation.sol`, `libraries/bondingCurve.sol`) | curves, sharesOf | signal, unsignal, migrateVersion | two taxes, two curves updated in one call (perhaps the same one) | SPY conserved, every curve priced, holders' shares on the curve but for migrations | `Curation`, `BondingCurve` |
| StakeManager (`contracts/staking/stakeManager.sol`) | stakes | stake, queueUnstake, withdraw | order of the three calls, one lock for all queued amounts | books match the balance, nothing paid early | `StakeManager` |
| SlashingManager (`contracts/staking/slashingManager.sol`) | challenges | openChallenge, slash | stake at risk that is gone by the time, the window against a late arbitrator, a challenge opened twice in a block | penalties within what was at risk, escapes only by exit, none after the window | `Staking` |
| DelegationManager (`contracts/staking/delegationManager.sol`) | delegatedStake, delegatorShares | delegate, undelegate | shares not kept per indexer, a capacity that follows the stake | books match, delegations within the peak capacity | `Staking` |
| RewardsDistributor, SPYToken, keeper (`contracts/staking/rewardsDistributor.sol`, `contracts/governance/spyToken.sol`, `contracts/keeper/`) | lastInflationMint, supply, balances; the runs of the cron job | depositFees, mintInflation, mint; tryMint | concurrent keepers, late and failed runs, a cap that refuses | no time paid twice, burn rate kept, inflation not too late | `Inflation` |
| Bridge (`spyro-bridges-wormhole`: wormholeBridge.sol, wormholereceiver.sol, relayer/src) | published sequence, handlers in progress, wallet nonce | sendCurationSignal, the watcher's listener, publishVaa, receiveCuration | concurrent handlers, shared nonce, lost transactions, crashes without a cursor, repeated logs, a receiver with no memory | no signal relayed more often than shown, success reported truthfully, no nonce handed out while it is in use, every handler ends | `CurationBridge` |
| Deployment and governance wiring (`spyro-contracts/scripts/deployAll.ts`, the four `deploy*.ts` it runs, `deployBridge.ts`) | nonces, mined transactions, printed and saved summaries | a command per script, its transactions, save, abort | partial runs, lost transactions, stale summary files, order of grants and renounces | nobody locked out, what is printed is in place, the pool wired to what is listed beside it | `Deployment` |
| SDK (`spyro-sdk-js/src/contracts/staking.ts`) | allowance, prepared and pending transactions | stake, queueUnstake, withdraw, delegate, undelegate, claim | calls of one wallet interleave at their awaits, the approval is not awaited, replies get lost, the indexer's capacity runs out | delegated once, allowance within a request, delegations made in the end if there is room | `StakingSdk` |
| Adapters (`spyro-adapter-tao`, `spyro-adapter-render`) | Provider, Model and InferenceJob entities | handleServe, handleProof | three saves per event, crash between them, replay from the start block | references resolve, entities a function of the events | `Adapters` |
| Spyro node (`spyro-node/src`, `cmd`) | stream, backoff | ingest loop, mapper | reconnects | - | not modelled, see below |
| Interfaces, BytesLib, devnet, workflows | none | none | - | - | not modelled |

How they interact: DelegationPool reads an indexer's self-stake and unbonding
period from StakeManager and pulls rewards from the rewards contract;
SlashingManager and DelegationManager read the self-stake too, and a slash
takes from it; the distributor mints through the token, which it must own; the
relayer is the only caller of the receiver, which calls the curation contract
of the other chain; the keeper and anybody else may call mintInflation; the SDK
calls token and pool; the scripts create the contracts and hand them to the
governor.

Some of these calls lead to functions that no contract of the repository has:
`pullRewards` and `claimableRewards` (called by DelegationPool),
`increaseDelegatedStake` and `decreaseDelegatedStake` (called by StakeManager),
`forceSlash` (called by SlashingManager), `relayCurationSignal` (called by the
receiver), `setDelegationManager` and the pool's `transferOwnership` (called by
the scripts), the pool's undelegate and claim under the names the SDK uses.  As
the repository stands these calls revert.  The models take the callee as its
caller describes it, or let the call fail, and say so in the module's header;
the corresponding rows of the map are marked external.

## Modules

`Tally` sums a ledger by counting its units, which TLC can evaluate and TLAPS
can reason about with finite cardinalities and no induction.

**Contracts.**  A transaction runs to completion or reverts, so an external
function is one action: its `require`s, the token's balance checks, checked
subtractions and zero divisors are guards, its assignments the primed
variables.  `wallet`, `balance` and `burnt` are the token's records of the
accounts concerned.  Interleaving is that of transactions of different
accounts, of block time and of the contracts' surroundings.

* `DelegationPool` (with the conversions of `ShareMath`): pools, holdings and
  queue slots under the names of the source.  `AccrueRewards` and
  `SetSelfStake` stand for the rewards contract and StakeManager: any accrual,
  any move of the self-stake, at any time.  `claimed` and `exitedAt` are
  history variables for the properties.
* `ShareVault` is the abstract specification: what a vault promises whoever
  holds its shares.  It knows tokens and shares only, no delegators, queue,
  time or balance, and says of a deposit or redemption not how it is computed
  but that it is at the price of the vault, rounded against the caller by less
  than a unit.  `DelegationPool` implements it, with the pools for the vaults.
* `BondingCurve`, `Curation`: with both taxes in basis points.  `Migrated`
  applies the two curve updates one after the other as the contract does, so
  that the two versions may be the same graph.  `movedOut` and `movedIn` are
  history.  `FlatCurve` and `SharesDrift` state what the curve and migrations
  do exactly; the repository's tests expect otherwise (below), so that the run
  checks what holds of either, and the two are facts the proofs rest on.
* `StakeManager`: `queued`, `queuedAt` and `stranded` are history; the contract
  itself remembers nothing of a queue but the lock.
* `Staking` composes StakeManager with SlashingManager and DelegationManager:
  its steps are those of the three contracts on one state, so that stake that
  is challenged or delegated against can be queued, withdrawn or slashed
  meanwhile.  A challenge is keyed by indexer, challenger, evidence and block
  time, as its hash is, so that one can replace another of the same block.
  `peak`, `slashed`, `atRisk`, `wave` (the challenges opened since an indexer
  was last without one that is open) and `escaped` (it has taken stake out
  since) are history.

**Processes.**

* `Inflation`: the contracts' functions are atomic, the keeper's job is not.  A
  run is `StartRun` (cron), `Read` (the value of lastInflationMint arrives),
  `Check` (compare, send) and `Mine`, and may `Fail` in between.  What a failed
  run has broadcast may still be mined; since mintInflation asks for no caller,
  that is `MintByOther`, a mint by anybody at any time.  Time does not pass a
  cron instant before the job starts, nor a run's limit before it ends; the
  latter is an assumption about the network, since the job's tx.wait has no
  timeout, and `KeepsUp` rests on it.
* `CurationBridge`: a handler of the watcher is a task that goes from fetching
  to counting (asking for the wallet's nonce), sending and waiting, and ends
  done, refused by the node or failed.  A crash ends all tasks and forgets the
  logs not yet shown; transactions that were broadcast stay.  Repeated logs,
  failed calls, reverts and lost transactions are actions.  What the relayer
  subscribes to and filters by, what its checks say and what the receiver makes
  of a call are constants, because in the code as it stands each of them stops
  every signal:
  - the watcher subscribes to the contract at sourceBridgeAddress and filters
    the senders by the same address (watcher.ts:33 and 39), while the Wormhole
    core emits the logs with the bridge as sender: with `Subscribed = Sender`
    no handler is ever started (theorem `NothingHeard`);
  - parseVaa returns no field `valid` (index.ts:46-50), and publisher.ts:42
    compares a Buffer with a string: `Verdicts = {FALSE}`;
  - receiveCuration is onlyOwner (wormholereceiver.sol:52), and
    deployBridge.ts:76 makes the governor the owner: `Outcomes = {FALSE}`.

  The theorems hold for all their values; the run lets checks and receiver say
  yes or no each time.  Names by which the two halves of the relayer and the
  receiver call each other differ in the source and are taken for the same
  functions.
* `StakingSdk`: a call goes from reading the allowance to preparing (nonce,
  gas estimate), broadcasting and being waited for, for the approval first when
  one is needed.  The gas estimate may see the pending transactions or not.
  The pool takes a delegation that allowance and funds cover and that fits the
  indexer's `room`, what its capacity leaves; `SetRoom` is its stake and the
  other delegators, who change that at any time.
  stake() always rejects, since it destructures the bigint that decimals()
  yields (its test expects otherwise); so do the two calls of functions the
  pool lacks.  A wallet that replaces a pending transaction by one with a
  higher fee is left out.
* `Deployment`: a script is its list of transactions, some awaited and some
  only broadcast (the governance script's three role changes and its delegate).
  No script writes the summaries that deployAll reads: `Save`, by the operator,
  at any later time and of any earlier run.  Any step may throw (`Abort`); as
  the repository stands setDelegationManager and the pool's transferOwnership
  always do, and the path of the staking script that deployAll starts does not
  exist, which is the same as an abort there.
* `Adapters`: a handler's three saves are three steps.  `Restart` reads a
  network again from its start block over the store as it is, which is what the
  node's ingest loop, which drops its stream, or a crash leads to: the
  configuration names where a stream starts, and nothing records how far it
  got.  handleScore is cut off in the source and is left out.

`MC...` modules give TLC its symmetry sets and structured constants.
`LedgerLemmas` and the `...Proofs` modules hold the proofs.  Most component
modules define some `Faulty...` operators: alternatives of a definition with
the fault a change could plausibly introduce.  They are no part of `Spec`;
replacing the definition by its faulty form must break the property named
beside it in `PROJECT.json`, which shows that the property depends on that code.

## Runs

| run | shows | bounds, and why they are enough |
|---|---|---|
| `pool` (DelegationPool.cfg) | pools are share vaults (refinement), shares accounted for, pools priced, books backed, claims within rewards, no early exit, every exit paid in the end | two delegators share one pool: every conflict is between one caller and the rest.  Deposits of 1 and 3 with a multiple of 6 pass and exceed the capacity, rewards of 1 and 2 make fractional prices, two exit times share one slot.  Several pools at once are covered by the proofs |
| `curation` (Curation.cfg) | tokens if and only if shares on every curve, SPY conserved, holdings on the curve but for migrations | real tax rates; amounts of 40 and 120 so that either tax is 0 or more and a curve can be emptied at once; two migrations among v1 to v2, v2 to v1 and v1 to v1 |
| `stake` (Staking.cfg) | books of three contracts, penalties within what was at risk, stake covers all penalties outstanding unless the indexer leaves, delegations within the peak capacity, nothing paid early | two indexers, two delegators, two challenges that may overlap, be replaced in a block or outlive their window; half of the stake a penalty, so that rounding and two slashes matter, and a stake of three parts, so that a challenge resolved too late would cost more than is left |
| `inflation` (Inflation.cfg) | rate, burn, bounded lateness | two keepers, two failures, mints by others, a year of five days of three ticks: five mints, the last ones refused by the cap |
| `bridge` (CurationBridge.cfg) | relayed at most once per log, truthful success, refusals only of raced nonces, handlers end | two signals, one foreign message, one repeat, failure, lost transaction and crash: three concurrent handlers; checks and receiver say yes or no each time |
| `deploy` (Deployment.cfg) | nobody locked out as long as nothing is lost, printed contracts on chain and owned, the pool wired to what is listed, commands end | two commands, so that files and printed summaries of one run meet the other; one lost transaction, so that a gap in the nonces opens and is filled |
| `sdk` (StakingSdk.cfg) | a delegation is made once, the allowance never exceeds a request, delegations are made in the end if the room for them remains | two delegations of different amounts, a claim and a stake in one wallet; a mempool that is full with two, one lost reply, room for none or for either |
| `adapters` (Adapters.cfg) | references resolve at every moment, replays converge | two providers, models, transactions and values, three events, two restarts, also within a handler |

Runs that are expected to find a violation, each a statement of the repository
that the code does not keep:

| run | statement | what happens |
|---|---|---|
| `pool_solvent` | withdraw finalises an exit after the unbonding period | a claim is paid from the balance and stays on the pool's books, so the last exits revert |
| `stake_pays_queued` | "withdrawal queue" | withdraw pays what is still staked; what was queued is never paid |
| `bridge_signals` | the relayer submits the messages it watches | with the subscription, checks and receiver repaired that stop every signal before: two handlers get one nonce, one signal is lost |
| `deploy_stale` | deployAll reads the governance script's summary back | it reads what was saved of an earlier run, and hands that run's governor to the new contracts |

More disagreements were met and are visible in the models without a run of
their own; the first six are findings in `PROJECT.json` too.  Tests are under
`contracts/` unless the path says otherwise.

* `delegation/test/rewardsSplit.t.sol:63-78` expects both delegators to get
  their part; the first claim pulls everybody's rewards into the pool, and the
  next finds nothing new and reverts.
* `curation/test/migration.t.sol:73-77` and
  `curation/interfaces/iCuration.sol:99-102` expect a migration to move the
  curators' sharesOf; it is not touched.  `HoldingsCovered` is what is left of
  it, and `SharesDrift` says by exactly how much curves and holdings part.
* `curation/interfaces/iCuration.sol:57-67` expects later curators to get fewer
  shares; the price is the average one and never leaves 1 (`FlatCurve`), so they
  get as many.
* `spyro-contracts/test/invariants.t.sol:80-91` expects the capacity of 16 times
  the self-stake to hold at any time; it is compared at a deposit and not kept
  afterwards.  `WithinPeakCapacity` says what is kept.
* `spyro-contracts/test/invariants.t.sol:93-103` equates tokens and shares; they
  part as soon as rewards arrive.  A deposit below the price of a share is taken
  and mints nothing.
* The first mint counts from timestamp 0 and pays for decades, whatever the
  annual 3 % of `spyro-sdk-js/src/utils/constants.ts:15`; `WithinRate` starts
  from it.
* StakeManager's withdraw also pays stake that was never queued.
* A challenge opened again in its block can be resolved again, and delegator
  shares bought from one indexer can be spent on another: the models have both,
  and no property can rule them out.
* If the node loses one of deployGovernance's grants and another command fills
  its nonce, the deployer's role is revoked and nobody can act on the timelock;
  `NotLockedOut` is stated for as long as nothing is lost.

Runs that switch the deadlock check off are those whose system really comes to
rest: when the bounds on time, calls or commands are used up, or nobody has the
funds for another call.

### Fairness

Safety needs none.  `pool` assumes for `ExitsPaid` that blocks keep coming
(bounded by MaxTime, and exits are queued only while they can still unlock) and
that a delegator whose exit stays unlocked calls withdraw; nothing is assumed of
the other calls.  `bridge` assumes that nodes answer and guardians sign (the
SDK's getSignedVAAWithRetry retries for ever), that a handler whose promise is
resolved runs on, and that the transaction whose nonce is next is mined; not
that the relayer restarts, that calls succeed, that no transaction is lost or
that logs are shown again.  A handler that waits for a lost transaction, or
behind one, may wait for ever, and `HandlersSettle` excepts it while that nonce
is missing.  `deploy` assumes that a script runs
on by itself and that the network mines what has no gap before it; neither that
nothing is lost nor that the operator does anything.  `sdk` assumes that
promises settle, that blocks are mined and that the application repeats a
delegation that failed; nothing is assumed of the indexer's room, and
`DelegationsMade` is about those executions in which it remains.

## Proofs

For every finite set of delegators, indexers, curators, graphs and keepers,
every set of events, any calls of a wallet, any number of commands, lost
transactions and lost replies, every bound and every value of the other
constants that the modules' ASSUMEs allow, TLAPS checks:

* `DelegationPoolProofs`: `TypeOK`, `SharesAccounted`, `PoolsPriced`, `Backed`,
  `ClaimsWithinRewards`, `UnbondingRespected`; that prices never fall
  (`PricesNeverFall`), hence that a holding left alone never loses worth, rounded
  down as it is (`HoldingsKeepTheirWorth`), and that what a deposit mints is
  never worth more than it (`RoundTripsAlwaysLose`); that DelegationPool
  implements `ShareVault` (`PoolsImplementVaults`); and that the unused copy in
  `libraries/shareMath.sol` agrees with the conversions the pool uses on every
  reachable pool (`LibrariesAgree`).
* `CurationProofs`: of the contract `TypeOK`, `CurvesPriced`, `CurvesBacked`,
  `HoldingsCovered`, the `FlatCurve` and `SharesDrift` they follow from, that no
  call makes a curator richer (`NobodyEverGains`) and that no curator ever has
  more than it came with (`AlwaysWithinDeposits`); of the bridge, whose
  specification therefore has names of its own (`BridgeSpec`), `BridgeTypeOK`,
  `RelayedOncePerLog`, `DoneMeansRelayed`, `RefusedByRace`, and that the watcher
  as it stands never starts a handler (`NothingHeard`).
* `StakingProofs`: `TypeOK`, `StakesBacked`, `ExitAfterUnbonding` of
  StakeManager alone; the last two again of the whole stack, and
  `PenaltiesBounded`, `EscapesByExit`, `WithinPeakCapacity`,
  `DelegationsBacked`.
* `InflationProofs`: `TypeOK`, `FeesAccounted`, `WithinRate`, `KeepsUp`.
* `AdaptersProofs`: `TypeOK`, `ReferencesResolve`, `ReplayConverges`.
* `DeploymentProofs`: `TypeOK`, `NotLockedOut`, `PrintedInPlace`, `PoolWired`.
* `StakingSdkProofs`: `TypeOK`, `DelegatedOnce`, `AllowanceWithinRequest`.

Among them are all the safety properties of the passing runs.

The invariants are not inductive one by one.

In the pool, the type of `tokens - amountOut` (a checked subtraction) needs that
the payout is covered, hence that the caller's shares are among those issued
(`SharesAccounted`) and that a pool with shares has tokens (`PoolsPriced`); the
bound on claims needs the same two; the unbonding property needs `ExitsLocked`,
that a queued amount is locked for a full period from the last undelegate.
`IInv` is their conjunction.  Each action's arithmetic is a lemma about
`sharesForAmount` and `amountForShares` in `LedgerLemmas` (`MintKeepsPrice`,
`BurnKeepsPrice`, `RewardShareBounded`, and for the refinement `MintIsFair`,
`BurnIsFair`: truncation is against the caller, by less than a unit), and each
change of a ledger is one application of `TallyUpdate`.

The action theorems rest on the same facts.  `HoldingsKeepTheirWorth` compares
two truncated quotients by cross multiplication (`WorthGrows`), and needs that a
holding is part of its pool before and after the step; `RoundTripsAlwaysLose`
that both divisions round down (`RoundTripBounded`).

In Curation, `FlatCurve` carries the whole proof: with as many tokens as shares
no division truncates, so the taxes are the only thing that leaves the books,
and `CurvesPriced` is immediate; `HoldingsCovered` follows from `SharesDrift`.
For unsignal it also has to be known that the curve can pay the holder, which
migrations could prevent; that call is then disabled by its own guards, as the
contract reverts.  StakeManager needs that a lock is set whenever something is
queued and is a full period after the last queueUnstake.

In the stack, `PenaltiesBounded` is strengthened to `PenaltiesPending`: what was
slashed and the penalties of all unresolved challenges are together at most the
penalties at risk.  A resolution moves a penalty from one to the other; an
opening adds to both sides, and one that replaces a challenge of the same block
takes the old penalty out again (`PendingChange`).  `WithinPeakCapacity` needs
that the peak is at least the present stake (`PeaksHold`).

`EscapesByExit` says that the stake of an indexer that has not left covers every
penalty still outstanding, all of them together.  That is more than that no
single slash fails, which does not follow from itself: two open challenges may
each be affordable and not both.  It is not inductive either, since it forgets
what earlier slashes of the same run of challenges took.  `PenaltiesCovered`
remembers: some amount was taken, and what was taken and what is owed are at
most the penalties of `wave` challenges on the stake before anything was taken.
An opening adds one challenge at no more than what is left, a slash moves a
penalty from owed to taken, a dismissal or an expired window only lowers what is
owed, and once nothing can be resolved any more all counts start again.  With
penalties of at most a whole stake (`wave * SLASH_PERCENT <= 10000`, 40
challenges at 250 basis points) what is owed is then at most what is left.

`WithinRate` needs that the last mint lies in the past and the first before the
last.  Each mint is at most rate times supply times the time since the last
mint (`DueBounded`), and the supply only grows, so the earlier mints' bound
holds of the new supply as well (`RatesAdd`).  `KeepsUp`, a bound on lateness,
is proved by `OnTime`, which follows one keeper at a time: no day has begun and
ended since its last run was started (`Punctual`), a run that is under way is
within its time, and, while the cap allows a mint, its last run was started at
most a day after the last mint, and a day more for each failure and for a run
that may still mint (`Prompt`).  Any one keeper bounds the lateness, so there
has to be one (`KeepersAssumption`), however many others race it.

`ReferencesResolve` needs that what a handler in progress has saved is there
(`Saved`) and that nothing is ever removed; a restart makes `Saved` vacuous.

`ReplayConverges` speaks of a log that has been read to its end; its invariant,
`Converging`, of one that has been read up to some event, over a store that
earlier replays have filled.  It has a part for each field, and the parts are of
two kinds.  A field the first event decides (a provider's stake, a model's
provider) is that of the first event of the log whenever the entity is there at
all: no replay can change it.  A field the last event decides (a reputation, a
version, a job) is that of the last event among those whose save has already
been repeated; what is beyond may still hold the value of an earlier replay,
and is overwritten before the end.  How far the saves have got is different for
each kind of entity in the middle of a handler (`ProviderSaves`, `ModelSaves`,
`handled`).

The deployment's properties rest on what a command knows.  `Control`: every file
it has read, and every file the operator has saved, was printed by the script it
belongs to.  `Queue` and `Waiting`: each transaction is broadcast once and
executed once, is behind the place the command has reached (`Past`), and is the
very one the script waits for, even when gaps in the nonces hold it back.
`Answered`: what the current script has sent and been answered for is on chain,
step by step, so that a script that reaches its end has deployed and handed over
all that it prints.  `Handed` carries that to the printed summaries and to
spyro-all.json, through the order in which the three summaries are spread.
`NotLockedOut` is about the transactions nobody waits for.  `Roles` says that, as
long as nothing is lost, the mempool has no gaps and every revocation has its
grant before it or already mined.  None of this depends on the number of commands, though it does on
the scripts, which are part of the specification.

On the bridge, `RelayedOncePerLog` counts three finite sets, the unsent tasks,
the transactions in flight and the relayed ones, and each step moves a signal
from one to the next.  It needs that a transaction belongs to a task of its own
signal (`Matching`).  `RefusedByRace` needs `Races`: a task that is about to
broadcast, and whose nonce no other has broadcast with since it asked, holds a
nonce that is free; the wallet gives out no other, a used nonce stays used until
it is mined or lost, and a broadcast marks those it overtakes.

In the SDK, `DelegatedOnce` counts the delegations of a call that are made and
those under way.  `Accounted` says of a call that has handed a response out, or
is done, that they are at most one more than the replies it never got, and of
any other call that they are at most as many as those.  `FailedInVain` is what
makes a retry safe: when a call awaits a delegation that has reverted, and none
of it is under way, those it has made are all unheard ones.  `ApprovalsRequested` says that every
approval is for an amount some delegation asked for, in the ledger as in the
mempool.  `AllowanceWithinRequest` speaks of the ledger after the whole mempool
has been executed, a fold.  `FoldFair` shows by an induction over the mempool's
places that it stays among the ledgers whose allowance was asked for: the
function that the library's fold is the value of is shown to exist first
(`ExecutionExists`), by the least place at which it would not, and then followed
place by place.

Only model-checked is liveness (`ExitsPaid`, `HandlersSettle`, `CommandsEnd`,
`DelegationsMade`), which the prover cannot treat under fairness.  The four runs
that expect a violation have nothing to prove.

## What is left out

* uint256 overflow (the supply is capped at 10^27), gas, events, views,
  reentrancy (the token calls nobody back, and the pool and StakeManager are
  nonReentrant besides), the contracts' own allowance (given once and unlimited,
  as the tests do; the SDK's is modelled), and the permissions of onlyOwner
  functions.
* spyro-node: the ingest loop's providers and the store its mapper writes to
  are not in the repository, so nothing can be promised of either.  What can be
  read: `resilient_stream` takes one event of a provider's stream, drops the
  stream and opens another for the next event, and its backoff is never reset.
  `Adapters` has a network read again at any time in its place.
* Governance beyond the deploy script's wiring is OpenZeppelin's, inherited
  unchanged; deployGovernance.ts exists in two identical copies.  curation.ts
  of the SDK is a copy of its staking.ts; governance.ts is empty.
* verifyContracts.ts and forkTest.ts change no state that lasts.
* Interfaces, BytesLib (called by no contract), the devnet's configuration and
  the workflows.

## What could come next

DelegationPool on top of `Staking` in place of `SetSelfStake`, which needs no new
property as long as every move of the self-stake is allowed.
