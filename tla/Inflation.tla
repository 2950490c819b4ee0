----------------------------- MODULE Inflation -----------------------------
(***************************************************************************)
(* staking/rewardsDistributor.sol, the mint of governance/spyToken.sol and *)
(* the keeper of keeper/cronmintInflation.js: once a Day a cron job looks  *)
(* whether a day has passed since the last mint and, if so, sends the      *)
(* transaction that mints the inflation of the time since then.            *)
(*                                                                         *)
(* A run of the job awaits twice: the value of lastInflationMint, and the  *)
(* transaction, which is mined later and may revert.  Runs of several      *)
(* keepers interleave at these points.  A run that fails (an RPC error, a  *)
(* transaction that is dropped or reverts) ends; nothing is tried again    *)
(* until the next day.  What it has broadcast may still be mined, and      *)
(* anybody else may call mintInflation.                                    *)
(*                                                                         *)
(* The keepers' clock and block.timestamp are taken to be one clock, and   *)
(* the distributor to own the token: mint reverts for anybody else.        *)
(***************************************************************************)
EXTENDS Naturals, FiniteSets

CONSTANTS
    Keepers,       \* keeper processes
    Day,           \* 1 days, in units of block time
    Year,          \* 365 days
    RateNum,       \* ANNUAL_INFLATION / 1e18 = RateNum / RateDen
    RateDen,
    FeeBurnBps,    \* FEE_BURN_BPS, 100 in the code
    Deployed,      \* block.timestamp of the deployment
    InitialSupply, \* SPY minted at deployment
    MaxSupply,     \* MAX_SUPPLY
    PayerFunds,    \* SPY of the account that deposits query fees
    FeeAmounts,    \* amounts passed to depositFees
    RunWithin,     \* a run of the job is over within this time
    MaxFailures,   \* bound: runs that fail before their transaction is mined
    MaxTime        \* bound: blocks are mined up to this timestamp

ASSUME ClockAssumption ==
    /\ Day \in Nat \ {0} /\ Year \in Nat \ {0}
    /\ RunWithin \in Nat /\ RunWithin < Day
    /\ Deployed \in Nat \ {0} /\ MaxTime \in Nat /\ MaxFailures \in Nat
ASSUME KeepersAssumption == Keepers # {}
ASSUME SupplyAssumption ==
    /\ RateNum \in Nat /\ RateDen \in Nat \ {0}
    /\ InitialSupply \in Nat /\ MaxSupply \in Nat /\ PayerFunds \in Nat
    /\ PayerFunds <= InitialSupply /\ InitialSupply <= MaxSupply
    /\ FeeBurnBps \in Nat /\ FeeBurnBps <= 10000
    /\ FeeAmounts \subseteq Nat

VARIABLES
    now,               \* block.timestamp, and Date.now() / 1000
    supply,            \* totalSupply() of the token
    lastInflationMint, \* 0 until the first mint
    payer,             \* SPY the fee payer holds
    burnt,             \* SPY of 0xdead
    balance,           \* SPY of the distributor
    run,               \* run[k], the run of the job k is in
    cronAt,            \* cronAt[k], when k's last run was started
    failures,          \* runs that have failed
    firstMint          \* history: [at, supply] right after the first mint

token       == <<supply, burnt, payer>>
distributor == <<lastInflationMint, balance, firstMint>>
keepers     == <<run, cronAt, failures>>
vars        == <<now, token, distributor, keepers>>

\* A run waits for the read of lastInflationMint ("reading"), has the value
\* (seen, "checking"), or waits for its transaction ("sent").
Idle == [step |-> "idle", seen |-> 0]
Runs == [step : {"idle", "reading", "checking", "sent"}, seen : Nat]

TypeOK ==
    /\ now \in Nat
    /\ supply \in Nat /\ lastInflationMint \in Nat
    /\ payer \in Nat /\ burnt \in Nat /\ balance \in Nat
    /\ run \in [Keepers -> Runs]
    /\ cronAt \in [Keepers -> Nat]
    /\ failures \in Nat
    /\ firstMint \in [at : Nat, supply : Nat]

Init ==
    /\ now = Deployed
    /\ supply = InitialSupply
    /\ lastInflationMint = 0
    /\ payer = PayerFunds
    /\ burnt = 0
    /\ balance = 0
    /\ run = [k \in Keepers |-> Idle]
    /\ cronAt = [k \in Keepers |-> Deployed]
    /\ failures = 0
    /\ firstMint = [at |-> 0, supply |-> 0]

-----------------------------------------------------------------------------
\* Faults a change could bring in; they are no part of Spec: a rate that is
\* not scaled, or read in per mille, a year a day short, and a keeper that lets
\* more than two days pass.
FaultyUnscaled(amount) == amount * FeeBurnBps
FaultyBurnt(amount) == (amount * FeeBurnBps) \div 1000
FaultyDue(total, elapsed) ==
    (((total * RateNum) \div RateDen) * elapsed) \div (Year - Day)
FaultyIsDue(seen) == now - seen > 2 * Day

BurntPart(amount) == (amount * FeeBurnBps) \div 10000

\* The inflation of `elapsed` seconds on a supply of `total`.
Due(total, elapsed) == (((total * RateNum) \div RateDen) * elapsed) \div Year

Fits(amount) == supply + amount <= MaxSupply

\* The keeper's own test, on the value it has read.
IsDue(seen) == now - seen >= Day

-----------------------------------------------------------------------------
(* The contracts.                                                          *)

\* depositFees(amount): a part is burnt, the rest kept.
DepositFees(amount) ==
    LET burn == BurntPart(amount)
    IN  /\ payer >= amount
        /\ payer' = payer - amount
        /\ burnt' = burnt + burn
        /\ balance' = balance + (amount - burn)
        /\ UNCHANGED <<now, supply, lastInflationMint, firstMint, keepers>>

\* mintInflation() mints for all the time since the last mint, unless that is
\* less than a day or too much for the cap.
MayMint ==
    LET elapsed == now - lastInflationMint
    IN  elapsed >= Day /\ Fits(Due(supply, elapsed))

MintInflation ==
    LET daily == Due(supply, now - lastInflationMint)
    IN  /\ lastInflationMint' = now
        /\ supply' = supply + daily
        /\ balance' = balance + daily
        /\ firstMint' = IF firstMint.at = 0
                        THEN [at |-> now, supply |-> supply + daily]
                        ELSE firstMint
        /\ UNCHANGED <<payer, burnt>>

-----------------------------------------------------------------------------
(* The keepers.                                                            *)

CronTime == now % Day = 0

\* cron.schedule starts tryMint.
StartRun(k) ==
    /\ CronTime
    /\ cronAt[k] # now
    /\ run[k].step = "idle"
    /\ run' = [run EXCEPT ![k] = [step |-> "reading", seen |-> 0]]
    /\ cronAt' = [cronAt EXCEPT ![k] = now]
    /\ UNCHANGED <<now, token, distributor, failures>>

\* The call of lastInflationMint() answers.
Read(k) ==
    /\ run[k].step = "reading"
    /\ run' = [run EXCEPT ![k] = [step |-> "checking", seen |-> lastInflationMint]]
    /\ UNCHANGED <<now, token, distributor, cronAt, failures>>

\* The run resumes: it returns, or sends the transaction.
Check(k) ==
    /\ run[k].step = "checking"
    /\ run' = [run EXCEPT ![k] =
           IF IsDue(@.seen) THEN [step |-> "sent", seen |-> @.seen] ELSE Idle]
    /\ UNCHANGED <<now, token, distributor, cronAt, failures>>

\* The transaction is mined and succeeds, or reverts and changes nothing.
Mine(k) ==
    /\ run[k].step = "sent"
    /\ \/ MayMint /\ MintInflation
       \/ ~ MayMint /\ UNCHANGED <<token, distributor>>
    /\ run' = [run EXCEPT ![k] = Idle]
    /\ UNCHANGED <<now, cronAt, failures>>

\* A call of the run fails, or its transaction is dropped.
Fail(k) ==
    /\ failures < MaxFailures
    /\ run[k].step # "idle"
    /\ run' = [run EXCEPT ![k] = Idle]
    /\ failures' = failures + 1
    /\ UNCHANGED <<now, token, distributor, cronAt>>

\* mintInflation() asks for no caller: a transaction that a failed run has left
\* behind, or anybody else's, is mined.
MintByOther == MayMint /\ MintInflation /\ UNCHANGED <<now, keepers>>

\* Time passes; but the cron jobs start on time, and runs end in time.
Tick ==
    /\ now < MaxTime
    /\ \A k \in Keepers :
          /\ CronTime => cronAt[k] = now
          /\ run[k].step # "idle" => now < cronAt[k] + RunWithin
    /\ now' = now + 1
    /\ UNCHANGED <<token, distributor, keepers>>

Next ==
    \/ \E amount \in FeeAmounts : DepositFees(amount)
    \/ \E k \in Keepers :
          StartRun(k) \/ Read(k) \/ Check(k) \/ Mine(k) \/ Fail(k)
    \/ MintByOther
    \/ Tick

Spec == Init /\ [][Next]_vars

-----------------------------------------------------------------------------
(* What the contracts and the keepers keep.                                *)

\* Every SPY minted, deposited or burnt is where the contracts say it is, the
\* rest of the initial supply is not touched, and the burnt part of all fees
\* together is never above its rate, whatever deposits they came in.
FeesAccounted ==
    /\ supply = (InitialSupply - PayerFunds) + payer + burnt + balance
    /\ burnt * 10000 <= (PayerFunds - payer) * FeeBurnBps

\* From the first mint on, all mints together are at most the annual rate on
\* the supply they have reached, for the time they cover: no time is paid for
\* twice, however the runs of the keepers overlap, whatever is truncated and
\* although mints compound.
WithinRate ==
    firstMint.at # 0 =>
        (supply - firstMint.supply) * Year * RateDen
            <= supply * RateNum * (lastInflationMint - firstMint.at)

LastMint == IF lastInflationMint > Deployed THEN lastInflationMint ELSE Deployed

\* A mint is never more than two days and the length of a run late, plus a day
\* for each run that failed: a run that comes a little too early for the
\* contract's day skips it, and the next one is never too early.  Only the cap
\* ends this, and it ends it for good.
KeepsUp ==
    Fits(Due(supply, now - lastInflationMint)) =>
        now <= LastMint + (2 + failures) * Day + RunWithin
=============================================================================
