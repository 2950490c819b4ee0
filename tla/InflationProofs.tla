--------------------------- MODULE InflationProofs ---------------------------
(***************************************************************************)
(* Proofs, for every value of the constants, that the distributor's books  *)
(* are right and that inflation stays within its annual rate, whatever the *)
(* keepers do.                                                             *)
(***************************************************************************)
EXTENDS Inflation, Integers, TLAPS

\* Mints are in the past, and only add to the supply.
MintsPast ==
    /\ now > 0
    /\ lastInflationMint <= now
    /\ firstMint.at # 0 => firstMint.at <= lastInflationMint /\ firstMint.supply <= supply

\* The fee payer only spends.
PayerSpends == payer <= PayerFunds

IInv == TypeOK /\ MintsPast /\ PayerSpends /\ FeesAccounted /\ WithinRate

-----------------------------------------------------------------------------
(* Arithmetic.                                                             *)

\* Division rounds down by less than one unit.
LEMMA DivRoundsDown ==
    ASSUME NEW a \in Nat, NEW b \in Nat \ {0}
    PROVE  a \div b \in Nat /\ (a \div b) * b <= a
BY SMT

\* Division keeps the order.
LEMMA DivMonotone ==
    ASSUME NEW a \in Nat, NEW b \in Nat, NEW c \in Nat \ {0}, a <= b
    PROVE  a \div c <= b \div c
<1> DEFINE p == a \div c
           q == b \div c
<1>1. p \in Nat /\ c * p <= a /\ q \in Nat /\ b < c * q + c
  BY SMT
<1> HIDE DEF p, q
<1>2. CASE p > q
  <2>1. PICK d \in Nat : p = q + 1 + d
    <3>1. p - q - 1 \in Nat
      BY <1>1, <1>2
    <3> QED
      BY <1>1, <3>1
  <2>2. c * p = c * q + c + c * d /\ c * d \in Nat /\ c * q \in Nat
    BY <1>1, <2>1
  <2> QED
    BY <1>1, <2>2
<1>3. CASE p <= q
  BY <1>3 DEF p, q
<1> QED
  BY <1>1, <1>2, <1>3

\* Multiplication by a natural number keeps the order.
LEMMA TimesMonotone ==
    ASSUME NEW a \in Nat, NEW b \in Nat, NEW c \in Nat, a <= b
    PROVE  a * c \in Nat /\ b * c \in Nat /\ a * c <= b * c
BY SMT

\* The burnt part of a deposit is at most its rate.
LEMMA BurntPartBounded ==
    ASSUME NEW amount \in Nat
    PROVE  /\ BurntPart(amount) \in Nat
           /\ BurntPart(amount) <= amount
           /\ BurntPart(amount) * 10000 <= amount * FeeBurnBps
<1>1. FeeBurnBps \in Nat /\ FeeBurnBps <= 10000
  BY SupplyAssumption
<1>2. amount * FeeBurnBps \in Nat
  BY <1>1
<1>3. /\ BurntPart(amount) \in Nat
      /\ BurntPart(amount) * 10000 <= amount * FeeBurnBps
  BY <1>2, DivRoundsDown DEF BurntPart
<1>4. amount * FeeBurnBps <= amount * 10000
  <2>1. FeeBurnBps * amount <= 10000 * amount
    BY <1>1, TimesMonotone
  <2> QED
    BY <1>1, <2>1
<1>5. BurntPart(amount) * 10000 <= amount * 10000
  BY <1>2, <1>3, <1>4
<1>6. BurntPart(amount) <= amount
  BY <1>3, <1>5
<1> QED
  BY <1>3, <1>6

\* One mint is within the rate on the supply it starts from: truncation is
\* always against the distributor.
LEMMA DueBounded ==
    ASSUME NEW total \in Nat, NEW elapsed \in Nat
    PROVE  /\ Due(total, elapsed) \in Nat
           /\ Due(total, elapsed) * (Year * RateDen) <= (total * RateNum) * elapsed
<1>1. RateNum \in Nat /\ RateDen \in Nat \ {0} /\ Year \in Nat \ {0}
  BY SupplyAssumption, ClockAssumption
<1> DEFINE n == total * RateNum
           q == n \div RateDen
           m == q * elapsed
           due == m \div Year
<1>2. n \in Nat
  BY <1>1
<1> HIDE DEF n
<1>3. q \in Nat /\ q * RateDen <= n
  BY <1>1, <1>2, DivRoundsDown
<1> HIDE DEF q
<1>4. m \in Nat
  BY <1>3
<1>5. m * RateDen <= n * elapsed
  <2>1. (q * RateDen) * elapsed <= n * elapsed
    <3>1. q * RateDen \in Nat
      BY <1>1, <1>3
    <3> QED
      BY <1>2, <1>3, <3>1, TimesMonotone
  <2>2. m * RateDen = (q * RateDen) * elapsed
    BY <1>1, <1>3
  <2> QED
    BY <2>1, <2>2
<1> HIDE DEF m
<1>6. due \in Nat /\ due * Year <= m
  BY <1>1, <1>4, DivRoundsDown
<1> HIDE DEF due
<1>7. due * (Year * RateDen) <= m * RateDen
  <2>1. (due * Year) * RateDen <= m * RateDen
    <3>1. due * Year \in Nat /\ RateDen \in Nat
      BY <1>1, <1>6
    <3> QED
      BY <1>4, <1>6, <3>1, TimesMonotone
  <2>2. due * (Year * RateDen) = (due * Year) * RateDen
    BY <1>1, <1>6
  <2> QED
    BY <2>1, <2>2
<1>8. due * (Year * RateDen) <= n * elapsed
  <2>1. /\ due * (Year * RateDen) \in Nat /\ m * RateDen \in Nat
        /\ n * elapsed \in Nat
    BY <1>1, <1>2, <1>4, <1>6
  <2> QED
    BY <1>5, <1>7, <2>1
<1>9. Due(total, elapsed) = due
  BY DEF Due, due, m, q, n
<1> QED
  BY <1>6, <1>8, <1>9 DEF n

\* Mints that are each within the rate on a growing supply are together within
\* the rate on the supply they reach: y stands for a year's divisor, r for the
\* rate, s for the supply before the last mint, and t for the time before it.
LEMMA RatesAdd ==
    ASSUME NEW y \in Nat, NEW r \in Nat, NEW s \in Nat, NEW first \in Nat,
           NEW d \in Nat, NEW t \in Nat, NEW e \in Nat, first <= s,
           (s - first) * y <= (s * r) * t,
           d * y <= (s * r) * e
    PROVE  ((s + d) - first) * y <= ((s + d) * r) * (t + e)
<1>1. s - first \in Nat /\ (s - first) * y \in Nat /\ d * y \in Nat
      /\ ((s + d) - first) * y = (s - first) * y + d * y
  BY SMT
<1>2. s * r \in Nat /\ (s + d) * r \in Nat /\ s * r <= (s + d) * r
  BY TimesMonotone
<1>3. /\ (s * r) * (t + e) = (s * r) * t + (s * r) * e
      /\ (s * r) * t \in Nat /\ (s * r) * e \in Nat
  BY <1>2
<1>4. (s * r) * (t + e) <= ((s + d) * r) * (t + e)
  BY <1>2, TimesMonotone
<1>5. (s * r) * (t + e) \in Nat /\ ((s + d) * r) * (t + e) \in Nat
  BY <1>2
<1>6. ((s + d) - first) * y <= (s * r) * (t + e)
  BY <1>1, <1>3
<1> QED
  BY <1>1, <1>4, <1>5, <1>6

-----------------------------------------------------------------------------
(* The steps.                                                              *)

\* depositFees keeps the invariant: the burnt parts add up within their rate.
LEMMA DepositKeeps ==
    ASSUME IInv, NEW amount \in FeeAmounts, DepositFees(amount)
    PROVE  IInv'
<1> DEFINE burn == BurntPart(amount)
<1>1. amount \in Nat /\ FeeBurnBps \in Nat /\ InitialSupply \in Nat
      /\ PayerFunds \in Nat /\ PayerFunds <= InitialSupply
  BY SupplyAssumption
<1>2. burn \in Nat /\ burn <= amount /\ burn * 10000 <= amount * FeeBurnBps
  BY <1>1, BurntPartBounded
<1>3. /\ payer >= amount /\ payer' = payer - amount
      /\ burnt' = burnt + burn /\ balance' = balance + (amount - burn)
      /\ UNCHANGED <<now, supply, lastInflationMint, firstMint, run, cronAt, failures>>
  BY DEF DepositFees, keepers
<1> HIDE DEF burn
<1>4. /\ payer \in Nat /\ burnt \in Nat /\ balance \in Nat /\ supply \in Nat
      /\ payer <= PayerFunds
      /\ supply = (InitialSupply - PayerFunds) + payer + burnt + balance
      /\ burnt * 10000 <= (PayerFunds - payer) * FeeBurnBps
  BY DEF IInv, TypeOK, PayerSpends, FeesAccounted
<1>5. TypeOK'
  BY <1>1, <1>2, <1>3, <1>4 DEF IInv, TypeOK
<1>6. FeesAccounted'
  <2>1. supply' = (InitialSupply - PayerFunds) + payer' + burnt' + balance'
    BY <1>1, <1>2, <1>3, <1>4
  <2> DEFINE spent == PayerFunds - payer
  <2>2. spent \in Nat /\ PayerFunds - payer' = spent + amount
    BY <1>1, <1>3, <1>4
  <2>3. burnt * 10000 <= spent * FeeBurnBps
    BY <1>4
  <2> HIDE DEF spent
  <2>4. (spent + amount) * FeeBurnBps = spent * FeeBurnBps + amount * FeeBurnBps
    BY <1>1, <2>2
  <2>5. spent * FeeBurnBps \in Nat /\ amount * FeeBurnBps \in Nat
    BY <1>1, <2>2
  <2>6. (burnt + burn) * 10000 <= (spent + amount) * FeeBurnBps
    BY <1>2, <1>4, <2>3, <2>4, <2>5
  <2> QED
    BY <1>3, <2>1, <2>2, <2>6 DEF FeesAccounted
<1>7. PayerSpends'
  BY <1>1, <1>3, <1>4 DEF PayerSpends
<1>8. MintsPast' /\ WithinRate'
  BY <1>3 DEF IInv, MintsPast, WithinRate
<1> QED
  BY <1>5, <1>6, <1>7, <1>8 DEF IInv

\* mintInflation keeps the invariant: the time since the last mint is paid for
\* once, on the supply there is.
LEMMA MintKeeps ==
    ASSUME IInv, MintInflation, now' = now,
           run' \in [Keepers -> Runs], UNCHANGED <<cronAt, failures>>
    PROVE  IInv'
<1> DEFINE elapsed == now - lastInflationMint
           daily == Due(supply, now - lastInflationMint)
<1>1. /\ lastInflationMint' = now /\ supply' = supply + daily
      /\ balance' = balance + daily
      /\ firstMint' = IF firstMint.at = 0
                      THEN [at |-> now, supply |-> supply + daily]
                      ELSE firstMint
      /\ UNCHANGED <<payer, burnt>>
  BY DEF MintInflation
<1>2. /\ now \in Nat /\ now > 0 /\ supply \in Nat /\ balance \in Nat
      /\ payer \in Nat /\ burnt \in Nat
      /\ lastInflationMint \in Nat /\ lastInflationMint <= now
      /\ firstMint.at \in Nat /\ firstMint.supply \in Nat
      /\ firstMint \in [at : Nat, supply : Nat]
  BY DEF IInv, TypeOK, MintsPast
<1>3. elapsed \in Nat
  BY <1>2
<1>4. daily \in Nat /\ daily * (Year * RateDen) <= (supply * RateNum) * elapsed
  BY <1>2, <1>3, DueBounded
<1> HIDE DEF daily
<1>5. TypeOK'
  BY <1>1, <1>2, <1>4 DEF IInv, TypeOK
<1>6. MintsPast'
  BY <1>1, <1>2, <1>4 DEF IInv, MintsPast
<1>7. FeesAccounted' /\ PayerSpends'
  <2>1. InitialSupply - PayerFunds \in Nat
    BY SupplyAssumption
  <2> QED
    BY <1>1, <1>2, <1>4, <2>1 DEF IInv, FeesAccounted, PayerSpends
<1>8. WithinRate'
  <2>1. /\ Year \in Nat /\ RateDen \in Nat /\ RateNum \in Nat /\ Year * RateDen \in Nat
    BY ClockAssumption, SupplyAssumption
  <2>2. CASE firstMint.at = 0
    <3>1. /\ supply' - firstMint'.supply = 0
          /\ lastInflationMint' - firstMint'.at = 0
      BY <1>1, <1>2, <1>4, <2>2
    <3>2. supply' * RateNum \in Nat
      BY <1>1, <1>2, <1>4, <2>1
    <3>3. /\ (supply' - firstMint'.supply) * Year * RateDen = 0
          /\ supply' * RateNum * (lastInflationMint' - firstMint'.at) = 0
      BY <2>1, <3>1, <3>2
    <3> QED
      BY <3>3 DEF WithinRate
  <2>3. CASE firstMint.at # 0
    <3> DEFINE at    == firstMint.at
               first == firstMint.supply
               t     == lastInflationMint - at
    <3>1. /\ first \in Nat /\ first <= supply /\ at \in Nat /\ at <= lastInflationMint
          /\ t \in Nat /\ now - at = t + elapsed
      BY <1>2, <2>3 DEF IInv, MintsPast
    <3>2. (supply - first) * (Year * RateDen) <= (supply * RateNum) * t
      <4>1. (supply - first) * Year * RateDen <= supply * RateNum * t
        BY <2>3 DEF IInv, WithinRate
      <4>2. (supply - first) * (Year * RateDen) = (supply - first) * Year * RateDen
        BY <1>2, <2>1, <3>1
      <4> QED
        BY <4>1, <4>2
    <3> HIDE DEF at, first, t, elapsed
    <3>3. ((supply + daily) - first) * (Year * RateDen)
              <= ((supply + daily) * RateNum) * (t + elapsed)
      BY <1>2, <1>3, <1>4, <2>1, <3>1, <3>2, RatesAdd
    <3>4. ((supply + daily) - first) * (Year * RateDen)
              = ((supply + daily) - first) * Year * RateDen
      BY <1>2, <1>4, <2>1, <3>1
    <3>5. ((supply + daily) - first) * Year * RateDen
              <= (supply + daily) * RateNum * (now - at)
      BY <3>1, <3>3, <3>4
    <3>6. firstMint' = firstMint
      BY <1>1, <2>3
    <3> QED
      BY <1>1, <3>5, <3>6 DEF WithinRate, at, first
  <2> QED
    BY <2>2, <2>3
<1> QED
  BY <1>5, <1>6, <1>7, <1>8 DEF IInv

\* The invariant does not depend on the runs of the keepers.
LEMMA KeeperKeeps ==
    ASSUME IInv, run' \in [Keepers -> Runs], cronAt' \in [Keepers -> Nat],
           failures' \in Nat, UNCHANGED <<now, token, distributor>>
    PROVE  IInv'
<1>1. UNCHANGED <<now, supply, burnt, payer, lastInflationMint, balance, firstMint>>
  BY DEF token, distributor
<1> QED
  BY <1>1 DEF IInv, TypeOK, MintsPast, PayerSpends, FeesAccounted, WithinRate

\* Every step of a keeper keeps the invariant.
LEMMA RunKeeps ==
    ASSUME IInv, NEW k \in Keepers,
           StartRun(k) \/ Read(k) \/ Check(k) \/ Mine(k) \/ Fail(k)
    PROVE  IInv'
<1>1. /\ run \in [Keepers -> Runs] /\ cronAt \in [Keepers -> Nat] /\ failures \in Nat
      /\ now \in Nat /\ lastInflationMint \in Nat /\ run[k] \in Runs /\ run[k].seen \in Nat
  BY DEF IInv, TypeOK, Runs
<1>2. \A s \in {"idle", "reading", "checking", "sent"}, v \in Nat :
         [step |-> s, seen |-> v] \in Runs
  BY DEF Runs
<1>3. Idle \in Runs
  BY DEF Idle, Runs
<1>4. CASE StartRun(k)
  <2>1. [step |-> "reading", seen |-> 0] \in Runs
    BY <1>2
  <2> QED
    BY <1>1, <1>4, <2>1, KeeperKeeps DEF StartRun
<1>5. CASE Read(k)
  <2>1. [step |-> "checking", seen |-> lastInflationMint] \in Runs
    BY <1>1, <1>2
  <2> QED
    BY <1>1, <1>5, <2>1, KeeperKeeps DEF Read
<1>6. CASE Check(k)
  <2>1. [step |-> "sent", seen |-> run[k].seen] \in Runs
    BY <1>1, <1>2
  <2> QED
    BY <1>1, <1>3, <1>6, <2>1, KeeperKeeps DEF Check
<1>7. CASE Mine(k)
  <2>1. run' \in [Keepers -> Runs] /\ UNCHANGED <<now, cronAt, failures>>
    BY <1>1, <1>3, <1>7 DEF Mine
  <2>2. CASE MintInflation
    BY <2>1, <2>2, MintKeeps
  <2>3. CASE UNCHANGED <<token, distributor>>
    BY <1>1, <2>1, <2>3, KeeperKeeps
  <2> QED
    BY <1>7, <2>2, <2>3 DEF Mine
<1>8. CASE Fail(k)
  BY <1>1, <1>3, <1>8, KeeperKeeps DEF Fail
<1> QED
  BY <1>4, <1>5, <1>6, <1>7, <1>8

\* Time changes nothing but the clock.
LEMMA TickKeeps ==
    ASSUME IInv, Tick
    PROVE  IInv'
<1>1. /\ now \in Nat /\ now' = now + 1
      /\ UNCHANGED <<supply, burnt, payer, lastInflationMint, balance, firstMint,
                     run, cronAt, failures>>
  BY DEF IInv, TypeOK, Tick, token, distributor, keepers
<1> QED
  BY <1>1 DEF IInv, TypeOK, MintsPast, PayerSpends, FeesAccounted, WithinRate

\* Every step keeps the invariant.
LEMMA NextKeeps ==
    ASSUME IInv, [Next]_vars
    PROVE  IInv'
<1>1. CASE \E amount \in FeeAmounts : DepositFees(amount)
  BY <1>1, DepositKeeps
<1>2. CASE \E k \in Keepers :
              StartRun(k) \/ Read(k) \/ Check(k) \/ Mine(k) \/ Fail(k)
  BY <1>2, RunKeeps
<1>3. CASE Tick
  BY <1>3, TickKeeps
<1>4. CASE UNCHANGED vars
  <2>1. UNCHANGED <<now, token, distributor, run, cronAt, failures>>
    BY <1>4 DEF vars, keepers
  <2> QED
    BY <2>1, KeeperKeeps DEF IInv, TypeOK
<1>5. CASE MintByOther
  <2>1. MintInflation /\ UNCHANGED <<now, run, cronAt, failures>>
    BY <1>5 DEF MintByOther, keepers
  <2> QED
    BY <2>1, MintKeeps DEF IInv, TypeOK
<1> QED
  BY <1>1, <1>2, <1>3, <1>4, <1>5 DEF Next

\* The invariant holds at the deployment.
LEMMA InitIInv == Init => IInv
<1> SUFFICES ASSUME Init PROVE IInv
  OBVIOUS
<1>1. Deployed \in Nat \ {0} /\ InitialSupply \in Nat /\ PayerFunds \in Nat
      /\ FeeBurnBps \in Nat /\ PayerFunds <= InitialSupply
  BY ClockAssumption, SupplyAssumption
<1>2. TypeOK
  BY <1>1 DEF Init, TypeOK, Idle, Runs
<1>3. FeesAccounted /\ PayerSpends
  BY <1>1 DEF Init, FeesAccounted, PayerSpends
<1>4. MintsPast /\ WithinRate
  BY <1>1 DEF Init, MintsPast, WithinRate
<1> QED
  BY <1>2, <1>3, <1>4 DEF IInv

-----------------------------------------------------------------------------
(* The keepers are on time.                                                *)

Days(n) == n * Day

\* The mint that is possible now is not above the cap.
Mintable == Fits(Due(supply, now - lastInflationMint))

\* No day has begun and ended since k's last run was started.
Punctual(k) == \E m \in Nat : Days(m) <= cronAt[k] /\ now <= Days(m + 1)

\* How many days after the last mint k's last run may have been started: one
\* more while it is under way and may still mint, and one for each failure.
Grace(k) == IF run[k].step = "idle" THEN 1 + failures ELSE 2 + failures

Prompt(k) == Mintable => cronAt[k] <= LastMint + Days(Grace(k))

KeeperOnTime(k) ==
    /\ cronAt[k] <= now
    /\ Punctual(k)
    /\ run[k].step # "idle" => now <= cronAt[k] + RunWithin
    /\ run[k].seen <= lastInflationMint
    /\ Prompt(k)

OnTime == now >= Deployed /\ \A k \in Keepers : KeeperOnTime(k)

\* Days are a number of seconds, and add up.
LEMMA DaysAdd ==
    ASSUME NEW n \in Nat
    PROVE  Days(n) \in Nat /\ Days(n + 1) = Days(n) + Day
BY ClockAssumption, SMT DEF Days

\* The first second of a day is cron time.
LEMMA DayBegins ==
    ASSUME NEW n \in Nat, now = Days(n)
    PROVE  CronTime
<1>1. Day \in Nat \ {0}
  BY ClockAssumption
<1> DEFINE q == Days(n) \div Day
           r == Days(n) % Day
<1>2. Days(n) \in Nat
  BY DaysAdd
<1>3. q \in Nat /\ r \in 0 .. (Day - 1) /\ Days(n) = Day * q + r
  BY <1>1, <1>2, SMT
<1>4. n * Day = q * Day + r
  BY <1>1, <1>3 DEF Days
<1> HIDE DEF q, r
<1>5. q = n
  <2>1. CASE q < n
    <3>1. PICK d \in Nat : n = q + 1 + d
      <4>1. n - q - 1 \in Nat
        BY <1>3, <2>1
      <4> QED
        BY <1>3, <4>1
    <3>2. n * Day = q * Day + Day + d * Day /\ d * Day \in Nat /\ q * Day \in Nat
      BY <1>1, <1>3, <3>1
    <3> QED
      BY <1>1, <1>3, <1>4, <3>2
  <2>2. CASE q > n
    <3>1. PICK d \in Nat : q = n + 1 + d
      <4>1. q - n - 1 \in Nat
        BY <1>3, <2>2
      <4> QED
        BY <1>3, <4>1
    <3>2. q * Day = n * Day + Day + d * Day /\ d * Day \in Nat /\ n * Day \in Nat
      BY <1>1, <1>3, <3>1
    <3> QED
      BY <1>1, <1>3, <1>4, <3>2
  <2> QED
    BY <1>3, <2>1, <2>2
<1>6. r = 0
  BY <1>1, <1>3, <1>4, <1>5
<1> QED
  BY <1>6 DEF CronTime, r

\* A run started now is punctual.
LEMMA StartedNow ==
    ASSUME NEW t \in Nat
    PROVE  \E m \in Nat : Days(m) <= t /\ t <= Days(m + 1)
<1>1. Day \in Nat \ {0}
  BY ClockAssumption
<1> DEFINE q == t \div Day
<1>2. q \in Nat /\ Day * q <= t /\ t < Day * q + Day
  BY <1>1, SMT
<1> HIDE DEF q
<1>3. Days(q) = Day * q
  BY <1>1, <1>2 DEF Days
<1>4. Days(q) <= t /\ t <= Days(q + 1)
  BY <1>1, <1>2, <1>3, DaysAdd
<1> QED
  BY <1>2, <1>4

\* A longer time is due no less.
LEMMA DueGrows ==
    ASSUME NEW total \in Nat, NEW e \in Nat
    PROVE  Due(total, e) <= Due(total, e + 1)
<1>1. RateNum \in Nat /\ RateDen \in Nat \ {0} /\ Year \in Nat \ {0}
  BY SupplyAssumption, ClockAssumption
<1> DEFINE q == (total * RateNum) \div RateDen
<1>2. total * RateNum \in Nat
  BY <1>1
<1>3. q \in Nat
  BY <1>1, <1>2, DivRoundsDown
<1> HIDE DEF q
<1>4. q * e \in Nat /\ q * (e + 1) = q * e + q
  BY <1>3
<1> DEFINE a == q * e
           b == q * (e + 1)
<1>5. a \in Nat /\ b \in Nat /\ a <= b
  BY <1>3, <1>4
<1> HIDE DEF a, b
<1>6. a \div Year <= b \div Year
  BY <1>1, <1>5, DivMonotone
<1> QED
  BY <1>6 DEF Due, a, b, q

\* The last mint, or the deployment, is at a time.
LEMMA LastMintType ==
    ASSUME lastInflationMint \in Nat
    PROVE  /\ LastMint \in Nat /\ LastMint >= lastInflationMint /\ LastMint >= Deployed
           /\ Deployed \in Nat
           /\ LastMint \in {lastInflationMint, Deployed}
BY ClockAssumption DEF LastMint

\* What a run of one day more is allowed.
LEMMA GraceDays ==
    ASSUME failures \in Nat
    PROVE  /\ Days(1 + failures) \in Nat /\ Days(1 + failures) >= Day
           /\ Days(2 + failures) = Days(1 + failures) + Day
           /\ Days(3 + failures) = Days(2 + failures) + Day
           /\ Day \in Nat
<1>1. /\ Days(failures) \in Nat
      /\ Days(failures + 1) = Days(failures) + Day
      /\ Days((failures + 1) + 1) = Days(failures + 1) + Day
      /\ Days((failures + 2) + 1) = Days(failures + 2) + Day
  BY DaysAdd
<1>2. /\ (failures + 1) + 1 = 2 + failures /\ failures + 1 = 1 + failures
      /\ (failures + 2) + 1 = 3 + failures /\ failures + 2 = 2 + failures
  OBVIOUS
<1>3. Day \in Nat
  BY ClockAssumption
<1> QED
  BY <1>1, <1>2, <1>3

\* A step that leaves the contracts, the clock and a keeper alone leaves the
\* keeper on time, whatever fails meanwhile.
LEMMA OthersOnTime ==
    ASSUME IInv, NEW j \in Keepers, KeeperOnTime(j),
           UNCHANGED <<now, supply, lastInflationMint>>,
           run'[j] = run[j], cronAt'[j] = cronAt[j],
           failures' \in {failures, failures + 1}
    PROVE  KeeperOnTime(j)'
<1>1. /\ failures \in Nat /\ cronAt[j] \in Nat /\ lastInflationMint \in Nat
  BY DEF IInv, TypeOK
<1>2. Mintable' = Mintable /\ LastMint' = LastMint
  BY DEF Mintable, Fits, LastMint
<1>3. Prompt(j)'
  <2> SUFFICES ASSUME Mintable PROVE cronAt[j] <= LastMint + Days(Grace(j)')
    BY <1>2 DEF Prompt
  <2>1. cronAt[j] <= LastMint + Days(Grace(j))
    BY DEF KeeperOnTime, Prompt
  <2>2. CASE failures' = failures
    BY <2>1, <2>2 DEF Grace
  <2>3. CASE failures' = failures + 1
    <3>1. LastMint \in Nat /\ Day \in Nat /\ Days(1 + failures) \in Nat
          /\ Days(2 + failures) = Days(1 + failures) + Day
          /\ Days(3 + failures) = Days(2 + failures) + Day
      BY <1>1, LastMintType, GraceDays
    <3>2. 1 + (failures + 1) = 2 + failures /\ 2 + (failures + 1) = 3 + failures
      BY <1>1
    <3>3. Days(Grace(j)') = Days(Grace(j)) + Day /\ Days(Grace(j)) \in Nat
      <4>1. CASE run[j].step = "idle"
        BY <2>3, <3>1, <3>2, <4>1 DEF Grace
      <4>2. CASE run[j].step # "idle"
        BY <2>3, <3>1, <3>2, <4>2 DEF Grace
      <4> QED
        BY <4>1, <4>2
    <3> QED
      BY <1>1, <2>1, <3>1, <3>3
  <2> QED
    BY <2>2, <2>3
<1>4. Punctual(j)'
  BY DEF KeeperOnTime, Punctual
<1> QED
  BY <1>3, <1>4 DEF KeeperOnTime

\* What every keeper's clock and run are.
LEMMA KeeperTypes ==
    ASSUME IInv, OnTime, NEW k \in Keepers
    PROVE  /\ now \in Nat /\ now >= Deployed /\ Deployed \in Nat
           /\ lastInflationMint \in Nat /\ lastInflationMint <= now
           /\ supply \in Nat /\ failures \in Nat
           /\ run[k] \in Runs /\ run[k].seen \in Nat /\ cronAt[k] \in Nat
           /\ KeeperOnTime(k)
           /\ Day \in Nat \ {0} /\ RunWithin \in Nat
BY ClockAssumption DEF IInv, TypeOK, MintsPast, OnTime, Runs

\* A step of one keeper that does not touch the contracts.
LEMMA OneKeeperStep ==
    ASSUME IInv, OnTime, NEW k \in Keepers,
           UNCHANGED <<now, token, distributor>>,
           \A j \in Keepers \ {k} : run'[j] = run[j] /\ cronAt'[j] = cronAt[j],
           failures' \in {failures, failures + 1},
           KeeperOnTime(k)'
    PROVE  OnTime'
<1>1. UNCHANGED <<now, supply, lastInflationMint>>
  BY DEF token, distributor
<1>2. ASSUME NEW j \in Keepers \ {k} PROVE KeeperOnTime(j)'
  BY <1>1, <1>2, OthersOnTime DEF OnTime
<1> QED
  BY <1>1, <1>2 DEF OnTime

\* cron starts a run on time, or it would not have let time pass.
LEMMA StartOnTime ==
    ASSUME IInv, OnTime, NEW k \in Keepers, StartRun(k)
    PROVE  OnTime'
<1> USE KeeperTypes
<1>1. /\ run[k].step = "idle"
      /\ run'[k].step = "reading" /\ run'[k].seen = 0 /\ cronAt'[k] = now
      /\ \A j \in Keepers \ {k} : run'[j] = run[j] /\ cronAt'[j] = cronAt[j]
      /\ UNCHANGED <<now, token, distributor, failures>>
  BY DEF StartRun, IInv, TypeOK
<1>2. Mintable' = Mintable /\ LastMint' = LastMint /\ lastInflationMint' = lastInflationMint
  BY <1>1 DEF Mintable, Fits, LastMint, token, distributor
<1>3. Prompt(k)'
  <2> SUFFICES ASSUME Mintable PROVE now <= LastMint + Days(2 + failures)
    BY <1>1, <1>2 DEF Prompt, Grace
  <2>1. PICK m \in Nat : Days(m) <= cronAt[k] /\ now <= Days(m + 1)
    BY DEF KeeperOnTime, Punctual
  <2>2. Days(m) \in Nat /\ Days(m + 1) = Days(m) + Day
    BY DaysAdd
  <2>3. now <= cronAt[k] + Day
    BY <2>1, <2>2
  <2>4. cronAt[k] <= LastMint + Days(1 + failures)
    BY <1>1 DEF KeeperOnTime, Prompt, Grace
  <2>5. LastMint \in Nat
    BY LastMintType
  <2> QED
    BY <2>3, <2>4, <2>5, GraceDays
<1>4. Punctual(k)'
  BY <1>1, StartedNow DEF Punctual
<1>5. KeeperOnTime(k)'
  BY <1>1, <1>2, <1>3, <1>4 DEF KeeperOnTime
<1> QED
  BY <1>1, <1>5, OneKeeperStep

\* A read only brings the value of the last mint.
LEMMA ReadOnTime ==
    ASSUME IInv, OnTime, NEW k \in Keepers, Read(k)
    PROVE  OnTime'
<1> USE KeeperTypes
<1>1. /\ run[k].step # "idle"
      /\ run'[k].step = "checking" /\ run'[k].seen = lastInflationMint
      /\ \A j \in Keepers \ {k} : run'[j] = run[j]
      /\ UNCHANGED <<now, token, distributor, cronAt, failures>>
  BY DEF Read, IInv, TypeOK
<1>2. Mintable' = Mintable /\ LastMint' = LastMint /\ lastInflationMint' = lastInflationMint
  BY <1>1 DEF Mintable, Fits, LastMint, token, distributor
<1>3. KeeperOnTime(k)'
  BY <1>1, <1>2 DEF KeeperOnTime, Punctual, Prompt, Grace
<1> QED
  BY <1>1, <1>3, OneKeeperStep

\* A run that ends with the last mint less than a day ago leaves no delay.
LEMMA EndedOnTime ==
    ASSUME IInv, OnTime, NEW k \in Keepers, run'[k] = Idle,
           now < lastInflationMint + Day \/ ~ Mintable,
           UNCHANGED <<now, token, distributor, cronAt, failures>>
    PROVE  KeeperOnTime(k)'
<1> USE KeeperTypes
<1>1. Mintable' = Mintable /\ LastMint' = LastMint /\ lastInflationMint' = lastInflationMint
  BY DEF Mintable, Fits, LastMint, token, distributor
<1>2. Prompt(k)'
  <2> SUFFICES ASSUME Mintable PROVE cronAt[k] <= LastMint + Days(1 + failures)
    BY <1>1 DEF Prompt, Grace, Idle
  <2>1. cronAt[k] <= now /\ now < lastInflationMint + Day
    BY DEF KeeperOnTime
  <2>2. LastMint \in Nat /\ LastMint >= lastInflationMint
    BY LastMintType
  <2> QED
    BY <2>1, <2>2, GraceDays
<1>3. Punctual(k)'
  BY DEF KeeperOnTime, Punctual
<1> QED
  BY <1>1, <1>2, <1>3 DEF KeeperOnTime, Idle

\* A run that finds no mint due has read a value less than a day old.
LEMMA CheckOnTime ==
    ASSUME IInv, OnTime, NEW k \in Keepers, Check(k)
    PROVE  OnTime'
<1> USE KeeperTypes
<1>1. /\ run[k].step = "checking"
      /\ run'[k] = IF IsDue(run[k].seen) THEN [step |-> "sent", seen |-> run[k].seen] ELSE Idle
      /\ \A j \in Keepers \ {k} : run'[j] = run[j]
      /\ UNCHANGED <<now, token, distributor, cronAt, failures>>
  BY DEF Check, IInv, TypeOK
<1>2. CASE IsDue(run[k].seen)
  <2>1. Mintable' = Mintable /\ LastMint' = LastMint /\ lastInflationMint' = lastInflationMint
    BY <1>1 DEF Mintable, Fits, LastMint, token, distributor
  <2>2. run'[k].step = "sent" /\ run'[k].seen = run[k].seen
    BY <1>1, <1>2
  <2>3. KeeperOnTime(k)'
    BY <1>1, <2>1, <2>2 DEF KeeperOnTime, Punctual, Prompt, Grace
  <2> QED
    BY <1>1, <2>3, OneKeeperStep
<1>3. CASE ~ IsDue(run[k].seen)
  <2>1. run[k].seen <= lastInflationMint
    BY DEF KeeperOnTime
  <2>2. now < lastInflationMint + Day
    BY <1>3, <2>1 DEF IsDue
  <2>3. KeeperOnTime(k)'
    BY <1>1, <1>3, <2>2, EndedOnTime
  <2> QED
    BY <1>1, <2>3, OneKeeperStep
<1> QED
  BY <1>2, <1>3

\* After a mint, whoever sends it, no keeper is late.
LEMMA MintedOnTime ==
    ASSUME IInv, OnTime, MintInflation, UNCHANGED <<now, cronAt, failures>>,
           \A j \in Keepers : run'[j] \in {run[j], Idle}
    PROVE  OnTime'
<1> USE KeeperTypes
<1>1. lastInflationMint' = now /\ UNCHANGED <<now, cronAt, failures>>
  BY DEF MintInflation
<1>2. LastMint' = now
  <2>1. now \in Nat /\ now >= Deployed /\ Deployed \in Nat
    BY KeepersAssumption
  <2> QED
    BY <1>1, <2>1 DEF LastMint
<1>3. ASSUME NEW j \in Keepers PROVE KeeperOnTime(j)'
  <2>1. /\ cronAt[j] \in Nat /\ now \in Nat /\ KeeperOnTime(j) /\ run[j].seen \in Nat
        /\ run[j].seen <= lastInflationMint /\ lastInflationMint \in Nat
        /\ lastInflationMint <= now /\ failures \in Nat
    BY DEF KeeperOnTime
  <2>2. Days(Grace(j)') \in Nat
    BY <1>1, <2>1, GraceDays DEF Grace
  <2>3. Prompt(j)'
    BY <1>1, <1>2, <2>1, <2>2 DEF KeeperOnTime, Prompt
  <2>4. Punctual(j)'
    BY <1>1, <2>1 DEF KeeperOnTime, Punctual
  <2>5. run'[j] \in {run[j], Idle}
    OBVIOUS
  <2>6. run'[j].seen <= lastInflationMint'
    BY <1>1, <2>1, <2>5 DEF Idle
  <2>7. run'[j].step # "idle" => now' <= cronAt'[j] + RunWithin
    BY <1>1, <2>1, <2>5 DEF Idle, KeeperOnTime
  <2> QED
    BY <1>1, <2>1, <2>3, <2>4, <2>6, <2>7 DEF KeeperOnTime
<1> QED
  BY <1>1, <1>3 DEF OnTime

\* A run whose mint reverts finds a mint of the last day, or no room under the cap.
LEMMA MineOnTime ==
    ASSUME IInv, OnTime, NEW k \in Keepers, Mine(k)
    PROVE  OnTime'
<1> USE KeeperTypes
<1>1. /\ run'[k] = Idle
      /\ \A j \in Keepers \ {k} : run'[j] = run[j]
      /\ UNCHANGED <<now, cronAt, failures>>
  BY DEF Mine, IInv, TypeOK
<1>2. CASE MayMint /\ MintInflation
  BY <1>1, <1>2, MintedOnTime
<1>3. CASE ~ MayMint /\ UNCHANGED <<token, distributor>>
  <2>1. now < lastInflationMint + Day \/ ~ Mintable
    BY <1>3 DEF MayMint, Mintable
  <2>2. KeeperOnTime(k)'
    BY <1>1, <1>3, <2>1, EndedOnTime
  <2> QED
    BY <1>1, <1>3, <2>2, OneKeeperStep
<1> QED
  BY <1>2, <1>3 DEF Mine

\* A run that fails costs a day.
LEMMA FailOnTime ==
    ASSUME IInv, OnTime, NEW k \in Keepers, Fail(k)
    PROVE  OnTime'
<1> USE KeeperTypes
<1>1. /\ run[k].step # "idle" /\ run'[k] = Idle /\ failures' = failures + 1
      /\ \A j \in Keepers \ {k} : run'[j] = run[j]
      /\ UNCHANGED <<now, token, distributor, cronAt>>
  BY DEF Fail, IInv, TypeOK
<1>2. Mintable' = Mintable /\ LastMint' = LastMint /\ lastInflationMint' = lastInflationMint
  BY <1>1 DEF Mintable, Fits, LastMint, token, distributor
<1>3. Prompt(k)'
  <2>1. Grace(k)' = Grace(k)
    <3>1. 1 + (failures + 1) = 2 + failures
      OBVIOUS
    <3> QED
      BY <1>1, <3>1 DEF Grace, Idle
  <2> QED
    BY <1>1, <1>2, <2>1 DEF KeeperOnTime, Prompt
<1>4. Punctual(k)'
  BY <1>1 DEF KeeperOnTime, Punctual
<1>5. KeeperOnTime(k)'
  BY <1>1, <1>2, <1>3, <1>4 DEF KeeperOnTime, Idle
<1> QED
  BY <1>1, <1>5, OneKeeperStep

\* Time passes only when every run of the day has been started and those under
\* way are in time.
LEMMA TickOnTime ==
    ASSUME IInv, OnTime, Tick
    PROVE  OnTime'
<1> USE KeeperTypes
<1>1. /\ now' = now + 1
      /\ UNCHANGED <<supply, lastInflationMint, run, cronAt, failures>>
  BY DEF Tick, token, distributor, keepers
<1>2. ASSUME NEW k \in Keepers PROVE KeeperOnTime(k)'
  <2>1. Mintable' => Mintable
    <3> SUFFICES ASSUME Mintable' PROVE Mintable
      OBVIOUS
    <3> DEFINE e == now - lastInflationMint
    <3>1. e \in Nat /\ now' - lastInflationMint = e + 1
      BY <1>1
    <3>2. Due(supply, e) <= Due(supply, e + 1) /\ Due(supply, e) \in Nat
          /\ Due(supply, e + 1) \in Nat
      BY <3>1, DueGrows, DueBounded
    <3>3. MaxSupply \in Nat /\ supply \in Nat
      BY SupplyAssumption
    <3>4. supply + Due(supply, e + 1) <= MaxSupply
      BY <1>1, <3>1 DEF Mintable, Fits
    <3> HIDE DEF e
    <3>5. supply + Due(supply, e) <= MaxSupply
      BY <3>2, <3>3, <3>4
    <3> QED
      BY <3>5 DEF Mintable, Fits, e
  <2>2. LastMint' = LastMint
    BY <1>1 DEF LastMint
  <2>3. Prompt(k)'
    BY <1>1, <2>1, <2>2 DEF KeeperOnTime, Prompt, Grace
  <2>4. Punctual(k)'
    <3>1. PICK m \in Nat : Days(m) <= cronAt[k] /\ now <= Days(m + 1)
      BY DEF KeeperOnTime, Punctual
    <3>2. /\ Days(m) \in Nat /\ Days(m + 1) = Days(m) + Day
          /\ Days((m + 1) + 1) = Days(m + 1) + Day
      BY DaysAdd
    <3>3. CASE now < Days(m + 1)
      BY <1>1, <3>1, <3>2, <3>3 DEF Punctual
    <3>4. CASE now = Days(m + 1)
      <4>1. CronTime
        BY <3>4, DayBegins
      <4>2. cronAt[k] = now
        BY <4>1 DEF Tick
      <4> QED
        BY <1>1, <3>2, <3>4, <4>2 DEF Punctual
    <3> QED
      BY <3>1, <3>2, <3>3, <3>4
  <2>5. run[k].step # "idle" => now < cronAt[k] + RunWithin
    BY DEF Tick
  <2> QED
    BY <1>1, <2>3, <2>4, <2>5 DEF KeeperOnTime
<1> QED
  BY <1>1, <1>2, KeepersAssumption DEF OnTime

\* Every step leaves the keepers on time.
LEMMA NextOnTime ==
    ASSUME IInv, OnTime, [Next]_vars
    PROVE  OnTime'
<1>1. CASE \E amount \in FeeAmounts : DepositFees(amount)
  <2>1. UNCHANGED <<now, supply, lastInflationMint, run, cronAt, failures>>
    BY <1>1 DEF DepositFees, keepers
  <2> QED
    BY <2>1, OthersOnTime DEF OnTime
<1>2. CASE \E k \in Keepers :
              StartRun(k) \/ Read(k) \/ Check(k) \/ Mine(k) \/ Fail(k)
  BY <1>2, StartOnTime, ReadOnTime, CheckOnTime, MineOnTime, FailOnTime
<1>3. CASE Tick
  BY <1>3, TickOnTime
<1>4. CASE UNCHANGED vars
  <2>1. UNCHANGED <<now, supply, lastInflationMint, run, cronAt, failures>>
    BY <1>4 DEF vars, keepers, token, distributor
  <2> QED
    BY <2>1, OthersOnTime DEF OnTime
<1>5. CASE MintByOther
  <2>1. MintInflation /\ UNCHANGED <<now, run, cronAt, failures>>
    BY <1>5 DEF MintByOther, keepers
  <2> QED
    BY <2>1, MintedOnTime
<1> QED
  BY <1>1, <1>2, <1>3, <1>4, <1>5 DEF Next

\* The keepers are on time at the deployment.
LEMMA InitOnTime == Init => OnTime
<1> SUFFICES ASSUME Init PROVE OnTime
  OBVIOUS
<1>1. Deployed \in Nat /\ now = Deployed /\ lastInflationMint = 0 /\ failures = 0
  BY ClockAssumption DEF Init
<1>2. LastMint = Deployed
  BY <1>1 DEF LastMint
<1>3. ASSUME NEW k \in Keepers PROVE KeeperOnTime(k)
  <2>1. cronAt[k] = Deployed /\ run[k] = Idle
    BY DEF Init
  <2>2. Punctual(k)
    BY <1>1, <2>1, StartedNow DEF Punctual
  <2>3. Days(1 + failures) \in Nat
    BY <1>1, GraceDays
  <2>4. Prompt(k)
    BY <1>1, <1>2, <2>1, <2>3 DEF Prompt, Grace, Idle
  <2> QED
    BY <1>1, <2>1, <2>2, <2>4 DEF KeeperOnTime, Idle
<1> QED
  BY <1>1, <1>3 DEF OnTime

-----------------------------------------------------------------------------
(* The theorems.                                                           *)

\* The inductive invariant holds of every reachable state.
THEOREM Inductive == Spec => []IInv
<1>1. IInv /\ [Next]_vars => IInv'
  BY NextKeeps
<1> QED
  BY <1>1, InitIInv, PTL DEF Spec

\* Every variable keeps its type.
THEOREM TypeCorrect == Spec => []TypeOK
<1>1. IInv => TypeOK
  BY DEF IInv
<1> QED
  BY <1>1, Inductive, PTL

\* No SPY is lost or made but by mints, and the burn keeps its rate.
THEOREM FeesAlwaysAccounted == Spec => []FeesAccounted
<1>1. IInv => FeesAccounted
  BY DEF IInv
<1> QED
  BY <1>1, Inductive, PTL

\* The keepers are on time in every reachable state.
THEOREM AlwaysOnTime == Spec => []OnTime
<1>1. IInv /\ OnTime /\ [Next]_vars => OnTime'
  BY NextOnTime
<1> QED
  BY <1>1, InitOnTime, Inductive, PTL DEF Spec

\* A mint that the cap allows is late by no more than two days, a run, and a day
\* for each run that failed.
THEOREM AlwaysKeepsUp == Spec => []KeepsUp
<1>1. IInv /\ OnTime => KeepsUp
  <2> SUFFICES ASSUME IInv, OnTime, Mintable
               PROVE  now <= LastMint + Days(2 + failures) + RunWithin
    BY DEF KeepsUp, Mintable, Days
  <2>1. PICK k \in Keepers : TRUE
    BY KeepersAssumption
  <2>2. /\ now \in Nat /\ cronAt[k] \in Nat /\ failures \in Nat /\ LastMint \in Nat
        /\ RunWithin \in Nat /\ Day \in Nat /\ KeeperOnTime(k)
    BY KeeperTypes, LastMintType
  <2>3. cronAt[k] <= LastMint + Days(Grace(k))
    BY <2>2 DEF KeeperOnTime, Prompt
  <2>4. /\ Days(1 + failures) \in Nat
        /\ Days(2 + failures) = Days(1 + failures) + Day
    BY <2>2, GraceDays
  <2>5. CASE run[k].step = "idle"
    <3>1. PICK m \in Nat : Days(m) <= cronAt[k] /\ now <= Days(m + 1)
      BY <2>2 DEF KeeperOnTime, Punctual
    <3>2. Days(m) \in Nat /\ Days(m + 1) = Days(m) + Day
      BY DaysAdd
    <3>3. Grace(k) = 1 + failures
      BY <2>5 DEF Grace
    <3> QED
      BY <2>2, <2>3, <2>4, <3>1, <3>2, <3>3
  <2>6. CASE run[k].step # "idle"
    <3>1. Grace(k) = 2 + failures /\ now <= cronAt[k] + RunWithin
      BY <2>2, <2>6 DEF Grace, KeeperOnTime
    <3> QED
      BY <2>2, <2>3, <2>4, <3>1
  <2> QED
    BY <2>5, <2>6
<1> QED
  BY <1>1, Inductive, AlwaysOnTime, PTL

\* However the keepers' runs overlap, no time is paid for twice.
THEOREM AlwaysWithinRate == Spec => []WithinRate
<1>1. IInv => WithinRate
  BY DEF IInv
<1> QED
  BY <1>1, Inductive, PTL
=============================================================================
