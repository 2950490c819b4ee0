------------------------------ MODULE Curation ------------------------------
(***************************************************************************)
(* curation/curation.sol: curators signal AI-Graphs by depositing SPY on   *)
(* the graph's bonding curve for curation shares; the owner (governance)   *)
(* migrates shares from one version of a graph to the next.                *)
(*                                                                         *)
(* A transaction runs to completion or reverts, so each external function  *)
(* is one action and what reverts is a guard.  The token is the project's  *)
(* own ERC20, which calls nobody back.  Curators have approved the         *)
(* contract, as in the repository's tests.                                 *)
(***************************************************************************)
EXTENDS BondingCurve, Tally

CONSTANTS
    Curators,        \* accounts that signal
    Graphs,          \* AI-Graph versions (GraphID)
    CurationTaxBps,  \* CURATION_TAX_BPS, 250 in the code
    MigrationTaxBps, \* MIGRATION_TAX_BPS, 100 in the code
    InitialWallet,   \* SPY each curator starts with
    SignalAmounts,   \* amounts passed to signal
    ShareAmounts,    \* share counts passed to unsignal and migrateVersion
    Upgrades,        \* the <<oldId, newId>> the owner migrates between
    MaxMigrations    \* bound: calls of migrateVersion

ASSUME GraphsAssumption == IsFiniteSet(Curators) /\ IsFiniteSet(Graphs)
ASSUME TaxAssumption ==
    /\ CurationTaxBps \in Nat /\ CurationTaxBps <= 10000
    /\ MigrationTaxBps \in Nat /\ MigrationTaxBps <= 10000
ASSUME CallsAssumption ==
    /\ InitialWallet \in Nat /\ MaxMigrations \in Nat
    /\ SignalAmounts \subseteq Nat
    /\ ShareAmounts \subseteq Nat
    /\ Upgrades \subseteq Graphs \X Graphs

VARIABLES
    curves,    \* curves[g] = [tokens, shares]
    sharesOf,  \* sharesOf[g][c], the shares of g that c holds
    wallet,    \* wallet[c], the SPY c holds
    balance,   \* the SPY this contract holds
    burnt,     \* the SPY sent to 0xdead
    movedOut,  \* history: shares migrateVersion took from g's curve
    movedIn,   \* history: shares migrateVersion minted on g's curve
    migrations \* calls of migrateVersion so far

vars == <<curves, sharesOf, wallet, balance, burnt, movedOut, movedIn, migrations>>

TypeOK ==
    /\ curves \in [Graphs -> [tokens : Nat, shares : Nat]]
    /\ sharesOf \in [Graphs -> [Curators -> Nat]]
    /\ wallet \in [Curators -> Nat]
    /\ balance \in Nat
    /\ burnt \in Nat
    /\ movedOut \in [Graphs -> Nat]
    /\ movedIn \in [Graphs -> Nat]
    /\ migrations \in Nat

Init ==
    /\ curves = [g \in Graphs |-> [tokens |-> 0, shares |-> 0]]
    /\ sharesOf = [g \in Graphs |-> [c \in Curators |-> 0]]
    /\ wallet = [c \in Curators |-> InitialWallet]
    /\ balance = 0
    /\ burnt = 0
    /\ movedOut = [g \in Graphs |-> 0]
    /\ movedIn = [g \in Graphs |-> 0]
    /\ migrations = 0

-----------------------------------------------------------------------------
\* Faults a change to the contract could bring in; they are no part of Spec:
\* unsignal without its balance check, a migration that forgets to take its tax
\* off the new curve, one that leaves it on the old curve, and a curve whose
\* shares are replaced by the new ones.
FaultyMayUnsignal(c, g, sharesIn) == sharesIn > 0
FaultyMigrated(old, new, burned, out, net, minted) ==
    LET drained == [curves EXCEPT ![old].tokens = @ - out,
                                  ![old].shares = @ - burned]
    IN  [drained EXCEPT ![new].tokens = @ + out, ![new].shares = @ + minted]
FaultyDrained(old, new, burned, out, net, minted) ==
    LET drained == [curves EXCEPT ![old].tokens = @ - net,
                                  ![old].shares = @ - burned]
    IN  [drained EXCEPT ![new].tokens = @ + net, ![new].shares = @ + minted]
FaultyGrow(c, tokens, shares) == [tokens |-> c.tokens + tokens, shares |-> shares]

-----------------------------------------------------------------------------
(* The contract's functions.                                               *)

Tax(amount, bps) == (amount * bps) \div 10000

MayUnsignal(c, g, sharesIn) == sharesIn > 0 /\ sharesIn <= sharesOf[g][c]

Grow(c, tokens, shares) ==
    [tokens |-> c.tokens + tokens, shares |-> c.shares + shares]

Shrink(c, tokens, shares) ==
    [tokens |-> c.tokens - tokens, shares |-> c.shares - shares]

\* The curves after a migration.  The two updates are made one after the
\* other, so old and new may be the same graph, as they may in the contract.
Migrated(old, new, burned, out, net, minted) ==
    LET drained == [curves EXCEPT ![old] = Shrink(@, out, burned)]
    IN  [drained EXCEPT ![new] = Grow(@, net, minted)]

\* signal(id, amount): the tax goes to 0xdead, the rest on the curve.
Signal(c, g, amount) ==
    LET curve  == curves[g]
        tax    == Tax(amount, CurationTaxBps)
        net    == amount - tax
        minted == CurveMint(net, curve.tokens, curve.shares)
    IN  /\ amount > 0
        /\ wallet[c] >= amount
        /\ curve.shares # 0 => curve.tokens # 0
        /\ curves' = [curves EXCEPT ![g] = Grow(@, net, minted)]
        /\ sharesOf' = [sharesOf EXCEPT ![g][c] = @ + minted]
        /\ wallet' = [wallet EXCEPT ![c] = @ - amount]
        /\ balance' = balance + net
        /\ burnt' = burnt + tax
        /\ UNCHANGED <<movedOut, movedIn, migrations>>

\* unsignal(id, sharesIn): burn shares for their part of the curve, untaxed.
Unsignal(c, g, sharesIn) ==
    LET curve  == curves[g]
        payout == CurveBurn(sharesIn, curve.tokens, curve.shares)
    IN  /\ MayUnsignal(c, g, sharesIn)
        /\ curve.shares # 0
        /\ curve.tokens >= payout /\ curve.shares >= sharesIn
        /\ balance >= payout
        /\ curves' = [curves EXCEPT ![g] = Shrink(@, payout, sharesIn)]
        /\ sharesOf' = [sharesOf EXCEPT ![g][c] = @ - sharesIn]
        /\ wallet' = [wallet EXCEPT ![c] = @ + payout]
        /\ balance' = balance - payout
        /\ UNCHANGED <<burnt, movedOut, movedIn, migrations>>

\* migrateVersion(oldId, newId, sharesToMigrate), by the owner: burn shares of
\* the old curve, tax what they stood for, mint shares of the new curve with
\* the rest.  The curators' own records are not touched.
MigrateVersion(old, new, burned) ==
    LET oldC   == curves[old]
        newC   == curves[new]
        out    == CurveBurn(burned, oldC.tokens, oldC.shares)
        tax    == Tax(out, MigrationTaxBps)
        net    == out - tax
        minted == CurveMint(net, newC.tokens, newC.shares)
    IN  /\ migrations < MaxMigrations
        /\ oldC.shares # 0
        /\ oldC.tokens >= out /\ oldC.shares >= burned
        /\ balance >= tax
        /\ newC.shares # 0 => newC.tokens # 0
        /\ curves' = Migrated(old, new, burned, out, net, minted)
        /\ balance' = balance - tax
        /\ burnt' = burnt + tax
        /\ movedOut' = [movedOut EXCEPT ![old] = @ + burned]
        /\ movedIn' = [movedIn EXCEPT ![new] = @ + minted]
        /\ migrations' = migrations + 1
        /\ UNCHANGED <<sharesOf, wallet>>

Next ==
    \/ \E c \in Curators, g \in Graphs :
          \/ \E amount \in SignalAmounts : Signal(c, g, amount)
          \/ \E shares \in ShareAmounts : Unsignal(c, g, shares)
    \/ \E upgrade \in Upgrades, shares \in ShareAmounts :
          MigrateVersion(upgrade[1], upgrade[2], shares)

Spec == Init /\ [][Next]_vars

-----------------------------------------------------------------------------
(* What the contract keeps.                                                *)

Held(g) == Tally([c \in Curators |-> sharesOf[g][c]], Curators)
Curved  == Tally([g \in Graphs |-> curves[g].tokens], Graphs)
Wallets == Tally(wallet, Curators)

\* The contract holds exactly what its curves record, and what is not there is
\* with the curators or burnt: taxes leave the books as they leave the balance.
CurvesBacked ==
    /\ balance = Curved
    /\ Wallets + balance + burnt = Cardinality(Curators) * InitialWallet

\* A curve has tokens if and only if it has shares, whatever order signals,
\* exits and migrations of any size come in and whatever their taxes truncate:
\* no reachable signal, unsignal or migration divides by zero, and no SPY is
\* left on a curve that nobody has a share of.
CurvesPriced == \A g \in Graphs : curves[g].tokens = 0 <=> curves[g].shares = 0

\* Only a migration can take from curators what they could redeem: what they
\* hold of a version is never more than its curve has, and migrations have
\* taken off it.  migrateVersion leaves their own records alone, so holdings
\* above the curve stay behind.
HoldingsCovered == \A g \in Graphs : Held(g) <= curves[g].shares + movedOut[g]

-----------------------------------------------------------------------------
(* What makes it so, proved in CurationProofs: what the code does, and the *)
(* repository's own tests contradict.                                      *)

\* The shares of a curve and the shares curators hold of it drift apart by
\* exactly what migrations took from it and minted on it.
SharesDrift ==
    \A g \in Graphs : curves[g].shares + movedOut[g] = Held(g) + movedIn[g]

\* The curve is flat: whatever is signalled, unsignalled and migrated, and
\* whatever the taxes take, a share stays worth exactly the token it was minted
\* for, and no rounding ever happens.
FlatCurve == \A g \in Graphs : curves[g].tokens = curves[g].shares
=============================================================================
