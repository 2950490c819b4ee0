----------------------------- MODULE ShareVault -----------------------------
(***************************************************************************)
(* What a share vault promises whoever holds its shares, without a word of *)
(* who they are: tokens go in for shares, shares are redeemed for tokens,  *)
(* and tokens are given to the holders.  DelegationPool implements it, one *)
(* vault per indexer.  Amounts are those by which a vault changes; a price *)
(* is compared by cross multiplication.                                    *)
(***************************************************************************)
EXTENDS Naturals

CONSTANT Vaults

VARIABLE vaults  \* vaults[v] = [tokens, shares]

Init == vaults = [v \in Vaults |-> [tokens |-> 0, shares |-> 0]]

OnlyAt(v) == vaults' = [vaults EXCEPT ![v] = vaults'[v]]

\* Tokens for shares: one for one into an empty vault; else at the price of the
\* vault, in whole shares, the fraction being left to all holders.
Deposit(v) ==
    LET old == vaults[v]
        new == vaults'[v]
    IN  /\ OnlyAt(v)
        /\ old.tokens < new.tokens
        /\ old.shares <= new.shares
        /\ IF old.shares = 0 THEN new = [tokens |-> new.tokens, shares |-> new.tokens]
           ELSE /\ (new.shares - old.shares) * old.tokens
                       <= (new.tokens - old.tokens) * old.shares
                /\ (new.tokens - old.tokens) * old.shares
                       < (new.shares - old.shares + 1) * old.tokens

\* Shares for tokens, at the price of the vault, in whole tokens; the last
\* shares take all there is.
Redeem(v) ==
    LET old == vaults[v]
        new == vaults'[v]
    IN  /\ OnlyAt(v)
        /\ new.shares < old.shares
        /\ new.tokens <= old.tokens
        /\ new.shares = 0 => new.tokens = 0
        /\ (old.tokens - new.tokens) * old.shares
               <= (old.shares - new.shares) * old.tokens
        /\ (old.shares - new.shares) * old.tokens
               < (old.tokens - new.tokens + 1) * old.shares

\* Tokens for nothing, to those who hold shares.
Donate(v) ==
    LET old == vaults[v]
        new == vaults'[v]
    IN  /\ OnlyAt(v)
        /\ old.shares # 0
        /\ old.tokens < new.tokens
        /\ new.shares = old.shares

Next == \E v \in Vaults : Deposit(v) \/ Redeem(v) \/ Donate(v)

Spec == Init /\ [][Next]_vaults
=============================================================================
