----------------------------- MODULE StakingSdk -----------------------------
(***************************************************************************)
(* spyro-sdk-js, contracts/staking.ts: the calls an application makes      *)
(* through one wallet, several of them at the same time.                   *)
(*                                                                         *)
(* A call is split where it awaits: the allowance is read, a transaction   *)
(* is prepared (its nonce is read and its gas estimated), and broadcast.   *)
(* The wallet keeps no nonces of its own: a transaction prepared before    *)
(* another one was broadcast is refused.  Nothing waits for mining.        *)
(*                                                                         *)
(* The pool takes a delegation for which the wallet has allowance and      *)
(* funds and the indexer has room: what its capacity, a multiple of its    *)
(* own stake, leaves over what is delegated to it.  The stake and other    *)
(* delegators change the room at any time.  All delegations are to one     *)
(* indexer, so that each takes the others' room.                           *)
(*                                                                         *)
(* External: the node and the token; the gas estimate may or may not see   *)
(* the pending transactions.  The application awaits the receipt and       *)
(* repeats a delegation that failed.                                       *)
(***************************************************************************)
EXTENDS Tally, Sequences, SequencesExt

CONSTANTS
    Calls,         \* calls of the application
    Op,            \* Op[c], the method called
    Amount,        \* Amount[c], its amount
    Funds,         \* SPY the wallet holds
    Rooms,         \* what others may leave of the indexer's capacity
    MaxPending,    \* the node's limit of pending transactions of an account
    MaxLostReplies \* bound: broadcasts whose reply is lost

Plain == {"queueUnstake", "withdraw", "claimRewards"}

\* decimals() yields a bigint, which stake()'s destructuring cannot iterate.
Throwing == {"stake"}

\* They call functions DelegationPool does not have.
Unserved == {"undelegate", "claimUndelegated"}

ASSUME CallsAssumption ==
    /\ IsFiniteSet(Calls)
    /\ Op \in [Calls -> Plain \cup Throwing \cup Unserved \cup {"delegate"}]
    /\ Amount \in [Calls -> Nat \ {0}]
ASSUME BoundsAssumption ==
    /\ Funds \in Nat /\ Rooms \subseteq Nat /\ Rooms # {}
    /\ MaxPending \in Nat \ {0} /\ MaxLostReplies \in Nat

VARIABLES
    phase,    \* phase[c]: where the call stands
    prepared, \* prepared[c]: "no", "fresh", or "stale" once another was broadcast
    pending,  \* the wallet's broadcast transactions, in nonce order
    ledger,   \* the state of the contracts at the latest block
    unheard   \* history: unheard[c], broadcasts of c's call whose reply was lost

vars == <<phase, prepared, pending, ledger, unheard>>

Delegations == {c \in Calls : Op[c] = "delegate"}
Txs == [op : {"approve", "delegate", "plain"}, call : Calls]
Ledgers == [allowance : Nat, funds : Nat, room : Nat,
            delegated : [Calls -> Nat], reverted : [Calls -> BOOLEAN]]

TypeOK ==
    /\ phase \in [Calls -> {"start", "approving", "sending", "resolved", "rejected", "done"}]
    /\ prepared \in [Calls -> {"no", "fresh", "stale"}]
    /\ pending \in Seq(Txs) /\ Len(pending) <= MaxPending
    /\ ledger \in Ledgers
    /\ unheard \in [Calls -> Nat]
    /\ \A c \in Calls : phase[c] \notin {"approving", "sending"} => prepared[c] = "no"

Init ==
    /\ phase = [c \in Calls |-> "start"]
    /\ prepared = [c \in Calls |-> "no"]
    /\ pending = <<>>
    /\ ledger \in [allowance : {0}, funds : {Funds}, room : Rooms,
                   delegated : [Calls -> {0}], reverted : [Calls -> {FALSE}]]
    /\ unheard = [c \in Calls |-> 0]

-----------------------------------------------------------------------------
\* Faults a change to the SDK could bring in; they are no part of Spec.
FaultyNeedsApproval(c) == ledger.allowance > Amount[c]
FaultyApproved(l, c) == l.allowance + Amount[c]
FaultySent(c) == "rejected"
FaultyOutdated(c) ==
    [d \in Calls |-> IF prepared[d] = "fresh" THEN "stale" ELSE prepared[d]]

-----------------------------------------------------------------------------
(* The contracts and the node.                                             *)

\* approve sets the allowance.
Approved(l, c) == Amount[c]

\* delegate takes the tokens if the indexer's capacity allows.
Accepts(l, tx) ==
    tx.op = "delegate" => Amount[tx.call] <= l.room
                          /\ Amount[tx.call] <= l.allowance /\ Amount[tx.call] <= l.funds

Execute(l, tx) ==
    CASE tx.op = "approve" -> [l EXCEPT !.allowance = Approved(l, tx.call)]
      [] tx.op = "plain" -> l
      [] tx.op = "delegate" /\ Accepts(l, tx) ->
            [l EXCEPT !.allowance = @ - Amount[tx.call],
                      !.funds = @ - Amount[tx.call],
                      !.room = @ - Amount[tx.call],
                      !.delegated[tx.call] = @ + 1,
                      !.reverted[tx.call] = FALSE]
      [] OTHER -> [l EXCEPT !.reverted[tx.call] = TRUE]

\* The state once everything pending has been mined.
Executed == FoldLeft(Execute, ledger, pending)

Mine ==
    /\ pending # <<>>
    /\ ledger' = Execute(ledger, Head(pending))
    /\ pending' = Tail(pending)
    /\ UNCHANGED <<phase, prepared, unheard>>

\* The indexer's stake changes, or what other delegators have with it.
SetRoom(r) ==
    /\ ledger' = [ledger EXCEPT !.room = r]
    /\ UNCHANGED <<phase, prepared, pending, unheard>>

-----------------------------------------------------------------------------
(* The calls.                                                              *)

\* stake(), undelegate() and claimUndelegated() reject before they send anything.
Reject(c) ==
    /\ Op[c] \in Throwing \cup Unserved
    /\ phase[c] = "start"
    /\ phase' = [phase EXCEPT ![c] = "rejected"]
    /\ UNCHANGED <<prepared, pending, ledger, unheard>>

\* queueUnstake(), withdraw(), claimRewards().
Send(c) ==
    /\ Op[c] \in Plain
    /\ phase[c] = "start"
    /\ phase' = [phase EXCEPT ![c] = "sending"]
    /\ UNCHANGED <<prepared, pending, ledger, unheard>>

NeedsApproval(c) == ledger.allowance < Amount[c]

\* delegate(), up to the answer of allowance().
Delegate(c) ==
    /\ Op[c] = "delegate"
    /\ phase[c] = "start"
    /\ phase' = [phase EXCEPT ![c] = IF NeedsApproval(c) THEN "approving" ELSE "sending"]
    /\ UNCHANGED <<prepared, pending, ledger, unheard>>

Tx(c) == [op |-> IF phase[c] = "approving" THEN "approve"
                 ELSE IF c \in Delegations THEN "delegate" ELSE "plain",
          call |-> c]

Rejected(c) ==
    /\ phase' = [phase EXCEPT ![c] = "rejected"]
    /\ prepared' = [prepared EXCEPT ![c] = "no"]

\* The nonce is read and the gas estimated, on the latest block or after the
\* pending transactions.
Prepare(c) ==
    /\ phase[c] \in {"approving", "sending"}
    /\ prepared[c] = "no"
    /\ \E state \in {ledger, Executed} :
          IF Accepts(state, Tx(c))
          THEN prepared' = [prepared EXCEPT ![c] = "fresh"] /\ UNCHANGED phase
          ELSE Rejected(c)
    /\ UNCHANGED <<pending, ledger, unheard>>

\* Every other prepared transaction has the same nonce.
Outdated(c) ==
    [d \in Calls |-> IF d = c THEN "no"
                     ELSE IF prepared[d] = "fresh" THEN "stale" ELSE prepared[d]]

\* The call goes on to its own transaction, or hands that one's response out.
Sent(c) == IF phase[c] = "approving" THEN "sending" ELSE "resolved"

Broadcast(c) ==
    /\ prepared[c] = "fresh"
    /\ Len(pending) < MaxPending
    /\ pending' = Append(pending, Tx(c))
    /\ prepared' = Outdated(c)
    /\ phase' = [phase EXCEPT ![c] = Sent(c)]
    /\ UNCHANGED <<ledger, unheard>>

\* The node takes the transaction, and its reply does not arrive.
BroadcastUnheard(c) ==
    /\ prepared[c] = "fresh"
    /\ Len(pending) < MaxPending
    /\ Tally(unheard, Calls) < MaxLostReplies
    /\ pending' = Append(pending, Tx(c))
    /\ prepared' = Outdated(c)
    /\ phase' = [phase EXCEPT ![c] = "rejected"]
    /\ unheard' = [unheard EXCEPT ![c] = @ + 1]
    /\ UNCHANGED ledger

\* The nonce is taken, or the account has too many pending transactions.
Refused(c) ==
    /\ \/ prepared[c] = "stale"
       \/ prepared[c] = "fresh" /\ Len(pending) = MaxPending
    /\ Rejected(c)
    /\ UNCHANGED <<pending, ledger, unheard>>

-----------------------------------------------------------------------------
(* The application.                                                        *)

\* wait() on the response: the transaction has been mined.
Wait(c) ==
    /\ phase[c] = "resolved"
    /\ \A k \in DOMAIN pending : pending[k].call # c
    /\ phase' = [phase EXCEPT ![c] = IF ledger.reverted[c] THEN "rejected" ELSE "done"]
    /\ UNCHANGED <<prepared, pending, ledger, unheard>>

Retry(c) ==
    /\ c \in Delegations
    /\ phase[c] = "rejected"
    /\ phase' = [phase EXCEPT ![c] = "start"]
    /\ UNCHANGED <<prepared, pending, ledger, unheard>>

Proceed(c) ==
    \/ Reject(c) \/ Send(c) \/ Delegate(c)
    \/ Prepare(c) \/ Broadcast(c) \/ Refused(c)
    \/ Wait(c) \/ Retry(c)

Next ==
    \/ Mine
    \/ \E r \in Rooms : SetRoom(r)
    \/ \E c \in Calls : Proceed(c) \/ BroadcastUnheard(c)

Spec == Init /\ [][Next]_vars

\* Promises settle, blocks are mined, and the application keeps trying.
FairSpec == Spec /\ WF_vars(Mine) /\ \A c \in Calls : WF_vars(Proceed(c))

-----------------------------------------------------------------------------
(* What the SDK keeps.                                                     *)

\* A delegation that is repeated until it succeeds is made once, and once more
\* at most for every broadcast whose reply was lost: a call that fails for any
\* other reason has sent no delegation that can still succeed.
DelegatedOnce ==
    \A c \in Delegations : ledger.delegated[c] <= 1 + unheard[c]

\* However the calls interleave, the pool is never allowed to take more than
\* one of them asked for.
AllowanceWithinRequest ==
    \A l \in {ledger, Executed} :
        l.allowance > 0 => \E c \in Delegations : l.allowance <= Amount[c]

\* Every delegation the application repeats is made in the end, if from some time
\* on the indexer has room for each that is not, although a call neither waits
\* for its own approval nor for the other calls' nonces.
RoomRemains ==
    <>[](\A c \in Delegations : phase[c] # "done" => Amount[c] <= ledger.room)

DelegationsMade == RoomRemains => \A c \in Delegations : <>[](phase[c] = "done")
=============================================================================
