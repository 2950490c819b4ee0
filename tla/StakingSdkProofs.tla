-------------------------- MODULE StakingSdkProofs --------------------------
(***************************************************************************)
(* Proofs, for any calls of a wallet and however they interleave, that the *)
(* SDK makes a delegation once, but for lost replies, and never lets the   *)
(* pool take more than one of the calls asked for.                         *)
(***************************************************************************)
EXTENDS StakingSdk, FiniteSetTheorems, SequenceTheorems, WellFoundedInduction, TLAPS

DelegateTx(c) == [op |-> "delegate", call |-> c]

\* The places of the sequence s where tx stands.
Places(tx, s) == {k \in DOMAIN s : s[k] = tx}

\* The delegations of c that have been broadcast and not been executed.
Underway(c) == Cardinality(Places(DelegateTx(c), pending))

\* Only a call that has handed a response out has sent a delegation for which no
\* reply is missing.
Accounted ==
    \A c \in Delegations :
        ledger.delegated[c] + Underway(c)
            <= unheard[c] + (IF phase[c] \in {"resolved", "done"} THEN 1 ELSE 0)

\* A call whose last transaction has failed has made no delegation with it.
FailedInVain ==
    \A c \in Delegations :
        phase[c] = "resolved" /\ ledger.reverted[c] /\ Underway(c) = 0
            => ledger.delegated[c] <= unheard[c]

\* The allowance is at most what a delegation asked for.
Requested(l) == l.allowance > 0 => \E c \in Delegations : l.allowance <= Amount[c]

\* Only delegations approve.
ApprovalsRequested ==
    /\ \A c \in Calls : phase[c] = "approving" => c \in Delegations
    /\ \A k \in DOMAIN pending : pending[k].op = "approve" => pending[k].call \in Delegations
    /\ Requested(ledger)

IInv == TypeOK /\ Accounted /\ FailedInVain /\ ApprovalsRequested
-----------------------------------------------------------------------------
(* The wallet's queue.                                                     *)

\* The places of a transaction in a sequence are finitely many.
LEMMA PlacesFinite ==
    ASSUME NEW tx, NEW s \in Seq(Txs)
    PROVE  IsFiniteSet(Places(tx, s)) /\ Cardinality(Places(tx, s)) \in Nat
<1>1. Len(s) \in Nat /\ DOMAIN s = 1 .. Len(s)
  BY LenProperties
<1>2. IsFiniteSet(1 .. Len(s)) /\ Places(tx, s) \subseteq 1 .. Len(s)
  BY <1>1, FS_Interval DEF Places
<1> QED
  BY <1>2, FS_Subset, FS_CardinalityType

\* Where it does not stand it has no place.
LEMMA NoPlace ==
    ASSUME NEW tx, NEW s \in Seq(Txs)
    PROVE  Cardinality(Places(tx, s)) = 0 <=> \A k \in DOMAIN s : s[k] # tx
<1>1. Cardinality(Places(tx, s)) = 0 <=> Places(tx, s) = {}
  BY PlacesFinite, FS_EmptySet
<1> QED
  BY <1>1 DEF Places

\* A transaction that is added takes one more place.
LEMMA PlaceAdded ==
    ASSUME NEW tx, NEW s \in Seq(Txs), NEW x \in Txs
    PROVE  Cardinality(Places(tx, Append(s, x)))
               = Cardinality(Places(tx, s)) + (IF x = tx THEN 1 ELSE 0)
<1> DEFINE n == Len(s)
           more == Append(s, x)
<1>1. n \in Nat /\ DOMAIN s = 1 .. n
  BY LenProperties
<1>2. /\ DOMAIN more = 1 .. n + 1
      /\ \A k \in 1 .. n : more[k] = s[k]
      /\ more[n + 1] = x
  BY AppendProperties, LenProperties
<1>3. n + 1 \notin Places(tx, s)
  BY <1>1 DEF Places
<1> HIDE DEF more
<1>4. Places(tx, more) = Places(tx, s) \cup (IF x = tx THEN {n + 1} ELSE {})
  BY <1>1, <1>2 DEF Places
<1> HIDE DEF n
<1>5. CASE x = tx
  <2>1. Cardinality(Places(tx, s) \cup {n + 1}) = Cardinality(Places(tx, s)) + 1
    BY <1>3, PlacesFinite, FS_AddElement
  <2> QED
    BY <1>4, <1>5, <2>1 DEF more
<1>6. CASE x # tx
  <2>1. Places(tx, more) = Places(tx, s)
    BY <1>4, <1>6
  <2> QED
    BY <1>6, <2>1, PlacesFinite DEF more
<1> QED
  BY <1>5, <1>6

\* The transaction that is executed gives up its place, and the others move on.
LEMMA PlaceGivenUp ==
    ASSUME NEW tx, NEW s \in Seq(Txs), s # <<>>
    PROVE  Cardinality(Places(tx, s))
               = Cardinality(Places(tx, Tail(s))) + (IF Head(s) = tx THEN 1 ELSE 0)
<1> DEFINE n == Len(s)
           rest == Tail(s)
           P == Places(tx, rest)
           moved == {k + 1 : k \in P}
           move == [k \in P |-> k + 1]
<1>1. n \in Nat \ {0} /\ DOMAIN s = 1 .. n
  BY EmptySeq, LenProperties
<1>2. /\ rest \in Seq(Txs) /\ DOMAIN rest = 1 .. n - 1
      /\ \A k \in 1 .. n - 1 : rest[k] = s[k + 1]
      /\ Head(s) = s[1]
  <2>1. /\ rest \in Seq(Txs) /\ Len(rest) = n - 1
        /\ \A k \in 1 .. n - 1 : rest[k] = s[k + 1]
    BY HeadTailProperties
  <2> QED
    BY <2>1, LenProperties
<1> HIDE DEF rest
<1>3. P \subseteq 1 .. n - 1
  BY <1>2 DEF Places
<1>4. Places(tx, s) = moved \cup (IF s[1] = tx THEN {1} ELSE {})
  <2>1. ASSUME NEW k \in Places(tx, s), k # 1 PROVE k \in moved
    <3>1. k - 1 \in 1 .. n - 1 /\ rest[k - 1] = s[(k - 1) + 1] /\ (k - 1) + 1 = k /\ s[k] = tx
      BY <1>1, <1>2, <2>1 DEF Places
    <3>2. k - 1 \in P
      BY <1>2, <3>1 DEF Places
    <3> QED
      BY <3>1, <3>2
  <2>2. ASSUME NEW k \in P PROVE k + 1 \in Places(tx, s)
    BY <1>1, <1>2, <2>2 DEF Places
  <2>3. 1 \in Places(tx, s) <=> s[1] = tx
    BY <1>1 DEF Places
  <2> QED
    BY <2>1, <2>2, <2>3
<1>5. IsFiniteSet(P) /\ 1 \notin moved
  BY <1>2, <1>3, PlacesFinite
<1>6. IsFiniteSet(moved) /\ Cardinality(moved) = Cardinality(P)
  <2>1. move \in Injection(P, moved)
    <3>1. \A j, k \in P : j + 1 = k + 1 => j = k
      BY <1>1, <1>3
    <3> QED
      BY <3>1 DEF Injection, IsInjective
  <2>2. move \in Surjection(P, moved)
    BY DEF Surjection
  <2>3. ExistsBijection(P, moved)
    BY <2>1, <2>2 DEF ExistsBijection, Bijection
  <2> QED
    BY <1>5, <2>3, FS_Bijection
<1>7. Cardinality(P) \in Nat
  BY <1>2, PlacesFinite
<1> HIDE DEF moved, move
<1>8. CASE s[1] = tx
  <2>1. Cardinality(moved \cup {1}) = Cardinality(moved) + 1
    BY <1>5, <1>6, FS_AddElement
  <2> QED
    BY <1>2, <1>4, <1>6, <1>8, <2>1 DEF rest
<1>9. CASE s[1] # tx
  BY <1>2, <1>4, <1>6, <1>7, <1>9 DEF rest
<1> QED
  BY <1>8, <1>9

-----------------------------------------------------------------------------
(* The execution of transactions.                                          *)

\* A delegation the contracts accept is made, and uses up the allowance.
LEMMA DelegationMade ==
    ASSUME NEW l \in Ledgers, NEW c \in Calls, Accepts(l, DelegateTx(c))
    PROVE  LET m == Execute(l, DelegateTx(c))
           IN  /\ m \in Ledgers
               /\ m.allowance = l.allowance - Amount[c]
               /\ m.delegated = [l.delegated EXCEPT ![c] = @ + 1]
               /\ m.reverted = [l.reverted EXCEPT ![c] = FALSE]
<1> DEFINE tx == DelegateTx(c)
           made == [l.delegated EXCEPT ![c] = @ + 1]
           flags == [l.reverted EXCEPT ![c] = FALSE]
<1>1. tx.op = "delegate" /\ tx.call = c
  BY DEF DelegateTx
<1>2. /\ l.allowance \in Nat /\ l.funds \in Nat /\ l.room \in Nat
      /\ l.delegated \in [Calls -> Nat] /\ l.reverted \in [Calls -> BOOLEAN]
      /\ Amount[c] \in Nat
  BY CallsAssumption DEF Ledgers
<1>3. /\ l.allowance - Amount[c] \in Nat /\ l.funds - Amount[c] \in Nat
      /\ l.room - Amount[c] \in Nat
  BY <1>1, <1>2 DEF Accepts
<1>4. made \in [Calls -> Nat] /\ flags \in [Calls -> BOOLEAN]
  BY <1>2
<1>5. Execute(l, tx) = [l EXCEPT !.allowance = @ - Amount[c],
                                 !.funds = @ - Amount[c],
                                 !.room = @ - Amount[c],
                                 !.delegated[c] = @ + 1,
                                 !.reverted[c] = FALSE]
  BY <1>1 DEF Execute
<1>6. Execute(l, tx) = [allowance |-> l.allowance - Amount[c], funds |-> l.funds - Amount[c],
                        room |-> l.room - Amount[c],
                        delegated |-> made, reverted |-> flags]
  BY <1>5 DEF Ledgers
<1> HIDE DEF tx, made, flags
<1>7. Execute(l, tx) \in Ledgers
  BY <1>3, <1>4, <1>6 DEF Ledgers
<1> QED
  BY <1>6, <1>7 DEF tx, made, flags

\* One they refuse leaves a mark only.
LEMMA DelegationReverted ==
    ASSUME NEW l \in Ledgers, NEW c \in Calls, ~ Accepts(l, DelegateTx(c))
    PROVE  LET m == Execute(l, DelegateTx(c))
           IN  /\ m \in Ledgers
               /\ m.allowance = l.allowance
               /\ m.delegated = l.delegated
               /\ m.reverted = [l.reverted EXCEPT ![c] = TRUE]
<1> DEFINE tx == DelegateTx(c)
           flags == [l.reverted EXCEPT ![c] = TRUE]
<1>1. tx.op = "delegate" /\ tx.call = c
  BY DEF DelegateTx
<1>2. Execute(l, tx) = [l EXCEPT !.reverted[c] = TRUE]
  BY <1>1 DEF Execute
<1>3. Execute(l, tx) = [allowance |-> l.allowance, funds |-> l.funds, room |-> l.room,
                        delegated |-> l.delegated, reverted |-> flags]
  BY <1>2 DEF Ledgers
<1>4. flags \in [Calls -> BOOLEAN]
  BY DEF Ledgers
<1> HIDE DEF tx, flags
<1>5. Execute(l, tx) \in Ledgers
  BY <1>3, <1>4 DEF Ledgers
<1> QED
  BY <1>3, <1>5 DEF tx, flags

\* Any other transaction makes no delegation.
LEMMA NothingDelegated ==
    ASSUME NEW l \in Ledgers, NEW tx \in Txs, tx.op # "delegate"
    PROVE  LET m == Execute(l, tx)
           IN  /\ m \in Ledgers
               /\ m.allowance = IF tx.op = "approve" THEN Amount[tx.call] ELSE l.allowance
               /\ m.delegated = l.delegated
               /\ m.reverted = l.reverted
<1>1. tx.op \in {"approve", "plain"} /\ tx.call \in Calls
  BY DEF Txs
<1>2. CASE tx.op = "approve"
  <2>1. Execute(l, tx) = [l EXCEPT !.allowance = Amount[tx.call]]
    BY <1>2 DEF Execute, Approved
  <2>2. Amount[tx.call] \in Nat
    BY <1>1, CallsAssumption
  <2> QED
    BY <1>2, <2>1, <2>2 DEF Ledgers
<1>3. CASE tx.op = "plain"
  BY <1>3 DEF Execute
<1> QED
  BY <1>1, <1>2, <1>3

\* A transaction is a delegation of its call, or none.
LEMMA KindsOfTx ==
    ASSUME NEW tx \in Txs
    PROVE  tx.call \in Calls /\ (tx.op = "delegate" => tx = DelegateTx(tx.call))
BY DEF Txs, DelegateTx

\* The ledgers whose allowance a delegation asked for, and the transactions that
\* keep it so: only delegations approve.
Fair == {l \in Ledgers : Requested(l)}
FairTxs == {tx \in Txs : tx.op = "approve" => tx.call \in Delegations}

LEMMA ExecuteFair ==
    ASSUME NEW l \in Fair, NEW tx \in FairTxs
    PROVE  Execute(l, tx) \in Fair
<1> DEFINE m == Execute(l, tx)
<1>1. l \in Ledgers /\ tx \in Txs /\ Requested(l)
  BY DEF Fair, FairTxs
<1>2. CASE tx.op # "delegate"
  <2>1. /\ m \in Ledgers
        /\ m.allowance = IF tx.op = "approve" THEN Amount[tx.call] ELSE l.allowance
    BY <1>1, <1>2, NothingDelegated
  <2>2. \A c \in Delegations : Amount[c] \in Nat
    BY CallsAssumption DEF Delegations
  <2>3. Requested(m)
    BY <1>1, <2>1, <2>2 DEF Requested, FairTxs
  <2> QED
    BY <2>1, <2>3 DEF Fair
<1>3. CASE tx.op = "delegate"
  <2> DEFINE c == tx.call
  <2>1. c \in Calls /\ tx = DelegateTx(c)
    BY <1>1, <1>3, KindsOfTx
  <2> HIDE DEF c
  <2>2. /\ m \in Ledgers
        /\ m.allowance = l.allowance \/ m.allowance = l.allowance - Amount[c]
    BY <1>1, <2>1, DelegationMade, DelegationReverted
  <2>3. m.allowance \in Nat /\ l.allowance \in Nat /\ Amount[c] \in Nat
    BY <1>1, <2>1, <2>2, CallsAssumption DEF Ledgers
  <2>4. m.allowance <= l.allowance
    BY <2>2, <2>3
  <2>5. \A d \in Delegations : Amount[d] \in Nat
    BY CallsAssumption DEF Delegations
  <2>6. Requested(m)
    BY <1>1, <2>3, <2>4, <2>5 DEF Requested
  <2> QED
    BY <2>2, <2>6 DEF Fair
<1> QED
  BY <1>2, <1>3

-----------------------------------------------------------------------------
(* The execution of the whole queue.                                       *)

\* What holds of zero and of each number's successor holds of all numbers.
LEMMA AllNumbers ==
    ASSUME NEW S, 0 \in S, \A n \in Nat : n \in S => n + 1 \in S
    PROVE  Nat \subseteq S
<1> SUFFICES ASSUME Nat \ S # {} PROVE FALSE
  OBVIOUS
<1>1. IsWellFoundedOn(OpToRel(<, Nat), Nat)
  BY NatLessThanWellFounded
<1>2. PICK x \in Nat \ S : \A y \in Nat \ S : ~ (<<y, x>> \in OpToRel(<, Nat))
  BY <1>1, WFMin
<1>3. x - 1 \in Nat /\ x - 1 < x /\ (x - 1) + 1 = x
  <2>1. x \in Nat /\ x # 0
    BY <1>2
  <2> QED
    BY <2>1
<1>4. x - 1 \in S
  BY <1>2, <1>3 DEF OpToRel
<1> QED
  BY <1>2, <1>3, <1>4

\* The greatest of a set of numbers.
LEMMA MaxIs ==
    ASSUME NEW t, t \subseteq Nat, NEW m \in t, \A y \in t : m >= y
    PROVE  Max(t) = m
<1>1. PICK c : c = Max(t)
  OBVIOUS
<1>2. c \in t /\ \A y \in t : c >= y
  BY <1>1 DEF Max
<1> QED
  BY <1>1, <1>2

\* f executes the transactions of s that stand at any places up to n, starting
\* from l, each after those before it.
Executes(f, n, l, s) ==
    f = [t \in SUBSET (1 .. n) |->
            IF t = {} THEN l ELSE Execute(f[t \ {Max(t)}], s[Max(t)])]

LEMMA ExecutionExists ==
    ASSUME NEW l, NEW s, NEW n \in Nat
    PROVE  \E f : Executes(f, n, l, s)
<1> DEFINE S == {k \in Nat : \E f : Executes(f, k, l, s)}
<1>1. 0 \in S
  <2> DEFINE f == [t \in SUBSET (1 .. 0) |-> l]
  <2>1. SUBSET (1 .. 0) = {{}}
    OBVIOUS
  <2>2. Executes(f, 0, l, s)
    BY <2>1 DEF Executes
  <2> QED
    BY <2>2
<1>2. ASSUME NEW k \in Nat, k \in S PROVE k + 1 \in S
  <2>1. PICK f : Executes(f, k, l, s)
    BY <1>2
  <2> DEFINE g == [t \in SUBSET (1 .. k + 1) |->
                      IF k + 1 \in t THEN Execute(f[t \ {k + 1}], s[k + 1]) ELSE f[t]]
  <2>2. ASSUME NEW t \in SUBSET (1 .. k + 1)
        PROVE  g[t] = IF t = {} THEN l ELSE Execute(g[t \ {Max(t)}], s[Max(t)])
    <3>1. CASE k + 1 \in t
      <4>1. Max(t) = k + 1
        <5>1. t \subseteq Nat /\ \A y \in t : k + 1 >= y
          OBVIOUS
        <5> QED
          BY <3>1, <5>1, MaxIs
      <4>2. t \ {k + 1} \in SUBSET (1 .. k + 1) /\ k + 1 \notin t \ {k + 1}
        OBVIOUS
      <4>3. g[t \ {k + 1}] = f[t \ {k + 1}]
        BY <4>2
      <4> QED
        BY <3>1, <4>1, <4>3
    <3>2. CASE k + 1 \notin t
      <4>1. t \in SUBSET (1 .. k) /\ g[t] = f[t]
        BY <3>2
      <4>2. f[t] = IF t = {} THEN l ELSE Execute(f[t \ {Max(t)}], s[Max(t)])
        BY <2>1, <4>1 DEF Executes
      <4>3. t \ {Max(t)} \in SUBSET (1 .. k + 1) /\ k + 1 \notin t \ {Max(t)}
        BY <3>2
      <4>4. g[t \ {Max(t)}] = f[t \ {Max(t)}]
        BY <4>3
      <4> QED
        BY <4>1, <4>2, <4>4
    <3> QED
      BY <3>1, <3>2
  <2>3. g = [t \in SUBSET (1 .. k + 1) |-> g[t]]
    OBVIOUS
  <2> HIDE DEF g
  <2>4. Executes(g, k + 1, l, s)
    BY <2>2, <2>3 DEF Executes
  <2> QED
    BY <2>4
<1> HIDE DEF S
<1>3. n \in S
  BY <1>1, <1>2, AllNumbers
<1> QED
  BY <1>3 DEF S

\* Whatever keeps the allowance fair one by one keeps it so together.
LEMMA FoldFair ==
    ASSUME NEW l \in Fair, NEW s \in Seq(FairTxs)
    PROVE  FoldLeft(Execute, l, s) \in Fair
<1> DEFINE n == Len(s)
           iter[t \in SUBSET (1 .. n)] ==
               IF t = {} THEN l ELSE Execute(iter[t \ {Max(t)}], s[Max(t)])
<1>1. n \in Nat /\ DOMAIN s = 1 .. n /\ \A k \in 1 .. n : s[k] \in FairTxs
  BY LenProperties, ElementOfSeq
<1>2. FoldLeft(Execute, l, s) = iter[1 .. n]
  BY <1>1, Zenon DEF FoldLeft, MapThenFoldSet
<1>3. Executes(iter, n, l, s)
  <2>1. \E f : Executes(f, n, l, s)
    BY <1>1, ExecutionExists
  <2> QED
    BY <2>1, Zenon DEF Executes
<1> HIDE DEF n, iter
<1> DEFINE S == {k \in Nat : k <= n => iter[1 .. k] \in Fair}
<1>4. 0 \in S
  <2>1. 1 .. 0 = {}
    OBVIOUS
  <2>2. iter[{}] = l
    BY <1>3 DEF Executes
  <2> QED
    BY <2>1, <2>2
<1>5. ASSUME NEW k \in Nat, k \in S PROVE k + 1 \in S
  <2> SUFFICES ASSUME k + 1 <= n PROVE iter[1 .. k + 1] \in Fair
    OBVIOUS
  <2>1. iter[1 .. k] \in Fair /\ s[k + 1] \in FairTxs
    BY <1>1, <1>5
  <2>2. 1 .. k + 1 \in SUBSET (1 .. n) /\ k + 1 \in 1 .. k + 1
    BY <1>1
  <2>3. (1 .. k + 1) \ {k + 1} = 1 .. k
    OBVIOUS
  <2>4. Max(1 .. k + 1) = k + 1
    <3>1. 1 .. k + 1 \subseteq Nat /\ \A y \in 1 .. k + 1 : k + 1 >= y
      OBVIOUS
    <3> QED
      BY <2>2, <3>1, MaxIs
  <2>5. iter[1 .. k + 1] = Execute(iter[1 .. k], s[k + 1])
    BY <1>3, <2>2, <2>3, <2>4 DEF Executes
  <2> QED
    BY <2>1, <2>5, ExecuteFair
<1> HIDE DEF S
<1>6. n \in S
  BY <1>1, <1>4, <1>5, AllNumbers
<1> QED
  BY <1>1, <1>2, <1>6 DEF S

-----------------------------------------------------------------------------
(* The invariant is kept.                                                  *)

LEMMA InitIInv == Init => IInv
<1> SUFFICES ASSUME Init PROVE IInv
  OBVIOUS
<1>1. pending = <<>> /\ pending \in Seq(Txs) /\ Len(pending) = 0 /\ DOMAIN pending = {}
  BY EmptySeq, LenProperties DEF Init
<1>2. /\ ledger \in Ledgers /\ ledger.allowance = 0
      /\ \A c \in Calls : ledger.delegated[c] = 0 /\ ledger.reverted[c] = FALSE
  <2>1. PICK d \in [Calls -> {0}], r \in [Calls -> {FALSE}], f \in {Funds}, room \in Rooms :
           ledger = [allowance |-> 0, funds |-> f, room |-> room, delegated |-> d, reverted |-> r]
    BY DEF Init
  <2>2. f \in Nat /\ room \in Nat
    BY BoundsAssumption
  <2>3. d \in [Calls -> Nat] /\ \A c \in Calls : d[c] = 0
    OBVIOUS
  <2>4. r \in [Calls -> BOOLEAN] /\ \A c \in Calls : r[c] = FALSE
    OBVIOUS
  <2> QED
    BY <2>1, <2>2, <2>3, <2>4 DEF Ledgers
<1>3. unheard \in [Calls -> Nat] /\ \A c \in Calls : unheard[c] = 0
  BY DEF Init
<1>4. TypeOK
  BY <1>1, <1>2, <1>3, BoundsAssumption DEF Init, TypeOK
<1>5. \A c \in Calls : Underway(c) = 0
  BY <1>1, NoPlace DEF Underway
<1>6. Delegations \subseteq Calls /\ \A c \in Calls : phase[c] = "start"
  BY DEF Delegations, Init
<1>7. Accounted
  BY <1>2, <1>3, <1>5, <1>6 DEF Accounted
<1>8. FailedInVain
  BY <1>6 DEF FailedInVain
<1>9. ApprovalsRequested
  BY <1>1, <1>2, <1>6 DEF ApprovalsRequested, Requested
<1> QED
  BY <1>4, <1>7, <1>8, <1>9 DEF IInv

\* The facts that every step uses.
LEMMA Types ==
    ASSUME TypeOK
    PROVE  /\ Delegations \subseteq Calls
           /\ \A c \in Calls : /\ ledger.delegated[c] \in Nat /\ ledger.reverted[c] \in BOOLEAN
                               /\ unheard[c] \in Nat /\ Underway(c) \in Nat
BY PlacesFinite DEF TypeOK, Ledgers, Delegations, Underway

\* A call that sends nothing, and has not handed out a response.
LEMMA CallMoves ==
    ASSUME IInv, NEW c \in Calls, phase[c] \notin {"resolved", "done"},
           NEW p \in {"start", "approving", "sending", "rejected"},
           p = "approving" => c \in Delegations,
           NEW q \in {"no", "fresh", "stale"},
           p \notin {"approving", "sending"} => q = "no",
           phase' = [phase EXCEPT ![c] = p],
           prepared' = [prepared EXCEPT ![c] = q],
           UNCHANGED <<pending, ledger, unheard>>
    PROVE  IInv'
<1>1. TypeOK'
  BY DEF IInv, TypeOK
<1>2. /\ \A d \in Calls : Underway(d)' = Underway(d)
      /\ \A d \in Calls : phase'[d] = IF d = c THEN p ELSE phase[d]
  BY DEF Underway, IInv, TypeOK
<1>3. Accounted'
  BY <1>2, Types DEF IInv, Accounted
<1>4. FailedInVain'
  BY <1>2, Types DEF IInv, FailedInVain
<1>5. ApprovalsRequested'
  BY <1>2 DEF IInv, ApprovalsRequested, Requested
<1> QED
  BY <1>1, <1>3, <1>4, <1>5 DEF IInv

\* The application is told how its delegation ended: if it failed, it was in vain.
LEMMA WaitStep ==
    ASSUME IInv, NEW c \in Calls, Wait(c)
    PROVE  IInv'
<1>1. /\ phase[c] = "resolved"
      /\ UNCHANGED <<prepared, pending, ledger, unheard>>
      /\ \A d \in Calls : phase'[d] = IF d = c THEN IF ledger.reverted[c] THEN "rejected"
                                                    ELSE "done"
                                      ELSE phase[d]
  BY DEF Wait, IInv, TypeOK
<1>2. TypeOK'
  BY DEF Wait, IInv, TypeOK
<1>3. \A d \in Calls : Underway(d)' = Underway(d)
  BY <1>1 DEF Underway
<1>4. Underway(c) = 0
  <2>1. \A k \in DOMAIN pending : pending[k] # DelegateTx(c)
    BY DEF Wait, DelegateTx
  <2> QED
    BY <2>1, NoPlace DEF Underway, IInv, TypeOK
<1>5. Accounted'
  <2> SUFFICES ASSUME NEW d \in Delegations
               PROVE  ledger.delegated[d] + Underway(d)
                          <= unheard[d] + (IF phase'[d] \in {"resolved", "done"} THEN 1 ELSE 0)
    BY <1>1, <1>3, Types DEF Accounted, IInv
  <2>1. d \in Calls
    BY DEF Delegations
  <2>2. CASE d = c /\ ledger.reverted[c]
    <3>1. ledger.delegated[d] <= unheard[d]
      BY <1>1, <1>4, <2>2 DEF IInv, FailedInVain
    <3> QED
      BY <1>1, <1>4, <2>1, <2>2, <3>1, Types DEF IInv
  <2>3. CASE ~ (d = c /\ ledger.reverted[c])
    BY <1>1, <2>1, <2>3 DEF IInv, Accounted
  <2> QED
    BY <2>2, <2>3
<1>6. FailedInVain'
  BY <1>1, <1>3, Types DEF IInv, FailedInVain
<1>7. ApprovalsRequested'
  BY <1>1 DEF IInv, ApprovalsRequested, Requested
<1> QED
  BY <1>2, <1>5, <1>6, <1>7 DEF IInv

\* What a call sends, and what becomes of the others' nonces.
LEMMA Sends ==
    ASSUME IInv, NEW c \in Calls, prepared[c] = "fresh", Len(pending) < MaxPending,
           pending' = Append(pending, Tx(c)), prepared' = Outdated(c)
    PROVE  /\ phase[c] \in {"approving", "sending"} /\ Tx(c) \in Txs
           /\ pending' \in Seq(Txs) /\ Len(pending') <= MaxPending
           /\ prepared' \in [Calls -> {"no", "fresh", "stale"}] /\ prepared'[c] = "no"
           /\ \A d \in Calls : prepared[d] = "no" => prepared'[d] = "no"
           /\ \A d \in Delegations :
                 Underway(d)' = Underway(d) + (IF d = c /\ phase[c] = "sending" THEN 1 ELSE 0)
           /\ \A k \in DOMAIN pending' :
                 pending'[k].op = "approve" => pending'[k].call \in Delegations
<1>1. phase[c] \in {"approving", "sending"}
  BY DEF IInv, TypeOK
<1>2. Tx(c) \in Txs
  BY DEF Tx, Txs
<1>3. /\ pending \in Seq(Txs) /\ Len(pending) \in Nat /\ MaxPending \in Nat
      /\ DOMAIN pending = 1 .. Len(pending)
  BY BoundsAssumption, LenProperties DEF IInv, TypeOK
<1>4. /\ pending' \in Seq(Txs) /\ Len(pending') = Len(pending) + 1
      /\ \A k \in 1 .. Len(pending) : pending'[k] = pending[k]
      /\ pending'[Len(pending) + 1] = Tx(c)
      /\ DOMAIN pending' = 1 .. Len(pending) + 1
  <2>1. /\ pending' \in Seq(Txs) /\ Len(pending') = Len(pending) + 1
        /\ \A k \in 1 .. Len(pending) : pending'[k] = pending[k]
        /\ pending'[Len(pending) + 1] = Tx(c)
    BY <1>2, <1>3, AppendProperties
  <2> QED
    BY <2>1, LenProperties
<1>5. ASSUME NEW d \in Delegations
      PROVE  Underway(d)' = Underway(d) + (IF d = c /\ phase[c] = "sending" THEN 1 ELSE 0)
  <2>1. Tx(c) = DelegateTx(d) <=> d = c /\ phase[c] = "sending"
    BY <1>1 DEF Tx, DelegateTx
  <2>2. DelegateTx(d)' = DelegateTx(d)
    BY DEF DelegateTx
  <2>3. Cardinality(Places(DelegateTx(d), pending'))
            = Cardinality(Places(DelegateTx(d), pending)) + (IF Tx(c) = DelegateTx(d) THEN 1 ELSE 0)
    BY <1>2, <1>3, PlaceAdded
  <2> QED
    BY <2>1, <2>2, <2>3 DEF Underway
<1>6. ASSUME NEW k \in DOMAIN pending', pending'[k].op = "approve"
      PROVE  pending'[k].call \in Delegations
  <2>1. CASE k \in 1 .. Len(pending)
    BY <1>3, <1>4, <1>6, <2>1 DEF IInv, ApprovalsRequested
  <2>2. CASE k = Len(pending) + 1
    <3>1. phase[c] = "approving" /\ pending'[k].call = c
      BY <1>4, <1>6, <2>2 DEF Tx
    <3> QED
      BY <3>1 DEF IInv, ApprovalsRequested
  <2> QED
    BY <1>3, <1>4, <2>1, <2>2
<1>7. /\ prepared' \in [Calls -> {"no", "fresh", "stale"}] /\ prepared'[c] = "no"
      /\ \A d \in Calls : prepared[d] = "no" => prepared'[d] = "no"
  BY DEF Outdated, IInv, TypeOK
<1> QED
  BY <1>1, <1>2, <1>3, <1>4, <1>5, <1>6, <1>7

\* A response is handed out for the delegation that is now under way.
LEMMA BroadcastStep ==
    ASSUME IInv, NEW c \in Calls, Broadcast(c)
    PROVE  IInv'
<1>1. /\ prepared[c] = "fresh" /\ Len(pending) < MaxPending
      /\ pending' = Append(pending, Tx(c)) /\ prepared' = Outdated(c)
      /\ ledger' = ledger /\ unheard' = unheard
      /\ phase' = [phase EXCEPT ![c] = Sent(c)]
  BY DEF Broadcast
<1>2. /\ phase[c] \in {"approving", "sending"} /\ Tx(c) \in Txs
      /\ pending' \in Seq(Txs) /\ Len(pending') <= MaxPending
      /\ prepared' \in [Calls -> {"no", "fresh", "stale"}] /\ prepared'[c] = "no"
      /\ \A d \in Calls : prepared[d] = "no" => prepared'[d] = "no"
      /\ \A d \in Delegations :
            Underway(d)' = Underway(d) + (IF d = c /\ phase[c] = "sending" THEN 1 ELSE 0)
      /\ \A k \in DOMAIN pending' :
            pending'[k].op = "approve" => pending'[k].call \in Delegations
  BY <1>1, Sends
<1>3. Sent(c) = IF phase[c] = "sending" THEN "resolved" ELSE "sending"
  BY <1>2 DEF Sent
<1>4. /\ phase' \in [Calls -> {"start", "approving", "sending", "resolved", "rejected", "done"}]
      /\ \A d \in Calls : phase'[d] = IF d = c THEN Sent(c) ELSE phase[d]
  BY <1>1, <1>3 DEF IInv, TypeOK
<1>5. TypeOK'
  BY <1>1, <1>2, <1>4 DEF IInv, TypeOK
<1>6. Accounted'
  BY <1>1, <1>2, <1>3, <1>4, Types DEF IInv, Accounted
<1>7. FailedInVain'
  BY <1>1, <1>2, <1>3, <1>4, Types DEF IInv, FailedInVain
<1>8. ApprovalsRequested'
  BY <1>1, <1>2, <1>3, <1>4 DEF IInv, ApprovalsRequested, Requested
<1> QED
  BY <1>5, <1>6, <1>7, <1>8 DEF IInv

\* The call rejects, and the lost reply accounts for the delegation under way.
LEMMA UnheardStep ==
    ASSUME IInv, NEW c \in Calls, BroadcastUnheard(c)
    PROVE  IInv'
<1>1. /\ prepared[c] = "fresh" /\ Len(pending) < MaxPending
      /\ pending' = Append(pending, Tx(c)) /\ prepared' = Outdated(c)
      /\ ledger' = ledger
      /\ unheard' = [unheard EXCEPT ![c] = @ + 1]
      /\ phase' = [phase EXCEPT ![c] = "rejected"]
  BY DEF BroadcastUnheard
<1>2. /\ phase[c] \in {"approving", "sending"} /\ Tx(c) \in Txs
      /\ pending' \in Seq(Txs) /\ Len(pending') <= MaxPending
      /\ prepared' \in [Calls -> {"no", "fresh", "stale"}] /\ prepared'[c] = "no"
      /\ \A d \in Calls : prepared[d] = "no" => prepared'[d] = "no"
      /\ \A d \in Delegations :
            Underway(d)' = Underway(d) + (IF d = c /\ phase[c] = "sending" THEN 1 ELSE 0)
      /\ \A k \in DOMAIN pending' :
            pending'[k].op = "approve" => pending'[k].call \in Delegations
  BY <1>1, Sends
<1>3. /\ unheard' \in [Calls -> Nat]
      /\ \A d \in Calls : unheard'[d] = IF d = c THEN unheard[d] + 1 ELSE unheard[d]
      /\ phase' \in [Calls -> {"start", "approving", "sending", "resolved", "rejected", "done"}]
      /\ \A d \in Calls : phase'[d] = IF d = c THEN "rejected" ELSE phase[d]
  BY <1>1 DEF IInv, TypeOK
<1>4. TypeOK'
  BY <1>1, <1>2, <1>3 DEF IInv, TypeOK
<1>5. Accounted'
  BY <1>1, <1>2, <1>3, Types DEF IInv, Accounted
<1>6. FailedInVain'
  BY <1>1, <1>2, <1>3, Types DEF IInv, FailedInVain
<1>7. ApprovalsRequested'
  BY <1>1, <1>2, <1>3 DEF IInv, ApprovalsRequested, Requested
<1> QED
  BY <1>4, <1>5, <1>6, <1>7 DEF IInv

\* A delegation under way is made or fails, and other transactions make none.
LEMMA MineStep ==
    ASSUME IInv, Mine
    PROVE  IInv'
<1> DEFINE tx == Head(pending)
           c == tx.call
<1>1. /\ pending \in Seq(Txs) /\ pending # <<>> /\ ledger \in Ledgers
      /\ ledger' = Execute(ledger, tx) /\ pending' = Tail(pending)
      /\ phase' = phase /\ prepared' = prepared /\ unheard' = unheard
  BY DEF Mine, IInv, TypeOK
<1>2. Len(pending) \in Nat \ {0} /\ DOMAIN pending = 1 .. Len(pending)
  BY <1>1, EmptySeq, LenProperties
<1>3. /\ tx \in Txs /\ tx = pending[1]
      /\ pending' \in Seq(Txs) /\ Len(pending') = Len(pending) - 1
      /\ DOMAIN pending' = 1 .. Len(pending) - 1
      /\ \A k \in 1 .. Len(pending) - 1 : pending'[k] = pending[k + 1]
  <2>1. /\ tx \in Txs /\ pending' \in Seq(Txs) /\ Len(pending') = Len(pending) - 1
        /\ \A k \in 1 .. Len(pending') : pending'[k] = pending[k + 1]
    BY <1>1, HeadTailProperties
  <2>2. DOMAIN pending' = 1 .. Len(pending')
    BY <2>1, LenProperties
  <2> QED
    BY <1>1, <2>1, <2>2
<1> HIDE DEF tx
<1>4. ASSUME NEW d \in Calls
      PROVE  Underway(d) = Underway(d)' + (IF tx = DelegateTx(d) THEN 1 ELSE 0)
  <2>1. DelegateTx(d)' = DelegateTx(d)
    BY DEF DelegateTx
  <2>2. Cardinality(Places(DelegateTx(d), pending))
            = Cardinality(Places(DelegateTx(d), Tail(pending)))
                  + (IF Head(pending) = DelegateTx(d) THEN 1 ELSE 0)
    BY <1>1, PlaceGivenUp
  <2> QED
    BY <1>1, <2>1, <2>2 DEF Underway, tx
<1>5. c \in Calls /\ (tx.op = "delegate" => tx = DelegateTx(c))
  BY <1>3, KindsOfTx
<1> HIDE DEF c
<1>6. /\ ledger' \in Ledgers
      /\ \/ /\ tx.op # "delegate"
            /\ ledger'.delegated = ledger.delegated /\ ledger'.reverted = ledger.reverted
         \/ /\ tx = DelegateTx(c)
            /\ ledger'.delegated = [ledger.delegated EXCEPT ![c] = @ + 1]
            /\ ledger'.reverted = [ledger.reverted EXCEPT ![c] = FALSE]
         \/ /\ tx = DelegateTx(c)
            /\ ledger'.delegated = ledger.delegated
            /\ ledger'.reverted = [ledger.reverted EXCEPT ![c] = TRUE]
  <2>1. CASE tx.op # "delegate"
    BY <1>1, <1>3, <2>1, NothingDelegated
  <2>2. CASE tx.op = "delegate" /\ Accepts(ledger, DelegateTx(c))
    BY <1>1, <1>5, <2>2, DelegationMade
  <2>3. CASE tx.op = "delegate" /\ ~ Accepts(ledger, DelegateTx(c))
    BY <1>1, <1>5, <2>3, DelegationReverted
  <2> QED
    BY <2>1, <2>2, <2>3
<1>7. TypeOK'
  BY <1>1, <1>2, <1>3, <1>6, BoundsAssumption DEF IInv, TypeOK
<1>8. \A d \in Calls : /\ tx = DelegateTx(d) => tx.op = "delegate"
                       /\ tx = DelegateTx(c) => (tx = DelegateTx(d) <=> d = c)
  BY DEF DelegateTx
<1>9. /\ ledger.delegated \in [Calls -> Nat] /\ ledger.reverted \in [Calls -> BOOLEAN]
      /\ \A d \in Calls : Underway(d)' \in Nat
  BY <1>1, <1>3, PlacesFinite DEF Ledgers, Underway
<1>10. Delegations \subseteq Calls
  BY DEF Delegations
<1>11. Accounted'
  <2> SUFFICES ASSUME NEW d \in Delegations
               PROVE  ledger'.delegated[d] + Underway(d)'
                          <= unheard[d] + (IF phase[d] \in {"resolved", "done"} THEN 1 ELSE 0)
    BY <1>1 DEF Accounted
  <2>1. ledger'.delegated[d] + Underway(d)' <= ledger.delegated[d] + Underway(d)
    BY <1>4, <1>6, <1>8, <1>9, <1>10
  <2>2. ledger'.delegated[d] \in Nat
    BY <1>6, <1>10 DEF Ledgers
  <2> QED
    BY <1>9, <1>10, <2>1, <2>2, Types DEF IInv, Accounted
<1>12. FailedInVain'
  <2> SUFFICES ASSUME NEW d \in Delegations, phase[d] = "resolved",
                      ledger'.reverted[d], Underway(d)' = 0
               PROVE  ledger'.delegated[d] <= unheard[d]
    BY <1>1 DEF FailedInVain
  <2>1. d \in Calls
    BY <1>10
  <2>2. CASE tx = DelegateTx(d)
    <3>1. Underway(d) = 1 /\ ledger'.delegated[d] = ledger.delegated[d]
      BY <1>4, <1>6, <1>8, <1>9, <2>1, <2>2
    <3>2. ledger.delegated[d] + Underway(d) <= unheard[d] + 1
      BY DEF IInv, Accounted
    <3> QED
      BY <2>1, <3>1, <3>2, Types DEF IInv
  <2>3. CASE tx # DelegateTx(d)
    <3>1. /\ Underway(d) = 0 /\ ledger'.delegated[d] = ledger.delegated[d]
          /\ ledger.reverted[d]
      BY <1>4, <1>6, <1>8, <1>9, <2>1, <2>3
    <3> QED
      BY <3>1 DEF IInv, FailedInVain
  <2> QED
    BY <2>2, <2>3
<1>13. ApprovalsRequested'
  <2>1. \A k \in DOMAIN pending' : k + 1 \in DOMAIN pending /\ pending'[k] = pending[k + 1]
    BY <1>2, <1>3
  <2>2. tx \in FairTxs /\ ledger \in Fair
    BY <1>1, <1>2, <1>3 DEF FairTxs, Fair, IInv, ApprovalsRequested
  <2>3. ledger' \in Fair
    BY <1>1, <2>2, ExecuteFair
  <2> QED
    BY <1>1, <2>1, <2>3 DEF IInv, ApprovalsRequested, Fair, Requested
<1> QED
  BY <1>7, <1>11, <1>12, <1>13 DEF IInv

\* The room the indexer has is nobody's concern but the pool's.
LEMMA RoomStep ==
    ASSUME IInv, NEW r \in Rooms, SetRoom(r)
    PROVE  IInv'
<1>1. /\ ledger \in Ledgers /\ ledger' = [ledger EXCEPT !.room = r] /\ r \in Nat
      /\ UNCHANGED <<phase, prepared, pending, unheard>>
  BY BoundsAssumption DEF SetRoom, IInv, TypeOK
<1>2. /\ ledger' \in Ledgers /\ ledger'.allowance = ledger.allowance
      /\ ledger'.delegated = ledger.delegated /\ ledger'.reverted = ledger.reverted
  BY <1>1 DEF Ledgers
<1> QED
  BY <1>1, <1>2 DEF IInv, TypeOK, Accounted, FailedInVain, ApprovalsRequested, Underway,
     Requested

LEMMA Step == IInv /\ [Next]_vars => IInv'
<1> SUFFICES ASSUME IInv, [Next]_vars PROVE IInv'
  OBVIOUS
<1>1. ASSUME Mine PROVE IInv'
  BY <1>1, MineStep
<1>2. ASSUME NEW c \in Calls, Reject(c) PROVE IInv'
  <2>1. /\ phase[c] = "start" /\ phase' = [phase EXCEPT ![c] = "rejected"]
        /\ prepared' = [prepared EXCEPT ![c] = "no"]
    BY <1>2 DEF Reject, IInv, TypeOK
  <2> QED
    BY <1>2, <2>1, CallMoves DEF Reject
<1>3. ASSUME NEW c \in Calls, Send(c) PROVE IInv'
  <2>1. /\ phase[c] = "start" /\ phase' = [phase EXCEPT ![c] = "sending"]
        /\ prepared' = [prepared EXCEPT ![c] = "no"]
    BY <1>3 DEF Send, IInv, TypeOK
  <2> QED
    BY <1>3, <2>1, CallMoves DEF Send
<1>4. ASSUME NEW c \in Calls, Delegate(c) PROVE IInv'
  <2>1. PICK p \in {"approving", "sending"} : phase' = [phase EXCEPT ![c] = p]
    BY <1>4 DEF Delegate
  <2>2. /\ phase[c] = "start" /\ c \in Delegations
        /\ prepared' = [prepared EXCEPT ![c] = "no"]
    BY <1>4 DEF Delegate, Delegations, IInv, TypeOK
  <2> QED
    BY <1>4, <2>1, <2>2, CallMoves DEF Delegate
<1>5. ASSUME NEW c \in Calls, phase[c] \in {"approving", "sending"}, Rejected(c),
             UNCHANGED <<pending, ledger, unheard>>
      PROVE  IInv'
  BY <1>5, CallMoves DEF Rejected
<1>6. ASSUME NEW c \in Calls, Prepare(c) PROVE IInv'
  <2>1. /\ phase[c] \in {"approving", "sending"}
        /\ \/ Rejected(c)
           \/ prepared' = [prepared EXCEPT ![c] = "fresh"] /\ phase' = phase
        /\ UNCHANGED <<pending, ledger, unheard>>
    BY <1>6 DEF Prepare
  <2>2. CASE Rejected(c)
    BY <1>5, <2>1, <2>2
  <2>3. CASE prepared' = [prepared EXCEPT ![c] = "fresh"] /\ phase' = phase
    <3>1. phase' = [phase EXCEPT ![c] = phase[c]]
      BY <2>3 DEF IInv, TypeOK
    <3>2. phase[c] = "approving" => c \in Delegations
      BY DEF IInv, ApprovalsRequested
    <3> QED
      BY <2>1, <2>3, <3>1, <3>2, CallMoves
  <2> QED
    BY <2>1, <2>2, <2>3
<1>7. ASSUME NEW c \in Calls, Refused(c) PROVE IInv'
  <2>1. phase[c] \in {"approving", "sending"}
    BY <1>7 DEF Refused, IInv, TypeOK
  <2> QED
    BY <1>5, <1>7, <2>1 DEF Refused
<1>8. ASSUME NEW c \in Calls, Retry(c) PROVE IInv'
  <2>1. /\ phase[c] = "rejected" /\ phase' = [phase EXCEPT ![c] = "start"]
        /\ prepared' = [prepared EXCEPT ![c] = "no"]
    BY <1>8 DEF Retry, IInv, TypeOK
  <2> QED
    BY <1>8, <2>1, CallMoves DEF Retry
<1>9. ASSUME UNCHANGED vars PROVE IInv'
  BY <1>9 DEF vars, IInv, TypeOK, Accounted, FailedInVain, ApprovalsRequested, Underway, Requested
<1> QED
  BY <1>1, <1>2, <1>3, <1>4, <1>6, <1>7, <1>8, <1>9, RoomStep, WaitStep, BroadcastStep, UnheardStep
     DEF Next, Proceed

LEMMA Inductive == Spec => []IInv
BY InitIInv, Step, PTL DEF Spec

-----------------------------------------------------------------------------
(* What the SDK keeps.                                                     *)

\* The ledger, the queue and the calls always have their types, and a call has a
\* transaction prepared only while it is sending one.
THEOREM TypeCorrect == Spec => []TypeOK
<1>1. IInv => TypeOK
  BY DEF IInv
<1> QED
  BY <1>1, Inductive, PTL

\* However many calls interleave and fail, a delegation is made once, and once
\* more at most for each reply that was lost.
THEOREM AlwaysDelegatedOnce == Spec => []DelegatedOnce
<1>1. IInv => DelegatedOnce
  <2> SUFFICES ASSUME IInv, NEW c \in Delegations
               PROVE  ledger.delegated[c] <= 1 + unheard[c]
    BY DEF DelegatedOnce
  <2>1. /\ ledger.delegated[c] \in Nat /\ unheard[c] \in Nat /\ Underway(c) \in Nat
    BY Types DEF IInv
  <2>2. ledger.delegated[c] + Underway(c) <= unheard[c] + 1
    BY <2>1 DEF IInv, Accounted
  <2> QED
    BY <2>1, <2>2
<1> QED
  BY <1>1, Inductive, PTL

\* The pool may never take more than one delegation asked for, neither now nor
\* when all that is pending has been executed.
THEOREM AllowanceAlwaysWithinRequest == Spec => []AllowanceWithinRequest
<1>1. IInv => AllowanceWithinRequest
  <2> SUFFICES ASSUME IInv PROVE AllowanceWithinRequest
    OBVIOUS
  <2>1. ledger \in Fair
    BY DEF Fair, IInv, TypeOK, ApprovalsRequested
  <2>2. pending \in Seq(FairTxs)
    <3>1. pending \in Seq(Txs) /\ Len(pending) \in Nat /\ DOMAIN pending = 1 .. Len(pending)
      BY LenProperties DEF IInv, TypeOK
    <3>2. \A k \in 1 .. Len(pending) : pending[k] \in FairTxs
      BY <3>1, ElementOfSeq DEF FairTxs, IInv, ApprovalsRequested
    <3> QED
      BY <3>1, <3>2
  <2>3. Executed \in Fair
    BY <2>1, <2>2, FoldFair DEF Executed
  <2>4. \A l \in Fair : l.allowance > 0 => \E c \in Delegations : l.allowance <= Amount[c]
    BY DEF Fair, Requested
  <2> QED
    BY <2>1, <2>3, <2>4 DEF AllowanceWithinRequest
<1> QED
  BY <1>1, Inductive, PTL
=============================================================================
