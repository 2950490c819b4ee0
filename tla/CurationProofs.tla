--------------------------- MODULE CurationProofs ---------------------------
(***************************************************************************)
(* Proofs, for every value of the constants, of the safety properties of   *)
(* the Curation contract and of the bridge that relays curation signals.   *)
(***************************************************************************)
EXTENDS Curation, CurationBridge, LedgerLemmas, SequenceTheorems

-----------------------------------------------------------------------------
(* The contract.  FlatCurve carries its other properties: it makes both    *)
(* divisions of the bonding curve exact, so that every call moves as many  *)
(* shares as tokens.  Upgrades is arbitrary: a version may be migrated to  *)
(* itself.                                                                 *)

IInv == TypeOK /\ FlatCurve /\ CurvesBacked /\ SharesDrift

-----------------------------------------------------------------------------
(* The calculations of the contract.                                       *)

\* A tax is part of what it is taken from.
LEMMA TaxType ==
    ASSUME NEW amount \in Nat, NEW bps \in Nat, bps <= 10000
    PROVE  Tax(amount, bps) \in Nat /\ Tax(amount, bps) <= amount
<1> DEFINE part == amount * bps
           whole == 10000
           tax == part \div whole
<1>1. part \in Nat /\ part <= whole * amount
  BY SMT
<1>2. whole \in Nat \ {0} /\ whole > 0
  OBVIOUS
<1>3. Tax(amount, bps) = tax
  BY DEF Tax
<1> HIDE DEF part, whole
<1>4. tax \in Nat /\ whole * tax <= part
  BY <1>1, <1>2, DivBounds
<1> HIDE DEF tax
<1>5. whole * tax <= whole * amount
  BY <1>1, <1>2, <1>4, SMT
<1>6. tax <= amount
  BY <1>2, <1>4, <1>5, SMT
<1> QED
  BY <1>3, <1>4, <1>6

\* On a flat curve a deposit mints as many shares as it has tokens.
LEMMA FlatMint ==
    ASSUME NEW a \in Nat, NEW T \in Nat
    PROVE  CurveMint(a, T, T) = a
BY DivCancel DEF CurveMint

\* On a flat curve a share is burned for one token.
LEMMA FlatBurn ==
    ASSUME NEW s \in Nat, NEW T \in Nat \ {0}
    PROVE  CurveBurn(s, T, T) = s
BY DivCancel DEF CurveBurn

-----------------------------------------------------------------------------
(* Sums over the curves, the holders and the wallets.                      *)

CurveBooks == [Graphs -> [tokens : Nat, shares : Nat]]

TokensOf(books) == Tally([g \in Graphs |-> books[g].tokens], Graphs)

\* A change to one curve changes the total of the curves by as much.
LEMMA TokensChange ==
    ASSUME NEW b \in CurveBooks, NEW g \in Graphs,
           NEW n \in [tokens : Nat, shares : Nat]
    PROVE  LET c == [b EXCEPT ![g] = n]
           IN  /\ c \in CurveBooks
               /\ TokensOf(b) \in Nat /\ TokensOf(c) \in Nat
               /\ TokensOf(c) + b[g].tokens = TokensOf(b) + n.tokens
<1> DEFINE c == [b EXCEPT ![g] = n]
           p == [x \in Graphs |-> b[x].tokens]
           q == [x \in Graphs |-> c[x].tokens]
<1>1. c \in CurveBooks
  BY DEF CurveBooks
<1>2. /\ p \in [Graphs -> Nat] /\ q \in [Graphs -> Nat]
      /\ p[g] = b[g].tokens /\ q[g] = n.tokens
      /\ \A y \in Graphs \ {g} : p[y] = q[y]
  BY DEF CurveBooks
<1>3. TokensOf(b) = Tally(p, Graphs) /\ TokensOf(c) = Tally(q, Graphs)
  BY DEF TokensOf
<1> HIDE DEF p, q
<1>4. Tally(q, Graphs) + p[g] = Tally(p, Graphs) + q[g]
  BY <1>2, TallyUpdate, GraphsAssumption
<1>5. Tally(p, Graphs) \in Nat /\ Tally(q, Graphs) \in Nat
  BY <1>2, TallyType, GraphsAssumption
<1> QED
  BY <1>1, <1>2, <1>3, <1>4, <1>5

\* A change to one wallet changes the total of the wallets by as much.
LEMMA WalletsChange ==
    ASSUME TypeOK, NEW c \in Curators, NEW n \in Nat,
           wallet' = [wallet EXCEPT ![c] = n]
    PROVE  /\ Wallets \in Nat /\ Wallets' \in Nat
           /\ Wallets' + wallet[c] = Wallets + n
<1> DEFINE p == [y \in Curators |-> wallet[y]]
           q == [y \in Curators |-> wallet'[y]]
<1>1. /\ p \in [Curators -> Nat] /\ q \in [Curators -> Nat]
      /\ p[c] = wallet[c] /\ q[c] = n
      /\ \A y \in Curators \ {c} : p[y] = q[y]
  BY DEF TypeOK
<1>2. Wallets = Tally(p, Curators) /\ Wallets' = Tally(q, Curators)
  BY TallySame DEF Wallets
<1> HIDE DEF p, q
<1>3. Tally(q, Curators) + p[c] = Tally(p, Curators) + q[c]
  BY <1>1, TallyUpdate, GraphsAssumption
<1>4. Tally(p, Curators) \in Nat /\ Tally(q, Curators) \in Nat
  BY <1>1, TallyType, GraphsAssumption
<1> QED
  BY <1>1, <1>2, <1>3, <1>4

\* A change to one holding changes the total held of that graph by as much, and
\* of no other.
LEMMA HeldChange ==
    ASSUME TypeOK, NEW g \in Graphs, NEW c \in Curators, NEW n \in Nat,
           sharesOf' = [sharesOf EXCEPT ![g][c] = n]
    PROVE  /\ Held(g) \in Nat /\ Held(g)' \in Nat
           /\ Held(g)' + sharesOf[g][c] = Held(g) + n
           /\ \A h \in Graphs \ {g} : Held(h)' = Held(h)
<1> DEFINE p == [y \in Curators |-> sharesOf[g][y]]
           q == [y \in Curators |-> sharesOf'[g][y]]
<1>1. /\ p \in [Curators -> Nat] /\ q \in [Curators -> Nat]
      /\ p[c] = sharesOf[g][c] /\ q[c] = n
      /\ \A y \in Curators \ {c} : p[y] = q[y]
  BY DEF TypeOK
<1>2. Held(g) = Tally(p, Curators) /\ Held(g)' = Tally(q, Curators)
  BY DEF Held
<1>3. \A h \in Graphs \ {g} : sharesOf'[h] = sharesOf[h]
  BY DEF TypeOK
<1>4. \A h \in Graphs \ {g} : Held(h)' = Held(h)
  BY <1>3 DEF Held
<1> HIDE DEF p, q
<1>5. Tally(q, Curators) + p[c] = Tally(p, Curators) + q[c]
  BY <1>1, TallyUpdate, GraphsAssumption
<1>6. Tally(p, Curators) \in Nat /\ Tally(q, Curators) \in Nat
  BY <1>1, TallyType, GraphsAssumption
<1> QED
  BY <1>1, <1>2, <1>4, <1>5, <1>6

\* The shares held of a graph are a natural number.
LEMMA HeldType ==
    ASSUME TypeOK, NEW g \in Graphs
    PROVE  Held(g) \in Nat
<1>1. [c \in Curators |-> sharesOf[g][c]] \in [Curators -> Nat]
  BY DEF TypeOK
<1> QED
  BY <1>1, TallyType, GraphsAssumption DEF Held

-----------------------------------------------------------------------------
(* Every step keeps IInv: one lemma for each call.                         *)

\* signal keeps the invariant.
LEMMA SignalStep ==
    ASSUME IInv, NEW c \in Curators, NEW g \in Graphs,
           NEW amount \in SignalAmounts, Signal(c, g, amount)
    PROVE  IInv'
<1> DEFINE tax == Tax(amount, CurationTaxBps)
           net == amount - tax
           T   == curves[g].tokens
           new == [tokens |-> T + net, shares |-> T + net]
<1>0. amount \in Nat /\ amount > 0
  BY CallsAssumption DEF Signal
<1>a. tax \in Nat /\ tax <= amount
  BY <1>0, TaxType, TaxAssumption
<1>1. /\ amount \in Nat /\ tax \in Nat /\ net \in Nat /\ amount = net + tax
      /\ amount > 0
  <2> HIDE DEF tax
  <2> QED
    BY <1>0, <1>a
<1>2. T \in Nat /\ curves[g].shares = T
  BY DEF IInv, TypeOK, FlatCurve
<1>3. CurveMint(net, T, T) = net
  BY <1>1, <1>2, FlatMint
<1>4. /\ curves' = [curves EXCEPT ![g] = new]
      /\ sharesOf' = [sharesOf EXCEPT ![g][c] = @ + net]
      /\ wallet' = [wallet EXCEPT ![c] = @ - amount]
      /\ balance' = balance + net /\ burnt' = burnt + tax
      /\ movedOut' = movedOut /\ movedIn' = movedIn /\ migrations' = migrations
      /\ wallet[c] >= amount
  BY <1>2, <1>3 DEF Signal, Grow
<1>5. /\ new \in [tokens : Nat, shares : Nat]
      /\ new.tokens = T + net /\ new.shares = T + net
  BY <1>1, <1>2
<1>6. /\ wallet[c] \in Nat /\ wallet[c] - amount \in Nat
      /\ sharesOf[g][c] \in Nat /\ sharesOf[g][c] + net \in Nat
  BY <1>1, <1>4 DEF IInv, TypeOK
<1>7. curves \in CurveBooks
  BY DEF IInv, TypeOK, CurveBooks
<1> HIDE DEF tax, net, new
<1>8. TypeOK'
  BY <1>1, <1>4, <1>5, <1>6 DEF IInv, TypeOK
<1>9. FlatCurve'
  BY <1>4, <1>5 DEF IInv, TypeOK, FlatCurve
<1>10. CurvesBacked'
  <2>1. /\ TokensOf(curves) \in Nat /\ TokensOf(curves') \in Nat
        /\ TokensOf(curves') + T = TokensOf(curves) + new.tokens
    BY <1>4, <1>5, <1>7, TokensChange
  <2>2. TokensOf(curves') = TokensOf(curves) + net
    BY <1>1, <1>2, <1>5, <2>1
  <2>3. Curved' = Curved + net
    BY <2>2 DEF Curved, TokensOf
  <2>4. /\ Wallets \in Nat /\ Wallets' \in Nat
        /\ Wallets' + wallet[c] = Wallets + (wallet[c] - amount)
    BY <1>4, <1>6, WalletsChange DEF IInv
  <2>5. Wallets' = Wallets - amount
    BY <1>1, <1>6, <2>4
  <2>6. balance \in Nat /\ burnt \in Nat
    BY DEF IInv, TypeOK
  <2>7. Wallets' + balance' + burnt' = Wallets + balance + burnt
    BY <1>1, <1>4, <2>4, <2>5, <2>6
  <2> QED
    BY <1>4, <2>3, <2>7 DEF IInv, CurvesBacked
<1>11. SharesDrift'
  <2>1. /\ Held(g) \in Nat /\ Held(g)' \in Nat
        /\ Held(g)' + sharesOf[g][c] = Held(g) + (sharesOf[g][c] + net)
        /\ \A h \in Graphs \ {g} : Held(h)' = Held(h)
    BY <1>4, <1>6, HeldChange DEF IInv
  <2>2. Held(g)' = Held(g) + net
    BY <1>1, <1>6, <2>1
  <2>3. curves'[g].shares = curves[g].shares + net
    BY <1>2, <1>4, <1>5 DEF IInv, TypeOK
  <2>4. \A h \in Graphs \ {g} : curves'[h] = curves[h]
    BY <1>4 DEF IInv, TypeOK
  <2>5. /\ movedOut[g] \in Nat /\ movedIn[g] \in Nat /\ curves[g].shares \in Nat
        /\ curves[g].shares + movedOut[g] = Held(g) + movedIn[g]
    BY DEF IInv, TypeOK, SharesDrift
  <2>6. curves'[g].shares + movedOut[g] = Held(g)' + movedIn[g]
    BY <1>1, <2>1, <2>2, <2>3, <2>5
  <2> QED
    BY <1>4, <2>1, <2>4, <2>6 DEF IInv, SharesDrift
<1> QED
  BY <1>8, <1>9, <1>10, <1>11 DEF IInv

\* unsignal keeps the invariant.
LEMMA UnsignalStep ==
    ASSUME IInv, NEW c \in Curators, NEW g \in Graphs,
           NEW sharesIn \in ShareAmounts, Unsignal(c, g, sharesIn)
    PROVE  IInv'
<1> DEFINE T   == curves[g].tokens
           new == [tokens |-> T - sharesIn, shares |-> T - sharesIn]
<1>1. sharesIn \in Nat /\ sharesIn <= sharesOf[g][c]
  BY CallsAssumption DEF Unsignal, MayUnsignal
<1>2. T \in Nat \ {0} /\ curves[g].shares = T
  BY DEF IInv, TypeOK, FlatCurve, Unsignal
<1>3. CurveBurn(sharesIn, T, T) = sharesIn
  BY <1>1, <1>2, FlatBurn
<1>4. /\ curves' = [curves EXCEPT ![g] = new]
      /\ sharesOf' = [sharesOf EXCEPT ![g][c] = @ - sharesIn]
      /\ wallet' = [wallet EXCEPT ![c] = @ + sharesIn]
      /\ balance' = balance - sharesIn /\ burnt' = burnt
      /\ movedOut' = movedOut /\ movedIn' = movedIn /\ migrations' = migrations
      /\ balance >= sharesIn /\ T >= sharesIn
  BY <1>2, <1>3 DEF Unsignal, Shrink
<1>5. /\ new \in [tokens : Nat, shares : Nat]
      /\ new.tokens = T - sharesIn /\ new.shares = T - sharesIn
  BY <1>1, <1>2, <1>4
<1>6. /\ wallet[c] \in Nat /\ wallet[c] + sharesIn \in Nat
      /\ sharesOf[g][c] \in Nat /\ sharesOf[g][c] - sharesIn \in Nat
      /\ balance \in Nat
  BY <1>1 DEF IInv, TypeOK
<1>7. curves \in CurveBooks
  BY DEF IInv, TypeOK, CurveBooks
<1> HIDE DEF new
<1>8. TypeOK'
  BY <1>1, <1>4, <1>5, <1>6 DEF IInv, TypeOK
<1>9. FlatCurve'
  BY <1>4, <1>5 DEF IInv, TypeOK, FlatCurve
<1>10. CurvesBacked'
  <2>1. /\ TokensOf(curves) \in Nat /\ TokensOf(curves') \in Nat
        /\ TokensOf(curves') + T = TokensOf(curves) + new.tokens
    BY <1>4, <1>5, <1>7, TokensChange
  <2>2. TokensOf(curves') = TokensOf(curves) - sharesIn
    BY <1>1, <1>2, <1>5, <2>1
  <2>3. Curved' = Curved - sharesIn
    BY <2>2 DEF Curved, TokensOf
  <2>4. /\ Wallets \in Nat /\ Wallets' \in Nat
        /\ Wallets' + wallet[c] = Wallets + (wallet[c] + sharesIn)
    BY <1>4, <1>6, WalletsChange DEF IInv
  <2>5. Wallets' = Wallets + sharesIn
    BY <1>1, <1>6, <2>4
  <2>6. burnt \in Nat
    BY DEF IInv, TypeOK
  <2>7. Wallets' + balance' + burnt' = Wallets + balance + burnt
    BY <1>1, <1>4, <1>6, <2>4, <2>5, <2>6
  <2> QED
    BY <1>4, <2>3, <2>7 DEF IInv, CurvesBacked
<1>11. SharesDrift'
  <2>1. /\ Held(g) \in Nat /\ Held(g)' \in Nat
        /\ Held(g)' + sharesOf[g][c] = Held(g) + (sharesOf[g][c] - sharesIn)
        /\ \A h \in Graphs \ {g} : Held(h)' = Held(h)
    BY <1>4, <1>6, HeldChange DEF IInv
  <2>2. Held(g)' = Held(g) - sharesIn
    BY <1>1, <1>6, <2>1
  <2>3. curves'[g].shares = curves[g].shares - sharesIn
    BY <1>2, <1>4, <1>5 DEF IInv, TypeOK
  <2>4. \A h \in Graphs \ {g} : curves'[h] = curves[h]
    BY <1>4 DEF IInv, TypeOK
  <2>5. /\ movedOut[g] \in Nat /\ movedIn[g] \in Nat /\ curves[g].shares \in Nat
        /\ curves[g].shares + movedOut[g] = Held(g) + movedIn[g]
    BY DEF IInv, TypeOK, SharesDrift
  <2>6. curves'[g].shares + movedOut[g]
          = (curves[g].shares + movedOut[g]) - sharesIn
    BY <1>1, <2>3, <2>5
  <2>7. Held(g)' + movedIn[g] = (Held(g) + movedIn[g]) - sharesIn
    BY <1>1, <2>1, <2>2, <2>5
  <2>8. curves'[g].shares + movedOut[g] = Held(g)' + movedIn[g]
    BY <2>5, <2>6, <2>7
  <2> QED
    BY <1>4, <2>1, <2>4, <2>8 DEF IInv, SharesDrift
<1> QED
  BY <1>8, <1>9, <1>10, <1>11 DEF IInv

\* migrateVersion keeps the invariant, also when both versions are the same.
LEMMA MigrateStep ==
    ASSUME IInv, NEW old \in Graphs, NEW new \in Graphs,
           NEW burned \in ShareAmounts, MigrateVersion(old, new, burned)
    PROVE  IInv'
<1> DEFINE T     == curves[old].tokens
           U     == curves[new].tokens
           tax   == Tax(burned, MigrationTaxBps)
           net   == burned - tax
           less  == [tokens |-> T - burned, shares |-> T - burned]
           drained == [curves EXCEPT ![old] = less]
           V     == drained[new].tokens
           more  == [tokens |-> V + net, shares |-> V + net]
<1>1. burned \in Nat
  BY CallsAssumption
<1>2. tax \in Nat /\ tax <= burned
  BY <1>1, TaxType, TaxAssumption
<1>3. net \in Nat /\ burned = net + tax
  <2> HIDE DEF tax
  <2> QED BY <1>1, <1>2
<1>4. /\ T \in Nat \ {0} /\ curves[old].shares = T
      /\ U \in Nat /\ curves[new].shares = U
  BY DEF IInv, TypeOK, FlatCurve, MigrateVersion
<1>5. CurveBurn(burned, T, T) = burned
  BY <1>1, <1>4, FlatBurn
<1>6. CurveMint(net, U, U) = net
  BY <1>3, <1>4, FlatMint
<1>7. /\ T >= burned /\ balance >= tax
      /\ curves' = Migrated(old, new, burned, burned, net, net)
      /\ balance' = balance - tax /\ burnt' = burnt + tax
      /\ movedOut' = [movedOut EXCEPT ![old] = @ + burned]
      /\ movedIn' = [movedIn EXCEPT ![new] = @ + net]
      /\ migrations' = migrations + 1
      /\ sharesOf' = sharesOf /\ wallet' = wallet
  BY <1>4, <1>5, <1>6 DEF MigrateVersion
<1>8. less \in [tokens : Nat, shares : Nat] /\ less.tokens = T - burned
  BY <1>1, <1>4, <1>7
<1>9. curves \in CurveBooks /\ drained \in CurveBooks
  BY <1>8 DEF IInv, TypeOK, CurveBooks
<1>10. \A g \in Graphs : drained[g].tokens = drained[g].shares
  BY <1>8 DEF IInv, TypeOK, FlatCurve
<1>11. V \in Nat
  BY <1>9 DEF CurveBooks
<1>12. Shrink(curves[old], burned, burned) = less
  BY <1>4 DEF Shrink
<1>13. Grow(drained[new], net, net) = more
  BY <1>10 DEF Grow
<1>14. curves' = [drained EXCEPT ![new] = more]
  BY <1>7, <1>12, <1>13 DEF Migrated
<1>15. /\ more \in [tokens : Nat, shares : Nat]
       /\ more.tokens = V + net /\ more.shares = V + net
  BY <1>3, <1>11
<1>16. /\ movedOut[old] \in Nat /\ movedIn[new] \in Nat
       /\ balance \in Nat /\ burnt \in Nat /\ migrations \in Nat
  BY DEF IInv, TypeOK
<1> HIDE DEF tax, net, less, drained, more, V
<1>17. TypeOK'
  <2>1. curves' \in [Graphs -> [tokens : Nat, shares : Nat]]
    BY <1>9, <1>14, <1>15 DEF CurveBooks
  <2>2. /\ movedOut' \in [Graphs -> Nat] /\ movedIn' \in [Graphs -> Nat]
        /\ migrations' \in Nat
    BY <1>1, <1>3, <1>7, <1>16 DEF IInv, TypeOK
  <2>3. balance' \in Nat /\ burnt' \in Nat
    BY <1>2, <1>7, <1>16
  <2> QED
    BY <1>7, <2>1, <2>2, <2>3 DEF IInv, TypeOK
<1>18. FlatCurve'
  BY <1>9, <1>10, <1>14, <1>15 DEF CurveBooks, FlatCurve
<1>19. CurvesBacked'
  <2>1. /\ TokensOf(curves) \in Nat /\ TokensOf(drained) \in Nat
        /\ TokensOf(drained) + T = TokensOf(curves) + less.tokens
    BY <1>8, <1>9, TokensChange DEF drained
  <2>2. TokensOf(drained) = TokensOf(curves) - burned
    BY <1>1, <1>4, <1>8, <2>1
  <2>3. /\ TokensOf(curves') \in Nat
        /\ TokensOf(curves') + V = TokensOf(drained) + more.tokens
    BY <1>9, <1>14, <1>15, TokensChange DEF V
  <2>4. TokensOf(curves') = TokensOf(drained) + net
    BY <1>3, <1>11, <1>15, <2>1, <2>3
  <2>5. TokensOf(curves') = TokensOf(curves) - tax
    BY <1>1, <1>2, <1>3, <2>1, <2>2, <2>4
  <2>6. Curved' = Curved - tax
    BY <2>5 DEF Curved, TokensOf
  <2>7. Wallets' = Wallets /\ Wallets \in Nat
    BY <1>7, TallyType, GraphsAssumption DEF Wallets, IInv, TypeOK
  <2>8. Wallets' + balance' + burnt' = Wallets + balance + burnt
    BY <1>2, <1>7, <1>16, <2>7
  <2> QED
    BY <1>7, <2>6, <2>8 DEF IInv, CurvesBacked
<1>20. SharesDrift'
  <2> SUFFICES ASSUME NEW g \in Graphs
               PROVE  curves'[g].shares + movedOut'[g] = Held(g)' + movedIn'[g]
    BY DEF SharesDrift
  <2> DEFINE cut   == IF g = old THEN burned ELSE 0
             added == IF g = new THEN net ELSE 0
  <2>1. drained[g].shares = curves[g].shares - cut
    BY <1>4, <1>8, <1>10 DEF drained, IInv, TypeOK
  <2>2. curves'[g].shares = drained[g].shares + added
    BY <1>9, <1>10, <1>14, <1>15 DEF V, CurveBooks
  <2>3. movedOut'[g] = movedOut[g] + cut /\ movedIn'[g] = movedIn[g] + added
    BY <1>7 DEF IInv, TypeOK
  <2>4. Held(g)' = Held(g) /\ Held(g) \in Nat
    BY <1>7, HeldType DEF IInv, Held
  <2>5. /\ movedOut[g] \in Nat /\ movedIn[g] \in Nat /\ curves[g].shares \in Nat
        /\ curves[g].shares + movedOut[g] = Held(g) + movedIn[g]
    BY DEF IInv, TypeOK, SharesDrift
  <2>6. cut \in Nat /\ added \in Nat
    BY <1>1, <1>3
  <2> HIDE DEF cut, added
  <2> QED
    BY <2>1, <2>2, <2>3, <2>4, <2>5, <2>6
<1> QED
  BY <1>17, <1>18, <1>19, <1>20 DEF IInv

-----------------------------------------------------------------------------
(* The theorems.                                                           *)

\* The invariant holds when the contract is deployed.
LEMMA InitIInv == Init => IInv
<1> SUFFICES ASSUME Init PROVE IInv
  OBVIOUS
<1>1. TypeOK
  BY CallsAssumption DEF Init, TypeOK
<1>2. FlatCurve
  BY DEF Init, FlatCurve
<1>3. Curved = 0
  BY TallyZero DEF Init, Curved
<1>4. Wallets = Cardinality(Curators) * InitialWallet
  BY TallyConstant, GraphsAssumption, CallsAssumption DEF Init, Wallets
<1>5. Wallets \in Nat
  BY <1>1, TallyType, GraphsAssumption DEF TypeOK, Wallets
<1>6. CurvesBacked
  BY <1>3, <1>4, <1>5 DEF Init, CurvesBacked
<1>7. \A g \in Graphs : Held(g) = 0
  BY TallyZero DEF Init, Held
<1>8. SharesDrift
  BY <1>7 DEF Init, SharesDrift
<1> QED
  BY <1>1, <1>2, <1>6, <1>8 DEF IInv

\* The inductive invariant holds of every reachable state.
THEOREM Inductive == Spec => []IInv
<1>1. Init => IInv
  BY InitIInv
<1>2. IInv /\ [Next]_vars => IInv'
  <2> SUFFICES ASSUME IInv, [Next]_vars PROVE IInv'
    OBVIOUS
  <2>1. CASE \E c \in Curators, g \in Graphs, amount \in SignalAmounts :
                Signal(c, g, amount)
    BY <2>1, SignalStep
  <2>2. CASE \E c \in Curators, g \in Graphs, shares \in ShareAmounts :
                Unsignal(c, g, shares)
    BY <2>2, UnsignalStep
  <2>3. ASSUME NEW upgrade \in Upgrades, NEW shares \in ShareAmounts,
               MigrateVersion(upgrade[1], upgrade[2], shares)
        PROVE  IInv'
    <3>1. upgrade[1] \in Graphs /\ upgrade[2] \in Graphs
      BY CallsAssumption
    <3> QED
      BY <2>3, <3>1, MigrateStep
  <2>4. CASE UNCHANGED vars
    BY <2>4 DEF IInv, TypeOK, FlatCurve, CurvesBacked, SharesDrift, Curved,
                Wallets, Held, vars
  <2> QED
    BY <2>1, <2>2, <2>3, <2>4 DEF Next
<1> QED
  BY <1>1, <1>2, PTL DEF Spec

\* Every variable keeps its type: no checked subtraction goes below zero.
THEOREM TypeCorrect == Spec => []TypeOK
<1>1. IInv => TypeOK
  BY DEF IInv
<1> QED
  BY <1>1, Inductive, PTL

\* A share is worth a token on every curve, for ever.
THEOREM CurvesAlwaysFlat == Spec => []FlatCurve
<1>1. IInv => FlatCurve
  BY DEF IInv
<1> QED
  BY <1>1, Inductive, PTL

\* The contract holds what its curves record, and no SPY is made or lost.
THEOREM CurvesAlwaysBacked == Spec => []CurvesBacked
<1>1. IInv => CurvesBacked
  BY DEF IInv
<1> QED
  BY <1>1, Inductive, PTL

\* Curves and holdings differ by what migrations moved, and by nothing else.
THEOREM SharesAlwaysDrift == Spec => []SharesDrift
<1>1. IInv => SharesDrift
  BY DEF IInv
<1> QED
  BY <1>1, Inductive, PTL

\* A curve never has tokens without shares, or shares without tokens.
THEOREM CurvesAlwaysPriced == Spec => []CurvesPriced
<1>1. FlatCurve => CurvesPriced
  BY DEF FlatCurve, CurvesPriced
<1> QED
  BY <1>1, CurvesAlwaysFlat, PTL

\* What curators hold is on the curve, or was taken off it by a migration.
THEOREM HoldingsAlwaysCovered == Spec => []HoldingsCovered
<1>1. IInv => HoldingsCovered
  <2> SUFFICES ASSUME IInv, NEW g \in Graphs
               PROVE  Held(g) <= curves[g].shares + movedOut[g]
    BY DEF HoldingsCovered
  <2>1. Held(g) \in Nat /\ curves[g].shares \in Nat /\ movedOut[g] \in Nat /\ movedIn[g] \in Nat
    BY HeldType DEF IInv, TypeOK
  <2>2. curves[g].shares + movedOut[g] = Held(g) + movedIn[g]
    BY DEF IInv, SharesDrift
  <2> QED
    BY <2>1, <2>2
<1> QED
  BY <1>1, Inductive, PTL

-----------------------------------------------------------------------------
(* What a curator gets out of it.  At the price of one, a curator's        *)
(* holdings of all graphs are worth their number in tokens.                *)

Signalled(c) == Tally([g \in Graphs |-> sharesOf[g][c]], Graphs)

\* No call leaves any curator with more SPY and shares than before it.
NobodyGains ==
    \A c \in Curators : wallet'[c] + Signalled(c)' <= wallet[c] + Signalled(c)

\* A curator never has more, in SPY and shares, than it came with.
WithinDeposits ==
    \A c \in Curators : wallet[c] + Signalled(c) <= InitialWallet

\* A change to one holding changes what its curator has signalled by as much,
\* and what others have not at all.
LEMMA SignalledChange ==
    ASSUME TypeOK, NEW g \in Graphs, NEW c \in Curators, NEW n \in Nat,
           sharesOf' = [sharesOf EXCEPT ![g][c] = n]
    PROVE  /\ Signalled(c) \in Nat /\ Signalled(c)' \in Nat
           /\ Signalled(c)' + sharesOf[g][c] = Signalled(c) + n
           /\ \A d \in Curators \ {c} : Signalled(d)' = Signalled(d)
<1> DEFINE p == [h \in Graphs |-> sharesOf[h][c]]
           q == [h \in Graphs |-> sharesOf'[h][c]]
<1>1. /\ p \in [Graphs -> Nat] /\ q \in [Graphs -> Nat]
      /\ p[g] = sharesOf[g][c] /\ q[g] = n
      /\ \A h \in Graphs \ {g} : p[h] = q[h]
  BY DEF TypeOK
<1>2. Signalled(c) = Tally(p, Graphs) /\ Signalled(c)' = Tally(q, Graphs)
  BY DEF Signalled
<1>3. \A d \in Curators \ {c}, h \in Graphs : sharesOf'[h][d] = sharesOf[h][d]
  BY DEF TypeOK
<1>4. \A d \in Curators \ {c} : Signalled(d)' = Signalled(d)
  BY <1>3 DEF Signalled
<1> HIDE DEF p, q
<1>5. Tally(q, Graphs) + p[g] = Tally(p, Graphs) + q[g]
  BY <1>1, TallyUpdate, GraphsAssumption
<1>6. Tally(p, Graphs) \in Nat /\ Tally(q, Graphs) \in Nat
  BY <1>1, TallyType, GraphsAssumption
<1> QED
  BY <1>1, <1>2, <1>4, <1>5, <1>6

\* What a curator has signalled is a natural number.
LEMMA SignalledType ==
    ASSUME TypeOK, NEW c \in Curators
    PROVE  Signalled(c) \in Nat /\ wallet[c] \in Nat
<1>1. [g \in Graphs |-> sharesOf[g][c]] \in [Graphs -> Nat]
  BY DEF TypeOK
<1> QED
  BY <1>1, TallyType, GraphsAssumption DEF Signalled, TypeOK

\* An exchange between a curator's wallet and one of its holdings that adds
\* nothing to the two of them makes nobody richer.
LEMMA ExchangeKeeps ==
    ASSUME TypeOK, NEW g \in Graphs, NEW c \in Curators, NEW w \in Nat, NEW n \in Nat,
           wallet' = [wallet EXCEPT ![c] = w],
           sharesOf' = [sharesOf EXCEPT ![g][c] = n],
           w + n <= wallet[c] + sharesOf[g][c]
    PROVE  NobodyGains
<1>1. /\ Signalled(c) \in Nat /\ Signalled(c)' \in Nat
      /\ Signalled(c)' + sharesOf[g][c] = Signalled(c) + n
      /\ \A d \in Curators \ {c} : Signalled(d)' = Signalled(d)
  BY SignalledChange
<1>2. /\ wallet[c] \in Nat /\ sharesOf[g][c] \in Nat
      /\ wallet'[c] = w /\ \A d \in Curators \ {c} : wallet'[d] = wallet[d]
  BY DEF TypeOK
<1>3. wallet'[c] + Signalled(c)' <= wallet[c] + Signalled(c)
  BY <1>1, <1>2
<1>4. \A d \in Curators : wallet[d] + Signalled(d) <= wallet[d] + Signalled(d)
  BY SignalledType
<1> QED
  BY <1>1, <1>2, <1>3, <1>4 DEF NobodyGains

\* No call makes a curator richer.
LEMMA GainStep ==
    ASSUME IInv, [Next]_vars
    PROVE  NobodyGains
<1>1. ASSUME NEW c \in Curators, NEW g \in Graphs, NEW amount \in SignalAmounts,
             Signal(c, g, amount)
      PROVE  NobodyGains
  <2> DEFINE tax == Tax(amount, CurationTaxBps)
             T   == curves[g].tokens
  <2>1. amount \in Nat /\ wallet[c] \in Nat /\ sharesOf[g][c] \in Nat /\ wallet[c] >= amount
    BY <1>1, CallsAssumption DEF Signal, IInv, TypeOK
  <2>2. tax \in Nat /\ tax <= amount
    BY <2>1, TaxType, TaxAssumption
  <2>3. T \in Nat /\ curves[g].shares = T
    BY DEF IInv, TypeOK, FlatCurve
  <2>4. amount - tax \in Nat /\ CurveMint(amount - tax, T, T) = amount - tax
    <3> HIDE DEF tax, T
    <3>1. amount - tax \in Nat
      BY <2>1, <2>2
    <3> QED
      BY <2>3, <3>1, FlatMint
  <2>5. /\ wallet' = [wallet EXCEPT ![c] = wallet[c] - amount]
        /\ sharesOf' = [sharesOf EXCEPT ![g][c] = sharesOf[g][c] + (amount - tax)]
    BY <1>1, <2>3, <2>4 DEF Signal
  <2> HIDE DEF tax
  <2>6. /\ wallet[c] - amount \in Nat /\ sharesOf[g][c] + (amount - tax) \in Nat
        /\ (wallet[c] - amount) + (sharesOf[g][c] + (amount - tax))
             <= wallet[c] + sharesOf[g][c]
    BY <2>1, <2>2
  <2> QED
    BY <2>5, <2>6, ExchangeKeeps DEF IInv
<1>2. ASSUME NEW c \in Curators, NEW g \in Graphs, NEW sharesIn \in ShareAmounts,
             Unsignal(c, g, sharesIn)
      PROVE  NobodyGains
  <2> DEFINE T == curves[g].tokens
  <2>1. /\ sharesIn \in Nat /\ sharesIn <= sharesOf[g][c]
        /\ wallet[c] \in Nat /\ sharesOf[g][c] \in Nat
    BY <1>2, CallsAssumption DEF Unsignal, MayUnsignal, IInv, TypeOK
  <2>2. T \in Nat \ {0} /\ curves[g].shares = T
    BY <1>2 DEF Unsignal, IInv, TypeOK, FlatCurve
  <2>3. CurveBurn(sharesIn, T, T) = sharesIn
    BY <2>1, <2>2, FlatBurn
  <2>4. /\ wallet' = [wallet EXCEPT ![c] = wallet[c] + sharesIn]
        /\ sharesOf' = [sharesOf EXCEPT ![g][c] = sharesOf[g][c] - sharesIn]
    BY <1>2, <2>2, <2>3 DEF Unsignal
  <2>5. /\ wallet[c] + sharesIn \in Nat /\ sharesOf[g][c] - sharesIn \in Nat
        /\ (wallet[c] + sharesIn) + (sharesOf[g][c] - sharesIn) <= wallet[c] + sharesOf[g][c]
    BY <2>1
  <2> QED
    BY <2>4, <2>5, ExchangeKeeps DEF IInv
<1>3. ASSUME UNCHANGED <<sharesOf, wallet>> PROVE NobodyGains
  <2>1. \A c \in Curators : Signalled(c)' = Signalled(c) /\ wallet'[c] = wallet[c]
    BY <1>3 DEF Signalled
  <2>2. \A c \in Curators : wallet[c] + Signalled(c) <= wallet[c] + Signalled(c)
    BY SignalledType DEF IInv
  <2> QED
    BY <2>1, <2>2 DEF NobodyGains
<1>4. ASSUME NEW upgrade \in Upgrades, NEW shares \in ShareAmounts,
             MigrateVersion(upgrade[1], upgrade[2], shares)
      PROVE  NobodyGains
  BY <1>3, <1>4 DEF MigrateVersion
<1>5. CASE UNCHANGED vars
  BY <1>3, <1>5 DEF vars
<1> QED
  BY <1>1, <1>2, <1>4, <1>5 DEF Next

\* Curating pays nobody: no call, by anyone, leaves any curator with more than
\* it had, so that early signal earns nothing from later signal.
THEOREM NobodyEverGains == Spec => [][NobodyGains]_vars
<1>1. IInv /\ [Next]_vars => [NobodyGains]_vars
  BY GainStep
<1> QED
  BY <1>1, Inductive, PTL DEF Spec

\* Over any sequence of calls by any curators and the owner, a curator's wallet
\* and holdings together never exceed what it came with.
THEOREM AlwaysWithinDeposits == Spec => []WithinDeposits
<1> DEFINE Typed == \A c \in Curators : Signalled(c) \in Nat /\ wallet[c] \in Nat
<1>1. Init => WithinDeposits
  <2> SUFFICES ASSUME Init PROVE WithinDeposits
    OBVIOUS
  <2>1. \A c \in Curators : Signalled(c) = 0
    BY TallyZero DEF Init, Signalled
  <2> QED
    BY <2>1, CallsAssumption DEF Init, WithinDeposits
<1>2. IInv => Typed
  BY SignalledType DEF IInv
<1>3. IInv /\ Typed /\ Typed' /\ WithinDeposits /\ [Next]_vars => WithinDeposits'
  <2> SUFFICES ASSUME IInv, Typed, Typed', WithinDeposits, [Next]_vars
               PROVE  WithinDeposits'
    OBVIOUS
  <2>1. NobodyGains
    BY GainStep
  <2> QED
    BY <2>1, CallsAssumption DEF WithinDeposits, NobodyGains
<1> HIDE DEF Typed
<1> QED
  BY <1>1, <1>2, <1>3, Inductive, PTL DEF Spec

-----------------------------------------------------------------------------
(* The bridge.  For any number of signals, repeated logs, failures and     *)
(* crashes and lost transactions, and whatever checks and receiver say,    *)
(* the relayer relays a signal at most once for each time its log is       *)
(* shown, reports as done only what was relayed, and has a transaction     *)
(* refused only when another handler has taken its nonce meanwhile.        *)

Done(s) == {t \in TasksOf(s) : tasks[t].step = "done"}

\* Logs and tasks of the bridge are about signals it has published, and a
\* transaction is that of the task that has sent it.
Matching ==
    /\ sent["bridge"] <= MaxSignals
    /\ \A k \in 1 .. Len(logs) : logs[k].emitter = "bridge" => logs[k].seq \in Signals
    /\ \A t \in 1 .. Len(tasks) : tasks[t].seq \in Signals
    /\ IsFiniteSet(mempool)
    /\ \A tx \in mempool : tx.task \in 1 .. Len(tasks) /\ tasks[tx.task].seq = tx.seq

\* A handler that another one has not overtaken holds a nonce that is free.
Races ==
    /\ RefusedByRace
    /\ \A t \in 1 .. Len(tasks) :
          tasks[t].step = "sending" /\ t \notin raced => ~ Used(tasks[t].nonce)

BridgeInv ==
    /\ BridgeTypeOK
    /\ Matching
    /\ Races
    /\ RelayedOncePerLog
    /\ DoneMeansRelayed

-----------------------------------------------------------------------------
(* Tasks.                                                                  *)

\* The tasks as a function.
LEMMA TasksType ==
    ASSUME BridgeTypeOK
    PROVE  /\ Len(tasks) \in Nat
           /\ DOMAIN tasks = 1 .. Len(tasks)
           /\ \A t \in 1 .. Len(tasks) :
                 /\ tasks[t] \in Tasks
                 /\ tasks[t].seq \in Nat \ {0} /\ tasks[t].step \in Steps
                 /\ tasks[t].nonce \in Nat
<1>1. tasks \in Seq(Tasks)
  BY DEF BridgeTypeOK
<1>2. /\ Len(tasks) \in Nat /\ DOMAIN tasks = 1 .. Len(tasks)
      /\ \A t \in 1 .. Len(tasks) : tasks[t] \in Tasks
  BY <1>1, LenProperties, ElementOfSeq
<1> QED
  BY <1>2 DEF Tasks

\* A task that changes leaves the others as they are.
LEMMA SetTask ==
    ASSUME BridgeTypeOK, NEW t \in 1 .. Len(tasks), NEW new \in Tasks,
           tasks' = [tasks EXCEPT ![t] = new]
    PROVE  /\ tasks' \in Seq(Tasks)
           /\ Len(tasks') = Len(tasks)
           /\ tasks'[t] = new
           /\ \A u \in 1 .. Len(tasks) : u # t => tasks'[u] = tasks[u]
<1>1. tasks \in Seq(Tasks)
  BY DEF BridgeTypeOK
<1> QED
  BY <1>1, ExceptSeq

\* Moving a task on sets its step.
LEMMA MoveSets ==
    ASSUME BridgeTypeOK, NEW t \in 1 .. Len(tasks), NEW step \in Steps
    PROVE  /\ [seq |-> tasks[t].seq, step |-> step, nonce |-> tasks[t].nonce] \in Tasks
           /\ Move(t, step) =
                 [tasks EXCEPT ![t] = [seq |-> tasks[t].seq, step |-> step,
                                       nonce |-> tasks[t].nonce]]
<1>1. tasks[t] \in Tasks
  BY TasksType
<1>2. [tasks[t] EXCEPT !.step = step] =
         [seq |-> tasks[t].seq, step |-> step, nonce |-> tasks[t].nonce]
  BY <1>1 DEF Tasks
<1>3. Move(t, step) = [tasks EXCEPT ![t] = [tasks[t] EXCEPT !.step = step]]
  BY DEF Move
<1>4. [seq |-> tasks[t].seq, step |-> step, nonce |-> tasks[t].nonce] \in Tasks
  BY <1>1 DEF Tasks
<1> QED
  BY <1>2, <1>3, <1>4

\* The sets that are counted are finite.
LEMMA CountedSets ==
    ASSUME BridgeTypeOK, IsFiniteSet(mempool), NEW s
    PROVE  /\ IsFiniteSet(Unsent(s)) /\ Cardinality(Unsent(s)) \in Nat
           /\ IsFiniteSet(Done(s)) /\ Cardinality(Done(s)) \in Nat
           /\ IsFiniteSet(InFlight(s)) /\ Cardinality(InFlight(s)) \in Nat
<1>1. IsFiniteSet(1 .. Len(tasks))
  BY TasksType, FS_Interval
<1>2. /\ Unsent(s) \in SUBSET (1 .. Len(tasks)) /\ Done(s) \in SUBSET (1 .. Len(tasks))
      /\ InFlight(s) \in SUBSET mempool
  BY DEF Unsent, Done, TasksOf, InFlight
<1>3. IsFiniteSet(Unsent(s)) /\ IsFiniteSet(Done(s)) /\ IsFiniteSet(InFlight(s))
  BY <1>1, <1>2, FS_Subset
<1> QED
  BY <1>3, FS_CardinalityType

\* Nothing is relayed or forgotten by a step after which no more of a signal is
\* unsent, in flight or done.
LEMMA CountsStay ==
    ASSUME BridgeInv, NEW s \in Signals,
           Unsent(s)' \subseteq Unsent(s), InFlight(s)' \subseteq InFlight(s),
           Done(s)' \subseteq Done(s),
           relayed'[s] = relayed[s], shown'[s] = shown[s]
    PROVE  /\ relayed'[s] + Cardinality(InFlight(s)') + Cardinality(Unsent(s)')
                  <= shown'[s]
           /\ Cardinality(Done(s)') <= relayed'[s]
<1> DEFINE a == Cardinality(InFlight(s))
           b == Cardinality(InFlight(s)')
           c == Cardinality(Unsent(s))
           d == Cardinality(Unsent(s)')
           e == Cardinality(Done(s))
           f == Cardinality(Done(s)')
<1>1. /\ IsFiniteSet(InFlight(s)) /\ IsFiniteSet(Unsent(s)) /\ IsFiniteSet(Done(s))
      /\ a \in Nat /\ c \in Nat /\ e \in Nat
  BY CountedSets DEF BridgeInv, Matching
<1>2. b <= a /\ d <= c /\ f <= e /\ b \in Nat /\ d \in Nat /\ f \in Nat
  BY <1>1, FS_Subset, FS_CardinalityType
<1>3. /\ relayed[s] + a + c <= shown[s] /\ e <= relayed[s]
      /\ relayed[s] \in Nat /\ shown[s] \in Nat
  BY DEF BridgeInv, BridgeTypeOK, RelayedOncePerLog, DoneMeansRelayed, Done
<1> HIDE DEF a, b, c, d, e, f
<1>4. relayed'[s] + b + d <= shown'[s] /\ f <= relayed'[s]
  BY <1>1, <1>2, <1>3
<1> QED
  BY <1>4 DEF b, d, f

-----------------------------------------------------------------------------
(* The steps.                                                              *)

\* A handler takes a step with which nothing is sent or received.
LEMMA HandlerKeeps ==
    ASSUME BridgeInv, NEW t \in 1 .. Len(tasks), NEW new \in Tasks,
           tasks' = [tasks EXCEPT ![t] = new], new.seq = tasks[t].seq,
           new.step \in {"counting", "sending", "refused", "failed"},
           new.step \in {"counting", "sending"} =>
               tasks[t].step \in {"fetching", "counting", "sending"},
           new.step = "sending" => ~ Used(new.nonce),
           new.step = "refused" => t \in raced,
           failures' \in Nat,
           UNCHANGED <<sent, logs, up, mempool, mined, relayed, shown, raced,
                       repeats, lost, crashes>>
    PROVE  BridgeInv'
<1>1. /\ tasks' \in Seq(Tasks) /\ Len(tasks') = Len(tasks)
      /\ tasks'[t] = new
      /\ \A u \in 1 .. Len(tasks) : u # t => tasks'[u] = tasks[u]
  BY SetTask DEF BridgeInv
<1>2. BridgeTypeOK'
  BY <1>1 DEF BridgeInv, BridgeTypeOK
<1>3. \A u \in 1 .. Len(tasks) : tasks'[u].seq = tasks[u].seq
  BY <1>1
<1>4. Matching'
  BY <1>1, <1>3 DEF BridgeInv, Matching
<1>5. \A s \in Signals : /\ Unsent(s)' \subseteq Unsent(s)
                         /\ InFlight(s)' \subseteq InFlight(s)
                         /\ Done(s)' \subseteq Done(s)
  BY <1>1, <1>3 DEF Unsent, TasksOf, InFlight, Done
<1>6. RelayedOncePerLog' /\ DoneMeansRelayed'
  BY <1>5, CountsStay DEF RelayedOncePerLog, DoneMeansRelayed, Done
<1>7. Races'
  BY <1>1 DEF BridgeInv, Races, RefusedByRace, Used
<1> QED
  BY <1>2, <1>4, <1>6, <1>7 DEF BridgeInv

\* The handler fails, or is refused after another one has overtaken it.
LEMMA EndKeeps ==
    ASSUME BridgeInv, NEW t \in 1 .. Len(tasks), NEW step \in {"refused", "failed"},
           tasks' = Move(t, step), step = "refused" => t \in raced,
           failures' \in Nat,
           UNCHANGED <<sent, logs, up, mempool, mined, relayed, shown, raced,
                       repeats, lost, crashes>>
    PROVE  BridgeInv'
<1> DEFINE new == [seq |-> tasks[t].seq, step |-> step, nonce |-> tasks[t].nonce]
<1>1. step \in Steps
  BY DEF Steps
<1>2. new \in Tasks /\ tasks' = [tasks EXCEPT ![t] = new]
  BY <1>1, MoveSets DEF BridgeInv
<1>3. new.seq = tasks[t].seq /\ new.step = step
  OBVIOUS
<1> HIDE DEF new
<1> QED
  BY <1>2, <1>3, HandlerKeeps

\* The VAA arrives, and is checked.
LEMMA FetchedKeeps ==
    ASSUME BridgeInv, NEW t \in 1 .. MaxTasks, Fetched(t)
    PROVE  BridgeInv'
<1> DEFINE new == [seq |-> tasks[t].seq, step |-> "counting", nonce |-> tasks[t].nonce]
<1>1. t \in 1 .. Len(tasks) /\ tasks[t].step = "fetching"
  BY DEF Fetched, Live
<1>2. /\ UNCHANGED <<sent, logs, up, mempool, mined, relayed, shown, raced,
                     repeats, lost, crashes>>
      /\ failures' = failures /\ failures \in Nat
  BY DEF Fetched, source, target, counters, BridgeInv, BridgeTypeOK
<1>3. CASE tasks' = Move(t, "failed")
  BY <1>1, <1>2, <1>3, EndKeeps
<1>4. CASE tasks' = Move(t, "counting")
  <2>1. "counting" \in Steps
    BY DEF Steps
  <2>2. new \in Tasks /\ tasks' = [tasks EXCEPT ![t] = new]
    BY <1>1, <1>4, <2>1, MoveSets DEF BridgeInv
  <2> QED
    BY <1>1, <1>2, <2>2, HandlerKeeps
<1>5. tasks' = Move(t, "failed") \/ tasks' = Move(t, "counting")
  BY DEF Fetched
<1> QED
  BY <1>3, <1>4, <1>5

\* The wallet answers with its next nonce, or the call would revert.
LEMMA GetNonceKeeps ==
    ASSUME BridgeInv, NEW t \in 1 .. MaxTasks, GetNonce(t)
    PROVE  BridgeInv'
<1>1. t \in 1 .. Len(tasks) /\ tasks[t].step = "counting"
  BY DEF GetNonce, Live
<1>2. /\ UNCHANGED <<sent, logs, up, mempool, mined, relayed, shown, raced,
                     repeats, lost, crashes>>
      /\ failures' = failures /\ failures \in Nat
  BY DEF GetNonce, source, target, counters, BridgeInv, BridgeTypeOK
<1>3. CASE tasks' = Move(t, "failed")
  BY <1>1, <1>2, <1>3, EndKeeps
<1>4. CASE \E n \in mined .. mined + Cardinality(mempool) :
              /\ NextNonce(n)
              /\ tasks' = [tasks EXCEPT ![t] =
                     [seq |-> @.seq, step |-> "sending", nonce |-> n]]
  <2>1. PICK n \in mined .. mined + Cardinality(mempool) :
           /\ NextNonce(n)
           /\ tasks' = [tasks EXCEPT ![t] =
                  [seq |-> @.seq, step |-> "sending", nonce |-> n]]
    BY <1>4
  <2> DEFINE new == [seq |-> tasks[t].seq, step |-> "sending", nonce |-> n]
  <2>2. mined \in Nat /\ tasks[t].seq \in Nat \ {0}
    BY <1>1, TasksType DEF BridgeInv, BridgeTypeOK
  <2>3. Cardinality(mempool) \in Nat
    BY FS_CardinalityType DEF BridgeInv, Matching
  <2>4. n \in Nat /\ ~ Used(n)
    BY <2>1, <2>2, <2>3 DEF NextNonce
  <2>5. new \in Tasks /\ tasks' = [tasks EXCEPT ![t] = new]
    BY <2>1, <2>2, <2>4 DEF Tasks, Steps
  <2>6. new.seq = tasks[t].seq /\ new.step = "sending" /\ new.nonce = n
    OBVIOUS
  <2> HIDE DEF new
  <2> QED
    BY <1>1, <1>2, <2>4, <2>5, <2>6, HandlerKeeps
<1>5. QED
  BY <1>3, <1>4 DEF GetNonce

\* A call fails.
LEMMA FailKeeps ==
    ASSUME BridgeInv, NEW t \in 1 .. MaxTasks, Fail(t)
    PROVE  BridgeInv'
<1>1. t \in 1 .. Len(tasks) /\ tasks' = Move(t, "failed")
  BY DEF Fail, Live
<1>2. /\ UNCHANGED <<sent, logs, up, mempool, mined, relayed, shown, raced,
                     repeats, lost, crashes>>
      /\ failures' = failures + 1 /\ failures \in Nat
  BY DEF Fail, source, target, BridgeInv, BridgeTypeOK
<1> QED
  BY <1>1, <1>2, EndKeeps

\* One more in flight and one fewer unsent leave the sum as it is.
LEMMA SentSum ==
    ASSUME NEW r \in Nat, NEW a \in Nat, NEW b \in Nat, NEW c \in Nat, NEW d,
           NEW n \in Nat,
           r + a + c <= n, b <= a + 1, d = c - 1
    PROVE  r + b + d <= n
OBVIOUS

\* A transaction that is accepted moves its signal from the unsent ones to those
\* in flight, and takes the nonce.
LEMMA AcceptedKeeps ==
    ASSUME BridgeInv, NEW t \in 1 .. Len(tasks), tasks[t].step = "sending",
           NEW q \in Signals, tasks[t].seq = q,
           tasks' = Move(t, Accepted), raced' = raced \cup Rivals(t),
           mempool' = mempool \cup
               {[seq |-> tasks[t].seq, nonce |-> tasks[t].nonce, task |-> t]},
           UNCHANGED <<sent, logs, up, mined, relayed, shown, repeats, failures,
                       lost, crashes>>
    PROVE  BridgeInv'
<1> DEFINE new == [seq |-> tasks[t].seq, step |-> "waiting", nonce |-> tasks[t].nonce]
           tx  == [seq |-> tasks[t].seq, nonce |-> tasks[t].nonce, task |-> t]
<1>1. "waiting" \in Steps
  BY DEF Steps
<1>2. new \in Tasks /\ tasks' = [tasks EXCEPT ![t] = new]
  BY <1>1, MoveSets DEF BridgeInv, Accepted
<1>3. /\ tasks' \in Seq(Tasks) /\ Len(tasks') = Len(tasks)
      /\ tasks'[t] = new
      /\ \A u \in 1 .. Len(tasks) : u # t => tasks'[u] = tasks[u]
  BY <1>2, SetTask DEF BridgeInv
<1>4. /\ tasks[t].nonce \in Nat /\ t \in Nat \ {0} /\ q \in Nat \ {0}
      /\ failures \in Nat /\ IsFiniteSet(mempool)
  BY TasksType DEF BridgeInv, BridgeTypeOK, Matching
<1>5. tx \in Txs /\ tx.seq = q /\ tx.task = t /\ tx.nonce = tasks[t].nonce
  BY <1>4 DEF Txs
<1>6. new.seq = q /\ new.step = "waiting" /\ new.nonce = tasks[t].nonce
  OBVIOUS
<1>7. \A u \in 1 .. Len(tasks) : tasks'[u].seq = tasks[u].seq
  BY <1>3
<1>8. mempool' = mempool \cup {tx}
  OBVIOUS
<1> HIDE DEF new, tx
<1>9. BridgeTypeOK'
  BY <1>3, <1>4, <1>5, <1>8 DEF BridgeInv, BridgeTypeOK, Rivals
<1>10. IsFiniteSet(mempool')
  <2>1. IsFiniteSet(mempool)
    BY <1>4
  <2>2. IsFiniteSet(mempool \cup {tx})
    BY <2>1, FS_AddElement
  <2> QED
    BY <1>8, <2>2
<1>11. Matching'
  BY <1>3, <1>5, <1>7, <1>8, <1>10 DEF BridgeInv, Matching
<1>12. /\ Unsent(q)' = Unsent(q) \ {t} /\ t \in Unsent(q)
       /\ InFlight(q)' = InFlight(q) \cup {tx}
       /\ \A s \in Signals : Done(s)' \subseteq Done(s)
       /\ \A s \in Signals : s # q => /\ Unsent(s)' \subseteq Unsent(s)
                                      /\ InFlight(s)' \subseteq InFlight(s)
  <2>1. Unsent(q)' = Unsent(q) \ {t} /\ t \in Unsent(q)
    BY <1>3, <1>6, <1>7 DEF Unsent, TasksOf
  <2>2. InFlight(q)' = InFlight(q) \cup {tx}
    BY <1>5, <1>8 DEF InFlight
  <2>3. \A s \in Signals : Done(s)' \subseteq Done(s)
    BY <1>3, <1>6, <1>7 DEF Done, TasksOf
  <2>4. \A s \in Signals : s # q => Unsent(s)' \subseteq Unsent(s)
    BY <1>3, <1>6, <1>7 DEF Unsent, TasksOf
  <2>5. \A s \in Signals : s # q => InFlight(s)' \subseteq InFlight(s)
    BY <1>5, <1>8 DEF InFlight
  <2> QED
    BY <2>1, <2>2, <2>3, <2>4, <2>5
<1>13. /\ relayed'[q] + Cardinality(InFlight(q)') + Cardinality(Unsent(q)') <= shown'[q]
       /\ Cardinality(Done(q)') <= relayed'[q]
  <2> DEFINE a == Cardinality(InFlight(q))
             b == Cardinality(InFlight(q)')
             c == Cardinality(Unsent(q))
             d == Cardinality(Unsent(q)')
             e == Cardinality(Done(q))
             f == Cardinality(Done(q)')
  <2>1. /\ IsFiniteSet(InFlight(q)) /\ IsFiniteSet(Unsent(q)) /\ IsFiniteSet(Done(q))
        /\ a \in Nat /\ c \in Nat /\ e \in Nat
    BY <1>4, CountedSets DEF BridgeInv
  <2>2. /\ b <= a + 1 /\ b \in Nat /\ d = c - 1 /\ f <= e /\ f \in Nat
    <3>1. b \in {a, a + 1}
      <4>1. Cardinality(InFlight(q) \cup {tx}) \in {a, a + 1}
        BY <2>1, FS_AddElement
      <4> QED
        BY <1>12, <4>1
    <3>2. d = c - 1
      <4>1. Cardinality(Unsent(q) \ {t}) = c - 1
        BY <1>12, <2>1, FS_RemoveElement
      <4> QED
        BY <1>12, <4>1
    <3>3. f <= e /\ f \in Nat
      BY <1>4, <1>12, <2>1, FS_Subset, FS_CardinalityType
    <3> HIDE DEF a, b, c, d, e, f
    <3> QED
      BY <2>1, <3>1, <3>2, <3>3
  <2>3. /\ relayed[q] + a + c <= shown[q] /\ e <= relayed[q]
        /\ relayed[q] \in Nat /\ shown[q] \in Nat
    BY <1>4 DEF BridgeInv, BridgeTypeOK, RelayedOncePerLog, DoneMeansRelayed, Done
  <2> HIDE DEF a, b, c, d, e, f
  <2>4. relayed[q] + b + d <= shown[q]
    <3>1. a \in Nat /\ c \in Nat
      BY <2>1
    <3>2. b \in Nat /\ b <= a + 1 /\ d = c - 1
      BY <2>2
    <3> QED
      BY <2>3, <3>1, <3>2, SentSum
  <2>5. f <= relayed[q]
    BY <2>1, <2>2, <2>3
  <2> QED
    BY <2>4, <2>5 DEF b, d, f
<1>14. RelayedOncePerLog' /\ DoneMeansRelayed'
  <2>1. ASSUME NEW s \in Signals
        PROVE  /\ relayed'[s] + Cardinality(InFlight(s)') + Cardinality(Unsent(s)')
                      <= shown'[s]
               /\ Cardinality(Done(s)') <= relayed'[s]
    <3>1. CASE s = q
      BY <1>13, <3>1
    <3>2. CASE s # q
      BY <1>12, <3>2, CountsStay
    <3> QED
      BY <3>1, <3>2
  <2> QED
    BY <2>1 DEF RelayedOncePerLog, DoneMeansRelayed, Done
<1>15. Races'
  <2>1. \A u \in 1 .. Len(tasks) : u # t => tasks'[u] = tasks[u]
    BY <1>3
  <2>2. ASSUME NEW u \in 1 .. Len(tasks), tasks'[u].step = "refused"
        PROVE  u \in raced'
    BY <1>3, <1>6, <2>2 DEF BridgeInv, Races, RefusedByRace
  <2>3. ASSUME NEW u \in 1 .. Len(tasks), tasks'[u].step = "sending", u \notin raced'
        PROVE  ~ Used(tasks[u].nonce)'
    <3>1. u # t /\ tasks'[u] = tasks[u]
      BY <1>3, <1>6, <2>3
    <3>2. ~ Used(tasks[u].nonce)
      BY <2>3, <3>1 DEF BridgeInv, Races
    <3>3. tasks[u].nonce # tx.nonce
      BY <1>5, <2>3, <3>1 DEF Rivals
    <3> QED
      BY <1>8, <3>1, <3>2, <3>3 DEF Used
  <2> QED
    BY <1>3, <2>2, <2>3 DEF Races, RefusedByRace
<1> QED
  BY <1>9, <1>11, <1>14, <1>15 DEF BridgeInv

\* A broadcast is accepted or refused.
LEMMA BroadcastKeeps ==
    ASSUME BridgeInv, NEW t \in 1 .. MaxTasks, Broadcast(t)
    PROVE  BridgeInv'
<1>1. /\ t \in 1 .. Len(tasks) /\ tasks[t].step = "sending"
      /\ UNCHANGED <<sent, logs, up, mined, relayed, shown, repeats, failures,
                     lost, crashes>>
  BY DEF Broadcast, Live, source, counters
<1>2. CASE ~ Used(tasks[t].nonce)
  <2>1. PICK q \in Signals : tasks[t].seq = q
    BY <1>1 DEF BridgeInv, Matching
  <2> QED
    BY <1>1, <1>2, <2>1, AcceptedKeeps DEF Broadcast
<1>3. CASE Used(tasks[t].nonce)
  <2>1. t \in raced
    BY <1>1, <1>3 DEF BridgeInv, Races
  <2>2. tasks' = Move(t, "refused") /\ UNCHANGED <<mempool, raced>>
    BY <1>3 DEF Broadcast, Refused
  <2>3. failures' \in Nat
    BY <1>1 DEF BridgeInv, BridgeTypeOK
  <2> QED
    BY <1>1, <2>1, <2>2, <2>3, EndKeeps
<1> QED
  BY <1>2, <1>3

\* A transaction is mined: what was in flight is relayed or lost, and the tasks
\* that wait for its nonce are done or failed accordingly.
LEMMA MineKeeps ==
    ASSUME BridgeInv, NEW tx \in mempool, Mine(tx)
    PROVE  BridgeInv'
<1>1. PICK ok \in Outcomes :
         /\ relayed' = IF ok THEN [relayed EXCEPT ![tx.seq] = @ + 1] ELSE relayed
         /\ tasks' = [t \in DOMAIN tasks |->
                IF tasks[t].step = "waiting" /\ tasks[t].nonce = mined
                THEN [tasks[t] EXCEPT !.step =
                         IF ok /\ t = tx.task THEN "done" ELSE "failed"]
                ELSE tasks[t]]
  BY DEF Mine
<1>2. /\ mempool' = mempool \ {tx} /\ tx.nonce = mined /\ mined' = mined + 1
      /\ UNCHANGED <<sent, logs, up, shown, raced, repeats, failures, lost, crashes>>
  BY DEF Mine, source, counters
<1>3. /\ tx \in Txs /\ tx.task \in 1 .. Len(tasks) /\ tasks[tx.task].seq = tx.seq
      /\ tx.seq \in Signals /\ IsFiniteSet(mempool)
      /\ mined \in Nat
  BY DEF BridgeInv, BridgeTypeOK, Matching
<1> DEFINE end(t) == IF ok /\ t = tx.task THEN "done" ELSE "failed"
<1>4. /\ tasks' \in Seq(Tasks) /\ Len(tasks') = Len(tasks)
      /\ \A u \in 1 .. Len(tasks) :
            /\ tasks'[u].seq = tasks[u].seq /\ tasks'[u].nonce = tasks[u].nonce
            /\ \/ tasks'[u].step = tasks[u].step
               \/ /\ tasks[u].step = "waiting"
                  /\ tasks'[u].step = end(u)
  <2>1. /\ Len(tasks) \in Nat /\ DOMAIN tasks = 1 .. Len(tasks)
        /\ \A u \in 1 .. Len(tasks) : tasks[u] \in Tasks
    BY TasksType DEF BridgeInv
  <2>2. ASSUME NEW u \in 1 .. Len(tasks)
        PROVE  /\ tasks'[u] \in Tasks
               /\ tasks'[u].seq = tasks[u].seq /\ tasks'[u].nonce = tasks[u].nonce
               /\ \/ tasks'[u].step = tasks[u].step
                  \/ /\ tasks[u].step = "waiting"
                     /\ tasks'[u].step = end(u)
    <3>1. tasks'[u] = IF tasks[u].step = "waiting" /\ tasks[u].nonce = mined
                      THEN [tasks[u] EXCEPT !.step = end(u)]
                      ELSE tasks[u]
      BY <1>1, <2>1
    <3>2. tasks[u] \in Tasks /\ end(u) \in Steps
      BY <2>1 DEF Steps
    <3> HIDE DEF end
    <3> QED
      BY <3>1, <3>2 DEF Tasks
  <2>3. DOMAIN tasks' = 1 .. Len(tasks) /\ tasks' = [u \in 1 .. Len(tasks) |-> tasks'[u]]
    BY <1>1, <2>1
  <2>4. tasks' \in [1 .. Len(tasks) -> Tasks]
    BY <2>2, <2>3
  <2>5. tasks' \in Seq(Tasks) /\ Len(tasks') = Len(tasks)
    BY <2>1, <2>4, SeqDef, LenProperties
  <2> HIDE DEF end
  <2> QED
    BY <2>2, <2>5
<1>5. BridgeTypeOK'
  <2>1. relayed' \in [Signals -> Nat]
    BY <1>1, <1>3 DEF BridgeInv, BridgeTypeOK
  <2> QED
    BY <1>2, <1>3, <1>4, <2>1 DEF BridgeInv, BridgeTypeOK
<1>6. Matching'
  <2>1. IsFiniteSet(mempool')
    BY <1>2, <1>3, FS_RemoveElement
  <2> QED
    BY <1>2, <1>4, <2>1 DEF BridgeInv, Matching
<1>7. \A s \in Signals :
         /\ Unsent(s)' \subseteq Unsent(s)
         /\ InFlight(s)' \subseteq InFlight(s)
         /\ s # tx.seq \/ ~ ok => Done(s)' \subseteq Done(s)
  <2>1. \A s \in Signals : Unsent(s)' \subseteq Unsent(s)
    BY <1>4 DEF Unsent, TasksOf
  <2>2. \A s \in Signals : InFlight(s)' \subseteq InFlight(s)
    BY <1>2 DEF InFlight
  <2>3. ASSUME NEW s \in Signals, s # tx.seq \/ ~ ok
        PROVE  Done(s)' \subseteq Done(s)
    <3>1. \A u \in 1 .. Len(tasks) :
             tasks'[u].seq = s /\ tasks'[u].step = "done" => tasks[u].step = "done"
      BY <1>3, <1>4, <2>3
    <3> QED
      BY <1>4, <3>1 DEF Done, TasksOf
  <2> QED
    BY <2>1, <2>2, <2>3
<1>8. ASSUME NEW s \in Signals, s # tx.seq \/ ~ ok
      PROVE  /\ relayed'[s] + Cardinality(InFlight(s)') + Cardinality(Unsent(s)')
                    <= shown'[s]
             /\ Cardinality(Done(s)') <= relayed'[s]
  <2>1. relayed'[s] = relayed[s] /\ shown'[s] = shown[s]
    BY <1>1, <1>2, <1>8 DEF BridgeInv, BridgeTypeOK
  <2> QED
    BY <1>7, <1>8, <2>1, CountsStay
<1>9. ASSUME NEW s \in Signals, s = tx.seq, ok
      PROVE  /\ relayed'[s] + Cardinality(InFlight(s)') + Cardinality(Unsent(s)')
                    <= shown'[s]
             /\ Cardinality(Done(s)') <= relayed'[s]
  <2> DEFINE a == Cardinality(InFlight(s))
             b == Cardinality(InFlight(s)')
             c == Cardinality(Unsent(s))
             d == Cardinality(Unsent(s)')
             e == Cardinality(Done(s))
             f == Cardinality(Done(s)')
  <2>1. /\ IsFiniteSet(InFlight(s)) /\ IsFiniteSet(Unsent(s)) /\ IsFiniteSet(Done(s))
        /\ a \in Nat /\ c \in Nat /\ e \in Nat
    BY <1>3, CountedSets DEF BridgeInv
  <2>2. tx \in InFlight(s) /\ InFlight(s)' = InFlight(s) \ {tx}
    BY <1>2, <1>9 DEF InFlight
  <2>3. b = a - 1
    BY <2>1, <2>2, FS_RemoveElement
  <2>4. d <= c /\ d \in Nat
    BY <1>7, <2>1, FS_Subset, FS_CardinalityType
  <2>5. Done(s)' \subseteq Done(s) \cup {tx.task}
    BY <1>4 DEF Done, TasksOf
  <2>6. /\ IsFiniteSet(Done(s) \cup {tx.task})
        /\ Cardinality(Done(s) \cup {tx.task}) \in {e, e + 1}
    BY <2>1, FS_AddElement
  <2>7. f <= Cardinality(Done(s) \cup {tx.task}) /\ f \in Nat
    BY <2>5, <2>6, FS_Subset, FS_CardinalityType
  <2>8. /\ relayed[s] + a + c <= shown[s] /\ e <= relayed[s]
        /\ relayed[s] \in Nat /\ shown[s] \in Nat
    BY DEF BridgeInv, BridgeTypeOK, RelayedOncePerLog, DoneMeansRelayed, Done
  <2>9. relayed'[s] = relayed[s] + 1 /\ shown'[s] = shown[s]
    BY <1>1, <1>2, <1>9 DEF BridgeInv, BridgeTypeOK
  <2> HIDE DEF a, b, c, d, e, f
  <2>10. f <= e + 1
    BY <2>1, <2>6, <2>7
  <2>11. (relayed[s] + 1) + b + d <= shown[s] /\ f <= relayed[s] + 1
    BY <2>1, <2>3, <2>4, <2>7, <2>8, <2>10
  <2> QED
    BY <2>9, <2>11 DEF b, d, f
<1>10. RelayedOncePerLog' /\ DoneMeansRelayed'
  BY <1>8, <1>9 DEF RelayedOncePerLog, DoneMeansRelayed, Done
<1>11. \A n \in Nat : Used(n)' => Used(n)
  BY <1>2, <1>3 DEF Used
<1>12. Races'
  <2>1. ASSUME NEW u \in 1 .. Len(tasks)
        PROVE  /\ tasks'[u].step = "refused" => u \in raced'
               /\ tasks'[u].step = "sending" /\ u \notin raced' =>
                      ~ Used(tasks[u].nonce)'
    <3>1. tasks[u].nonce \in Nat /\ tasks'[u].nonce = tasks[u].nonce
      BY <1>4, TasksType DEF BridgeInv
    <3>2. tasks'[u].step \in {"refused", "sending"} => tasks'[u].step = tasks[u].step
      BY <1>4
    <3> QED
      BY <1>2, <1>11, <3>1, <3>2 DEF BridgeInv, Races, RefusedByRace
  <2> QED
    BY <1>4, <2>1 DEF Races, RefusedByRace
<1> QED
  BY <1>5, <1>6, <1>10, <1>12 DEF BridgeInv

\* A transaction is lost: less is in flight, and its nonce is free again.
LEMMA LoseKeeps ==
    ASSUME BridgeInv, NEW tx \in mempool, Lose(tx)
    PROVE  BridgeInv'
<1>1. /\ mempool' = mempool \ {tx} /\ lost' = lost + 1
      /\ UNCHANGED <<sent, logs, up, tasks, mined, relayed, shown, raced,
                     repeats, failures, crashes>>
  BY DEF Lose, source
<1>2. BridgeTypeOK'
  BY <1>1 DEF BridgeInv, BridgeTypeOK
<1>3. Matching'
  <2>1. IsFiniteSet(mempool')
    BY <1>1, FS_RemoveElement DEF BridgeInv, Matching
  <2> QED
    BY <1>1, <2>1 DEF BridgeInv, Matching
<1>4. \A s \in Signals : /\ Unsent(s)' \subseteq Unsent(s)
                         /\ InFlight(s)' \subseteq InFlight(s)
                         /\ Done(s)' \subseteq Done(s)
  BY <1>1 DEF Unsent, TasksOf, InFlight, Done
<1>5. RelayedOncePerLog' /\ DoneMeansRelayed'
  BY <1>1, <1>4, CountsStay DEF RelayedOncePerLog, DoneMeansRelayed, Done
<1>6. Races'
  BY <1>1 DEF BridgeInv, Races, RefusedByRace, Used
<1> QED
  BY <1>2, <1>3, <1>5, <1>6 DEF BridgeInv

\* Nothing is counted of the logs and of what the source chain has published.
LEMMA SourceKeeps ==
    ASSUME BridgeInv, BridgeTypeOK', sent'["bridge"] <= MaxSignals,
           \A k \in 1 .. Len(logs') : logs'[k].emitter = "bridge" => logs'[k].seq \in Signals,
           UNCHANGED <<tasks, mempool, mined, relayed, shown, raced>>
    PROVE  BridgeInv'
<1>1. Matching'
  BY DEF BridgeInv, Matching
<1>2. Races' /\ RelayedOncePerLog' /\ DoneMeansRelayed'
  BY DEF BridgeInv, Races, RefusedByRace, Used, RelayedOncePerLog, DoneMeansRelayed,
         InFlight, Unsent, TasksOf
<1> QED
  BY <1>1, <1>2 DEF BridgeInv

\* A log that is appended to those still to be shown.
LEMMA LogAppended ==
    ASSUME BridgeInv, NEW l \in Logs, l.emitter = "bridge" => l.seq \in Signals
    PROVE  /\ Append(logs, l) \in Seq(Logs)
           /\ \A k \in 1 .. Len(Append(logs, l)) :
                 Append(logs, l)[k].emitter = "bridge" => Append(logs, l)[k].seq \in Signals
<1>1. logs \in Seq(Logs) /\ Len(logs) \in Nat
  BY LenProperties DEF BridgeInv, BridgeTypeOK
<1>2. /\ Append(logs, l) \in Seq(Logs)
      /\ Len(Append(logs, l)) = Len(logs) + 1
      /\ \A k \in 1 .. Len(logs) : Append(logs, l)[k] = logs[k]
      /\ Append(logs, l)[Len(logs) + 1] = l
  BY <1>1, AppendProperties
<1>3. ASSUME NEW k \in 1 .. Len(Append(logs, l)), Append(logs, l)[k].emitter = "bridge"
      PROVE  Append(logs, l)[k].seq \in Signals
  <2>1. CASE k = Len(logs) + 1
    BY <1>2, <1>3, <2>1
  <2>2. CASE k # Len(logs) + 1
    <3>1. k \in 1 .. Len(logs)
      BY <1>1, <1>2, <2>2
    <3> QED
      BY <1>2, <1>3, <3>1 DEF BridgeInv, Matching
  <2> QED
    BY <2>1, <2>2
<1> QED
  BY <1>2, <1>3

\* A message is published; the node shows it only to a relayer that runs.
LEMMA PublishKeeps ==
    ASSUME BridgeInv, NEW e \in Emitters, Publish(e)
    PROVE  BridgeInv'
<1> DEFINE log == [emitter |-> e, seq |-> sent[e] + 1]
<1>1. /\ sent \in [Emitters -> Nat] /\ sent[e] \in Nat
      /\ sent' = [sent EXCEPT ![e] = @ + 1]
      /\ logs' = IF up THEN Append(logs, log) ELSE logs
      /\ UNCHANGED <<tasks, mempool, mined, relayed, shown, raced>>
      /\ UNCHANGED <<failures, lost, crashes>>
      /\ UNCHANGED <<up, repeats>>
  BY DEF Publish, target, counters, BridgeInv, BridgeTypeOK
<1>2. e = "bridge" => sent[e] + 1 \in Signals
  BY <1>1, BoundsAssumption DEF Publish, Signals
<1>3. log \in Logs /\ log.emitter = e /\ log.seq = sent[e] + 1
  BY <1>1 DEF Logs
<1> HIDE DEF log
<1>4. /\ logs' \in Seq(Logs)
      /\ \A k \in 1 .. Len(logs') : logs'[k].emitter = "bridge" => logs'[k].seq \in Signals
  <2>1. CASE up
    BY <1>1, <1>2, <1>3, <2>1, LogAppended
  <2>2. CASE ~ up
    BY <1>1, <2>2 DEF BridgeInv, BridgeTypeOK, Matching
  <2> QED
    BY <2>1, <2>2
<1>5. BridgeTypeOK'
  BY <1>1, <1>4 DEF BridgeInv, BridgeTypeOK
<1>6. sent'["bridge"] <= MaxSignals
  <2>1. CASE e = "bridge"
    BY <1>1, <1>2, <2>1 DEF Signals
  <2>2. CASE e # "bridge"
    BY <1>1, <2>2 DEF BridgeInv, Matching, Emitters
  <2> QED
    BY <2>1, <2>2
<1> QED
  BY <1>1, <1>4, <1>5, <1>6, SourceKeeps

\* A log is shown again.
LEMMA RepeatKeeps ==
    ASSUME BridgeInv, NEW s \in Signals, Repeat(s)
    PROVE  BridgeInv'
<1> DEFINE log == [emitter |-> "bridge", seq |-> s]
<1>1. /\ logs' = Append(logs, log)
      /\ repeats' = repeats + 1
      /\ UNCHANGED <<tasks, mempool, mined, relayed, shown, raced>>
      /\ UNCHANGED <<failures, lost, crashes>>
      /\ UNCHANGED <<sent, up>>
  BY DEF Repeat, source, target
<1>2. log \in Logs /\ log.seq = s
  BY BoundsAssumption DEF Logs, Emitters, Signals
<1> HIDE DEF log
<1>3. /\ logs' \in Seq(Logs)
      /\ \A k \in 1 .. Len(logs') : logs'[k].emitter = "bridge" => logs'[k].seq \in Signals
  BY <1>1, <1>2, LogAppended
<1>4. BridgeTypeOK' /\ sent'["bridge"] <= MaxSignals
  BY <1>1, <1>3 DEF BridgeInv, BridgeTypeOK, Matching
<1> QED
  BY <1>1, <1>3, <1>4, SourceKeeps

\* The relayer starts.
LEMMA StartKeeps ==
    ASSUME BridgeInv, Start
    PROVE  BridgeInv'
<1>1. /\ up' = TRUE
      /\ UNCHANGED <<tasks, mempool, mined, relayed, shown, raced>>
      /\ UNCHANGED <<failures, lost, crashes>>
      /\ UNCHANGED <<sent, logs, repeats>>
  BY DEF Start, source, target, counters
<1>2. BridgeTypeOK'
  BY <1>1 DEF BridgeInv, BridgeTypeOK
<1> QED
  BY <1>1, <1>2, SourceKeeps DEF BridgeInv, Matching

\* The logs that are left when the first is taken.
LEMMA LogTaken ==
    ASSUME BridgeInv, logs # <<>>
    PROVE  /\ Head(logs) \in Logs
           /\ Head(logs).emitter = "bridge" => Head(logs).seq \in Signals
           /\ Tail(logs) \in Seq(Logs)
           /\ \A k \in 1 .. Len(Tail(logs)) :
                 Tail(logs)[k].emitter = "bridge" => Tail(logs)[k].seq \in Signals
<1>1. logs \in Seq(Logs) /\ Len(logs) \in Nat
  BY LenProperties DEF BridgeInv, BridgeTypeOK
<1>2. /\ Head(logs) \in Logs /\ Tail(logs) \in Seq(Logs)
      /\ Len(Tail(logs)) = Len(logs) - 1
      /\ \A k \in 1 .. Len(Tail(logs)) : Tail(logs)[k] = logs[k + 1]
  BY <1>1, HeadTailProperties
<1>3. 1 \in 1 .. Len(logs) /\ Head(logs) = logs[1]
  BY <1>1, EmptySeq
<1>4. \A k \in 1 .. Len(Tail(logs)) : k + 1 \in 1 .. Len(logs)
  BY <1>1, <1>2
<1> QED
  BY <1>2, <1>3, <1>4 DEF BridgeInv, Matching

\* The relayer is shown a log of the bridge: a handler starts, which has yet to
\* send the signal.
LEMMA TaskStartedKeeps ==
    ASSUME BridgeInv, NEW q \in Signals, NEW new \in Tasks, new.seq = q,
           new.step = "fetching",
           tasks' = Append(tasks, new), shown' = [shown EXCEPT ![q] = @ + 1],
           logs' \in Seq(Logs),
           \A k \in 1 .. Len(logs') : logs'[k].emitter = "bridge" => logs'[k].seq \in Signals,
           UNCHANGED <<sent, up, mempool, mined, relayed, raced, repeats, failures,
                       lost, crashes>>
    PROVE  BridgeInv'
<1> DEFINE n == Len(tasks) + 1
<1>1. tasks \in Seq(Tasks) /\ Len(tasks) \in Nat
  BY LenProperties DEF BridgeInv, BridgeTypeOK
<1>2. /\ tasks' \in Seq(Tasks) /\ Len(tasks') = n
      /\ \A u \in 1 .. Len(tasks) : tasks'[u] = tasks[u]
      /\ tasks'[n] = new
  BY <1>1, AppendProperties
<1>3. /\ n \notin 1 .. Len(tasks) /\ 1 .. n = (1 .. Len(tasks)) \cup {n}
  BY <1>1
<1> HIDE DEF n
<1>4. BridgeTypeOK'
  BY <1>2 DEF BridgeInv, BridgeTypeOK
<1>5. Matching'
  BY <1>2, <1>3 DEF BridgeInv, Matching
<1>6. /\ \A s \in Signals : s # q => Unsent(s)' \subseteq Unsent(s)
      /\ \A s \in Signals : Done(s)' \subseteq Done(s)
      /\ \A s \in Signals : InFlight(s)' = InFlight(s)
      /\ Unsent(q)' \subseteq Unsent(q) \cup {n}
  <2>1. \A s \in Signals : s # q => Unsent(s)' \subseteq Unsent(s)
    BY <1>2, <1>3 DEF Unsent, TasksOf
  <2>2. \A s \in Signals : Done(s)' \subseteq Done(s)
    BY <1>2, <1>3 DEF Done, TasksOf
  <2>3. \A s \in Signals : InFlight(s)' = InFlight(s)
    BY DEF InFlight
  <2>4. Unsent(q)' \subseteq Unsent(q) \cup {n}
    BY <1>2, <1>3 DEF Unsent, TasksOf
  <2> QED
    BY <2>1, <2>2, <2>3, <2>4
<1>7. /\ relayed'[q] + Cardinality(InFlight(q)') + Cardinality(Unsent(q)') <= shown'[q]
      /\ Cardinality(Done(q)') <= relayed'[q]
  <2> DEFINE a == Cardinality(InFlight(q))
             c == Cardinality(Unsent(q))
             d == Cardinality(Unsent(q)')
             e == Cardinality(Done(q))
             f == Cardinality(Done(q)')
  <2>1. /\ IsFiniteSet(Unsent(q)) /\ IsFiniteSet(Done(q))
        /\ a \in Nat /\ c \in Nat /\ e \in Nat
    BY CountedSets DEF BridgeInv, Matching
  <2>2. /\ IsFiniteSet(Unsent(q) \cup {n})
        /\ Cardinality(Unsent(q) \cup {n}) \in {c, c + 1}
    BY <2>1, FS_AddElement
  <2>3. d <= Cardinality(Unsent(q) \cup {n}) /\ d \in Nat
    BY <1>6, <2>2, FS_Subset, FS_CardinalityType
  <2>4. f <= e /\ f \in Nat
    BY <1>6, <2>1, FS_Subset, FS_CardinalityType
  <2>5. /\ relayed[q] + a + c <= shown[q] /\ e <= relayed[q]
        /\ relayed[q] \in Nat /\ shown[q] \in Nat
        /\ relayed'[q] = relayed[q] /\ shown'[q] = shown[q] + 1
    BY DEF BridgeInv, BridgeTypeOK, RelayedOncePerLog, DoneMeansRelayed, Done
  <2>6. Cardinality(InFlight(q)') = a
    BY <1>6
  <2> HIDE DEF a, c, d, e, f
  <2>7. d <= c + 1
    BY <2>1, <2>2, <2>3
  <2>8. relayed[q] + a + d <= shown[q] + 1 /\ f <= relayed[q]
    BY <2>1, <2>3, <2>4, <2>5, <2>7
  <2> QED
    BY <2>5, <2>6, <2>8 DEF d, f
<1>8. RelayedOncePerLog' /\ DoneMeansRelayed'
  <2>1. ASSUME NEW s \in Signals
        PROVE  /\ relayed'[s] + Cardinality(InFlight(s)') + Cardinality(Unsent(s)')
                      <= shown'[s]
               /\ Cardinality(Done(s)') <= relayed'[s]
    <3>1. CASE s = q
      BY <1>7, <3>1
    <3>2. CASE s # q
      <4>1. relayed'[s] = relayed[s] /\ shown'[s] = shown[s]
        BY <3>2 DEF BridgeInv, BridgeTypeOK
      <4> QED
        BY <1>6, <3>2, <4>1, CountsStay
    <3> QED
      BY <3>1, <3>2
  <2> QED
    BY <2>1 DEF RelayedOncePerLog, DoneMeansRelayed, Done
<1>9. Races'
  BY <1>2, <1>3 DEF BridgeInv, Races, RefusedByRace, Used
<1> QED
  BY <1>4, <1>5, <1>8, <1>9 DEF BridgeInv

\* The relayer is shown a log.
LEMMA NoticeKeeps ==
    ASSUME BridgeInv, Notice
    PROVE  BridgeInv'
<1>1. /\ logs # <<>> /\ logs' = Tail(logs)
      /\ UNCHANGED <<sent, up, mempool, mined, relayed, raced, repeats, failures,
                     lost, crashes>>
  BY DEF Notice, source, target, counters
<1>2. /\ logs' \in Seq(Logs)
      /\ \A k \in 1 .. Len(logs') : logs'[k].emitter = "bridge" => logs'[k].seq \in Signals
  BY <1>1, LogTaken
<1>3. CASE Matches(Head(logs))
  <2>1. Head(logs).emitter = "bridge"
    BY <1>1, <1>3, LogTaken, RelayerAssumption DEF Matches, Logs, Emitters
  <2>2. PICK q \in Signals : Head(logs).seq = q
    BY <1>1, <2>1, LogTaken
  <2> DEFINE new == [seq |-> q, step |-> "fetching", nonce |-> 0]
  <2>3. /\ new \in Tasks /\ new.seq = q /\ new.step = "fetching"
    BY BoundsAssumption DEF Tasks, Steps, Signals
  <2>4. tasks' = Append(tasks, new) /\ shown' = [shown EXCEPT ![q] = @ + 1]
    BY <1>3, <2>1, <2>2 DEF Notice, Handler
  <2> HIDE DEF new
  <2> QED
    BY <1>1, <1>2, <2>3, <2>4, TaskStartedKeeps
<1>4. CASE ~ Matches(Head(logs))
  <2>1. tasks' = tasks
    BY <1>4 DEF Notice
  <2>2. /\ shown' \in [Signals -> Nat]
        /\ \A s \in Signals : shown'[s] \in {shown[s], shown[s] + 1}
    BY <1>1, LogTaken DEF Notice, BridgeInv, BridgeTypeOK
  <2>3. BridgeTypeOK' /\ Matching'
    BY <1>1, <1>2, <2>1, <2>2 DEF BridgeInv, BridgeTypeOK, Matching
  <2>4. Races' /\ DoneMeansRelayed'
    BY <1>1, <2>1 DEF BridgeInv, Races, RefusedByRace, Used, DoneMeansRelayed, TasksOf
  <2>5. ASSUME NEW s \in Signals
        PROVE  relayed'[s] + Cardinality(InFlight(s)') + Cardinality(Unsent(s)')
                   <= shown'[s]
    <3>1. /\ InFlight(s)' = InFlight(s) /\ Unsent(s)' = Unsent(s)
          /\ relayed'[s] = relayed[s]
      BY <1>1, <2>1 DEF InFlight, Unsent, TasksOf
    <3>2. Cardinality(InFlight(s)) \in Nat /\ Cardinality(Unsent(s)) \in Nat
      BY CountedSets DEF BridgeInv, Matching
    <3>3. /\ relayed[s] + Cardinality(InFlight(s)) + Cardinality(Unsent(s)) <= shown[s]
          /\ relayed[s] \in Nat /\ shown[s] \in Nat
      BY DEF BridgeInv, BridgeTypeOK, RelayedOncePerLog
    <3> QED
      BY <2>2, <3>1, <3>2, <3>3
  <2> QED
    BY <2>3, <2>4, <2>5 DEF BridgeInv, RelayedOncePerLog
<1> QED
  BY <1>3, <1>4

\* A crash fails every handler that has not ended.
LEMMA CrashKeeps ==
    ASSUME BridgeInv, Crash
    PROVE  BridgeInv'
<1>1. /\ up' = FALSE /\ logs' = <<>>
      /\ UNCHANGED <<sent, mempool, mined, relayed, shown, raced, repeats, failures, lost>>
      /\ crashes' = crashes + 1 /\ crashes \in Nat
  BY DEF Crash, source, target, BridgeInv, BridgeTypeOK
<1>2. /\ Len(tasks) \in Nat /\ DOMAIN tasks = 1 .. Len(tasks)
      /\ \A t \in 1 .. Len(tasks) : tasks[t] \in Tasks
  BY TasksType DEF BridgeInv
<1>3. \A t \in 1 .. Len(tasks) :
         /\ tasks'[t] \in Tasks
         /\ tasks'[t].seq = tasks[t].seq
         /\ tasks'[t].step = tasks[t].step \/ tasks'[t].step = "failed"
  <2> SUFFICES ASSUME NEW t \in 1 .. Len(tasks)
               PROVE  /\ tasks'[t] \in Tasks
                      /\ tasks'[t].seq = tasks[t].seq
                      /\ tasks'[t].step = tasks[t].step \/ tasks'[t].step = "failed"
    OBVIOUS
  <2>1. tasks'[t] = IF Live(t) THEN [tasks[t] EXCEPT !.step = "failed"] ELSE tasks[t]
    BY <1>2 DEF Crash
  <2>2. tasks[t] \in Tasks
    BY <1>2
  <2>3. "failed" \in Steps
    BY DEF Steps
  <2> QED
    BY <2>1, <2>2, <2>3 DEF Tasks
<1>4. tasks' \in Seq(Tasks) /\ Len(tasks') = Len(tasks)
  <2>1. DOMAIN tasks' = 1 .. Len(tasks)
    BY <1>2 DEF Crash
  <2>2. tasks' = [t \in 1 .. Len(tasks) |-> tasks'[t]]
    BY <1>2 DEF Crash
  <2>3. tasks' \in [1 .. Len(tasks) -> Tasks]
    BY <1>3, <2>2
  <2> QED
    BY <1>2, <2>3, SeqDef, LenProperties
<1>5. BridgeTypeOK'
  <2>1. logs' \in Seq(Logs)
    BY <1>1, EmptySeq
  <2>2. crashes' \in Nat
    BY <1>1
  <2>3. up' \in BOOLEAN
    BY <1>1
  <2>4. /\ sent' = sent /\ mempool' = mempool /\ mined' = mined
        /\ relayed' = relayed /\ shown' = shown /\ raced' = raced
        /\ repeats' = repeats /\ failures' = failures /\ lost' = lost
    BY <1>1
  <2> QED
    BY <1>4, <2>1, <2>2, <2>3, <2>4 DEF BridgeInv, BridgeTypeOK
<1>6. Matching'
  <2>1. Len(logs') = 0
    BY <1>1, EmptySeq
  <2> QED
    BY <1>1, <1>3, <1>4, <2>1 DEF BridgeInv, Matching
<1>7. \A s \in Signals : /\ Unsent(s)' \subseteq Unsent(s)
                         /\ InFlight(s)' \subseteq InFlight(s)
                         /\ Done(s)' \subseteq Done(s)
  BY <1>1, <1>3, <1>4 DEF Unsent, TasksOf, InFlight, Done
<1>8. RelayedOncePerLog' /\ DoneMeansRelayed'
  BY <1>1, <1>7, CountsStay DEF RelayedOncePerLog, DoneMeansRelayed, Done
<1>9. Races'
  <2>1. ASSUME NEW t \in 1 .. Len(tasks), tasks'[t].step \in {"refused", "sending"}
        PROVE  tasks'[t] = tasks[t]
    <3>1. tasks'[t] = IF Live(t) THEN [tasks[t] EXCEPT !.step = "failed"] ELSE tasks[t]
      BY <1>2 DEF Crash
    <3> QED
      BY <1>2, <2>1, <3>1 DEF Tasks
  <2> QED
    BY <1>1, <1>4, <2>1 DEF BridgeInv, Races, RefusedByRace, Used
<1> QED
  BY <1>5, <1>6, <1>8, <1>9 DEF BridgeInv

\* A step that changes nothing.
LEMMA StutterKeeps ==
    ASSUME BridgeInv, UNCHANGED bridgeVars
    PROVE  BridgeInv'
<1>1. /\ UNCHANGED <<tasks, mempool, mined, relayed, shown, raced>>
      /\ UNCHANGED <<sent, logs, up, repeats, failures, lost, crashes>>
  BY DEF bridgeVars, source, target, counters
<1>2. BridgeTypeOK'
  BY <1>1 DEF BridgeInv, BridgeTypeOK
<1> QED
  BY <1>1, <1>2, SourceKeeps DEF BridgeInv, Matching

-----------------------------------------------------------------------------
(* The theorems.                                                           *)

\* The invariant holds at first: nothing is published, sent or started.
LEMMA InitBridgeInv ==
    ASSUME BridgeInit
    PROVE  BridgeInv
<1>1. Len(logs) = 0 /\ Len(tasks) = 0 /\ logs \in Seq(Logs) /\ tasks \in Seq(Tasks)
  BY EmptySeq DEF BridgeInit
<1>2. BridgeTypeOK
  BY <1>1 DEF BridgeInit, BridgeTypeOK
<1>3. Matching
  BY <1>1, FS_EmptySet, BoundsAssumption DEF BridgeInit, Matching, Emitters
<1>4. Races
  BY <1>1 DEF BridgeInit, Races, RefusedByRace
<1>5. ASSUME NEW s \in Signals
      PROVE  /\ InFlight(s) = {} /\ Unsent(s) = {} /\ Done(s) = {}
             /\ relayed[s] = 0 /\ shown[s] = 0
  BY <1>1 DEF BridgeInit, InFlight, Unsent, Done, TasksOf
<1>6. Cardinality({}) = 0
  BY FS_EmptySet
<1>7. RelayedOncePerLog /\ DoneMeansRelayed
  <2>1. ASSUME NEW s \in Signals
        PROVE  /\ relayed[s] + Cardinality(InFlight(s)) + Cardinality(Unsent(s))
                      <= shown[s]
               /\ Cardinality(Done(s)) <= relayed[s]
    <3>1. /\ Cardinality(InFlight(s)) = 0 /\ Cardinality(Unsent(s)) = 0
          /\ Cardinality(Done(s)) = 0
      BY <1>5, <1>6
    <3>2. relayed[s] = 0 /\ shown[s] = 0
      BY <1>5
    <3> QED
      BY <3>1, <3>2
  <2> QED
    BY <2>1 DEF RelayedOncePerLog, DoneMeansRelayed, Done
<1> QED
  BY <1>2, <1>3, <1>4, <1>7 DEF BridgeInv

\* The invariant is inductive: every step of source chain, relayer and target
\* chain keeps it.
THEOREM BridgeInductive == BridgeSpec => []BridgeInv
<1>1. BridgeInit => BridgeInv
  BY InitBridgeInv
<1>2. BridgeInv /\ [BridgeNext]_bridgeVars => BridgeInv'
  <2> SUFFICES ASSUME BridgeInv, [BridgeNext]_bridgeVars
               PROVE  BridgeInv'
    OBVIOUS
  <2>1. CASE \E e \in Emitters : Publish(e)
    BY <2>1, PublishKeeps
  <2>2. CASE \E s \in Signals : Repeat(s)
    BY <2>2, RepeatKeeps
  <2>3. CASE Notice
    BY <2>3, NoticeKeeps
  <2>4. CASE \E t \in 1 .. MaxTasks :
                Fetched(t) \/ GetNonce(t) \/ Broadcast(t) \/ Fail(t)
    BY <2>4, FetchedKeeps, GetNonceKeeps, BroadcastKeeps, FailKeeps
  <2>5. CASE Crash
    BY <2>5, CrashKeeps
  <2>6. CASE Start
    BY <2>6, StartKeeps
  <2>7. CASE \E tx \in mempool : Mine(tx) \/ Lose(tx)
    BY <2>7, MineKeeps, LoseKeeps
  <2>8. CASE UNCHANGED bridgeVars
    BY <2>8, StutterKeeps
  <2> QED
    BY <2>1, <2>2, <2>3, <2>4, <2>5, <2>6, <2>7, <2>8 DEF BridgeNext
<1> QED
  BY <1>1, <1>2, PTL DEF BridgeSpec

\* Every nonce, count and step of the relayer is of its kind in every state.
THEOREM BridgeTypeCorrect == BridgeSpec => []BridgeTypeOK
<1>1. BridgeInv => BridgeTypeOK
  BY DEF BridgeInv
<1> QED
  BY <1>1, BridgeInductive, PTL

\* Whatever fails, crashes or is shown again, a signal reaches the curation
\* contract at most once for each time the relayer was shown its log.
THEOREM AlwaysRelayedOncePerLog == BridgeSpec => []RelayedOncePerLog
<1>1. BridgeInv => RelayedOncePerLog
  BY DEF BridgeInv
<1> QED
  BY <1>1, BridgeInductive, PTL

\* "VAA processed" is logged only for signals that did reach the contract.
THEOREM AlwaysDoneMeansRelayed == BridgeSpec => []DoneMeansRelayed
<1>1. BridgeInv => DoneMeansRelayed
  BY DEF BridgeInv
<1> QED
  BY <1>1, BridgeInductive, PTL

\* Whatever is lost, crashes or fails, the node refuses a handler's transaction
\* only when another handler has used its nonce since it asked for one.
THEOREM AlwaysRefusedByRace == BridgeSpec => []RefusedByRace
<1>1. BridgeInv => RefusedByRace
  BY DEF BridgeInv, Races
<1> QED
  BY <1>1, BridgeInductive, PTL

\* With one address for the contract it subscribes to and the sender it filters
\* by, as the code has it, the relayer never starts a handler.
THEOREM NothingHeard ==
    ASSUME Subscribed = Sender
    PROVE  BridgeSpec => [](tasks = <<>>)
<1>1. BridgeInit => tasks = <<>>
  BY DEF BridgeInit
<1>2. BridgeInv /\ tasks = <<>> /\ [BridgeNext]_bridgeVars => (tasks = <<>>)'
  <2> SUFFICES ASSUME BridgeInv, tasks = <<>>, [BridgeNext]_bridgeVars
               PROVE  tasks' = <<>>
    OBVIOUS
  <2>1. 1 .. Len(tasks) = {} /\ DOMAIN tasks = {}
    BY EmptySeq, TasksType DEF BridgeInv
  <2>2. \A t : ~ Live(t)
    BY <2>1 DEF Live
  <2>3. mempool = {}
    BY <2>1 DEF BridgeInv, Matching
  <2>4. ASSUME Notice
        PROVE  tasks' = <<>>
    <3>1. ~ Matches(Head(logs))
      BY <2>4, LogTaken DEF Notice, Matches, Logs, Emitters
    <3> QED
      BY <2>4, <3>1 DEF Notice
  <2>5. ASSUME Crash
        PROVE  tasks' = <<>>
    BY <2>1, <2>2, <2>5 DEF Crash
  <2> QED
    BY <2>2, <2>3, <2>4, <2>5 DEF BridgeNext, Publish, Repeat, Fetched, GetNonce,
       Broadcast, Fail, Start, bridgeVars
<1> QED
  BY <1>1, <1>2, BridgeInductive, PTL DEF BridgeSpec
=============================================================================
