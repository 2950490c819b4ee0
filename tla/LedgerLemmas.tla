---------------------------- MODULE LedgerLemmas ----------------------------
(***************************************************************************)
(* Facts about the operators the ledgers are built from: sums (Tally) and  *)
(* truncating share arithmetic (ShareMath).  The proofs about the          *)
(* contracts cite these and never open the operators themselves.           *)
(***************************************************************************)
EXTENDS Tally, ShareMath, Integers, FiniteSetTheorems, TLAPS

-----------------------------------------------------------------------------
(* Sums.                                                                   *)

\* The units one holder has: f[x] of them.
LEMMA UnitsOfOne ==
    ASSUME NEW x, NEW n \in Nat
    PROVE  /\ IsFiniteSet({x} \X (1 .. n))
           /\ Cardinality({x} \X (1 .. n)) = n
<1>1. IsFiniteSet({x}) /\ Cardinality({x}) = 1
  BY FS_Singleton, Zenon
<1>2. IsFiniteSet(1 .. n)
  BY FS_Interval, SMT
<1>3. Cardinality(1 .. n) = n
  BY FS_Interval, SMT
<1>4. /\ IsFiniteSet({x} \X (1 .. n))
      /\ Cardinality({x} \X (1 .. n)) = Cardinality({x}) * Cardinality(1 .. n)
  BY <1>1, <1>2, FS_Product, Zenon
<1> QED
  BY <1>1, <1>3, <1>4, SMT

\* A sum over finitely many holders is a natural number.
LEMMA TallyType ==
    ASSUME NEW S, IsFiniteSet(S), NEW f \in [S -> Nat]
    PROVE  IsFiniteSet(Units(f, S)) /\ Tally(f, S) \in Nat
<1> DEFINE parts == {{x} \X (1 .. f[x]) : x \in S}
<1>1. IsFiniteSet(parts)
  <2> DEFINE part == [x \in S |-> {x} \X (1 .. f[x])]
  <2>1. part \in Surjection(S, parts)
    BY DEF Surjection
  <2> QED BY <2>1, FS_Surjection, Zenon
<1>2. ASSUME NEW T \in parts PROVE IsFiniteSet(T)
  <2>1. PICK x \in S : T = {x} \X (1 .. f[x])
    BY Zenon
  <2>2. f[x] \in Nat
    BY Zenon
  <2> QED BY <2>1, <2>2, UnitsOfOne, Zenon
<1>3. IsFiniteSet(UNION parts)
  BY <1>1, <1>2, FS_UNION, Zenon
<1> QED
  BY <1>3, FS_CardinalityType DEF Units, Tally

\* A sum splits into one holder's part and the rest.
LEMMA TallySplit ==
    ASSUME NEW S, IsFiniteSet(S), NEW f \in [S -> Nat], NEW x \in S
    PROVE  Tally(f, S) = Tally(f, S \ {x}) + f[x]
<1> DEFINE rest == Units(f, S \ {x})
           own  == {x} \X (1 .. f[x])
<1>1. IsFiniteSet(S \ {x})
  BY FS_RemoveElement
<1>2. IsFiniteSet(rest) /\ Cardinality(rest) \in Nat
  <2>1. Units(f, S \ {x}) \subseteq Units(f, S)
    BY DEF Units
  <2>2. IsFiniteSet(Units(f, S))
    BY TallyType
  <2> QED
    BY <2>1, <2>2, FS_Subset, FS_CardinalityType
<1>3. IsFiniteSet(own) /\ Cardinality(own) = f[x]
  BY UnitsOfOne
<1>4. rest \cap own = {}
  BY DEF Units
<1>5. Units(f, S) = rest \cup own
  BY DEF Units
<1>6. Cardinality(rest \cup own)
        = Cardinality(rest) + Cardinality(own) - Cardinality(rest \cap own)
  BY <1>2, <1>3, FS_Union
<1>7. Cardinality(rest \cap own) = 0
  BY <1>4, FS_EmptySet
<1> QED
  BY <1>2, <1>3, <1>5, <1>6, <1>7 DEF Tally

\* Functions that agree on S have the same sum over S.
LEMMA TallySame ==
    ASSUME NEW S, NEW f, NEW g, \A y \in S : f[y] = g[y]
    PROVE  Tally(f, S) = Tally(g, S)
<1>1. Units(f, S) = Units(g, S)
  BY DEF Units
<1> QED
  BY <1>1 DEF Tally

\* Changing one holder's part changes the sum by as much.
LEMMA TallyUpdate ==
    ASSUME NEW S, IsFiniteSet(S), NEW f \in [S -> Nat], NEW g \in [S -> Nat],
           NEW x \in S, \A y \in S \ {x} : f[y] = g[y]
    PROVE  Tally(g, S) + f[x] = Tally(f, S) + g[x]
<1>1. Tally(f, S \ {x}) = Tally(g, S \ {x})
  BY TallySame
<1>2. Tally(f, S) = Tally(f, S \ {x}) + f[x]
  BY TallySplit
<1>3. Tally(g, S) = Tally(g, S \ {x}) + g[x]
  BY TallySplit
<1>4. Tally(f, S \ {x}) \in Nat
  <2>1. IsFiniteSet(S \ {x})
    BY FS_RemoveElement
  <2>2. [y \in S \ {x} |-> f[y]] \in [S \ {x} -> Nat]
    OBVIOUS
  <2>3. Tally([y \in S \ {x} |-> f[y]], S \ {x}) \in Nat
    BY <2>1, <2>2, TallyType
  <2>4. Tally([y \in S \ {x} |-> f[y]], S \ {x}) = Tally(f, S \ {x})
    BY TallySame
  <2> QED
    BY <2>3, <2>4
<1> QED
  BY <1>1, <1>2, <1>3, <1>4

\* The part of one holder is at most the sum.
LEMMA TallyAtLeastPart ==
    ASSUME NEW S, IsFiniteSet(S), NEW f \in [S -> Nat], NEW x \in S
    PROVE  f[x] <= Tally(f, S)
<1> DEFINE g == [f EXCEPT ![x] = 0]
<1>1. g \in [S -> Nat] /\ g[x] = 0 /\ \A y \in S \ {x} : f[y] = g[y]
  OBVIOUS
<1> HIDE DEF g
<1>2. Tally(g, S) + f[x] = Tally(f, S) + g[x]
  BY <1>1, TallyUpdate
<1>3. Tally(g, S) \in Nat /\ Tally(f, S) \in Nat
  BY <1>1, TallyType
<1> QED
  BY <1>1, <1>2, <1>3

\* Nothing held, nothing in the sum.
LEMMA TallyZero ==
    ASSUME NEW S, NEW f, \A x \in S : f[x] = 0
    PROVE  Tally(f, S) = 0
<1>1. Units(f, S) = {}
  BY DEF Units
<1> QED
  BY <1>1, FS_EmptySet DEF Tally

\* A function that is nowhere larger has no larger sum.
LEMMA TallyGrows ==
    ASSUME NEW S, IsFiniteSet(S), NEW f, NEW g,
           \A y \in S : f[y] \in Nat /\ g[y] \in Nat /\ f[y] <= g[y]
    PROVE  /\ Tally(f, S) \in Nat /\ Tally(g, S) \in Nat
           /\ Tally(f, S) <= Tally(g, S)
<1> DEFINE p == [y \in S |-> f[y]]
           q == [y \in S |-> g[y]]
<1>1. /\ p \in [S -> Nat] /\ q \in [S -> Nat]
      /\ Tally(p, S) = Tally(f, S) /\ Tally(q, S) = Tally(g, S)
  BY TallySame
<1>2. Units(p, S) \subseteq Units(q, S)
  <2>1. \A y \in S : 1 .. p[y] \subseteq 1 .. q[y]
    OBVIOUS
  <2> QED
    BY <2>1 DEF Units
<1> HIDE DEF p, q
<1>3. IsFiniteSet(Units(q, S)) /\ Tally(p, S) \in Nat /\ Tally(q, S) \in Nat
  BY <1>1, TallyType
<1>4. Cardinality(Units(p, S)) <= Cardinality(Units(q, S))
  BY <1>2, <1>3, FS_Subset
<1> QED
  BY <1>1, <1>3, <1>4 DEF Tally

\* What replacing or adding one part does to a sum whose other parts fall.
LEMMA TallyReplace ==
    ASSUME NEW S, IsFiniteSet(S), NEW f \in [S -> Nat], NEW x,
           NEW g \in [S \cup {x} -> Nat], \A y \in S \ {x} : g[y] <= f[y]
    PROVE  /\ Tally(f, S) \in Nat /\ Tally(g, S \cup {x}) \in Nat
           /\ Tally(g, S \cup {x}) <= Tally(f, S) + g[x]
           /\ x \in S => Tally(g, S \cup {x}) + f[x] <= Tally(f, S) + g[x]
<1>1. IsFiniteSet(S \cup {x}) /\ IsFiniteSet(S \ {x})
  BY FS_AddElement, FS_RemoveElement
<1>2. /\ Tally(f, S) \in Nat /\ Tally(g, S \cup {x}) \in Nat
      /\ IsFiniteSet(Units(f, S))
  BY <1>1, TallyType
<1>3. /\ Tally(g, S \ {x}) \in Nat /\ Tally(f, S \ {x}) \in Nat
      /\ Tally(g, S \ {x}) <= Tally(f, S \ {x})
  BY <1>1, TallyGrows
<1>4. Tally(g, S \cup {x}) = Tally(g, S \ {x}) + g[x]
  <2>1. (S \cup {x}) \ {x} = S \ {x}
    OBVIOUS
  <2>2. Tally(g, S \cup {x}) = Tally(g, (S \cup {x}) \ {x}) + g[x]
    BY <1>1, TallySplit
  <2> QED
    BY <2>1, <2>2
<1>5. g[x] \in Nat
  OBVIOUS
<1>6. CASE x \in S
  <2>1. Tally(f, S) = Tally(f, S \ {x}) + f[x] /\ f[x] \in Nat
    BY <1>6, TallySplit
  <2> DEFINE a == Tally(f, S \ {x})
             b == Tally(g, S \ {x})
             c == Tally(g, S \cup {x})
             d == Tally(f, S)
  <2>2. /\ a \in Nat /\ b \in Nat /\ c \in Nat /\ d \in Nat /\ b <= a
        /\ c = b + g[x] /\ d = a + f[x] /\ f[x] \in Nat
    BY <1>2, <1>3, <1>4, <2>1
  <2> HIDE DEF a, b, c, d
  <2>3. c <= d + g[x] /\ c + f[x] <= d + g[x]
    BY <1>5, <2>2
  <2> QED
    BY <1>2, <2>3 DEF c, d
<1>7. CASE x \notin S
  <2>1. Tally(f, S \ {x}) = Tally(f, S)
    <3>1. S \ {x} = S
      BY <1>7
    <3> QED
      BY <3>1
  <2> DEFINE b == Tally(g, S \ {x})
             c == Tally(g, S \cup {x})
             d == Tally(f, S)
  <2>2. /\ b \in Nat /\ c \in Nat /\ d \in Nat /\ b <= d /\ c = b + g[x]
    BY <1>2, <1>3, <1>4, <2>1
  <2> HIDE DEF b, c, d
  <2>3. c <= d + g[x]
    BY <1>5, <2>2
  <2> QED
    BY <1>2, <1>7, <2>3 DEF c, d
<1> QED
  BY <1>6, <1>7

\* Equal parts add up to a product.
LEMMA TallyConstant ==
    ASSUME NEW S, IsFiniteSet(S), NEW f, NEW n \in Nat, \A x \in S : f[x] = n
    PROVE  Tally(f, S) = Cardinality(S) * n
<1>1. Units(f, S) = S \X (1 .. n)
  BY DEF Units
<1>2. IsFiniteSet(1 .. n) /\ Cardinality(1 .. n) = n
  BY FS_Interval
<1>3. Cardinality(S \X (1 .. n)) = Cardinality(S) * Cardinality(1 .. n)
  BY <1>2, FS_Product, Zenon
<1> QED
  BY <1>1, <1>2, <1>3 DEF Tally

-----------------------------------------------------------------------------
(* Truncating division and shares.                                         *)

\* The quotient of naturals is their exact ratio rounded down.
LEMMA DivBounds ==
    ASSUME NEW a \in Nat, NEW b \in Nat \ {0}
    PROVE  /\ a \div b \in Nat
           /\ b * (a \div b) <= a
           /\ a < b * (a \div b) + b
BY SMT

\* Division undoes multiplication.
LEMMA DivCancel ==
    ASSUME NEW a \in Nat, NEW b \in Nat \ {0}
    PROVE  (a * b) \div b = a
<1> DEFINE q == (a * b) \div b
<1>1. a * b \in Nat
  OBVIOUS
<1>2. q \in Nat /\ b * q <= a * b /\ a * b < b * q + b
  BY <1>1, DivBounds
<1> HIDE DEF q
<1>3. q <= a
  BY <1>2, SMT
<1>4. a <= q
  BY <1>2, SMT
<1>5. q = a
  BY <1>2, <1>3, <1>4
<1> QED
  BY <1>5 DEF q

\* Minting at the pool's price: the price of a share does not fall, and a pool
\* with at least one token per share stays that way.
LEMMA MintKeepsPrice ==
    ASSUME NEW a \in Nat, NEW T \in Nat, NEW S \in Nat,
           S <= T, S = 0 => T = 0
    PROVE  LET m == SharesForAmount(a, T, S)
           IN  /\ m \in Nat
               /\ S + m <= T + a
               /\ T * (S + m) <= (T + a) * S \/ S = 0
<1>1. CASE S = 0
  BY <1>1 DEF SharesForAmount
<1>2. CASE S # 0
  <2> DEFINE m == (a * S) \div T
  <2>1. a * S \in Nat /\ T \in Nat \ {0}
    BY <1>2
  <2>2. m \in Nat /\ T * m <= a * S
    BY <2>1, DivBounds
  <2>3. T * (S + m) <= (T + a) * S
    BY <2>2
  <2>4. a * S <= a * T
    BY SMT
  <2>5. m <= a
    BY <2>1, <2>2, <2>4, SMT
  <2> QED
    BY <1>2, <2>2, <2>3, <2>5 DEF SharesForAmount
<1> QED
  BY <1>1, <1>2

\* Burning at the pool's price: the payout is covered, the price of the shares
\* that stay does not fall, and the last share takes the last token.
LEMMA BurnKeepsPrice ==
    ASSUME NEW s \in Nat, NEW T \in Nat, NEW S \in Nat \ {0}, s <= S, S <= T
    PROVE  LET out == AmountForShares(s, T, S)
           IN  /\ out \in Nat
               /\ out <= T
               /\ S - s <= T - out
               /\ s = S => out = T
               /\ T * (S - s) <= (T - out) * S
<1> DEFINE out == (s * T) \div S
<1>1. s * T \in Nat
  OBVIOUS
<1>2. out \in Nat /\ S * out <= s * T /\ s * T < S * out + S
  BY <1>1, DivBounds
<1>3. T * (S - s) <= (T - out) * S
  BY <1>2
<1>4. s * T <= S * T
  BY SMT
<1>5. out <= T
  BY <1>2, <1>4, SMT
<1>6. S * (S - s) <= T * (S - s)
  BY SMT
<1>7. S - s <= T - out
  BY <1>2, <1>3, <1>5, <1>6, SMT
<1>8. s = S => out = T
  BY <1>2, <1>5, SMT
<1> QED
  BY <1>2, <1>3, <1>5, <1>7, <1>8 DEF AmountForShares

\* What a deposit mints is worth no more than the deposit, by less than a share.
LEMMA MintIsFair ==
    ASSUME NEW a \in Nat, NEW T \in Nat, NEW S \in Nat, S # 0 => T # 0
    PROVE  LET m == SharesForAmount(a, T, S)
           IN  /\ m \in Nat
               /\ S = 0 => m = a
               /\ S # 0 => m * T <= a * S /\ a * S < (m + 1) * T
<1>1. CASE S = 0
  BY <1>1 DEF SharesForAmount
<1>2. CASE S # 0
  <2> DEFINE m == (a * S) \div T
  <2>1. a * S \in Nat /\ T \in Nat \ {0}
    BY <1>2
  <2>2. m \in Nat /\ T * m <= a * S /\ a * S < T * m + T
    BY <2>1, DivBounds
  <2> HIDE DEF m
  <2>3. T * m = m * T /\ T * m + T = (m + 1) * T
    BY <2>2, SMT
  <2>4. m = SharesForAmount(a, T, S)
    BY <1>2 DEF m, SharesForAmount
  <2> QED
    BY <1>2, <2>2, <2>3, <2>4
<1> QED
  BY <1>1, <1>2

\* What a redemption pays is worth no more than its shares, by less than a token.
LEMMA BurnIsFair ==
    ASSUME NEW s \in Nat, NEW T \in Nat, NEW S \in Nat \ {0}
    PROVE  LET out == AmountForShares(s, T, S)
           IN  out * S <= s * T /\ s * T < (out + 1) * S
<1> DEFINE out == (s * T) \div S
<1>1. s * T \in Nat
  OBVIOUS
<1>2. out \in Nat /\ S * out <= s * T /\ s * T < S * out + S
  BY <1>1, DivBounds
<1> HIDE DEF out
<1>3. S * out = out * S /\ S * out + S = (out + 1) * S
  BY <1>2, SMT
<1>4. out = AmountForShares(s, T, S)
  BY DEF out, AmountForShares
<1> QED
  BY <1>2, <1>3, <1>4

\* What a deposit has just minted cannot be redeemed for more than the deposit.
LEMMA RoundTripBounded ==
    ASSUME NEW a \in Nat, NEW T \in Nat, NEW S \in Nat, S = 0 <=> T = 0,
           SharesForAmount(a, T, S) > 0
    PROVE  LET m == SharesForAmount(a, T, S)
           IN  AmountForShares(m, T + a, S + m) <= a
<1> DEFINE m == SharesForAmount(a, T, S)
           out == (m * (T + a)) \div (S + m)
<1>1. m \in Nat /\ m > 0 /\ m * T <= a * S
  <2>1. m \in Nat /\ m > 0 /\ (S # 0 => m * T <= a * S)
    BY MintIsFair
  <2> HIDE DEF m
  <2>2. CASE S = 0
    BY <2>1, <2>2
  <2>3. CASE S # 0
    BY <2>1, <2>3
  <2> QED
    BY <2>1, <2>2, <2>3
<1> HIDE DEF m
<1>2. m * (T + a) \in Nat /\ S + m \in Nat \ {0}
  BY <1>1
<1>3. out \in Nat /\ (S + m) * out <= m * (T + a)
  BY <1>2, DivBounds
<1> HIDE DEF out
<1>4. m * (T + a) <= (S + m) * a
  BY <1>1, SMT
<1>5. (S + m) * out <= (S + m) * a
  BY <1>1, <1>2, <1>3, <1>4, SMT
<1>6. out <= a
  BY <1>2, <1>3, <1>5, SMT
<1> QED
  BY <1>6 DEF m, out, AmountForShares

\* A holding is worth no less, after truncation, at a price that is no lower.
LEMMA WorthGrows ==
    ASSUME NEW h \in Nat, NEW T \in Nat, NEW S \in Nat \ {0},
           NEW U \in Nat, NEW R \in Nat \ {0}, T * R <= U * S
    PROVE  AmountForShares(h, T, S) <= AmountForShares(h, U, R)
<1> DEFINE before == (h * T) \div S
           after  == (h * U) \div R
<1>1. h * T \in Nat /\ h * U \in Nat
  OBVIOUS
<1>2. before \in Nat /\ S * before <= h * T
  BY <1>1, DivBounds
<1>3. after \in Nat /\ h * U < R * (after + 1)
  BY <1>1, DivBounds
<1> HIDE DEF before, after
<1>4. R * (S * before) <= R * (h * T) /\ R * (h * T) <= S * (h * U)
  BY <1>1, <1>2, SMT
<1>5. S * (h * U) < S * (R * (after + 1))
  BY <1>1, <1>3, SMT
<1>6. (R * S) * before < (R * S) * (after + 1)
  BY <1>2, <1>3, <1>4, <1>5, SMT
<1>7. before < after + 1
  BY <1>2, <1>3, <1>6, SMT
<1> QED
  BY <1>2, <1>3, <1>7 DEF before, after, AmountForShares

\* The two truncated worths of a holding, before and after n tokens come into
\* the pool, differ by at most n.
LEMMA RewardShareBounded ==
    ASSUME NEW h \in Nat, NEW T \in Nat, NEW n \in Nat, NEW S \in Nat \ {0},
           h <= S
    PROVE  LET owed == AmountForShares(h, T + n, S) - AmountForShares(h, T, S)
           IN  owed \in Int /\ owed <= n
<1> DEFINE after  == (h * (T + n)) \div S
           before == (h * T) \div S
<1>1. h * (T + n) \in Nat /\ h * T \in Nat
  OBVIOUS
<1>2. after \in Nat /\ S * after <= h * (T + n)
  BY <1>1, DivBounds
<1>3. before \in Nat /\ h * T < S * before + S
  BY <1>1, DivBounds
<1>4. h * n <= S * n
  BY SMT
<1>5. S * after < S * before + S + S * n
  BY <1>2, <1>3, <1>4, SMT
<1>6. after < before + 1 + n
  BY <1>2, <1>3, <1>5, SMT
<1> QED
  BY <1>2, <1>3, <1>6 DEF AmountForShares
=============================================================================
