-------------------------- MODULE Arithmetic_proofs -------------------------
(***************************************************************************)
(* Facts about the arithmetic of ShareMath, for all numbers, and about the *)
(* sums over finite sets of Sums: what the proofs about sessions and about *)
(* the ledger have in common.                                              *)
(***************************************************************************)
EXTENDS ShareMath, Sums, FiniteSetTheorems, WellFoundedInduction, TLAPS

-----------------------------------------------------------------------------
(* Shares *)

\* What integer division is.
LEMMA Division ==
    ASSUME NEW n \in Nat, NEW d \in Nat \ {0}
    PROVE  /\ n \div d \in Nat
           /\ d * (n \div d) <= n
           /\ n < d * (n \div d) + d
  BY SMT

\* A larger amount buys no fewer shares.
LEMMA DivisionMonotone ==
    ASSUME NEW m \in Nat, NEW n \in Nat, NEW d \in Nat \ {0}, m <= n
    PROVE  m \div d <= n \div d
<1> DEFINE p == m \div d
           q == n \div d
<1>1. p \in Nat /\ q \in Nat /\ d * p <= m /\ n < d * q + d
  BY Division
<1> HIDE DEF p, q
<1>2. SUFFICES ASSUME p >= q + 1 PROVE FALSE
  BY <1>1 DEF p, q
<1>3. d * p >= d * (q + 1)
  BY <1>1, <1>2
<1>4. d * (q + 1) = d * q + d
  BY <1>1
<1>5. QED
  BY <1>1, <1>3, <1>4

\* A share of b in d is no more than the whole.
LEMMA ProRataBounded ==
    ASSUME NEW x \in Nat, NEW b \in Nat, NEW d \in Nat \ {0}, b <= d
    PROVE  (x * b) \div d \in 0..x
<1>1. x * b \in Nat /\ x * d \in Nat /\ x * b <= x * d
  BY SMT
<1>2. (x * b) \div d \in Nat /\ (x * b) \div d <= (x * d) \div d
  BY <1>1, Division, DivisionMonotone
<1>3. (x * d) \div d = x
  BY SMT
<1>4. QED
  BY <1>2, <1>3

\* A saturating subtraction of naturals is a natural, and only lowers.
LEMMA SaturatingSubIsNat ==
    \A a, b \in Nat : SaturatingSub(a, b) \in Nat /\ SaturatingSub(a, b) <= a
  BY DEF SaturatingSub

\* Reservations and mints are natural numbers, for every price.
LEMMA PhantomType ==
    ASSUME NEW amount \in Nat, NEW mark \in [tsb: Nat, tvl: Nat]
    PROVE  Phantom(amount, mark) \in Nat
<1>1. CASE mark.tvl = 0
  BY <1>1 DEF Phantom
<1>2. CASE mark.tvl # 0
  <2>1. amount * mark.tsb \in Nat /\ mark.tvl \in Nat \ {0}
    BY <1>2
  <2>2. (amount * mark.tsb) \div mark.tvl \in Nat
    BY <2>1, Division
  <2>3. QED
    BY <1>2, <2>2 DEF Phantom
<1>3. QED
  BY <1>1, <1>2

\* The shares of a deposit, its investor's and the dead ones, are natural numbers.
LEMMA MintedType ==
    ASSUME NEW amount \in Nat, NEW valueIn \in Nat, NEW mark \in [tsb: Nat, tvl: Nat]
    PROVE  /\ ToInvestor(amount, mark, valueIn) \in Nat
           /\ DeadShares(mark) \in Nat
           /\ Minted(amount, mark, valueIn) \in Nat
<1>1. DeadShares(mark) \in Nat
  BY DeadSharesAssumption DEF DeadShares
<1>2. ToInvestor(amount, mark, valueIn) \in Nat
  <2>1. CASE Bootstraps(mark)
    BY <2>1, SaturatingSubIsNat, DeadSharesAssumption DEF ToInvestor
  <2>2. CASE ~Bootstraps(mark)
    <3>1. mark.tvl \in Nat \ {0} /\ amount * mark.tsb \in Nat /\ valueIn * mark.tsb \in Nat
      BY <2>2 DEF Bootstraps
    <3>2. /\ (amount * mark.tsb) \div mark.tvl \in Nat
          /\ (valueIn * mark.tsb) \div mark.tvl \in Nat
      BY <3>1, Division
    <3>3. QED
      BY <2>2, <3>2 DEF ToInvestor
  <2>3. QED
    BY <2>1, <2>2
<1>3. QED
  BY <1>1, <1>2 DEF Minted

\* phantom_shares bounds the shares of every value that may arrive, except for dust in a
\* vault valued at zero.
LEMMA PhantomCovers ==
    ASSUME NEW amount \in Nat, NEW mark \in [tsb: Nat, tvl: Nat], mark.tsb > 0,
           mark.tvl > 0 \/ amount >= MinInitialShares, NEW valueIn \in 0..amount
    PROVE  Minted(amount, mark, valueIn) <= Phantom(amount, mark)
<1>1. mark.tsb \in Nat /\ mark.tvl \in Nat /\ valueIn \in Nat /\ valueIn <= amount
  OBVIOUS
<1>2. CASE mark.tvl = 0
  BY <1>1, <1>2, DeadSharesAssumption
  DEF Minted, ToInvestor, DeadShares, Bootstraps, SaturatingSub, Phantom
<1>3. CASE mark.tvl > 0
  <2>1. /\ valueIn * mark.tsb \in Nat /\ amount * mark.tsb \in Nat
        /\ valueIn * mark.tsb <= amount * mark.tsb
    BY <1>1
  <2>2. /\ (valueIn * mark.tsb) \div mark.tvl <= (amount * mark.tsb) \div mark.tvl
        /\ (valueIn * mark.tsb) \div mark.tvl \in Nat
        /\ (amount * mark.tsb) \div mark.tvl \in Nat
    BY <1>1, <1>3, <2>1, Division, DivisionMonotone
  <2>3. /\ DeadShares(mark) = 0
        /\ ToInvestor(amount, mark, valueIn) \in {(valueIn * mark.tsb) \div mark.tvl,
                                                  (amount * mark.tsb) \div mark.tvl}
    BY <1>1, <1>3 DEF DeadShares, ToInvestor, Bootstraps
  <2>4. Phantom(amount, mark) = (amount * mark.tsb) \div mark.tvl
    BY <1>1, <1>3 DEF Phantom
  <2>5. QED
    BY <2>2, <2>3, <2>4 DEF Minted
<1>4. QED
  BY <1>1, <1>2, <1>3

\* A deposit that buys a whole share at least is minted no more than its value's worth.
LEMMA MintAtPrice ==
    ASSUME NEW amount \in Nat, NEW mark \in [tsb: Nat, tvl: Nat], NEW valueIn \in Nat,
           mark.tsb > 0, mark.tvl > 0, valueIn * mark.tsb >= mark.tvl
    PROVE  mark.tvl * Minted(amount, mark, valueIn) <= valueIn * mark.tsb
<1>1. mark.tsb \in Nat /\ mark.tvl \in Nat \ {0} /\ valueIn * mark.tsb \in Nat
  OBVIOUS
<1> DEFINE q == (valueIn * mark.tsb) \div mark.tvl
<1>2. /\ q \in Nat /\ mark.tvl * q <= valueIn * mark.tsb
      /\ valueIn * mark.tsb < mark.tvl * q + mark.tvl
  BY <1>1, Division
<1>3. DeadShares(mark) = 0 /\ (q # 0 => ToInvestor(amount, mark, valueIn) = q)
  BY <1>1 DEF DeadShares, ToInvestor, Bootstraps
<1> HIDE DEF q
<1>4. q # 0
  BY <1>1, <1>2
<1>5. Minted(amount, mark, valueIn) = q
  BY <1>2, <1>3, <1>4 DEF Minted
<1>6. QED
  BY <1>2, <1>5

-----------------------------------------------------------------------------
(* Sums.  The induction they need is over the subsets of a finite set and is *)
(* put in terms of sets only: a set Good of subsets that contains T whenever *)
(* it contains all that is properly inside T contains them all.              *)

\* A subset that is not good would have a smallest one inside that is not.
LEMMA SubsetInduction ==
    ASSUME NEW S, IsFiniteSet(S), NEW Good,
           \A T \in SUBSET S :
               (\A U \in SUBSET T : U # T => U \in Good) => T \in Good
    PROVE  SUBSET S \subseteq Good
<1> DEFINE Bad == (SUBSET S) \ Good
           R == StrictSubsetOrdering(S)
<1>1. IsWellFoundedOn(R, SUBSET S)
  BY FS_StrictSubsetOrderingWellFounded, FS_FiniteSubsetsOfFinite
<1>2. ASSUME Bad # {} PROVE FALSE
  <2>1. PICK T \in Bad : \A U \in Bad : <<U, T>> \notin R
    <3>1. Bad \subseteq SUBSET S
      OBVIOUS
    <3> HIDE DEF Bad, R
    <3>2. QED
      BY <1>1, <1>2, <3>1, WFMin
  <2>2. \A U \in SUBSET T : U # T => U \in Good
    BY <2>1 DEF StrictSubsetOrdering
  <2>3. QED
    BY <2>1, <2>2
<1>3. QED
  BY <1>2

-----------------------------------------------------------------------------
(* The recursion a sum is computed by *)

Some(s) == CHOOSE y \in s : TRUE

\* g sums f over each subset of S.
Sums(g, f, S) ==
    g = [s \in SUBSET S |-> IF s = {} THEN 0 ELSE f[Some(s)] + g[s \ {Some(s)}]]

\* The sum over S is the last value of some such g.
LEMMA SumIsLast ==
    ASSUME NEW f, NEW S
    PROVE  SumOver(f, S) = (CHOOSE g : Sums(g, f, S))[S]
  BY DEF SumOver, Fold!MapThenSumSet, Fold!MapThenFoldSet, Sums, Some

LEMMA SumsAt ==
    ASSUME NEW f, NEW S, NEW g, Sums(g, f, S), NEW s \in SUBSET S
    PROVE  g[s] = IF s = {} THEN 0 ELSE f[Some(s)] + g[s \ {Some(s)}]
  BY DEF Sums

LEMMA SomeIsIn ==
    ASSUME NEW s, s # {}
    PROVE  Some(s) \in s
  BY DEF Some

\* Two of them agree wherever both are defined.
LEMMA SumsAgree ==
    ASSUME NEW f, NEW S, NEW T, IsFiniteSet(S),
           NEW g, Sums(g, f, S), NEW h, Sums(h, f, T)
    PROVE  \A s \in SUBSET S : s \subseteq T => g[s] = h[s]
<1> DEFINE Good == {s \in SUBSET S : s \subseteq T => g[s] = h[s]}
<1>1. ASSUME NEW s \in SUBSET S, \A u \in SUBSET s : u # s => u \in Good PROVE s \in Good
  <2>1. CASE s = {} \/ ~(s \subseteq T)
    BY <2>1, SumsAt
  <2>2. CASE s # {} /\ s \subseteq T
    <3>1. s \ {Some(s)} \in SUBSET s /\ s \ {Some(s)} # s
      BY <2>2, SomeIsIn
    <3>2. g[s \ {Some(s)}] = h[s \ {Some(s)}]
      BY <1>1, <2>2, <3>1
    <3>3. QED
      BY <2>2, <3>2, SumsAt
  <2>3. QED
    BY <2>1, <2>2
<1> HIDE DEF Good
<1>2. SUBSET S \subseteq Good
  BY <1>1, SubsetInduction
<1>3. QED
  BY <1>2 DEF Good

\* And there is one.
LEMMA SumsExist ==
    ASSUME NEW f, NEW S, IsFiniteSet(S)
    PROVE  \E g : Sums(g, f, S)
<1> DEFINE Good == {T \in SUBSET S : \E g : Sums(g, f, T)}
<1>1. ASSUME NEW T \in SUBSET S, \A U \in SUBSET T : U # T => U \in Good PROVE T \in Good
  <2> DEFINE x == Some(T)
             g == [s \in SUBSET T |-> IF s = {} THEN 0
                                      ELSE IF s = T THEN f[x] + SumOver(f, T \ {x})
                                      ELSE SumOver(f, s)]
  <2>1. \A U \in SUBSET T : U # T => Sums(CHOOSE h : Sums(h, f, U), f, U)
    BY <1>1
  <2>2. ASSUME NEW U \in SUBSET T, U # T, U # {}
        PROVE  SumOver(f, U) = f[Some(U)] + SumOver(f, U \ {Some(U)})
    <3> DEFINE V == U \ {Some(U)}
               gU == CHOOSE h : Sums(h, f, U)
               gV == CHOOSE h : Sums(h, f, V)
    <3>1. V \in SUBSET T /\ V # T /\ V \in SUBSET U
      BY <2>2
    <3>2. Sums(gU, f, U) /\ Sums(gV, f, V)
      BY <2>1, <2>2, <3>1
    <3>3. IsFiniteSet(U)
      BY <1>1, <2>2, FS_Subset
    <3> HIDE DEF gU, gV
    <3>4. gU[V] = gV[V]
      BY <3>1, <3>2, <3>3, SumsAgree
    <3>5. gU[U] = f[Some(U)] + gU[V]
      BY <2>2, <3>2, SumsAt
    <3>6. QED
      BY <3>4, <3>5, SumIsLast DEF gU, gV
  <2>3. SumOver(f, {}) = 0 \/ T = {}
    BY <2>1, SumIsLast, SumsAt
  <2>4. ASSUME NEW s \in SUBSET T
        PROVE  g[s] = IF s = {} THEN 0 ELSE f[Some(s)] + g[s \ {Some(s)}]
    <3>1. CASE s = {}
      BY <3>1
    <3>2. CASE s # {}
      <4> DEFINE r == s \ {Some(s)}
      <4>1. r \in SUBSET T /\ r # T
        BY <3>2, SomeIsIn
      <4>2. g[r] = SumOver(f, r)
        BY <2>3, <3>2, <4>1
      <4>3. CASE s = T
        BY <3>2, <4>2, <4>3
      <4>4. CASE s # T
        BY <2>2, <3>2, <4>2, <4>4
      <4>5. QED
        BY <4>3, <4>4
    <3>3. QED
      BY <3>1, <3>2
  <2>5. Sums(g, f, T)
    BY <2>4 DEF Sums
  <2>6. QED
    BY <2>5
<1> HIDE DEF Good
<1>2. SUBSET S \subseteq Good
  BY <1>1, SubsetInduction
<1>3. QED
  BY <1>2 DEF Good
\* So the sum obeys the recursion.
LEMMA SumRecursion ==
    ASSUME NEW f, NEW S, IsFiniteSet(S)
    PROVE  SumOver(f, S) = IF S = {} THEN 0
                           ELSE f[Some(S)] + SumOver(f, S \ {Some(S)})
<1> DEFINE V == S \ {Some(S)}
           gS == CHOOSE g : Sums(g, f, S)
           gV == CHOOSE g : Sums(g, f, V)
<1>1. IsFiniteSet(V) /\ V \in SUBSET S
  BY FS_Subset
<1>2. Sums(gS, f, S) /\ Sums(gV, f, V)
  BY <1>1, SumsExist
<1>3. SumOver(f, S) = gS[S] /\ SumOver(f, V) = gV[V]
  BY SumIsLast
<1> HIDE DEF gS, gV
<1>4. gS[V] = gV[V]
  BY <1>1, <1>2, SumsAgree
<1>5. gS[S] = IF S = {} THEN 0 ELSE f[Some(S)] + gS[V]
  BY <1>2, SumsAt
<1>6. QED
  BY <1>3, <1>4, <1>5

-----------------------------------------------------------------------------
(* What sums are used for *)

\* A sum of numbers is a number.
LEMMA SumIsNat ==
    ASSUME NEW f, NEW S, IsFiniteSet(S), \A x \in S : f[x] \in Nat
    PROVE  SumOver(f, S) \in Nat
<1> DEFINE Good == {T \in SUBSET S : SumOver(f, T) \in Nat}
<1>1. ASSUME NEW T \in SUBSET S, \A U \in SUBSET T : U # T => U \in Good PROVE T \in Good
  <2>1. IsFiniteSet(T)
    BY FS_Subset
  <2>2. CASE T = {}
    <3>1. SumOver(f, T) = 0
      BY <2>1, <2>2, SumRecursion
    <3>2. QED
      BY <3>1
  <2>3. CASE T # {}
    <3> DEFINE V == T \ {Some(T)}
    <3>1. Some(T) \in T
      BY <2>3, SomeIsIn
    <3>2. SumOver(f, V) \in Nat
      BY <1>1, <3>1
    <3>3. SumOver(f, T) = f[Some(T)] + SumOver(f, V)
      BY <2>1, <2>3, SumRecursion
    <3>4. QED
      BY <3>1, <3>2, <3>3
  <2>4. QED
    BY <2>2, <2>3
<1> HIDE DEF Good
<1>2. SUBSET S \subseteq Good
  BY <1>1, SubsetInduction
<1>3. QED
  BY <1>2 DEF Good

\* Any account can be taken out of the sum, not only the one the recursion picks.
LEMMA SumWithout ==
    ASSUME NEW f, NEW S, IsFiniteSet(S), \A x \in S : f[x] \in Nat, NEW x \in S
    PROVE  SumOver(f, S) = f[x] + SumOver(f, S \ {x})
<1> DEFINE Good == {T \in SUBSET S : \A y \in T : SumOver(f, T) = f[y] + SumOver(f, T \ {y})}
<1>1. ASSUME NEW T \in SUBSET S, \A U \in SUBSET T : U # T => U \in Good PROVE T \in Good
  <2> SUFFICES ASSUME NEW y \in T PROVE SumOver(f, T) = f[y] + SumOver(f, T \ {y})
    OBVIOUS
  <2> DEFINE c == Some(T)
  <2>1. IsFiniteSet(T) /\ IsFiniteSet(T \ {y}) /\ IsFiniteSet((T \ {y}) \ {c})
    BY FS_Subset
  <2>2. c \in T
    BY SomeIsIn
  <2>3. SumOver(f, T) = f[c] + SumOver(f, T \ {c})
    BY <2>1, SumRecursion
  <2>4. CASE y = c
    BY <2>3, <2>4
  <2>5. CASE y # c
    <3>1. (T \ {c}) \ {y} = (T \ {y}) \ {c}
      OBVIOUS
    <3>2. SumOver(f, T \ {c}) = f[y] + SumOver(f, (T \ {c}) \ {y})
      <4>1. T \ {c} \in SUBSET T /\ T \ {c} # T /\ y \in T \ {c}
        BY <2>2, <2>5
      <4>2. QED
        BY <1>1, <4>1
    <3>3. SumOver(f, T \ {y}) = f[c] + SumOver(f, (T \ {y}) \ {c})
      <4>1. T \ {y} \in SUBSET T /\ T \ {y} # T /\ c \in T \ {y}
        BY <2>2, <2>5
      <4>2. QED
        BY <1>1, <4>1
    <3>4. SumOver(f, (T \ {y}) \ {c}) \in Nat /\ f[y] \in Nat /\ f[c] \in Nat
      BY <2>1, <2>2, SumIsNat
    <3>5. QED
      BY <2>3, <3>1, <3>2, <3>3, <3>4
  <2>6. QED
    BY <2>4, <2>5
<1> HIDE DEF Good
<1>2. SUBSET S \subseteq Good
  BY <1>1, SubsetInduction
<1>3. QED
  BY <1>2 DEF Good

\* No account has more than the sum.
LEMMA SumBounds ==
    ASSUME NEW f, NEW S, IsFiniteSet(S), \A x \in S : f[x] \in Nat, NEW x \in S
    PROVE  f[x] <= SumOver(f, S)
<1>1. IsFiniteSet(S \ {x})
  BY FS_Subset
<1>2. SumOver(f, S \ {x}) \in Nat
  BY <1>1, SumIsNat
<1>3. QED
  BY <1>2, SumWithout

\* The sum depends on the accounts summed alone.
LEMMA SumCongruent ==
    ASSUME NEW f, NEW g, NEW S, IsFiniteSet(S), \A x \in S : f[x] = g[x]
    PROVE  SumOver(f, S) = SumOver(g, S)
<1> DEFINE Good == {T \in SUBSET S : SumOver(f, T) = SumOver(g, T)}
<1>1. ASSUME NEW T \in SUBSET S, \A U \in SUBSET T : U # T => U \in Good PROVE T \in Good
  <2>1. IsFiniteSet(T)
    BY FS_Subset
  <2>2. CASE T = {}
    BY <2>1, <2>2, SumRecursion
  <2>3. CASE T # {}
    <3> DEFINE V == T \ {Some(T)}
    <3>1. Some(T) \in T
      BY <2>3, SomeIsIn
    <3>2. SumOver(f, V) = SumOver(g, V) /\ f[Some(T)] = g[Some(T)]
      BY <1>1, <3>1
    <3>3. QED
      BY <2>1, <2>3, <3>2, SumRecursion
  <2>4. QED
    BY <2>2, <2>3
<1> HIDE DEF Good
<1>2. SUBSET S \subseteq Good
  BY <1>1, SubsetInduction
<1>3. QED
  BY <1>2 DEF Good

\* A change of one account changes the sum by as much.
LEMMA SumChange ==
    ASSUME NEW f, NEW g, NEW S, IsFiniteSet(S), NEW i \in S,
           \A x \in S : f[x] \in Nat /\ g[x] \in Nat,
           \A x \in S \ {i} : f[x] = g[x]
    PROVE  /\ SumOver(f, S) \in Nat
           /\ SumOver(g, S) \in Nat
           /\ SumOver(g, S) + f[i] = SumOver(f, S) + g[i]
<1>1. IsFiniteSet(S \ {i})
  BY FS_Subset
<1>2. SumOver(f, S \ {i}) = SumOver(g, S \ {i}) /\ SumOver(f, S \ {i}) \in Nat
  BY <1>1, SumIsNat, SumCongruent
<1>3. SumOver(f, S) = f[i] + SumOver(f, S \ {i}) /\ SumOver(g, S) = g[i] + SumOver(g, S \ {i})
  BY SumWithout
<1>4. QED
  BY <1>2, <1>3

\* Empty accounts add up to nothing.
LEMMA SumOfZeroes ==
    ASSUME NEW f, NEW S, IsFiniteSet(S), \A x \in S : f[x] = 0
    PROVE  SumOver(f, S) = 0
<1> DEFINE Good == {T \in SUBSET S : SumOver(f, T) = 0}
<1>1. ASSUME NEW T \in SUBSET S, \A U \in SUBSET T : U # T => U \in Good PROVE T \in Good
  <2>1. IsFiniteSet(T)
    BY FS_Subset
  <2>2. T # {} => Some(T) \in T
    BY SomeIsIn
  <2>3. T # {} => SumOver(f, T \ {Some(T)}) = 0 /\ f[Some(T)] = 0
    BY <1>1, <2>2
  <2>4. QED
    BY <2>1, <2>3, SumRecursion
<1> HIDE DEF Good
<1>2. SUBSET S \subseteq Good
  BY <1>1, SubsetInduction
<1>3. QED
  BY <1>2 DEF Good
=============================================================================
