---------------------------- MODULE BooksProofs ----------------------------
(***************************************************************************)
(* The books against the tokens: the market's total is the sum of the      *)
(* users' shares, no token is made or lost, and the protocol implements    *)
(* the ledger of claims.  Every action is first reduced to what it does to *)
(* the books (one of the moves below); the sums follow from the moves.     *)
(***************************************************************************)
EXTENDS LumenLendProofs, Functions, FiniteSetTheorems

----------------------------------------------------------------------------
(***************************************************************************)
(* Sums.  SumFunction, which adds up what the users hold, is a number,     *)
(* grows with its terms, and changes by as much as one term does.          *)
(*                                                                         *)
(* It is defined by recursion over the domain, so these facts need         *)
(* induction.  The provers cannot instantiate an operator parameter, which *)
(* the library's induction theorems have; they can instantiate a set.      *)
(* Every induction below is therefore about the SET of the numbers (or     *)
(* subsets of the domain) of which the claim is true, and rests on one     *)
(* fact: a set of naturals that is not empty has a least member, which is  *)
(* WFMin for the relation "less than".                                     *)
(***************************************************************************)
\* The element a recursion over the set s takes first.
Element(s) == CHOOSE x \in s : TRUE

\* One unfolding of the recursion that MapThenFoldSet is defined by.
SumStep(f, g) ==
    [s \in SUBSET DOMAIN f |->
       IF s = {} THEN 0 ELSE f[Element(s)] + g[s \ {Element(s)}]]

\* The sums over all subsets of the domain.
PartialSums(f) == CHOOSE g : g = SumStep(f, g)

\* A set of naturals that is not empty has a least member.
LEMMA LeastNumber ==
    ASSUME NEW T, T \subseteq Nat, T # {}
    PROVE  \E n \in T : \A k \in T : n <= k
<1> DEFINE R == {p \in Nat \X Nat : p[1] < p[2]}
<1>1. IsWellFoundedOn(R, Nat)
  BY NatLessThanWellFounded DEF OpToRel
<1>2. PICK n \in T : \A k \in T : ~(<<k, n>> \in R)
  <2> HIDE DEF R
  <2> QED
    BY <1>1, WFMin
<1>3. \A k \in T : ~(k < n)
  BY <1>2
<1> QED
  BY <1>3

\* Induction over the naturals, as a fact about a set.
LEMMA NumberInduction ==
    ASSUME NEW S, 0 \in S, \A n \in Nat : n \in S => n + 1 \in S
    PROVE  Nat \subseteq S
<1> SUFFICES ASSUME Nat \ S # {} PROVE FALSE
  OBVIOUS
<1>1. PICK n \in Nat \ S : \A k \in Nat \ S : n <= k
  BY LeastNumber
<1> QED
  BY <1>1

\* SumFunction is the partial sum over the whole domain.
LEMMA SumIsPartial ==
    ASSUME NEW f
    PROVE  SumFunction(f) = PartialSums(f)[DOMAIN f]
BY DEF SumFunction, SumFunctionOnSet, FoldFunctionOnSet, MapThenFoldSet,
   PartialSums, SumStep, Element

\* The element chosen of a set is in it.
LEMMA ElementIn ==
    ASSUME NEW s, s # {}
    PROVE  Element(s) \in s
BY DEF Element

\* Induction over the subsets of a finite set: what holds of the empty set and
\* of a set whenever it holds without the chosen element, holds of all.
LEMMA SubsetInduction ==
    ASSUME NEW S, IsFiniteSet(S), NEW P, {} \in P,
           \A s \in SUBSET S : s # {} /\ s \ {Element(s)} \in P => s \in P
    PROVE  SUBSET S \subseteq P
<1> DEFINE N == {n \in Nat : \A s \in SUBSET S : Cardinality(s) = n => s \in P}
<1>1. \A s \in SUBSET S : IsFiniteSet(s) /\ Cardinality(s) \in Nat
  BY FS_Subset, FS_CardinalityType
<1>2. 0 \in N
  BY <1>1, FS_EmptySet
<1>3. ASSUME NEW n \in Nat, n \in N PROVE n + 1 \in N
  <2>1. SUFFICES ASSUME NEW s \in SUBSET S, Cardinality(s) = n + 1
                 PROVE  s \in P
    OBVIOUS
  <2>2. s # {}
    BY <2>1, FS_EmptySet
  <2>3. Cardinality(s \ {Element(s)}) = n
    <3>1. IsFiniteSet(s) /\ Element(s) \in s
      BY <1>1, <2>2, ElementIn
    <3>2. Cardinality(s \ {Element(s)}) = Cardinality(s) - 1
      BY <3>1, FS_RemoveElement
    <3> QED
      BY <2>1, <3>2
  <2>4. s \ {Element(s)} \in P
    BY <1>3, <2>3
  <2> QED
    BY <2>2, <2>4
<1>4. Nat \subseteq N
  <2> HIDE DEF N
  <2> QED
    BY <1>2, <1>3, NumberInduction
<1> QED
  BY <1>1, <1>4

\* g satisfies the equation on the sets of at most n elements.
SumsUpTo(f, S, n, g) ==
    LET small == {s \in SUBSET S : Cardinality(s) <= n}
    IN  /\ g \in [small -> Int]
        /\ \A s \in small :
              g[s] = IF s = {} THEN 0 ELSE f[Element(s)] + g[s \ {Element(s)}]

\* The recursion has a solution on the sets of at most n elements, for all n.
LEMMA SumsExist ==
    ASSUME NEW S, IsFiniteSet(S), NEW f \in [S -> Int], NEW n \in Nat
    PROVE  \E g : SumsUpTo(f, S, n, g)
<1> DEFINE N == {k \in Nat : \E g : SumsUpTo(f, S, k, g)}
           small(k) == {s \in SUBSET S : Cardinality(s) <= k}
<1>1. \A s \in SUBSET S : IsFiniteSet(s) /\ Cardinality(s) \in Nat
  BY FS_Subset, FS_CardinalityType
<1>2. 0 \in N
  <2>1. \A s \in small(0) : s = {}
    BY <1>1, FS_EmptySet
  <2>2. SumsUpTo(f, S, 0, [s \in small(0) |-> 0])
    BY <2>1 DEF SumsUpTo
  <2> QED
    BY <2>2
<1>3. ASSUME NEW k \in Nat, k \in N PROVE k + 1 \in N
  <2>1. PICK g : SumsUpTo(f, S, k, g)
    BY <1>3
  <2> DEFINE next(s) == IF s = {} THEN 0 ELSE f[Element(s)] + g[s \ {Element(s)}]
             h == [s \in small(k + 1) |-> next(s)]
  <2>2. ASSUME NEW s \in small(k + 1), s # {}
        PROVE  Element(s) \in S /\ s \ {Element(s)} \in small(k)
    BY <1>1, <2>2, ElementIn, FS_RemoveElement
  <2>3. g \in [small(k) -> Int] /\ \A s \in small(k) : g[s] = next(s)
    BY <2>1 DEF SumsUpTo
  <2>4. h \in [small(k + 1) -> Int]
    BY <2>2, <2>3
  <2>5. \A s \in small(k) : s \in small(k + 1) /\ h[s] = g[s]
    BY <1>1, <2>3
  <2>6. \A s \in small(k + 1) :
          h[s] = IF s = {} THEN 0 ELSE f[Element(s)] + h[s \ {Element(s)}]
    BY <2>2, <2>5
  <2>7. SumsUpTo(f, S, k + 1, h)
    BY <2>4, <2>6 DEF SumsUpTo
  <2> QED
    BY <2>7
<1>4. Nat \subseteq N
  <2> HIDE DEF N
  <2> QED
    BY <1>2, <1>3, NumberInduction
<1> QED
  BY <1>4

\* So it has one on all subsets of a finite domain, and its values are numbers.
LEMMA PartialSumsDef ==
    ASSUME NEW S, IsFiniteSet(S), NEW f \in [S -> Int]
    PROVE  /\ PartialSums(f) = SumStep(f, PartialSums(f))
           /\ PartialSums(f) \in [SUBSET S -> Int]
<1>1. Cardinality(S) \in Nat /\ \A s \in SUBSET S : Cardinality(s) <= Cardinality(S)
  BY FS_Subset, FS_CardinalityType
<1>2. PICK g : SumsUpTo(f, S, Cardinality(S), g)
  BY <1>1, SumsExist
<1>3. SUBSET S = {s \in SUBSET S : Cardinality(s) <= Cardinality(S)}
  BY <1>1
<1>4. /\ g \in [SUBSET S -> Int]
      /\ \A s \in SUBSET S :
           g[s] = IF s = {} THEN 0 ELSE f[Element(s)] + g[s \ {Element(s)}]
  BY <1>2, <1>3 DEF SumsUpTo
<1>5. g = SumStep(f, g)
  BY <1>4 DEF SumStep
<1>6. PartialSums(f) = SumStep(f, PartialSums(f))
  BY <1>5 DEF PartialSums
<1> DEFINE G == PartialSums(f)
           P == {s \in SUBSET S : G[s] \in Int}
<1>7. \A s \in SUBSET S :
        G[s] = IF s = {} THEN 0 ELSE f[Element(s)] + G[s \ {Element(s)}]
  BY <1>6 DEF SumStep
<1>8. SUBSET S \subseteq P
  <2>1. {} \in P
    <3>1. {} \in SUBSET S
      OBVIOUS
    <3>2. G[{}] = 0
      BY <1>7, <3>1
    <3> QED
      BY <3>1, <3>2
  <2>2. ASSUME NEW s \in SUBSET S, s # {}, s \ {Element(s)} \in P
        PROVE  s \in P
    <3>1. Element(s) \in S
      BY <2>2, ElementIn
    <3>2. f[Element(s)] \in Int /\ G[s \ {Element(s)}] \in Int
      BY <2>2, <3>1
    <3>3. G[s] = f[Element(s)] + G[s \ {Element(s)}]
      BY <1>7, <2>2
    <3> QED
      BY <3>2, <3>3
  <2> HIDE DEF P
  <2> QED
    BY <2>1, <2>2, SubsetInduction
<1>9. G = [s \in SUBSET S |-> G[s]]
  BY <1>6 DEF SumStep
<1> QED
  BY <1>6, <1>8, <1>9

----------------------------------------------------------------------------
\* F holds the sums of f over the subsets of S.
IsPartial(F, f, S) ==
    /\ F \in [SUBSET S -> Int]
    /\ F[{}] = 0
    /\ \A s \in SUBSET S : s # {} =>
         /\ Element(s) \in S
         /\ F[s] = f[Element(s)] + F[s \ {Element(s)}]

\* The recurrence, as the lemmas below use it.
LEMMA PartialSum ==
    ASSUME NEW S, IsFiniteSet(S), NEW f \in [S -> Int]
    PROVE  /\ IsPartial(PartialSums(f), f, S)
           /\ SumFunction(f) = PartialSums(f)[S]
<1> DEFINE F == PartialSums(f)
<1>1. F \in [SUBSET S -> Int] /\ F = SumStep(f, F)
  BY PartialSumsDef
<1> HIDE DEF F
<1>2. \A s \in SUBSET S : F[s] = IF s = {} THEN 0 ELSE f[Element(s)] + F[s \ {Element(s)}]
  <2>1. DOMAIN f = S
    OBVIOUS
  <2>2. F = [s \in SUBSET S |-> IF s = {} THEN 0 ELSE f[Element(s)] + F[s \ {Element(s)}]]
    BY <1>1, <2>1 DEF SumStep
  <2> QED
    BY <2>2
<1>3. IsPartial(F, f, S)
  <2>1. {} \in SUBSET S
    OBVIOUS
  <2>2. \A s \in SUBSET S : s # {} => Element(s) \in S
    BY ElementIn
  <2> QED
    BY <1>1, <1>2, <2>1, <2>2 DEF IsPartial
<1>4. DOMAIN f = S /\ SumFunction(f) = F[DOMAIN f]
  BY SumIsPartial DEF F
<1> QED
  BY <1>3, <1>4 DEF F

\* A finite sum of integers is an integer.
LEMMA SumInt ==
    ASSUME NEW S, IsFiniteSet(S), NEW f \in [S -> Int]
    PROVE  SumFunction(f) \in Int
<1>1. IsPartial(PartialSums(f), f, S) /\ SumFunction(f) = PartialSums(f)[S]
  BY PartialSum
<1>2. S \in SUBSET S /\ PartialSums(f) \in [SUBSET S -> Int]
  BY <1>1 DEF IsPartial
<1> QED
  BY <1>1, <1>2

\* A sum of terms no larger is no larger.
LEMMA SumMonotone ==
    ASSUME NEW S, IsFiniteSet(S), NEW f \in [S -> Int], NEW g \in [S -> Int],
           \A x \in S : f[x] <= g[x]
    PROVE  SumFunction(f) <= SumFunction(g)
<1> DEFINE F == PartialSums(f)
           G == PartialSums(g)
           P == {s \in SUBSET S : F[s] <= G[s]}
<1>0. IsPartial(F, f, S) /\ SumFunction(f) = F[S]
  BY PartialSum
<1>10. IsPartial(G, g, S) /\ SumFunction(g) = G[S]
  BY PartialSum
<1> HIDE DEF F, G
<1>1. {} \in P
  <2>1. {} \in SUBSET S /\ F[{}] = 0 /\ G[{}] = 0
    BY <1>0, <1>10 DEF IsPartial
  <2> QED
    BY <2>1
<1>2. ASSUME NEW s \in SUBSET S, s # {}, s \ {Element(s)} \in P
      PROVE  s \in P
  <2> DEFINE x == Element(s)
             r == s \ {x}
  <2>1. r \in SUBSET S /\ x \in S
    BY <1>2, ElementIn
  <2>2. F[s] = f[x] + F[r] /\ F[r] \in Int
    BY <1>0, <1>10, <1>2, <2>1 DEF IsPartial
  <2>3. G[s] = g[x] + G[r] /\ G[r] \in Int
    BY <1>0, <1>10, <1>2, <2>1 DEF IsPartial
  <2>4. f[x] <= g[x] /\ f[x] \in Int /\ g[x] \in Int /\ F[r] <= G[r]
    BY <1>2, <2>1
  <2> HIDE DEF x, r
  <2>5. F[s] <= G[s]
    BY <2>2, <2>3, <2>4
  <2> QED
    BY <2>5
<1>3. S \in P
  <2> HIDE DEF P
  <2> QED
    BY <1>1, <1>2, SubsetInduction
<1> QED
  BY <1>0, <1>10, <1>3 DEF IsPartial

\* Changing one term changes the sum by the difference.
LEMMA SumChange ==
    ASSUME NEW S, IsFiniteSet(S), NEW f \in [S -> Int], NEW g \in [S -> Int],
           NEW y \in S, \A x \in S \ {y} : g[x] = f[x]
    PROVE  SumFunction(g) = SumFunction(f) + (g[y] - f[y])
<1> DEFINE F == PartialSums(f)
           G == PartialSums(g)
           d == g[y] - f[y]
           P == {s \in SUBSET S : G[s] = IF y \in s THEN F[s] + d ELSE F[s]}
<1>0. IsPartial(F, f, S) /\ SumFunction(f) = F[S]
  BY PartialSum
<1>10. IsPartial(G, g, S) /\ SumFunction(g) = G[S]
  BY PartialSum
<1> HIDE DEF F, G
<1>1. {} \in P
  <2>1. {} \in SUBSET S /\ F[{}] = 0 /\ G[{}] = 0
    BY <1>0, <1>10 DEF IsPartial
  <2> QED
    BY <2>1
<1>2. ASSUME NEW s \in SUBSET S, s # {}, s \ {Element(s)} \in P
      PROVE  s \in P
  <2> DEFINE x == Element(s)
             r == s \ {x}
  <2>1. r \in SUBSET S /\ x \in S /\ x \in s
    BY <1>2, ElementIn
  <2>2. F[s] = f[x] + F[r] /\ F[r] \in Int
    BY <1>0, <1>10, <1>2, <2>1 DEF IsPartial
  <2>3. G[s] = g[x] + G[r] /\ G[r] \in Int
    BY <1>0, <1>10, <1>2, <2>1 DEF IsPartial
  <2>4. /\ f[x] \in Int /\ g[x] \in Int /\ d \in Int
        /\ G[r] = IF y \in r THEN F[r] + d ELSE F[r]
    BY <1>2, <2>1
  <2>5. CASE x = y
    <3>1. G[r] = F[r]
      BY <2>4, <2>5
    <3>2. g[x] = f[x] + d
      BY <2>4, <2>5
    <3> HIDE DEF d, r
    <3>3. G[s] = F[s] + d
      BY <2>2, <2>3, <2>4, <3>1, <3>2
    <3> QED
      BY <2>1, <2>5, <3>3
  <2>6. CASE x # y
    <3>1. g[x] = f[x] /\ (y \in s <=> y \in r)
      BY <2>1, <2>6
    <3> HIDE DEF d, r
    <3>2. G[s] = IF y \in s THEN F[s] + d ELSE F[s]
      BY <2>2, <2>3, <2>4, <3>1
    <3> QED
      BY <3>2
  <2> QED
    BY <2>5, <2>6
<1>3. S \in P
  <2> HIDE DEF P
  <2> QED
    BY <1>1, <1>2, SubsetInduction
<1>4. SumFunction(f) = F[S] /\ SumFunction(g) = G[S]
  BY <1>0, <1>10 DEF IsPartial
<1> QED
  BY <1>3, <1>4

\* A sum of zeroes is zero.
LEMMA SumZero ==
    ASSUME NEW S, IsFiniteSet(S), NEW f \in [S -> Int], \A x \in S : f[x] = 0
    PROVE  SumFunction(f) = 0
<1> DEFINE F == PartialSums(f)
           P == {s \in SUBSET S : F[s] = 0}
<1>0. IsPartial(F, f, S) /\ SumFunction(f) = F[S]
  BY PartialSum
<1> HIDE DEF F
<1>1. {} \in P
  <2>1. {} \in SUBSET S /\ F[{}] = 0
    BY <1>0 DEF IsPartial
  <2> QED
    BY <2>1
<1>2. ASSUME NEW s \in SUBSET S, s # {}, s \ {Element(s)} \in P
      PROVE  s \in P
  <2>1. Element(s) \in S /\ F[s] = f[Element(s)] + F[s \ {Element(s)}]
    BY <1>0, <1>2 DEF IsPartial
  <2> QED
    BY <1>2, <2>1
<1>3. S \in P
  <2> HIDE DEF P
  <2> QED
    BY <1>1, <1>2, SubsetInduction
<1> QED
  BY <1>0, <1>3 DEF IsPartial

\* A sum of balances is a balance, and at least each of them.
LEMMA SumCovers ==
    ASSUME NEW S, IsFiniteSet(S), NEW f \in [S -> Nat]
    PROVE  /\ SumFunction(f) \in Nat
           /\ \A y \in S : f[y] <= SumFunction(f)
<1> DEFINE zero == [x \in S |-> 0]
<1>1. zero \in [S -> Int] /\ f \in [S -> Int]
  OBVIOUS
<1>2. SumFunction(zero) = 0
  BY <1>1, SumZero
<1>3. SumFunction(f) \in Int
  BY <1>1, SumInt
<1>4. SumFunction(f) \in Nat
  <2>1. SumFunction(zero) <= SumFunction(f)
    BY <1>1, SumMonotone
  <2> QED
    BY <1>2, <1>3, <2>1
<1>5. ASSUME NEW y \in S PROVE f[y] <= SumFunction(f)
  <2> DEFINE alone == [x \in S |-> IF x = y THEN f[y] ELSE 0]
  <2>1. alone \in [S -> Int] /\ alone[y] = f[y] /\ zero[y] = 0
    OBVIOUS
  <2>2. SumFunction(alone) = SumFunction(zero) + (alone[y] - zero[y])
    <3>1. \A x \in S \ {y} : alone[x] = zero[x]
      OBVIOUS
    <3> HIDE DEF alone, zero
    <3> QED
      BY <1>1, <2>1, <3>1, SumChange
  <2>3. SumFunction(alone) <= SumFunction(f)
    BY <1>1, <2>1, SumMonotone
  <2> QED
    BY <1>2, <2>1, <2>2, <2>3
<1> QED
  BY <1>4, <1>5

\* Two different balances are together no more than the sum of all.
LEMMA SumCoversTwo ==
    ASSUME NEW S, IsFiniteSet(S), NEW f \in [S -> Nat],
           NEW x \in S, NEW y \in S, x # y
    PROVE  f[x] + f[y] <= SumFunction(f)
<1> DEFINE g == [f EXCEPT ![x] = 0]
<1>1. f \in [S -> Int] /\ g \in [S -> Int] /\ g \in [S -> Nat]
  OBVIOUS
<1>2. g[x] = 0 /\ g[y] = f[y] /\ \A z \in S \ {x} : g[z] = f[z]
  OBVIOUS
<1> HIDE DEF g
<1>3. SumFunction(g) = SumFunction(f) + (g[x] - f[x])
  BY <1>1, <1>2, SumChange
<1>4. g[y] <= SumFunction(g) /\ SumFunction(f) \in Nat
  BY <1>1, SumCovers
<1> QED
  BY <1>2, <1>3, <1>4

\* Terms of zero outside S add nothing.
LEMMA SumExtended ==
    ASSUME NEW T, IsFiniteSet(T), NEW S, S \subseteq T, NEW f \in [S -> Int]
    PROVE  SumFunction([x \in T |-> IF x \in S THEN f[x] ELSE 0]) = SumFunction(f)
<1> DEFINE wide(s)   == [x \in T |-> IF x \in s THEN f[x] ELSE 0]
           narrow(s) == [x \in S |-> IF x \in s THEN f[x] ELSE 0]
           P == {s \in SUBSET S : SumFunction(wide(s)) = SumFunction(narrow(s))}
<1>1. IsFiniteSet(S)
  BY FS_Subset
<1>2. \A s \in SUBSET S : wide(s) \in [T -> Int] /\ narrow(s) \in [S -> Int]
  OBVIOUS
<1>3. {} \in P
  <2>1. SumFunction(wide({})) = 0
    BY <1>2, SumZero
  <2>2. SumFunction(narrow({})) = 0
    BY <1>1, <1>2, SumZero
  <2> QED
    BY <2>1, <2>2
<1>4. ASSUME NEW s \in SUBSET S, s # {}, s \ {Element(s)} \in P
      PROVE  s \in P
  <2> DEFINE e == Element(s)
             r == s \ {e}
  <2>1. e \in s /\ e \in S /\ e \in T /\ r \in SUBSET S /\ r \in P
    BY <1>4, ElementIn
  <2> HIDE DEF e
  <2>2. SumFunction(wide(s)) = SumFunction(wide(r)) + (f[e] - 0)
    <3>1. wide(s) \in [T -> Int] /\ wide(r) \in [T -> Int]
      BY <1>2, <2>1
    <3>2. wide(s)[e] = f[e] /\ wide(r)[e] = 0
      BY <2>1
    <3>3. \A x \in T \ {e} : wide(s)[x] = wide(r)[x]
      OBVIOUS
    <3> HIDE DEF wide, r
    <3> QED
      BY <2>1, <3>1, <3>2, <3>3, SumChange
  <2>3. SumFunction(narrow(s)) = SumFunction(narrow(r)) + (f[e] - 0)
    <3>1. narrow(s) \in [S -> Int] /\ narrow(r) \in [S -> Int]
      BY <1>2, <2>1
    <3>2. narrow(s)[e] = f[e] /\ narrow(r)[e] = 0
      BY <2>1
    <3>3. \A x \in S \ {e} : narrow(s)[x] = narrow(r)[x]
      OBVIOUS
    <3> HIDE DEF narrow, r
    <3> QED
      BY <1>1, <2>1, <3>1, <3>2, <3>3, SumChange
  <2>4. SumFunction(wide(r)) = SumFunction(narrow(r))
    BY <2>1
  <2> QED
    BY <2>2, <2>3, <2>4
<1>5. S \in P
  <2> HIDE DEF P
  <2> QED
    BY <1>1, <1>3, <1>4, SubsetInduction
<1>6. narrow(S) = f
  OBVIOUS
<1> QED
  BY <1>5, <1>6

----------------------------------------------------------------------------

\* The books: before there is a market, nothing is supplied or lent.
Shares   == [u \in Users |-> SharesOf(u)]
Supplied == IF market = NoMarket THEN 0 ELSE market.total_supplied
Lent     == IF market = NoMarket THEN 0 ELSE market.total_borrowed
Cash     == token[PoolAddr]

\* What a call may do to them.
SupplyMove(user, n) ==
    /\ n \in Nat \ {0}
    /\ Shares' = [Shares EXCEPT ![user] = @ + n]
    /\ Supplied' = Supplied + n
    /\ Lent' = Lent
    /\ Cash' = Cash + n

WithdrawMove(user, n) ==
    /\ n \in Nat \ {0}
    /\ n <= Shares[user]
    /\ n <= Supplied - Lent
    /\ Shares' = [Shares EXCEPT ![user] = @ - n]
    /\ Supplied' = Supplied - n
    /\ Lent' = Lent
    /\ Cash' = Cash - n

BorrowMove(n) ==
    /\ n \in Nat \ {0}
    /\ n <= Supplied - Lent
    /\ UNCHANGED <<Shares, Supplied>>
    /\ Lent' = Lent + n
    /\ Cash' = Cash - n

RepayMove(n) ==
    /\ n \in Nat
    /\ UNCHANGED <<Shares, Supplied>>
    /\ Lent' = Lent - n
    /\ Cash' = Cash + n

\* A donation, or nothing.
DonationMove(n) ==
    /\ n \in Nat
    /\ UNCHANGED <<Shares, Supplied, Lent>>
    /\ Cash' = Cash + n

Move ==
    \E n \in Nat :
        \/ \E user \in Users : SupplyMove(user, n) \/ WithdrawMove(user, n)
        \/ BorrowMove(n)
        \/ RepayMove(n)
        \/ DonationMove(n)

----------------------------------------------------------------------------
LEMMA BooksType ==
    ASSUME PoolTypeInv
    PROVE  /\ Shares \in [Users -> Nat]
           /\ Supplied \in Int /\ Lent \in Int
           /\ Cash \in Nat
<1>1. \A u \in Users : SharesOf(u) \in Nat
  BY DEF PoolTypeInv, PoolTypeOK, SharesOf, UserLendingPosition
<1>2. token[PoolAddr] \in Nat
  BY AddressesApart DEF PoolTypeInv, HostTypeOK
<1>3. market # NoMarket => market \in MarketState
  BY DEF PoolTypeInv, PoolTypeOK
<1> QED
  BY <1>1, <1>2, <1>3 DEF Shares, Supplied, Lent, Cash, MarketState

\* A position written for one user changes that user's shares only.
LEMMA SharesRewritten ==
    ASSUME PoolTypeOK, NEW user \in Users, NEW new \in UserLendingPosition,
           position' = [position EXCEPT ![user] = new]
    PROVE  Shares' = [Shares EXCEPT ![user] = new.supplied_shares]
<1>1. new # NoPosition
  BY PoolAssumption
<1>2. position \in [Users -> UserLendingPosition \cup {NoPosition}]
  BY DEF PoolTypeOK
<1>3. \A u \in Users : SharesOf(u)' = IF u = user THEN new.supplied_shares
                                     ELSE SharesOf(u)
  BY <1>1, <1>2 DEF SharesOf
<1> QED
  BY <1>3 DEF Shares

\* Writing a position back with the shares it had changes nobody's.
LEMMA SharesKept ==
    ASSUME PoolTypeOK, NEW user \in Users, NEW new \in UserLendingPosition,
           position' = [position EXCEPT ![user] = new],
           new.supplied_shares = SharesOf(user)
    PROVE  Shares' = Shares
<1>1. Shares' = [Shares EXCEPT ![user] = new.supplied_shares]
  BY SharesRewritten
<1>2. Shares[user] = SharesOf(user)
  BY DEF Shares
<1> QED
  BY <1>1, <1>2 DEF Shares

\* The position a supply or a borrow starts from has the user's shares.
LEMMA PositionOrShares ==
    ASSUME NEW user \in Users, NEW index
    PROVE  PositionOr(user, index).supplied_shares = SharesOf(user)
BY DEF PositionOr, SharesOf

LEMMA SupplyMoves ==
    ASSUME PoolTypeInv, NEW user \in Users, NEW amount \in Int,
           Supply(user, amount)
    PROVE  SupplyMove(user, amount)
<1> DEFINE m   == Accrued(market)
           p   == PositionOr(user, m.borrow_index)
           new == [p EXCEPT !.supplied_shares = @ + amount]
<1>1. /\ amount > 0
      /\ market # NoMarket
      /\ token' = Transferred(token, user, PoolAddr, amount)
      /\ market' = [m EXCEPT !.total_supplied = @ + amount]
      /\ position' = [position EXCEPT ![user] = new]
  BY DEF Supply
<1>2. /\ m \in MarketState
      /\ m.total_supplied = market.total_supplied
      /\ m.total_borrowed = market.total_borrowed
  BY AccruedType DEF Supply
<1>3. p \in UserLendingPosition
  <2>1. m.borrow_index \in Int
    BY <1>2 DEF MarketState
  <2> QED
    BY <2>1, PositionOrType DEF PoolTypeInv
<1>4. /\ new \in UserLendingPosition
      /\ new.supplied_shares = SharesOf(user) + amount
  BY <1>1, <1>3, PositionOrShares DEF UserLendingPosition
<1>5. Shares' = [Shares EXCEPT ![user] = @ + amount]
  <2>1. Shares' = [Shares EXCEPT ![user] = new.supplied_shares]
    <3> HIDE DEF new
    <3> QED
      BY <1>1, <1>4, SharesRewritten DEF PoolTypeInv
  <2>2. Shares[user] = SharesOf(user)
    BY DEF Shares
  <2> QED
    BY <1>4, <2>1, <2>2
<1>6. Cash' = Cash + amount
  BY <1>1, AddressesApart, TransferBalances DEF Cash, PoolTypeInv, HostTypeOK
<1>7. market' # NoMarket /\ market'.total_supplied = market.total_supplied + amount
        /\ market'.total_borrowed = market.total_borrowed
  BY <1>1, <1>2, PoolAssumption DEF MarketState
<1>8. Supplied' = Supplied + amount /\ Lent' = Lent
  BY <1>1, <1>7 DEF Supplied, Lent
<1> QED
  BY <1>1, <1>5, <1>6, <1>8 DEF SupplyMove

LEMMA WithdrawMoves ==
    ASSUME PoolTypeInv, NEW user \in Users, NEW amount \in Int,
           Withdraw(user, amount)
    PROVE  WithdrawMove(user, amount)
<1> DEFINE m   == Accrued(market)
           p   == position[user]
           new == [p EXCEPT !.supplied_shares = @ - amount]
<1>1. /\ amount > 0
      /\ market # NoMarket
      /\ Redeemable(user, amount)
      /\ amount <= AvailableLiquidity(m)
      /\ token' = Transferred(token, PoolAddr, user, amount)
      /\ market' = [m EXCEPT !.total_supplied = @ - amount]
      /\ position' = [position EXCEPT ![user].supplied_shares = @ - amount]
  BY DEF Withdraw, WithdrawOK
<1>2. /\ m \in MarketState
      /\ m.total_supplied = market.total_supplied
      /\ m.total_borrowed = market.total_borrowed
  BY AccruedType DEF Withdraw, WithdrawOK
<1>3. /\ p \in UserLendingPosition /\ amount <= p.supplied_shares
      /\ Shares[user] = p.supplied_shares
  BY <1>1 DEF Redeemable, PoolTypeInv, PoolTypeOK, Shares, SharesOf
<1>4. /\ new \in UserLendingPosition
      /\ new.supplied_shares = Shares[user] - amount
  BY <1>1, <1>3 DEF UserLendingPosition
<1>5. Shares' = [Shares EXCEPT ![user] = @ - amount]
  <2>1. position' = [position EXCEPT ![user] = new]
    BY <1>1
  <2>2. Shares' = [Shares EXCEPT ![user] = new.supplied_shares]
    <3> HIDE DEF new
    <3> QED
      BY <1>4, <2>1, SharesRewritten DEF PoolTypeInv
  <2> QED
    BY <1>4, <2>2
<1>6. Cash' = Cash - amount
  BY <1>1, AddressesApart, TransferBalances DEF Cash, PoolTypeInv, HostTypeOK
<1>7. market' # NoMarket /\ market'.total_supplied = market.total_supplied - amount
        /\ market'.total_borrowed = market.total_borrowed
  BY <1>1, <1>2, PoolAssumption DEF MarketState
<1>8. Supplied' = Supplied - amount /\ Lent' = Lent
  BY <1>1, <1>7 DEF Supplied, Lent
<1>9. amount <= Supplied - Lent
  BY <1>1, <1>2 DEF AvailableLiquidity, Supplied, Lent
<1> QED
  BY <1>1, <1>3, <1>5, <1>6, <1>8, <1>9 DEF WithdrawMove

LEMMA BorrowMoves ==
    ASSUME PoolTypeInv, NEW user \in Users, NEW amount \in Int,
           Borrow(user, amount)
    PROVE  BorrowMove(amount)
<1> DEFINE m    == Accrued(market)
           p    == PositionOr(user, m.borrow_index)
           debt == DebtBefore(p, m.borrow_index)
           new  == [p EXCEPT !.principal_borrowed = debt + amount,
                             !.borrow_index = m.borrow_index]
<1>1. /\ amount > 0
      /\ market # NoMarket
      /\ amount <= AvailableLiquidity(m)
      /\ token' = Transferred(token, PoolAddr, user, amount)
      /\ market' = [m EXCEPT !.total_borrowed = @ + amount]
      /\ position' = [position EXCEPT ![user] = new]
  BY DEF Borrow, BorrowOK
<1>2. /\ m \in MarketState
      /\ m.total_supplied = market.total_supplied
      /\ m.total_borrowed = market.total_borrowed
  BY AccruedType DEF Borrow, BorrowOK
<1>3. p \in UserLendingPosition /\ m.borrow_index \in Int
  <2>1. m.borrow_index \in Int
    BY <1>2 DEF MarketState
  <2> QED
    BY <2>1, PositionOrType DEF PoolTypeInv
<1>4. new \in UserLendingPosition /\ new.supplied_shares = SharesOf(user)
  <2>1. UserDebt(p, m.borrow_index) \in Int
    BY <1>3, UserDebtInt
  <2>2. debt \in Int
    BY <1>3, <2>1 DEF DebtBefore, UserLendingPosition
  <2>3. debt + amount \in Int
    BY <2>2
  <2>4. new \in UserLendingPosition
    BY <1>3, <2>3, RewrittenPosition
  <2>5. new.supplied_shares = p.supplied_shares
    BY <1>3 DEF UserLendingPosition
  <2> QED
    BY <2>4, <2>5, PositionOrShares
<1>5. Shares' = Shares
  <2> HIDE DEF new
  <2> QED
    BY <1>1, <1>4, SharesKept DEF PoolTypeInv
<1>6. Cash' = Cash - amount
  BY <1>1, AddressesApart, TransferBalances DEF Cash, PoolTypeInv, HostTypeOK
<1>7. market' # NoMarket /\ market'.total_supplied = market.total_supplied
        /\ market'.total_borrowed = market.total_borrowed + amount
  BY <1>1, <1>2, PoolAssumption DEF MarketState
<1>8. Supplied' = Supplied /\ Lent' = Lent + amount
  BY <1>1, <1>7 DEF Supplied, Lent
<1>9. amount <= Supplied - Lent
  BY <1>1, <1>2 DEF AvailableLiquidity, Supplied, Lent
<1> QED
  BY <1>1, <1>5, <1>6, <1>8, <1>9 DEF BorrowMove

\* A repayment's books, whoever moves the tokens.
LEMMA RepayRecordsMoves ==
    ASSUME PoolTypeInv, NEW payer \in Users, NEW borrower \in Users,
           NEW amount \in Int, RepayRecords(payer, borrower, amount)
    PROVE  /\ Repaid(borrower, amount) \in Nat
           /\ UNCHANGED <<Shares, Supplied>>
           /\ Lent' = Lent - Repaid(borrower, amount)
<1> DEFINE m      == Accrued(market)
           p      == position[borrower]
           actual == RepayActual(p, m.borrow_index, amount)
           left   == UserDebt(p, m.borrow_index) - actual
           new    == [p EXCEPT !.principal_borrowed = left,
                               !.borrow_index = m.borrow_index]
           paid   == Repaid(borrower, amount)
<1>1. /\ PoolTypeOK'
      /\ market # NoMarket
      /\ paid \in Int
      /\ CanTransfer(payer, PoolAddr, paid)
      /\ market'.total_supplied = market.total_supplied
      /\ market'.total_borrowed = market.total_borrowed - paid
  BY RepayRecordsStep
<1>2. paid \in Nat
  BY <1>1 DEF CanTransfer
<1>3. /\ position' = [position EXCEPT ![borrower] = new]
      /\ market' = [m EXCEPT !.total_borrowed = @ - actual]
      /\ position[borrower] # NoPosition
  BY DEF RepayRecords, RepayOK
<1>4. m \in MarketState
  BY AccruedType DEF RepayRecords, RepayOK
<1>5. p \in UserLendingPosition
  BY <1>3 DEF PoolTypeInv, PoolTypeOK
<1>6. new \in UserLendingPosition /\ new.supplied_shares = SharesOf(borrower)
  <2>1. m.borrow_index \in Int /\ actual \in Int
    <3>1. m.borrow_index \in Int /\ UserDebt(p, m.borrow_index) \in Int
      BY <1>4, <1>5, UserDebtInt DEF MarketState
    <3> QED
      BY <3>1 DEF RepayActual
  <2>2. left \in Int
    BY <1>5, <2>1, UserDebtInt
  <2>3. new \in UserLendingPosition
    BY <1>5, <2>1, <2>2, RewrittenPosition
  <2>4. new.supplied_shares = p.supplied_shares
    BY <1>5 DEF UserLendingPosition
  <2> QED
    BY <1>3, <2>3, <2>4 DEF SharesOf
<1>7. Shares' = Shares
  <2> HIDE DEF new
  <2> QED
    BY <1>3, <1>6, SharesKept DEF PoolTypeInv
<1>8. market' # NoMarket
  <2>1. market' = [m EXCEPT !.total_borrowed = market'.total_borrowed]
    BY <1>3, <1>4 DEF MarketState
  <2>2. market.total_borrowed \in Int
    BY <1>1 DEF PoolTypeInv, PoolTypeOK, MarketState
  <2>3. market' \in MarketState
    BY <1>1, <1>4, <2>1, <2>2 DEF MarketState
  <2> QED
    BY <2>3, PoolAssumption
<1> QED
  BY <1>1, <1>2, <1>7, <1>8 DEF Supplied, Lent

LEMMA RepayMoves ==
    ASSUME PoolTypeInv, NEW payer \in Users, NEW borrower \in Users,
           NEW amount \in Int, Repay(payer, borrower, amount)
    PROVE  RepayMove(Repaid(borrower, amount))
<1>1. /\ Repaid(borrower, amount) \in Nat
      /\ UNCHANGED <<Shares, Supplied>>
      /\ Lent' = Lent - Repaid(borrower, amount)
  BY RepayRecordsMoves DEF Repay
<1>2. token' = Transferred(token, payer, PoolAddr, Repaid(borrower, amount))
  BY DEF Repay
<1>3. Cash' = Cash + Repaid(borrower, amount)
  <2>1. Repaid(borrower, amount) \in Int /\ token \in [Addresses -> Nat]
    BY <1>1 DEF PoolTypeInv, HostTypeOK
  <2> QED
    BY <1>2, <2>1, AddressesApart, TransferBalances DEF Cash
<1> QED
  BY <1>1, <1>3 DEF RepayMove

\* A step that leaves the pool's storage alone and takes none of its tokens.
LEMMA DonationMoves ==
    ASSUME PoolTypeInv, UNCHANGED pool_vars, token' \in [Addresses -> Nat],
           token'[PoolAddr] >= token[PoolAddr]
    PROVE  Move
<1>1. token[PoolAddr] \in Nat /\ token'[PoolAddr] \in Nat
  BY AddressesApart DEF PoolTypeInv, HostTypeOK
<1>2. UNCHANGED <<Shares, Supplied, Lent>>
  BY DEF pool_vars, Shares, SharesOf, Supplied, Lent
<1>3. PICK n \in Nat : token'[PoolAddr] = token[PoolAddr] + n
  <2>1. token'[PoolAddr] - token[PoolAddr] \in Nat
    BY <1>1
  <2>2. token'[PoolAddr] = token[PoolAddr] + (token'[PoolAddr] - token[PoolAddr])
    BY <1>1
  <2> QED
    BY <2>1, <2>2
<1>4. DonationMove(n)
  BY <1>2, <1>3 DEF DonationMove, Cash
<1> QED
  BY <1>4 DEF Move

\* So do the steps of other contracts that move no tokens at all.
LEMMA StillMoves ==
    ASSUME PoolTypeInv, UNCHANGED <<pool_vars, token>>
    PROVE  Move
<1>1. token \in [Addresses -> Nat] /\ token[PoolAddr] \in Nat
  BY AddressesApart DEF PoolTypeInv, HostTypeOK
<1> QED
  BY <1>1, DonationMoves

LEMMA InitMoves ==
    ASSUME PoolTypeInv,
           InitMarket \/ \E admin \in Admins : PoolInitialize(admin)
    PROVE  Move
<1>1. UNCHANGED <<position, token>>
  BY DEF InitMarket, PoolInitialize, host_vars
<1>2. UNCHANGED <<Supplied, Lent>>
  <2>1. CASE InitMarket
    <3>1. now \in Nat
      BY HostAssumption DEF PoolTypeInv, HostTypeOK
    <3>2. market' \in MarketState
      BY <2>1, <3>1, PoolAssumption DEF InitMarket, MarketState
    <3> QED
      BY <2>1, <3>2, PoolAssumption DEF InitMarket, Supplied, Lent
  <2>2. CASE \E admin \in Admins : PoolInitialize(admin)
    BY <2>2 DEF PoolInitialize, Supplied, Lent
  <2> QED
    BY <2>1, <2>2
<1>3. Cash \in Nat
  BY BooksType
<1>4. DonationMove(0)
  BY <1>1, <1>2, <1>3 DEF DonationMove, Shares, SharesOf, Cash
<1> QED
  BY <1>4 DEF Move

LEMMA PoolCallsMove ==
    ASSUME PoolTypeInv, PoolCalls
    PROVE  Move
<1>1. Amounts \subseteq Int
  BY HostAssumption
<1>2. CASE \E user \in Users, amount \in Amounts : Supply(user, amount)
  <2>1. PICK user \in Users, amount \in Amounts : Supply(user, amount)
    BY <1>2
  <2>2. SupplyMove(user, amount) /\ amount \in Nat
    BY <1>1, <2>1, SupplyMoves DEF SupplyMove
  <2> QED
    BY <2>2 DEF Move
<1>3. CASE \E user \in Users, amount \in Amounts : Withdraw(user, amount)
  <2>1. PICK user \in Users, amount \in Amounts : Withdraw(user, amount)
    BY <1>3
  <2>2. WithdrawMove(user, amount) /\ amount \in Nat
    BY <1>1, <2>1, WithdrawMoves DEF WithdrawMove
  <2> QED
    BY <2>2 DEF Move
<1>4. CASE \E payer, borrower \in Users, amount \in Amounts :
             Repay(payer, borrower, amount)
  <2>1. PICK payer \in Users, borrower \in Users, amount \in Amounts :
           Repay(payer, borrower, amount)
    BY <1>4
  <2>2. /\ RepayMove(Repaid(borrower, amount))
        /\ Repaid(borrower, amount) \in Nat
    BY <1>1, <2>1, RepayMoves DEF RepayMove
  <2> QED
    BY <2>2 DEF Move
<1>5. CASE InitMarket \/ \E admin \in Admins : PoolInitialize(admin)
  BY <1>5, InitMoves
<1> QED
  BY <1>2, <1>3, <1>4, <1>5 DEF PoolCalls

LEMMA AnyBorrowMoves ==
    ASSUME PoolTypeInv,
           \E user \in Users, amount \in Amounts : Borrow(user, amount)
    PROVE  Move
<1>1. PICK user \in Users, amount \in Amounts : Borrow(user, amount)
  OBVIOUS
<1>2. amount \in Int
  BY HostAssumption
<1>3. BorrowMove(amount) /\ amount \in Nat
  BY <1>1, <1>2, BorrowMoves DEF BorrowMove
<1> QED
  BY <1>3 DEF Move

\* Outside the contracts only users send tokens, so the pool can only gain.
LEMMA HostMoves ==
    ASSUME PoolTypeInv, UNCHANGED <<rate_config, pool_vars>>,
           \/ Tick
           \/ \E from \in Users, to \in Addresses, amount \in Gifts :
                 TokenTransfer(from, to, amount)
    PROVE  Move
<1>1. CASE Tick
  BY <1>1, StillMoves DEF Tick
<1>2. CASE \E from \in Users, to \in Addresses, amount \in Gifts :
             TokenTransfer(from, to, amount)
  <2>1. PICK from \in Users, to \in Addresses, amount \in Gifts :
           TokenTransfer(from, to, amount)
    BY <1>2
  <2>2. amount \in Int
    BY HostAssumption
  <2>3. PoolTypeInv'
    BY <2>1, <2>2, HostTransferStep
  <2>4. token[PoolAddr] <= token'[PoolAddr]
    <3>1. token \in [Addresses -> Nat] /\ from \in Addresses
      BY AddressesApart DEF PoolTypeInv, HostTypeOK
    <3> QED
      BY <2>1, <2>2, <3>1, AddressesApart
      DEF TokenTransfer, Transferred, CanTransfer
  <2> QED
    BY <2>3, <2>4, DonationMoves DEF PoolTypeInv, HostTypeOK
<1> QED
  BY <1>1, <1>2

\* Every step of the pool by itself is a move.
LEMMA PoolOnlyMoves ==
    ASSUME PoolTypeInv, [PoolOnlyNext]_pool_only_vars
    PROVE  Move
<1>1. CASE PoolCalls
  BY <1>1, PoolCallsMove
<1>2. CASE \E user \in Users, amount \in Amounts :
             MockApprovedBorrow(user, amount)
  BY <1>2, AnyBorrowMoves DEF MockApprovedBorrow
<1>3. CASE /\ \E config \in RateConfigs : RateInitialize(config)
           /\ UNCHANGED pool_vars
  BY <1>3, StillMoves DEF RateInitialize, host_vars
<1>4. CASE /\ \/ Tick
              \/ \E from \in Users, to \in Users \cup {PoolAddr},
                    amount \in Gifts : TokenTransfer(from, to, amount)
           /\ UNCHANGED <<rate_config, pool_vars>>
  <2>1. Users \cup {PoolAddr} \subseteq Addresses
    BY DEF Addresses
  <2> QED
    BY <1>4, <2>1, HostMoves
<1>5. CASE UNCHANGED pool_only_vars
  BY <1>5, StillMoves DEF pool_only_vars, host_vars
<1> QED
  BY <1>1, <1>2, <1>3, <1>4, <1>5 DEF PoolOnlyNext

\* A vault call moves none of the pool's tokens.
LEMMA VaultStepMoves ==
    ASSUME TypeInv, VaultStep
    PROVE  Move
<1>1. UNCHANGED pool_vars /\ Amounts \subseteq Int
  BY HostAssumption DEF VaultStep
<1>2. CASE UNCHANGED token
  BY <1>1, <1>2, StillMoves DEF TypeInv
<1>3. CASE \E user \in Users, amount \in Amounts :
             \/ DepositCollateral(user, amount)
             \/ WithdrawCollateral(user, amount)
  <2>1. token' \in [Addresses -> Nat] /\ token'[PoolAddr] = token[PoolAddr]
    BY <1>1, <1>3, DepositMoves, WithdrawCollateralMoves
  <2>2. token[PoolAddr] \in Nat
    BY AddressesApart DEF TypeInv, PoolTypeInv, HostTypeOK
  <2> QED
    BY <1>1, <2>1, <2>2, DonationMoves DEF TypeInv
<1> QED
  BY <1>2, <1>3
  DEF VaultStep, VaultInitialize, SetLiquidationThreshold, host_vars

\* To the pool's books a liquidation is a repayment.
LEMMA LiquidationMoves ==
    ASSUME TypeInv, NEW liquidator \in Users, NEW borrower \in Users,
           NEW repay_amount \in Int, Liquidate(liquidator, borrower, repay_amount)
    PROVE  RepayMove(Repaid(borrower, RepayAsked(borrower, repay_amount)))
<1> DEFINE asked == RepayAsked(borrower, repay_amount)
           paid  == Repaid(borrower, asked)
<1>1. /\ asked \in Int /\ paid \in Nat
      /\ RepayRecords(liquidator, borrower, asked)
      /\ token'[PoolAddr] = token[PoolAddr] + paid
  BY LiquidateMoves
<1>2. UNCHANGED <<Shares, Supplied>> /\ Lent' = Lent - paid
  BY <1>1, RepayRecordsMoves DEF TypeInv
<1> QED
  BY <1>1, <1>2 DEF RepayMove, Cash

\* Every step of the protocol is a move.
LEMMA NextMoves ==
    ASSUME TypeInv, [Next]_vars
    PROVE  Move
<1>1. PoolTypeInv
  BY DEF TypeInv
<1>2. CASE HostStep
  BY <1>1, <1>2, HostMoves DEF HostStep
<1>3. CASE RateStep \/ OracleStep
  BY <1>1, <1>3, StillMoves
  DEF RateStep, RateInitialize, OracleStep, OracleInitialize, SetPrice, host_vars
<1>4. CASE PoolStep
  <2>1. CASE PoolCalls
    BY <1>1, <2>1, PoolCallsMove
  <2>2. CASE \E user \in Users, amount \in Amounts :
               BorrowAgainstCollateral(user, amount)
    BY <1>1, <2>2, AnyBorrowMoves DEF BorrowAgainstCollateral
  <2> QED
    BY <1>4, <2>1, <2>2 DEF PoolStep
<1>5. CASE VaultStep
  BY <1>5, VaultStepMoves
<1>6. CASE EngineStep
  <2>1. CASE UNCHANGED <<pool_vars, token>>
    BY <1>1, <2>1, StillMoves
  <2>2. CASE \E liquidator, borrower \in Users, amount \in Amounts :
               Liquidate(liquidator, borrower, amount)
    <3>1. PICK liquidator \in Users, borrower \in Users, amount \in Amounts :
             Liquidate(liquidator, borrower, amount)
      BY <2>2
    <3>2. amount \in Int
      BY HostAssumption
    <3>3. \E n \in Nat : RepayMove(n)
      BY <3>1, <3>2, LiquidationMoves DEF RepayMove
    <3> QED
      BY <3>3 DEF Move
  <2> QED
    BY <1>6, <2>1, <2>2 DEF EngineStep, EngineInitialize, host_vars
<1>7. CASE UNCHANGED vars
  BY <1>1, <1>7, StillMoves DEF vars, host_vars
<1> QED
  BY <1>2, <1>3, <1>4, <1>5, <1>6, <1>7 DEF Next

----------------------------------------------------------------------------
(* The sum of the shares.                                                   *)

BooksAddUp == Supplied = SumFunction(Shares)

\* A user's shares and the total move together.
LEMMA MoveAddsUp ==
    ASSUME PoolTypeInv, PoolTypeInv', BooksAddUp, Move
    PROVE  BooksAddUp'
<1>1. /\ IsFiniteSet(Users)
      /\ Shares \in [Users -> Int] /\ Shares' \in [Users -> Int]
      /\ Supplied \in Int
  <2>1. Shares \in [Users -> Nat] /\ Supplied \in Int
    BY BooksType
  <2>2. Shares' \in [Users -> Nat]
    <3>1. \A u \in Users : SharesOf(u)' \in Nat
      BY DEF PoolTypeInv, PoolTypeOK, SharesOf, UserLendingPosition
    <3> QED
      BY <3>1 DEF Shares
  <2> QED
    BY <2>1, <2>2, HostAssumption
<1>2. ASSUME NEW user \in Users,
             \A u \in Users \ {user} : Shares'[u] = Shares[u],
             Supplied' = Supplied + (Shares'[user] - Shares[user])
      PROVE  BooksAddUp'
  <2>1. SumFunction(Shares') = SumFunction(Shares) + (Shares'[user] - Shares[user])
    BY <1>1, <1>2, SumChange
  <2> QED
    BY <1>2, <2>1 DEF BooksAddUp
<1>3. ASSUME NEW n \in Nat, NEW user \in Users, SupplyMove(user, n)
      PROVE  BooksAddUp'
  <2>1. /\ \A u \in Users \ {user} : Shares'[u] = Shares[u]
        /\ Shares'[user] = Shares[user] + n /\ Shares[user] \in Int
        /\ Supplied' = Supplied + n
    BY <1>1, <1>3 DEF SupplyMove
  <2>2. Supplied' = Supplied + (Shares'[user] - Shares[user])
    BY <2>1
  <2> QED
    BY <1>2, <2>1, <2>2
<1>4. ASSUME NEW n \in Nat, NEW user \in Users, WithdrawMove(user, n)
      PROVE  BooksAddUp'
  <2>1. /\ \A u \in Users \ {user} : Shares'[u] = Shares[u]
        /\ Shares'[user] = Shares[user] - n /\ Shares[user] \in Int
        /\ Supplied' = Supplied - n
    BY <1>1, <1>4 DEF WithdrawMove
  <2>2. Supplied' = Supplied + (Shares'[user] - Shares[user])
    BY <1>1, <2>1
  <2> QED
    BY <1>2, <2>1, <2>2
<1>5. CASE UNCHANGED <<Shares, Supplied>>
  BY <1>5 DEF BooksAddUp
<1> QED
  BY <1>3, <1>4, <1>5 DEF Move, BorrowMove, RepayMove, DonationMove

\* Without positions and without a market both sides are zero.
LEMMA InitAddsUp ==
    ASSUME \A u \in Users : position[u] = NoPosition, Supplied = 0
    PROVE  BooksAddUp
<1>1. \A u \in Users : Shares[u] = 0
  BY DEF Shares, SharesOf
<1>2. Shares \in [Users -> Int]
  BY DEF Shares, SharesOf
<1> QED
  BY <1>1, <1>2, HostAssumption, SumZero DEF BooksAddUp

LEMMA AddUp ==
    ASSUME BooksAddUp
    PROVE  SharesAddUp
BY DEF BooksAddUp, SharesAddUp, Supplied, Shares

\* The pool by itself: the market's total is the sum of the users' shares, for
\* any number of users, any amounts and any sequence of calls.
THEOREM PoolSharesAddUp == PoolSpec => []SharesAddUp
<1>1. PoolOnlyInit => BooksAddUp
  BY InitAddsUp DEF PoolOnlyInit, PoolInit, Supplied
<1>2. PoolTypeInv /\ PoolTypeInv' /\ BooksAddUp /\ [PoolOnlyNext]_pool_only_vars
        => BooksAddUp'
  <2> SUFFICES ASSUME PoolTypeInv, PoolTypeInv', BooksAddUp,
                      [PoolOnlyNext]_pool_only_vars
               PROVE  BooksAddUp'
    OBVIOUS
  <2>1. Move
    BY PoolOnlyMoves
  <2> QED
    BY <2>1, MoveAddsUp
<1>3. BooksAddUp => SharesAddUp
  BY AddUp
<1> QED
  BY <1>1, <1>2, <1>3, PoolInvariant, PTL DEF PoolSpec

\* So it is in the whole protocol.
LEMMA BooksAlwaysAddUp == Spec \/ DeployedSpec => []BooksAddUp
<1>1. Init \/ DeployedInit => BooksAddUp
  <2>1. Init => BooksAddUp
    BY InitAddsUp DEF Init, PoolInit, Supplied
  <2>2. ASSUME DeployedInit PROVE BooksAddUp
    <3>1. Supplied = 0
      BY <2>2 DEF DeployedInit, Supplied
    <3> QED
      BY <2>2, <3>1, InitAddsUp DEF DeployedInit
  <2> QED
    BY <2>1, <2>2
<1>2. TypeInv /\ TypeInv' /\ BooksAddUp /\ [Next]_vars => BooksAddUp'
  <2> SUFFICES ASSUME TypeInv, TypeInv', BooksAddUp, [Next]_vars
               PROVE  BooksAddUp'
    OBVIOUS
  <2>1. Move
    BY NextMoves
  <2> QED
    BY <2>1, MoveAddsUp DEF TypeInv
<1> QED
  BY <1>1, <1>2, Invariant, PTL DEF Spec, DeployedSpec

THEOREM ProtocolSharesAddUp == Spec \/ DeployedSpec => []SharesAddUp
<1>1. BooksAddUp => SharesAddUp
  BY AddUp
<1> QED
  BY <1>1, BooksAlwaysAddUp, PTL

----------------------------------------------------------------------------
(* No token is made or lost: the supply is what the users started with.     *)

Conserved == SumFunction(token) = SumFunction(Endowment)

LEMMA AddressesFinite == IsFiniteSet(Addresses)
<1>1. IsFiniteSet(Users \cup {PoolAddr} \cup {VaultAddr})
  BY HostAssumption, FS_AddElement
<1>2. Addresses = Users \cup {PoolAddr} \cup {VaultAddr}
  BY DEF Addresses
<1> QED
  BY <1>1, <1>2

\* A transfer moves tokens, to the sender itself perhaps.
LEMMA TransferConserves ==
    ASSUME NEW bal \in [Addresses -> Nat],
           NEW from \in Addresses, NEW to \in Addresses, NEW amount \in Int
    PROVE  SumFunction(Transferred(bal, from, to, amount)) = SumFunction(bal)
<1> DEFINE sent     == [bal EXCEPT ![from] = @ - amount]
           received == [sent EXCEPT ![to] = @ + amount]
<1>1. /\ bal \in [Addresses -> Int] /\ sent \in [Addresses -> Int]
      /\ received \in [Addresses -> Int]
  OBVIOUS
<1>2. SumFunction(sent) = SumFunction(bal) + (sent[from] - bal[from])
  <2>1. \A a \in Addresses \ {from} : sent[a] = bal[a]
    OBVIOUS
  <2> HIDE DEF sent, received
  <2> QED
    BY <1>1, <2>1, AddressesFinite, SumChange
<1>3. SumFunction(received) = SumFunction(sent) + (received[to] - sent[to])
  <2>1. \A a \in Addresses \ {to} : received[a] = sent[a]
    OBVIOUS
  <2> HIDE DEF sent, received
  <2> QED
    BY <1>1, <2>1, AddressesFinite, SumChange
<1>4. sent[from] = bal[from] - amount /\ received[to] = sent[to] + amount
  OBVIOUS
<1>5. SumFunction(bal) \in Int /\ bal[from] \in Int /\ sent[to] \in Int
  BY <1>1, AddressesFinite, SumInt
<1>6. received = Transferred(bal, from, to, amount)
  BY DEF Transferred
<1>7. SumFunction(received) = SumFunction(bal)
  <2> HIDE DEF sent, received
  <2> QED
    BY <1>2, <1>3, <1>4, <1>5
<1> QED
  BY <1>6, <1>7

LEMMA InitConserves ==
    ASSUME HostInit
    PROVE  Conserved
<1>1. /\ Users \subseteq Addresses
      /\ Endowment \in [Users -> Int]
  BY HostAssumption DEF Addresses
<1> QED
  BY <1>1, AddressesFinite, SumExtended DEF HostInit, Conserved

\* Every step of the protocol moves tokens once, twice or not at all.
LEMMA NextConserves ==
    ASSUME TypeInv, [Next]_vars, Conserved
    PROVE  Conserved'
<1> USE AddressesApart
<1>1. token \in [Addresses -> Nat] /\ Amounts \subseteq Int /\ Gifts \subseteq Int
  BY HostAssumption DEF TypeInv, PoolTypeInv, HostTypeOK
<1>2. CASE UNCHANGED token
  BY <1>2 DEF Conserved
<1>3. ASSUME NEW from \in Addresses, NEW to \in Addresses, NEW amount \in Int,
             token' = Transferred(token, from, to, amount)
      PROVE  Conserved'
  BY <1>1, <1>3, TransferConserves DEF Conserved
<1>4. CASE HostStep
  <2>1. CASE Tick
    BY <1>2, <2>1 DEF Tick
  <2>2. CASE \E from \in Users, to \in Addresses, amount \in Gifts :
               TokenTransfer(from, to, amount)
    BY <1>1, <1>3, <2>2 DEF TokenTransfer
  <2> QED
    BY <1>4, <2>1, <2>2 DEF HostStep
<1>5. CASE PoolStep
  <2>1. CASE \E user \in Users, amount \in Amounts :
               \/ Supply(user, amount) \/ Withdraw(user, amount)
               \/ Borrow(user, amount)
    BY <1>1, <1>3, <2>1 DEF Supply, Withdraw, Borrow
  <2>2. ASSUME NEW payer \in Users, NEW borrower \in Users,
               NEW amount \in Amounts, Repay(payer, borrower, amount)
        PROVE  Conserved'
    <3>1. Repaid(borrower, amount) \in Int
      BY <1>1, <2>2, RepayRecordsMoves DEF Repay, TypeInv
    <3> QED
      BY <1>3, <2>2, <3>1 DEF Repay
  <2>3. CASE UNCHANGED token
    BY <1>2, <2>3
  <2> QED
    BY <1>5, <2>1, <2>2, <2>3
    DEF PoolStep, PoolCalls, BorrowAgainstCollateral, PoolInitialize,
        InitMarket, host_vars
<1>6. CASE VaultStep
  <2>1. CASE \E user \in Users, amount \in Amounts :
               \/ DepositCollateral(user, amount)
               \/ WithdrawCollateral(user, amount)
    BY <1>1, <1>3, <2>1 DEF DepositCollateral, WithdrawCollateral
  <2>2. CASE UNCHANGED token
    BY <1>2, <2>2
  <2> QED
    BY <1>6, <2>1, <2>2
    DEF VaultStep, VaultInitialize, SetLiquidationThreshold, host_vars
<1>7. CASE EngineStep
  <2>1. CASE UNCHANGED token
    BY <1>2, <2>1
  <2>2. ASSUME NEW liquidator \in Users, NEW borrower \in Users,
               NEW amount \in Amounts, Liquidate(liquidator, borrower, amount)
        PROVE  Conserved'
    <3> DEFINE asked  == RepayAsked(borrower, amount)
               paid   == Repaid(borrower, asked)
               seized == CollateralSeized(asked)
               first  == Transferred(token, liquidator, PoolAddr, paid)
    <3>1. /\ paid \in Nat /\ seized \in Nat
          /\ RepayRecords(liquidator, borrower, asked)
      BY <1>1, <2>2, LiquidateMoves
    <3>2. token' = Transferred(first, VaultAddr, liquidator, seized)
      BY <2>2 DEF Liquidate
    <3>3. CanTransfer(liquidator, PoolAddr, paid)
      BY <1>1, <2>2, <3>1, LiquidateMoves, RepayRecordsStep DEF TypeInv
    <3> HIDE DEF asked, paid, seized
    <3>4. first \in [Addresses -> Nat] /\ SumFunction(first) = SumFunction(token)
      BY <1>1, <3>1, <3>3, TransferType, TransferConserves
    <3> HIDE DEF first
    <3>5. SumFunction(token') = SumFunction(first)
      BY <3>1, <3>2, <3>4, TransferConserves
    <3> QED
      BY <3>4, <3>5 DEF Conserved
  <2> QED
    BY <1>7, <2>1, <2>2 DEF EngineStep, EngineInitialize, host_vars
<1> QED
  BY <1>2, <1>4, <1>5, <1>6, <1>7
  DEF Next, RateStep, RateInitialize, OracleStep, OracleInitialize, SetPrice,
      vars, host_vars

\* The tokens of the users, the pool and the vault always add up to what the
\* users started with: no call makes or loses one.
THEOREM TokensConserved == Spec \/ DeployedSpec => []Conserved
<1>1. Init \/ DeployedInit => Conserved
  BY InitConserves DEF Init, DeployedInit
<1>2. TypeInv /\ Conserved /\ [Next]_vars => Conserved'
  BY NextConserves
<1> QED
  BY <1>1, <1>2, Invariant, PTL DEF Spec, DeployedSpec

\* So any two balances fit together in the width the supply fits in.
LEMMA BalancesFit ==
    ASSUME TypeInv, Conserved, NEW a \in Addresses, NEW b \in Addresses, a # b
    PROVE  /\ token[a] \in Nat /\ token[b] \in Nat
           /\ token[a] + token[b] <= I128Max
<1>1. token \in [Addresses -> Nat]
  BY DEF TypeInv, PoolTypeInv, HostTypeOK
<1>2. token[a] + token[b] <= SumFunction(token)
  BY <1>1, AddressesFinite, SumCoversTwo
<1>3. Endowment \in [Users -> Nat] /\ IsFiniteSet(Users)
        /\ SumFunction(Endowment) <= I128Max /\ I128Max \in Nat
  BY HostAssumption
<1>4. SumFunction(Endowment) \in Nat
  BY <1>3, SumCovers
<1> QED
  BY <1>1, <1>2, <1>3, <1>4 DEF Conserved

----------------------------------------------------------------------------
(* The vault's custody.                                                     *)

LEMMA CustodyStep ==
    ASSUME TypeInv, [Next]_vars, VaultCustody
    PROVE  VaultCustody'
<1> USE AddressesApart
<1>1. /\ token \in [Addresses -> Nat] /\ collateral \in [Users -> Int]
      /\ IsFiniteSet(Users)
      /\ Amounts \subseteq Int /\ Gifts \subseteq Int
      /\ SumFunction(collateral) \in Int
  <2>1. token \in [Addresses -> Nat] /\ collateral \in [Users -> Int]
    BY DEF TypeInv, PoolTypeInv, HostTypeOK, VaultTypeOK
  <2> QED
    BY <2>1, HostAssumption, SumInt
<1>2. token' \in [Addresses -> Nat] /\ collateral' \in [Users -> Int]
  BY NextSafe DEF TypeInv, PoolTypeInv, HostTypeOK, VaultTypeOK
<1>3. ASSUME collateral' = collateral, token'[VaultAddr] >= token[VaultAddr]
      PROVE  VaultCustody'
  <2>1. token[VaultAddr] \in Int /\ token'[VaultAddr] \in Int
    BY <1>1, <1>2
  <2> QED
    BY <1>1, <1>3, <2>1 DEF VaultCustody
<1>4. ASSUME NEW user \in Users,
             \A u \in Users \ {user} : collateral'[u] = collateral[u],
             token'[VaultAddr]
               = token[VaultAddr] + (collateral'[user] - collateral[user])
      PROVE  VaultCustody'
  <2>1. SumFunction(collateral')
          = SumFunction(collateral) + (collateral'[user] - collateral[user])
    BY <1>1, <1>2, <1>4, SumChange
  <2>2. /\ token[VaultAddr] \in Int
        /\ collateral[user] \in Int /\ collateral'[user] \in Int
    BY <1>1, <1>2
  <2> QED
    BY <1>1, <1>4, <2>1, <2>2 DEF VaultCustody
<1>5. token[VaultAddr] >= token[VaultAddr]
  BY <1>1
<1>6. CASE HostStep
  <2>1. CASE Tick
    BY <1>3, <1>5, <1>6, <2>1 DEF HostStep, Tick, vault_vars
  <2>2. ASSUME NEW from \in Users, NEW to \in Addresses, NEW amount \in Gifts,
               TokenTransfer(from, to, amount)
        PROVE  VaultCustody'
    <3>1. token'[VaultAddr] >= token[VaultAddr]
      BY <1>1, <2>2 DEF TokenTransfer, Transferred, CanTransfer
    <3> QED
      BY <1>3, <1>6, <3>1 DEF HostStep, vault_vars
  <2> QED
    BY <1>6, <2>1, <2>2 DEF HostStep
<1>7. CASE PoolStep
  <2>1. collateral' = collateral
    BY <1>7 DEF PoolStep, vault_vars
  <2>2. ASSUME NEW from \in Users \cup {PoolAddr}, NEW to \in Users \cup {PoolAddr},
               NEW amount \in Int,
               token' = Transferred(token, from, to, amount)
        PROVE  VaultCustody'
    <3>1. from \in Addresses /\ to \in Addresses /\ from # VaultAddr /\ to # VaultAddr
      OBVIOUS
    <3>2. token'[VaultAddr] = token[VaultAddr]
      BY <1>1, <2>2, <3>1, TransferElsewhere
    <3> QED
      BY <1>3, <1>5, <2>1, <3>2
  <2>3. CASE \E user \in Users, amount \in Amounts :
               \/ Supply(user, amount) \/ Withdraw(user, amount)
               \/ Borrow(user, amount)
    BY <1>1, <2>2, <2>3 DEF Supply, Withdraw, Borrow
  <2>4. ASSUME NEW payer \in Users, NEW borrower \in Users,
               NEW amount \in Amounts, Repay(payer, borrower, amount)
        PROVE  VaultCustody'
    <3>1. Repaid(borrower, amount) \in Int
      BY <1>1, <2>4, RepayRecordsMoves DEF Repay, TypeInv
    <3> QED
      BY <2>2, <2>4, <3>1 DEF Repay
  <2>5. CASE UNCHANGED token
    BY <1>3, <1>5, <2>1, <2>5
  <2> QED
    BY <1>7, <2>3, <2>4, <2>5
    DEF PoolStep, PoolCalls, BorrowAgainstCollateral, PoolInitialize,
        InitMarket, host_vars
<1>8. CASE VaultStep
  <2>1. ASSUME NEW user \in Users, NEW amount \in Amounts,
               DepositCollateral(user, amount)
        PROVE  VaultCustody'
    <3>1. /\ collateral' = [collateral EXCEPT ![user] = @ + amount]
          /\ token'[VaultAddr] = token[VaultAddr] + amount
      BY <1>1, <2>1, DepositMoves
    <3>2. /\ \A u \in Users \ {user} : collateral'[u] = collateral[u]
          /\ collateral'[user] - collateral[user] = amount
      BY <1>1, <3>1
    <3> QED
      BY <1>4, <3>1, <3>2
  <2>2. ASSUME NEW user \in Users, NEW amount \in Amounts,
               WithdrawCollateral(user, amount)
        PROVE  VaultCustody'
    <3>1. /\ collateral' = [collateral EXCEPT ![user] = @ - amount]
          /\ token'[VaultAddr] = token[VaultAddr] - amount
      BY <1>1, <2>2, WithdrawCollateralMoves
    <3>2. /\ \A u \in Users \ {user} : collateral'[u] = collateral[u]
          /\ collateral'[user] = collateral[user] - amount
          /\ collateral[user] \in Int /\ token[VaultAddr] \in Int
      BY <1>1, <3>1
    <3>3. token'[VaultAddr] = token[VaultAddr] + (collateral'[user] - collateral[user])
      BY <1>1, <3>1, <3>2
    <3> QED
      BY <1>4, <3>2, <3>3
  <2>3. CASE UNCHANGED <<token, collateral>>
    BY <1>3, <1>5, <2>3
  <2> QED
    BY <1>8, <2>1, <2>2, <2>3
    DEF VaultStep, VaultInitialize, SetLiquidationThreshold, host_vars
<1>9. CASE EngineStep
  <2>1. CASE UNCHANGED <<token, collateral>>
    BY <1>3, <1>5, <2>1
  <2>2. ASSUME NEW liquidator \in Users, NEW borrower \in Users,
               NEW amount \in Amounts, Liquidate(liquidator, borrower, amount)
        PROVE  VaultCustody'
    <3> DEFINE seized == CollateralSeized(RepayAsked(borrower, amount))
    <3>1. /\ seized \in Nat
          /\ collateral' = [collateral EXCEPT ![borrower] = @ - seized]
          /\ token'[VaultAddr] = token[VaultAddr] - seized
      BY <1>1, <2>2, LiquidateMoves
    <3> HIDE DEF seized
    <3>2. /\ \A u \in Users \ {borrower} : collateral'[u] = collateral[u]
          /\ collateral'[borrower] = collateral[borrower] - seized
          /\ collateral[borrower] \in Int /\ token[VaultAddr] \in Int
      BY <1>1, <3>1
    <3>3. token'[VaultAddr]
            = token[VaultAddr] + (collateral'[borrower] - collateral[borrower])
      BY <3>1, <3>2
    <3> QED
      BY <1>4, <3>2, <3>3
  <2> QED
    BY <1>9, <2>1, <2>2 DEF EngineStep, EngineInitialize, host_vars, vault_vars
<1>10. CASE RateStep \/ OracleStep \/ UNCHANGED vars
  BY <1>3, <1>5, <1>10
  DEF RateStep, RateInitialize, OracleStep, OracleInitialize, SetPrice,
      vars, host_vars, vault_vars
<1> QED
  BY <1>6, <1>7, <1>8, <1>9, <1>10 DEF Next

\* The vault can hand out every user's collateral, whatever was liquidated:
\* for any number of users the balances it keeps are covered by its tokens.
THEOREM Custody == Spec \/ DeployedSpec => []VaultCustody
<1>1. Init \/ DeployedInit => VaultCustody
  <2> SUFFICES ASSUME Init \/ DeployedInit PROVE VaultCustody
    OBVIOUS
  <2>1. collateral \in [Users -> Int] /\ \A u \in Users : collateral[u] = 0
    BY DEF Init, VaultInit, DeployedInit
  <2>2. SumFunction(collateral) = 0
    BY <2>1, HostAssumption, SumZero
  <2>3. token[VaultAddr] \in Nat
    BY InitSafe, DeployedSafe, AddressesApart DEF TypeInv, PoolTypeInv, HostTypeOK
  <2> QED
    BY <2>2, <2>3 DEF VaultCustody
<1>2. TypeInv /\ VaultCustody /\ [Next]_vars => VaultCustody'
  BY CustodyStep
<1> QED
  BY <1>1, <1>2, Invariant, PTL DEF Spec, DeployedSpec

----------------------------------------------------------------------------
(* The ledger of claims.                                                    *)

\* The pool never holds more than there is.
LEMMA CashBound ==
    ASSUME TypeInv, Conserved
    PROVE  Cash \in 0..SumFunction(Endowment) /\ SumFunction(Endowment) \in Nat
<1>1. token \in [Addresses -> Nat] /\ PoolAddr \in Addresses
  BY AddressesApart DEF TypeInv, PoolTypeInv, HostTypeOK
<1>2. token[PoolAddr] <= SumFunction(token) /\ SumFunction(token) \in Nat
  BY <1>1, AddressesFinite, SumCovers
<1> QED
  BY <1>1, <1>2 DEF Conserved, Cash

\* The ledger of claims adds up as the pool does.
LEMMA SameSum ==
    ASSUME NEW f
    PROVE  Claims!SumFunction(f) = SumFunction(f)
BY DEF SumFunction, SumFunctionOnSet, FoldFunctionOnSet, MapThenFoldSet,
   Claims!SumFunction, Claims!SumFunctionOnSet, Claims!FoldFunctionOnSet,
   Claims!MapThenFoldSet

\* Every move of the books is a step of the ledger of claims, or none.
LEMMA MoveRefines ==
    ASSUME TypeInv, TypeInv', Conserved, Conserved', BooksAddUp, Move
    PROVE  [Claims!ClaimsNext]_(Claims!ledger_claims)
<1> DEFINE Total == SumFunction(Endowment)
<1>1. /\ Cash \in Nat /\ Cash <= Total /\ Total \in Nat
      /\ Lent \in Int /\ Shares \in [Users -> Nat] /\ Supplied \in Int
  BY CashBound, BooksType DEF TypeInv
<1>2. Cash' \in Nat /\ Cash' <= Total
  <2>1. token' \in [Addresses -> Nat] /\ PoolAddr \in Addresses
    BY AddressesApart DEF TypeInv, PoolTypeInv, HostTypeOK
  <2>2. token'[PoolAddr] <= SumFunction(token')
    BY <2>1, AddressesFinite, SumCovers
  <2> QED
    BY <2>1, <2>2 DEF Conserved, Cash
<1>3. Claims!Unlent = Supplied - Lent
  <2>1. Claims!Unlent = Claims!SumFunction(Shares) - Lent
    BY DEF Claims!Unlent, Shares, Lent
  <2> QED
    BY <2>1, SameSum DEF BooksAddUp
<1>4. CASE \E n \in Nat, user \in Users : SupplyMove(user, n)
  <2>1. PICK n \in Nat, user \in Users : SupplyMove(user, n)
    BY <1>4
  <2>2. n \in 1..Total
    BY <1>1, <1>2, <2>1 DEF SupplyMove
  <2>3. Claims!Deposit(user, n)
    BY <2>1 DEF SupplyMove, Claims!Deposit, Shares, Lent, Cash
  <2> QED
    BY <2>2, <2>3 DEF Claims!ClaimsNext
<1>5. CASE \E n \in Nat, user \in Users : WithdrawMove(user, n)
  <2>1. PICK n \in Nat, user \in Users : WithdrawMove(user, n)
    BY <1>5
  <2>2. n \in 1..Total
    BY <1>1, <1>2, <2>1 DEF WithdrawMove
  <2>3. Claims!Redeem(user, n)
    BY <1>3, <2>1 DEF WithdrawMove, Claims!Redeem, Shares, Lent, Cash
  <2> QED
    BY <2>2, <2>3 DEF Claims!ClaimsNext
<1>6. CASE \E n \in Nat : BorrowMove(n)
  <2>1. PICK n \in Nat : BorrowMove(n)
    BY <1>6
  <2>2. n \in 1..Total
    BY <1>1, <1>2, <2>1 DEF BorrowMove
  <2>3. Claims!Lend(n)
    BY <1>3, <2>1 DEF BorrowMove, Claims!Lend, Shares, Lent, Cash
  <2> QED
    BY <2>2, <2>3 DEF Claims!ClaimsNext
<1>7. CASE \E n \in Nat : RepayMove(n)
  <2>1. PICK n \in Nat : RepayMove(n)
    BY <1>7
  <2>2. CASE n = 0
    BY <1>1, <2>1, <2>2 DEF RepayMove, Claims!ledger_claims, Shares, Lent, Cash
  <2>3. CASE n # 0
    <3>1. n \in 1..Total
      BY <1>1, <1>2, <2>1, <2>3 DEF RepayMove
    <3>2. Claims!PayBack(n)
      BY <2>1 DEF RepayMove, Claims!PayBack, Shares, Lent, Cash
    <3> QED
      BY <3>1, <3>2 DEF Claims!ClaimsNext
  <2> QED
    BY <2>2, <2>3
<1>8. CASE \E n \in Nat : DonationMove(n)
  <2>1. PICK n \in Nat : DonationMove(n)
    BY <1>8
  <2>2. CASE n = 0
    BY <1>1, <2>1, <2>2 DEF DonationMove, Claims!ledger_claims, Shares, Lent, Cash
  <2>3. CASE n # 0
    <3>1. n \in 1..Total
      BY <1>1, <1>2, <2>1, <2>3 DEF DonationMove
    <3>2. Claims!Donate(n)
      BY <2>1 DEF DonationMove, Claims!Donate, Shares, Lent, Cash
    <3> QED
      BY <3>1, <3>2 DEF Claims!ClaimsNext
  <2> QED
    BY <2>2, <2>3
<1> QED
  BY <1>4, <1>5, <1>6, <1>7, <1>8 DEF Move

LEMMA InitRefines ==
    ASSUME Init \/ DeployedInit
    PROVE  Claims!ClaimsInit
<1>1. \A u \in Users : SharesOf(u) = 0
  BY DEF Init, PoolInit, DeployedInit, SharesOf
<1>2. Lent = 0
  <2>1. CASE Init
    BY <2>1 DEF Init, PoolInit, Lent
  <2>2. CASE DeployedInit
    BY <2>2 DEF DeployedInit, Lent
  <2> QED
    BY <2>1, <2>2
<1>3. token[PoolAddr] = 0
  BY AddressesApart DEF Init, DeployedInit, HostInit
<1> QED
  BY <1>1, <1>2, <1>3 DEF Claims!ClaimsInit, Lent

\* The protocol implements the ledger of claims: for any number of users, any
\* rates and prices, every call moves the pool's tokens, its totals and one
\* user's shares together, or none of them, and changes nobody else's claim.
THEOREM Refinement == Spec \/ DeployedSpec => ImplementsClaimsLedger
<1>1. Init \/ DeployedInit => Claims!ClaimsInit
  BY InitRefines
<1>2. TypeInv /\ TypeInv' /\ Conserved /\ Conserved' /\ BooksAddUp /\ [Next]_vars
        => [Claims!ClaimsNext]_(Claims!ledger_claims)
  <2> SUFFICES ASSUME TypeInv, TypeInv', Conserved, Conserved', BooksAddUp,
                      [Next]_vars
               PROVE  [Claims!ClaimsNext]_(Claims!ledger_claims)
    OBVIOUS
  <2>1. Move
    BY NextMoves
  <2> QED
    BY <2>1, MoveRefines
<1> QED
  BY <1>1, <1>2, Invariant, TokensConserved, BooksAlwaysAddUp, PTL
  DEF Spec, DeployedSpec, ImplementsClaimsLedger, Claims!ClaimsSpec
============================================================================
