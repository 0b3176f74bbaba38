------------------------------- MODULE Counting -------------------------------
(***************************************************************************)
(* The n lowest of a finite set of naturals: what Colony takes when posts  *)
(* are filled in the order of the list, and WorldManager when a group is   *)
(* cut to the room there is.  And sums over finite sets, which is what     *)
(* there is on the market and what the rooms of a town are worth: the      *)
(* recursion of SumFunctionOnSet has a solution, in whatever order it      *)
(* takes the elements.  Besides, induction over the naturals for a set,    *)
(* and what quotients and rests are.                                       *)
(***************************************************************************)
EXTENDS Integers, Functions, FiniteSetTheorems, WellFoundedInduction, TLAPS

\* The order of the naturals.
Before == {p \in Nat \X Nat : p[1] < p[2]}

\* Naturals cannot go down for ever.
LEMMA BeforeWF == IsWellFoundedOn(Before, Nat)
<1>1. Before = OpToRel(<, Nat)
  BY Zenon DEF Before, OpToRel
<1> QED BY <1>1, NatLessThanWellFounded

\* Every set of naturals that is not empty has a least element.
LEMMA LeastNatural == ASSUME NEW S \in SUBSET Nat, S # {} PROVE \E m \in S : \A n \in S : m <= n
<1>1. PICK m \in S : \A n \in S : <<n, m>> \notin Before
  BY BeforeWF, WFMin
<1>2. ASSUME NEW n \in S PROVE m <= n
  <2>1. <<n, m>> \notin Before /\ n \in Nat /\ m \in Nat
    BY <1>1
  <2>2. <<n, m>> \in Nat \X Nat /\ ~(n < m)
    BY <2>1 DEF Before
  <2> QED BY <2>1, <2>2
<1> QED BY <1>2

\* A set of naturals that has 0, and the next of each, has them all.
LEMMA AllNaturals == ASSUME NEW S \in SUBSET Nat, 0 \in S, \A n \in S : n + 1 \in S PROVE \A n \in Nat : n \in S
<1> SUFFICES ASSUME Nat \ S # {} PROVE FALSE OBVIOUS
<1>1. PICK m \in Nat \ S : \A n \in Nat \ S : m <= n BY LeastNatural
<1>2. m # 0 /\ m \in Nat OBVIOUS
<1>3. m - 1 \in Nat /\ ~(m <= m - 1) BY <1>2
<1>4. m - 1 \in S BY <1>1, <1>3
<1>5. (m - 1) + 1 = m BY <1>2
<1> QED BY <1>4, <1>5

\* And a finite one a greatest.
LEMMA GreatestNatural ==
  ASSUME NEW S \in SUBSET Nat, IsFiniteSet(S), S # {} PROVE \E m \in S : \A n \in S : n <= m
<1> DEFINE above(m) == {n \in S : m < n}
           sizes == {Cardinality(above(m)) : m \in S}
<1>1. \A m \in S : above(m) \subseteq S /\ IsFiniteSet(above(m)) /\ Cardinality(above(m)) \in Nat
  BY FS_Subset, FS_CardinalityType
<1>2. PICK m \in S : \A n \in S : Cardinality(above(m)) <= Cardinality(above(n))
  <2>1. sizes \in SUBSET Nat /\ sizes # {}
    BY <1>1
  <2> HIDE DEF above
  <2>2. PICK k \in sizes : \A j \in sizes : k <= j
    BY <2>1, LeastNatural
  <2> QED BY <2>2
<1>3. ASSUME NEW n \in S, m < n PROVE FALSE
  <2>1. \A k \in S : k \in Nat
    OBVIOUS
  <2>2. n \in above(m) /\ n \notin above(n)
    BY <2>1, <1>3
  <2>3. ASSUME NEW k \in above(n) PROVE k \in above(m)
    <3>1. k \in S /\ n < k /\ k \in Nat /\ n \in Nat /\ m \in Nat
      BY <2>1, <2>3
    <3> QED BY <1>3, <3>1
  <2>4. above(n) \subseteq above(m) /\ n \in above(m) /\ n \notin above(n)
    BY <2>2, <2>3
  <2>5. Cardinality(above(n)) <= Cardinality(above(m)) /\ Cardinality(above(n)) # Cardinality(above(m))
    BY <1>1, <2>4, FS_Subset
  <2> HIDE DEF above
  <2> QED BY <1>1, <1>2, <2>5
<1>4. \A n \in S : n \in Nat /\ m \in Nat
  OBVIOUS
<1> QED BY <1>3, <1>4

\* Taking the n lowest of a finite set of naturals takes n, or all there are.
LEMMA LowestCount ==
  ASSUME NEW S \in SUBSET Nat, IsFiniteSet(S), NEW n \in Nat
  PROVE  Cardinality({s \in S : Cardinality({r \in S : r < s}) < n}) = IF Cardinality(S) < n THEN Cardinality(S) ELSE n
<1> DEFINE L == {s \in S : Cardinality({r \in S : r < s}) < n}
           below(s) == {r \in S : r < s}
<1>1. L \subseteq S /\ IsFiniteSet(L) /\ Cardinality(L) \in Nat /\ Cardinality(S) \in Nat
      /\ Cardinality(L) <= Cardinality(S)
  <2>1. L \in SUBSET S
    OBVIOUS
  <2> QED BY <2>1, FS_Subset, FS_CardinalityType
<1>2. \A s \in S : below(s) \subseteq S /\ IsFiniteSet(below(s)) /\ Cardinality(below(s)) \in Nat
  BY FS_Subset, FS_CardinalityType
<1>3. \A s \in S : s \in L <=> Cardinality(below(s)) < n
  OBVIOUS
<1> SUFFICES Cardinality(L) = IF Cardinality(S) < n THEN Cardinality(S) ELSE n
  OBVIOUS
<1> HIDE DEF L
\* Not more than n: below the greatest of them are all the others.
<1>4. Cardinality(L) <= n
  <2>1. CASE L = {}
    BY <2>1, FS_EmptySet
  <2>2. CASE L # {}
    <3>1. PICK m \in L : \A s \in L : s <= m
      BY <1>1, <2>2, GreatestNatural
    <3>2. L \ {m} \subseteq below(m)
      BY <1>1, <3>1
    <3>3. Cardinality(L \ {m}) <= Cardinality(below(m))
      BY <1>1, <1>2, <3>1, <3>2, FS_Subset
    <3>4. Cardinality(L \ {m}) = Cardinality(L) - 1
      BY <1>1, <3>1, FS_RemoveElement
    <3>5. Cardinality(below(m)) < n
      BY <1>1, <1>3, <3>1
    <3> HIDE DEF below
    <3> QED BY <1>1, <1>2, <3>1, <3>3, <3>4, <3>5
  <2> QED BY <2>1, <2>2
\* Not fewer: below the least that is left out there are n already.
<1>5. CASE L = S
  BY <1>1, <1>4, <1>5
<1>6. CASE L # S
  <2>1. PICK m \in S \ L : \A s \in S \ L : m <= s
    <3>1. S \ L # {} /\ S \ L \in SUBSET Nat
      BY <1>1, <1>6
    <3> QED BY <3>1, LeastNatural
  <2>2. below(m) \subseteq L
    <3> SUFFICES ASSUME NEW r \in S, r < m, r \notin L PROVE FALSE
      OBVIOUS
    <3>1. m <= r /\ r \in Nat /\ m \in Nat
      BY <2>1
    <3> QED BY <3>1
  <2>3. Cardinality(below(m)) <= Cardinality(L)
    BY <1>1, <2>2, FS_Subset
  <2>4. ~(Cardinality(below(m)) < n)
    BY <1>3, <2>1
  <2> HIDE DEF below
  <2> QED BY <1>1, <1>2, <1>4, <2>1, <2>3, <2>4
<1> QED BY <1>5, <1>6

-----------------------------------------------------------------------------
(* Sums *)

\* Of some subsets of a finite set one is smallest.
LEMMA SmallestSubset ==
  ASSUME NEW S, IsFiniteSet(S), NEW B \in SUBSET SUBSET S, B # {}
  PROVE  \E s \in B : \A t \in B : Cardinality(s) <= Cardinality(t)
<1> DEFINE sizes == {Cardinality(s) : s \in B}
<1>1. \A s \in B : Cardinality(s) \in Nat BY FS_Subset, FS_CardinalityType
<1>2. sizes \in SUBSET Nat /\ sizes # {} BY <1>1
<1> HIDE DEF sizes
<1>3. PICK m \in sizes : \A n \in sizes : m <= n BY <1>2, LeastNatural
<1> QED BY <1>3 DEF sizes

\* What SumFunctionOnSet computes, as one function of the subsets.
One(s) == CHOOSE x \in s : TRUE
Summed(f, h, s) == IF s = {} THEN 0 ELSE f[One(s)] + h[s \ {One(s)}]

\* The recursion has a solution: one for the subsets smaller than n, for every n.
LEMMA SumsExist ==
  ASSUME NEW f, NEW S, IsFiniteSet(S)
  PROVE  \E h : h = [s \in SUBSET S |-> Summed(f, h, s)]
<1> DEFINE Small(n) == {s \in SUBSET S : Cardinality(s) < n}
           Has(n) == \E h : h = [s \in Small(n) |-> Summed(f, h, s)]
<1>1. \A s \in SUBSET S : IsFiniteSet(s) /\ Cardinality(s) \in Nat BY FS_Subset, FS_CardinalityType
<1>2. Has(0)
  <2>1. Small(0) = {} BY <1>1
  <2>2. [s \in {} |-> 0] = [s \in Small(0) |-> Summed(f, [t \in {} |-> 0], s)] BY <2>1
  <2> QED BY <2>2
<1>3. ASSUME NEW n \in Nat, Has(n) PROVE Has(n + 1)
  <2>1. PICK h : h = [s \in Small(n) |-> Summed(f, h, s)] BY <1>3
  <2> DEFINE g == [s \in Small(n + 1) |-> Summed(f, h, s)]
  <2>2. ASSUME NEW s \in Small(n + 1) PROVE Summed(f, h, s) = Summed(f, g, s)
    <3>1. CASE s = {} BY <3>1 DEF Summed
    <3>2. CASE s # {}
      <4>1. One(s) \in s BY <3>2 DEF One
      <4>2. IsFiniteSet(s) /\ Cardinality(s) \in Nat /\ Cardinality(s) < n + 1 BY <1>1
      <4>3. Cardinality(s \ {One(s)}) = Cardinality(s) - 1 BY <4>1, <4>2, FS_RemoveElement
      <4>4. s \ {One(s)} \in Small(n) /\ s \ {One(s)} \in Small(n + 1) BY <1>1, <4>2, <4>3
      <4> HIDE DEF Small
      <4>5. g[s \ {One(s)}] = h[s \ {One(s)}] BY <2>1, <4>4
      <4> QED BY <4>5 DEF Summed
    <3> QED BY <3>1, <3>2
  <2> HIDE DEF Small
  <2>3. g = [s \in Small(n + 1) |-> Summed(f, g, s)] BY <2>2
  <2> QED BY <2>3
<1>4. \A n \in Nat : Has(n)
  <2> DEFINE bad == {n \in Nat : ~Has(n)}
  <2> SUFFICES ASSUME bad # {} PROVE FALSE
    <3> HIDE DEF Has
    <3> QED OBVIOUS
  <2> HIDE DEF Has
  <2>1. bad \in SUBSET Nat OBVIOUS
  <2>2. PICK m \in bad : \A n \in bad : m <= n BY <2>1, LeastNatural
  <2>3. m \in Nat /\ ~Has(m) /\ m # 0 BY <1>2, <2>2
  <2>4. m - 1 \in Nat /\ Has(m - 1) BY <2>2, <2>3
  <2>5. Has((m - 1) + 1) BY <1>3, <2>4
  <2> QED BY <2>3, <2>5
<1>5. Cardinality(S) \in Nat BY FS_CardinalityType
<1>6. Small(Cardinality(S) + 1) = SUBSET S
  <2>1. \A s \in SUBSET S : Cardinality(s) <= Cardinality(S) BY FS_Subset
  <2> QED BY <1>1, <1>5, <2>1
<1>7. Has(Cardinality(S) + 1)
  <2> HIDE DEF Has
  <2> QED BY <1>4, <1>5
<1> HIDE DEF Small
<1> QED BY <1>6, <1>7

\* h tells, of every subset of S, the sum of f over it.
Tells(h, f, S) ==
  /\ h[{}] = 0
  /\ \A s \in SUBSET S : h[s] \in Int /\ \A x \in s : h[s] = f[x] + h[s \ {x}]

\* Whichever element is taken first, the sum is the same.
LEMMA SumTells ==
  ASSUME NEW f, NEW S, IsFiniteSet(S), \A x \in S : f[x] \in Int
  PROVE  \E h : Tells(h, f, S) /\ h[S] = SumFunctionOnSet(f, S)
<1>1. PICK h : h = [s \in SUBSET S |-> Summed(f, h, s)] BY SumsExist
<1>2. PICK k : k = [s \in SUBSET S |-> Summed(f, k, s)] /\ k[S] = SumFunctionOnSet(f, S)
  <2>1. h = [s \in SUBSET S |-> IF s = {} THEN 0 ELSE f[CHOOSE x \in s : TRUE] + h[s \ {CHOOSE x \in s : TRUE}]]
    BY <1>1 DEF Summed, One
  <2>2. \E it : /\ it = [s \in SUBSET S |-> IF s = {} THEN 0 ELSE f[CHOOSE x \in s : TRUE] + it[s \ {CHOOSE x \in s : TRUE}]]
                /\ it[S] = SumFunctionOnSet(f, S)
    BY <2>1 DEF SumFunctionOnSet, FoldFunctionOnSet, MapThenFoldSet
  <2> QED BY <2>2 DEF Summed, One
<1>3. k[{}] = 0 /\ \A s \in SUBSET S : s # {} => One(s) \in s /\ k[s] = f[One(s)] + k[s \ {One(s)}]
  BY <1>2 DEF Summed, One
<1> DEFINE Fine(s) == k[s] \in Int /\ \A x \in s : k[s] = f[x] + k[s \ {x}]
<1>4. \A s \in SUBSET S : IsFiniteSet(s) /\ Cardinality(s) \in Nat BY FS_Subset, FS_CardinalityType
<1>5. ASSUME NEW s \in SUBSET S, \A t \in SUBSET S : Cardinality(t) < Cardinality(s) => Fine(t) PROVE Fine(s)
  <2>1. CASE s = {} BY <1>3, <2>1
  <2>2. CASE s # {}
    <3>1. One(s) \in s /\ k[s] = f[One(s)] + k[s \ {One(s)}] BY <1>3, <2>2
    <3>2. ASSUME NEW x \in s
          PROVE  s \ {x} \in SUBSET S /\ Cardinality(s \ {x}) < Cardinality(s) /\ Fine(s \ {x})
      <4>1. Cardinality(s \ {x}) = Cardinality(s) - 1 /\ s \ {x} \in SUBSET S BY <1>4, FS_RemoveElement
      <4>2. Cardinality(s) \in Nat BY <1>4
      <4>3. Cardinality(s \ {x}) < Cardinality(s) BY <4>1, <4>2
      <4> HIDE DEF Fine
      <4> QED BY <1>5, <4>1, <4>3
    <3>3. \A x \in s : k[s \ {x}] \in Int /\ f[x] \in Int BY <3>2
    <3>4. k[s] \in Int
      <4>1. k[s \ {One(s)}] \in Int /\ f[One(s)] \in Int BY <3>1, <3>3
      <4> QED BY <3>1, <4>1
    <3>5. ASSUME NEW x \in s PROVE k[s] = f[x] + k[s \ {x}]
      <4>1. CASE x = One(s) BY <3>1, <4>1
      <4>2. CASE x # One(s)
        <5>1. x \in s \ {One(s)} /\ One(s) \in s \ {x} BY <3>1, <4>2
        <5>2. k[s \ {One(s)}] = f[x] + k[(s \ {One(s)}) \ {x}] BY <3>1, <3>2, <5>1
        <5>3. k[s \ {x}] = f[One(s)] + k[(s \ {x}) \ {One(s)}] BY <3>2, <5>1
        <5>4. (s \ {One(s)}) \ {x} = (s \ {x}) \ {One(s)} OBVIOUS
        <5>5. (s \ {x}) \ {One(s)} \in SUBSET S /\ Cardinality((s \ {x}) \ {One(s)}) < Cardinality(s)
          <6>1. Cardinality((s \ {x}) \ {One(s)}) = Cardinality(s \ {x}) - 1
            BY <1>4, <3>2, <5>1, FS_RemoveElement
          <6>2. Cardinality(s \ {x}) \in Nat /\ Cardinality(s) \in Nat BY <1>4, <3>2
          <6>3. Cardinality(s \ {x}) < Cardinality(s) BY <3>2
          <6>4. (s \ {x}) \ {One(s)} \in SUBSET S OBVIOUS
          <6> QED BY <6>1, <6>2, <6>3, <6>4
        <5>6. k[(s \ {x}) \ {One(s)}] \in Int BY <1>5, <5>5
        <5>7. f[x] \in Int /\ f[One(s)] \in Int BY <3>1, <3>3
        <5> DEFINE r == k[(s \ {x}) \ {One(s)}]
        <5>8. k[s] = f[One(s)] + (f[x] + r) BY <3>1, <5>2, <5>4
        <5>9. k[s \ {x}] = f[One(s)] + r BY <5>3
        <5>10. r \in Int BY <5>6
        <5> HIDE DEF r
        <5> QED BY <5>7, <5>8, <5>9, <5>10
      <4> QED BY <4>1, <4>2
    <3> QED BY <3>4, <3>5
  <2> QED BY <2>1, <2>2
<1>6. \A s \in SUBSET S : Fine(s)
  <2> DEFINE bad == {s \in SUBSET S : ~Fine(s)}
  <2> HIDE DEF Fine
  <2> SUFFICES ASSUME bad # {} PROVE FALSE OBVIOUS
  <2>1. bad \in SUBSET SUBSET S OBVIOUS
  <2>2. PICK s \in bad : \A t \in bad : Cardinality(s) <= Cardinality(t) BY <2>1, SmallestSubset
  <2>3. \A t \in SUBSET S : Cardinality(t) < Cardinality(s) => Fine(t) BY <1>4, <2>2
  <2> QED BY <1>5, <2>2, <2>3
<1> QED BY <1>2, <1>3, <1>6 DEF Tells

\* Two that tell sums agree on a set where what they sum agrees.
LEMMA TellsSame ==
  ASSUME NEW h, NEW f, NEW S, NEW k, NEW g, NEW T, Tells(h, f, S), Tells(k, g, T),
         IsFiniteSet(S), NEW U \in SUBSET S, U \in SUBSET T, \A x \in U : f[x] = g[x]
  PROVE  h[U] = k[U]
<1> DEFINE bad == {s \in SUBSET U : h[s] # k[s]}
<1> SUFFICES ASSUME bad # {} PROVE FALSE OBVIOUS
<1>1. IsFiniteSet(U) /\ \A s \in SUBSET U : IsFiniteSet(s) /\ Cardinality(s) \in Nat BY FS_Subset, FS_CardinalityType
<1>2. bad \in SUBSET SUBSET U OBVIOUS
<1>3. PICK s \in bad : \A t \in bad : Cardinality(s) <= Cardinality(t) BY <1>1, <1>2, SmallestSubset
<1>4. s # {} BY <1>3 DEF Tells
<1>5. PICK x \in s : TRUE BY <1>4
<1>6. Cardinality(s \ {x}) = Cardinality(s) - 1 /\ s \ {x} \in SUBSET U BY <1>1, <1>5, FS_RemoveElement
<1>7. s \ {x} \notin bad BY <1>1, <1>3, <1>6
<1>8. h[s] = f[x] + h[s \ {x}] /\ k[s] = g[x] + k[s \ {x}] BY <1>3, <1>5 DEF Tells
<1> QED BY <1>3, <1>5, <1>6, <1>7, <1>8

\* The sum over the empty set, and over one element more.
LEMMA SumEmpty == ASSUME NEW f PROVE SumFunctionOnSet(f, {}) = 0
<1>1. PICK h : Tells(h, f, {}) /\ h[{}] = SumFunctionOnSet(f, {}) BY SumTells, FS_EmptySet
<1> QED BY <1>1 DEF Tells

LEMMA SumAdd ==
  ASSUME NEW f, NEW S, IsFiniteSet(S), \A x \in S : f[x] \in Int, NEW y \in S
  PROVE  /\ SumFunctionOnSet(f, S) \in Int
         /\ SumFunctionOnSet(f, S \ {y}) \in Int
         /\ SumFunctionOnSet(f, S) = f[y] + SumFunctionOnSet(f, S \ {y})
<1>1. PICK h : Tells(h, f, S) /\ h[S] = SumFunctionOnSet(f, S) BY SumTells
<1>2. IsFiniteSet(S \ {y}) BY FS_RemoveElement
<1>3. PICK k : Tells(k, f, S \ {y}) /\ k[S \ {y}] = SumFunctionOnSet(f, S \ {y}) BY <1>2, SumTells
<1>4. h[S \ {y}] = k[S \ {y}] BY <1>1, <1>3, TellsSame
<1>5. S \in SUBSET S /\ S \ {y} \in SUBSET (S \ {y}) OBVIOUS
<1>6. h[S] \in Int /\ h[S] = f[y] + h[S \ {y}] BY <1>1, <1>5 DEF Tells
<1>7. k[S \ {y}] \in Int BY <1>3, <1>5 DEF Tells
<1> QED BY <1>1, <1>3, <1>4, <1>6, <1>7

LEMMA SumInt ==
  ASSUME NEW f, NEW S, IsFiniteSet(S), \A x \in S : f[x] \in Int
  PROVE  SumFunctionOnSet(f, S) \in Int
<1>1. PICK h : Tells(h, f, S) /\ h[S] = SumFunctionOnSet(f, S) BY SumTells
<1> QED BY <1>1 DEF Tells

\* A sum depends on nothing but the values summed.
LEMMA SumSame ==
  ASSUME NEW f, NEW g, NEW S, IsFiniteSet(S), \A x \in S : f[x] \in Int /\ g[x] = f[x]
  PROVE  SumFunctionOnSet(g, S) = SumFunctionOnSet(f, S)
<1>1. PICK h : Tells(h, f, S) /\ h[S] = SumFunctionOnSet(f, S) BY SumTells
<1>2. \A x \in S : g[x] \in Int OBVIOUS
<1>3. PICK k : Tells(k, g, S) /\ k[S] = SumFunctionOnSet(g, S) BY <1>2, SumTells
<1> QED BY <1>1, <1>3, TellsSame

\* One value changes: the sum changes by as much.
LEMMA SumChange ==
  ASSUME NEW f, NEW g, NEW S, IsFiniteSet(S), \A x \in S : f[x] \in Int /\ g[x] \in Int,
         NEW y \in S, \A x \in S : x # y => g[x] = f[x]
  PROVE  /\ SumFunctionOnSet(f, S) \in Int /\ SumFunctionOnSet(g, S) \in Int
         /\ SumFunctionOnSet(g, S) = SumFunctionOnSet(f, S) + g[y] - f[y]
<1>1. IsFiniteSet(S \ {y}) BY FS_RemoveElement
<1>2. SumFunctionOnSet(g, S \ {y}) = SumFunctionOnSet(f, S \ {y}) BY <1>1, SumSame
<1>3. /\ SumFunctionOnSet(f, S) \in Int /\ SumFunctionOnSet(f, S \ {y}) \in Int
      /\ SumFunctionOnSet(f, S) = f[y] + SumFunctionOnSet(f, S \ {y})
  BY SumAdd
<1>4. /\ SumFunctionOnSet(g, S) \in Int /\ SumFunctionOnSet(g, S) = g[y] + SumFunctionOnSet(g, S \ {y})
  BY SumAdd
<1>5. f[y] \in Int /\ g[y] \in Int OBVIOUS
<1> QED BY <1>2, <1>3, <1>4, <1>5

\* Values of zero may be left out.
LEMMA SumDrop ==
  ASSUME NEW f, NEW S, IsFiniteSet(S), \A x \in S : f[x] \in Int,
         NEW T \in SUBSET S, \A x \in S \ T : f[x] = 0
  PROVE  SumFunctionOnSet(f, T) = SumFunctionOnSet(f, S)
<1> DEFINE bad == {U \in SUBSET S : T \subseteq U /\ SumFunctionOnSet(f, U) # SumFunctionOnSet(f, T)}
<1> SUFFICES ASSUME bad # {} PROVE FALSE OBVIOUS
<1>1. bad \in SUBSET SUBSET S OBVIOUS
<1>2. PICK U \in bad : \A V \in bad : Cardinality(U) <= Cardinality(V) BY <1>1, SmallestSubset
<1>3. PICK x \in U \ T : TRUE BY <1>2
<1>4. IsFiniteSet(U) /\ Cardinality(U) \in Nat BY <1>2, FS_Subset, FS_CardinalityType
<1>5. Cardinality(U \ {x}) = Cardinality(U) - 1 BY <1>3, <1>4, FS_RemoveElement
<1>6. U \ {x} \notin bad BY <1>2, <1>4, <1>5
<1>7. SumFunctionOnSet(f, U \ {x}) = SumFunctionOnSet(f, T) BY <1>2, <1>3, <1>6
<1>8. SumFunctionOnSet(f, U) = f[x] + SumFunctionOnSet(f, U \ {x}) /\ SumFunctionOnSet(f, U \ {x}) \in Int
  BY <1>2, <1>3, <1>4, SumAdd
<1>9. f[x] = 0 BY <1>2, <1>3
<1> QED BY <1>2, <1>7, <1>8, <1>9

\* A sum grows by everyone it is to cover, when each value grows by those who point at it.
LEMMA SumCovers ==
  ASSUME NEW f, NEW g, NEW S, IsFiniteSet(S), \A y \in S : f[y] \in Int /\ g[y] \in Int,
         NEW X, IsFiniteSet(X), NEW c, \A x \in X : c[x] \in S,
         \A y \in S : f[y] + Cardinality({x \in X : c[x] = y}) <= g[y]
  PROVE  SumFunctionOnSet(f, S) + Cardinality(X) <= SumFunctionOnSet(g, S)
<1> DEFINE At(y) == {x \in X : c[x] = y}
           In(U) == {x \in X : c[x] \in U}
           Fine(U) == SumFunctionOnSet(f, U) + Cardinality(In(U)) <= SumFunctionOnSet(g, U)
           bad == {U \in SUBSET S : ~Fine(U)}
<1>1. IsFiniteSet({}) /\ \A U \in SUBSET S : IsFiniteSet(U) /\ Cardinality(U) \in Nat
  BY FS_Subset, FS_CardinalityType, FS_EmptySet
<1>2. \A y : At(y) \in SUBSET X /\ IsFiniteSet(At(y)) /\ Cardinality(At(y)) \in Nat
  BY FS_Subset, FS_CardinalityType
<1>3. \A U : In(U) \in SUBSET X /\ IsFiniteSet(In(U)) /\ Cardinality(In(U)) \in Nat
  BY FS_Subset, FS_CardinalityType
<1>4. \A y \in S : f[y] + Cardinality(At(y)) <= g[y]
  OBVIOUS
<1>5. Fine({})
  <2>1. In({}) = {}
    OBVIOUS
  <2>2. Cardinality(In({})) = 0
    BY <2>1, FS_EmptySet
  <2> HIDE DEF In
  <2> QED BY <2>2, SumEmpty
<1>6. bad = {}
  <2> SUFFICES ASSUME bad # {} PROVE FALSE OBVIOUS
  <2> HIDE DEF Fine
  <2>1. bad \in SUBSET SUBSET S OBVIOUS
  <2>2. PICK U \in bad : \A V \in bad : Cardinality(U) <= Cardinality(V) BY <2>1, SmallestSubset
  <2>3. U \in SUBSET S /\ U # {} /\ ~Fine(U) BY <1>5, <2>2
  <2>4. PICK y \in U : TRUE BY <2>3
  <2> DEFINE V == U \ {y}
  <2>5. V \in SUBSET S /\ IsFiniteSet(U) /\ Cardinality(V) = Cardinality(U) - 1 /\ Cardinality(U) \in Nat
    BY <1>1, <2>3, <2>4, FS_RemoveElement
  <2>6. Fine(V)
    <3>1. V \notin bad BY <2>2, <2>5
    <3> QED BY <2>5, <3>1
  <2>7. /\ SumFunctionOnSet(f, U) = f[y] + SumFunctionOnSet(f, V) /\ SumFunctionOnSet(f, V) \in Int
        /\ SumFunctionOnSet(g, U) = g[y] + SumFunctionOnSet(g, V) /\ SumFunctionOnSet(g, V) \in Int
    <3>1. \A x \in U : f[x] \in Int BY <2>3
    <3>2. \A x \in U : g[x] \in Int BY <2>3
    <3>3. y \in U BY <2>4
    <3>4. IsFiniteSet(U) BY <2>5
    <3> HIDE DEF bad, In, At, V
    <3>5. SumFunctionOnSet(f, U) = f[y] + SumFunctionOnSet(f, U \ {y}) /\ SumFunctionOnSet(f, U \ {y}) \in Int
      BY ONLY <3>1, <3>3, <3>4, SumAdd
    <3>6. SumFunctionOnSet(g, U) = g[y] + SumFunctionOnSet(g, U \ {y}) /\ SumFunctionOnSet(g, U \ {y}) \in Int
      BY ONLY <3>2, <3>3, <3>4, SumAdd
    <3> QED BY <3>5, <3>6 DEF V
  <2>8. Cardinality(In(U)) = Cardinality(In(V)) + Cardinality(At(y))
    <3>1. In(U) = In(V) \cup At(y) /\ In(V) \cap At(y) = {}
      BY <2>4
    <3> HIDE DEF In, At, V
    <3>2. Cardinality(In(V) \cup At(y)) = Cardinality(In(V)) + Cardinality(At(y)) - Cardinality(In(V) \cap At(y))
      BY <1>2, <1>3, FS_Union
    <3>3. Cardinality(In(V) \cap At(y)) = 0
      BY <3>1, FS_EmptySet
    <3> QED BY <1>2, <1>3, <3>1, <3>2, <3>3
  <2>9. f[y] \in Int /\ g[y] \in Int /\ f[y] + Cardinality(At(y)) <= g[y] BY <1>4, <2>3, <2>4
  <2> HIDE DEF In, At, V
  <2>10. Fine(U) BY <1>2, <1>3, <2>6, <2>7, <2>8, <2>9 DEF Fine
  <2> QED BY <2>3, <2>10
<1>7. In(S) = X OBVIOUS
<1> HIDE DEF In
<1> QED BY <1>6, <1>7

-----------------------------------------------------------------------------
(* Quotients *)

\* What a quotient and a rest are.
LEMMA Quotient ==
  ASSUME NEW a \in Int, NEW b \in Nat \ {0}
  PROVE  /\ a \div b \in Int /\ a % b \in 0 .. b - 1 /\ a = b * (a \div b) + (a % b)
<1>1. b \in Int /\ b > 0 OBVIOUS
<1>2. a = b * (a \div b) + (a % b) BY <1>1
<1>3. a \div b \in Int OBVIOUS
<1>4. a % b \in 0 .. b - 1 OBVIOUS
<1> QED BY <1>2, <1>3, <1>4

\* And which one is at least c.
LEMMA QuotientAtLeast ==
  ASSUME NEW a \in Int, NEW b \in Nat \ {0}, NEW c \in Int
  PROVE  a \div b >= c <=> a >= b * c
<1>1. /\ a \div b \in Int /\ a % b \in 0 .. b - 1 /\ a = b * (a \div b) + (a % b) BY Quotient
<1> DEFINE q == a \div b
           m == a % b
<1>2. q \in Int /\ m \in Int /\ 0 <= m /\ m < b /\ a = b * q + m BY <1>1
<1> HIDE DEF q, m
<1>3. q >= c => b * q >= b * c BY <1>2
<1>4. ~(q >= c) => b * q <= b * c - b
  <2>1. ~(q >= c) => q <= c - 1 BY <1>2
  <2>2. q <= c - 1 => b * q <= b * (c - 1) BY <1>2
  <2>3. b * (c - 1) = b * c - b BY <1>2
  <2> QED BY <2>1, <2>2, <2>3
<1>5. b * q \in Int /\ b * c \in Int BY <1>2
<1>6. q >= c <=> a >= b * c BY <1>2, <1>3, <1>4, <1>5
<1> QED BY <1>6 DEF q

===============================================================================
