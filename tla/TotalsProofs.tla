---------------------------- MODULE TotalsProofs ----------------------------
(***************************************************************************)
(* What the other proofs need to know of totals.  The library's induction  *)
(* theorems cannot be instantiated by the provers at hand; a total is      *)
(* counted instead: as many pairs <<x, i>> as f says of each x, a set      *)
(* whose cardinality the theorems about finite sets give.  That the fold   *)
(* computes this number is shown from a smallest set for which it does not.*)
(***************************************************************************)
EXTENDS Totals, FiniteSetTheorems, TLAPS

\* As many units of each member of S as f says.
Units(f, S) == UNION {{x} \X (1 .. f[x]) : x \in S}

\* f is natural on the finite set S.
Counts(f, S) == IsFiniteSet(S) /\ \A x \in S : f[x] \in Nat

\* g is a fold of f over the subsets of S, element by element.
Pick(s) == CHOOSE x \in s : TRUE
IsFold(g, f, S) ==
    g = [s \in SUBSET S |-> IF s = {} THEN 0 ELSE f[Pick(s)] + g[s \ {Pick(s)}]]

\* The units are the pairs whose number is at most what f says.
LEMMA UnitsMembers ==
    ASSUME NEW f, NEW S, NEW u
    PROVE  u \in Units(f, S) <=> \E x \in S : \E i \in 1 .. f[x] : u = <<x, i>>
BY DEF Units

\* f units of x are f[x].
LEMMA UnitsOfOne ==
    ASSUME NEW f, NEW x, f[x] \in Nat
    PROVE  IsFiniteSet({x} \X (1 .. f[x])) /\ Cardinality({x} \X (1 .. f[x])) = f[x]
<1>1. IsFiniteSet(1 .. f[x]) /\ Cardinality(1 .. f[x]) = f[x]
  BY FS_Interval
<1>2. IsFiniteSet({x}) /\ Cardinality({x}) = 1
  BY FS_Singleton
<1>3. IsFiniteSet({x} \X (1 .. f[x])) /\ Cardinality({x} \X (1 .. f[x])) = 1 * f[x]
  BY <1>1, <1>2, FS_Product, ZenonT(40)
<1> QED BY <1>3

\* Finitely many members have finitely many units.
LEMMA UnitsFinite ==
    ASSUME NEW f, NEW S, Counts(f, S)
    PROVE  IsFiniteSet(Units(f, S)) /\ Cardinality(Units(f, S)) \in Nat
<1> DEFINE h == [x \in S |-> {x} \X (1 .. f[x])]
           T == {{x} \X (1 .. f[x]) : x \in S}
<1>1. h \in Surjection(S, T)
  BY DEF Surjection
<1>2. IsFiniteSet(T)
  BY <1>1, FS_Surjection DEF Counts
<1>3. \A t \in T : IsFiniteSet(t)
  BY UnitsOfOne DEF Counts
<1>4. IsFiniteSet(Units(f, S))
  BY <1>2, <1>3, FS_UNION DEF Units
<1> QED BY <1>4, FS_CardinalityType

\* Taking one member away takes its units away.
LEMMA UnitsRemove ==
    ASSUME NEW f, NEW S, Counts(f, S), NEW x \in S
    PROVE  Cardinality(Units(f, S)) = f[x] + Cardinality(Units(f, S \ {x}))
<1> DEFINE one == {x} \X (1 .. f[x])
           rest == Units(f, S \ {x})
<1>1. Units(f, S) = one \cup rest
  BY DEF Units
<1>2. one \cap rest = {}
  BY DEF Units
<1>3. Counts(f, S \ {x})
  BY FS_Difference DEF Counts
<1>4. IsFiniteSet(one) /\ Cardinality(one) = f[x] /\ f[x] \in Nat
  BY UnitsOfOne DEF Counts
<1>5. IsFiniteSet(rest) /\ Cardinality(rest) \in Nat
  BY <1>3, UnitsFinite
<1> HIDE DEF one, rest
<1>6. Cardinality(one \cup rest) = Cardinality(one) + Cardinality(rest) - Cardinality(one \cap rest)
  BY <1>4, <1>5, FS_Union, Zenon
<1>7. Cardinality(one \cap rest) = 0
  BY <1>2, FS_EmptySet
<1>8. Cardinality(Units(f, S)) = f[x] + Cardinality(rest)
  BY <1>1, <1>4, <1>5, <1>6, <1>7
<1> QED BY <1>8 DEF rest

\* No members, no units.
LEMMA UnitsNone == ASSUME NEW f PROVE Cardinality(Units(f, {})) = 0
<1>1. Units(f, {}) = {}
  BY DEF Units
<1> QED BY <1>1, FS_EmptySet

\* The fold of the community modules is one, if there is any.
LEMMA FoldChooses ==
    ASSUME NEW f, NEW S, \E g : IsFold(g, f, S)
    PROVE  \E g : IsFold(g, f, S) /\ Total(f, S) = g[S]
<1> DEFINE g == CHOOSE g : g = [s \in SUBSET S |-> IF s = {} THEN 0
                        ELSE f[CHOOSE x \in s : TRUE] + g[s \ {CHOOSE x \in s : TRUE}]]
<1>1. IsFold(g, f, S)
  BY Zenon DEF IsFold, Pick
<1>2. Total(f, S) = g[S]
  BY Zenon DEF Total, MapThenSumSet, MapThenFoldSet
<1> QED BY <1>1, <1>2

\* Counting is a fold.
LEMMA CountingFolds ==
    ASSUME NEW f, NEW S, Counts(f, S)
    PROVE  IsFold([s \in SUBSET S |-> Cardinality(Units(f, s))], f, S)
<1> DEFINE g == [s \in SUBSET S |-> Cardinality(Units(f, s))]
<1>1. ASSUME NEW s \in SUBSET S
      PROVE  g[s] = IF s = {} THEN 0 ELSE f[Pick(s)] + g[s \ {Pick(s)}]
  <2>1. CASE s = {}
    BY <2>1, UnitsNone
  <2>2. CASE s # {}
    <3>1. Pick(s) \in s
      BY <2>2 DEF Pick
    <3>2. Counts(f, s)
      BY FS_Subset DEF Counts
    <3>3. s \ {Pick(s)} \in SUBSET S
      OBVIOUS
    <3> QED BY <2>2, <3>1, <3>2, <3>3, UnitsRemove
  <2> QED BY <2>1, <2>2
<1>2. g = [s \in SUBSET S |-> IF s = {} THEN 0 ELSE f[Pick(s)] + g[s \ {Pick(s)}]]
  BY <1>1
<1> QED BY <1>2 DEF IsFold

\* There is no other fold: two of them agree on a smallest set on which they differ.
LEMMA FoldsAgree ==
    ASSUME NEW f, NEW S, IsFiniteSet(S), NEW g, NEW h, IsFold(g, f, S), IsFold(h, f, S)
    PROVE  g[S] = h[S]
<1> DEFINE wrong == {s \in SUBSET S : g[s] # h[s]}
<1>1. SUFFICES ASSUME wrong # {} PROVE FALSE
  OBVIOUS
<1>2. IsWellFoundedOn(StrictSubsetOrdering(S), SUBSET S)
  BY FS_StrictSubsetOrderingWellFounded, FS_FiniteSubsetsOfFinite
<1>3. PICK s \in wrong : \A t \in wrong : ~(<<t, s>> \in StrictSubsetOrdering(S))
  <2>1. wrong \subseteq SUBSET S
    OBVIOUS
  <2> HIDE DEF wrong
  <2> QED BY <1>1, <1>2, <2>1, WFMin
<1>4. s # {}
  BY DEF IsFold
<1>5. Pick(s) \in s
  BY <1>4 DEF Pick
<1> DEFINE t == s \ {Pick(s)}
<1>6. t \in SUBSET S /\ t \subseteq s /\ t # s
  BY <1>5
<1>7. <<t, s>> \in StrictSubsetOrdering(S)
  BY <1>6 DEF StrictSubsetOrdering
<1>8. g[t] = h[t]
  BY <1>3, <1>6, <1>7
<1>9. g[s] = f[Pick(s)] + g[t] /\ h[s] = f[Pick(s)] + h[t]
  BY <1>4, <1>6 DEF IsFold
<1> QED BY <1>3, <1>8, <1>9

\* A total is the number of its units.
THEOREM TotalCounts ==
    ASSUME NEW f, NEW S, Counts(f, S)
    PROVE  Total(f, S) = Cardinality(Units(f, S))
<1> DEFINE h == [s \in SUBSET S |-> Cardinality(Units(f, s))]
<1>1. IsFold(h, f, S)
  BY CountingFolds
<1>2. PICK g : IsFold(g, f, S) /\ Total(f, S) = g[S]
  BY <1>1, FoldChooses
<1>3. g[S] = h[S]
  BY <1>1, <1>2, FoldsAgree DEF Counts
<1> QED BY <1>2, <1>3

\* A total of naturals is a natural.
THEOREM TotalType ==
    ASSUME NEW f, NEW S, Counts(f, S)
    PROVE  Total(f, S) \in Nat
BY TotalCounts, UnitsFinite

\* Nothing adds up to nothing.
THEOREM TotalEmpty == ASSUME NEW f PROVE Total(f, {}) = 0
<1>1. Counts(f, {})
  BY FS_EmptySet DEF Counts
<1> QED BY <1>1, TotalCounts, UnitsNone

\* One member apart.
THEOREM TotalRemove ==
    ASSUME NEW f, NEW S, Counts(f, S), NEW x \in S
    PROVE  /\ Total(f, S) = f[x] + Total(f, S \ {x})
           /\ Counts(f, S \ {x}) /\ Total(f, S \ {x}) \in Nat
<1>1. Counts(f, S \ {x})
  BY FS_Difference DEF Counts
<1> QED BY <1>1, TotalCounts, UnitsRemove, UnitsFinite

\* A larger function has a larger total.
THEOREM TotalMonotone ==
    ASSUME NEW f, NEW g, NEW S, Counts(f, S), Counts(g, S), \A x \in S : f[x] <= g[x]
    PROVE  Total(f, S) <= Total(g, S)
<1>1. Units(f, S) \subseteq Units(g, S)
  <2> SUFFICES ASSUME NEW u \in Units(f, S) PROVE u \in Units(g, S)
    OBVIOUS
  <2>1. PICK x \in S : \E i \in 1 .. f[x] : u = <<x, i>>
    BY UnitsMembers
  <2>2. 1 .. f[x] \subseteq 1 .. g[x]
    BY DEF Counts
  <2> QED BY <2>1, <2>2, UnitsMembers
<1>2. Cardinality(Units(f, S)) <= Cardinality(Units(g, S))
  BY <1>1, UnitsFinite, FS_Subset
<1> QED BY <1>2, TotalCounts

\* A total depends only on what is added up.
THEOREM TotalSame ==
    ASSUME NEW f, NEW g, NEW S, Counts(f, S), \A x \in S : f[x] = g[x]
    PROVE  Total(f, S) = Total(g, S)
<1>1. Counts(g, S)
  BY DEF Counts
<1>2. Units(f, S) = Units(g, S)
  <2>1. ASSUME NEW u PROVE u \in Units(f, S) <=> u \in Units(g, S)
    BY UnitsMembers
  <2> QED BY <2>1
<1> QED BY <1>1, <1>2, TotalCounts

\* Members that count nothing may be left out.
THEOREM TotalZeros ==
    ASSUME NEW f, NEW S, NEW T \in SUBSET S, Counts(f, S), \A x \in S \ T : f[x] = 0
    PROVE  Total(f, S) = Total(f, T)
<1>1. Counts(f, T)
  BY FS_Subset DEF Counts
<1>2. ASSUME NEW u PROVE u \in Units(f, S) <=> u \in Units(f, T)
  BY UnitsMembers
<1>3. Units(f, S) = Units(f, T)
  BY <1>2
<1> QED BY <1>1, <1>3, TotalCounts

\* A change of one member changes the total by as much.
THEOREM TotalChange ==
    ASSUME NEW f, NEW g, NEW S, Counts(f, S), Counts(g, S), NEW x \in S,
           \A y \in S \ {x} : f[y] = g[y]
    PROVE  Total(g, S) = Total(f, S) + g[x] - f[x]
<1>1. Total(f, S \ {x}) = Total(g, S \ {x})
  BY TotalRemove, TotalSame
<1>2. /\ Total(f, S) = f[x] + Total(f, S \ {x}) /\ Total(f, S \ {x}) \in Nat
      /\ Total(g, S) = g[x] + Total(g, S \ {x}) /\ Total(g, S \ {x}) \in Nat
  BY TotalRemove
<1>3. f[x] \in Nat /\ g[x] \in Nat
  BY DEF Counts
<1> QED BY <1>1, <1>2, <1>3

\* A member counts no more than all of them.
THEOREM TotalAtLeast ==
    ASSUME NEW f, NEW S, Counts(f, S), NEW x \in S
    PROVE  f[x] <= Total(f, S)
<1>1. f[x] \in Nat
  BY DEF Counts
<1>2. Total(f, S) = f[x] + Total(f, S \ {x}) /\ Total(f, S \ {x}) \in Nat
  BY TotalRemove
<1> QED BY <1>1, <1>2

\* What one member lacks, all of them lack.
THEOREM TotalGap ==
    ASSUME NEW f, NEW g, NEW S, Counts(f, S), Counts(g, S), \A y \in S : f[y] <= g[y], NEW x \in S
    PROVE  g[x] - f[x] <= Total(g, S) - Total(f, S)
<1>1. Counts(f, S \ {x}) /\ Counts(g, S \ {x})
  BY TotalRemove
<1>2. Total(f, S \ {x}) <= Total(g, S \ {x})
  BY <1>1, TotalMonotone
<1>3. /\ Total(f, S) = f[x] + Total(f, S \ {x}) /\ Total(f, S \ {x}) \in Nat
      /\ Total(g, S) = g[x] + Total(g, S \ {x}) /\ Total(g, S \ {x}) \in Nat
  BY TotalRemove
<1>4. f[x] \in Nat /\ g[x] \in Nat
  BY DEF Counts
<1> QED BY <1>2, <1>3, <1>4

\* A member more.
THEOREM TotalAdd ==
    ASSUME NEW f, NEW S, NEW x, x \notin S, Counts(f, S), f[x] \in Nat
    PROVE  /\ Total(f, S \cup {x}) = f[x] + Total(f, S)
           /\ Counts(f, S \cup {x})
<1>1. Counts(f, S \cup {x})
  BY FS_AddElement DEF Counts
<1>2. (S \cup {x}) \ {x} = S
  OBVIOUS
<1> QED BY <1>1, <1>2, TotalRemove

\* Every non-empty set of naturals has a least one.
LEMMA LeastNatural ==
    ASSUME NEW T \in SUBSET Nat, T # {}
    PROVE  Min(T) \in T /\ \A y \in T : Min(T) <= y
<1> DEFINE less == {ss \in Nat \X Nat : ss[1] < ss[2]}
<1>1. OpToRel(<, Nat) = less
  BY Zenon DEF OpToRel
<1>2. IsWellFoundedOn(less, Nat)
  BY <1>1, NatLessThanWellFounded, Zenon
<1>3. \E x \in T : \A y \in T : ~(<<y, x>> \in less)
  <2> HIDE DEF less
  <2> QED BY <1>2, WFMin
<1>4. PICK x \in T : \A y \in T : ~(<<y, x>> \in less)
  BY <1>3
<1>5. ASSUME NEW y \in T PROVE x <= y
  <2>1. x \in Nat /\ y \in Nat
    OBVIOUS
  <2>2. y < x => <<y, x>> \in less
    BY <2>1
  <2> HIDE DEF less
  <2> QED BY <1>4, <2>1, <2>2
<1> QED BY <1>5 DEF Min

\* Two sets apart.
THEOREM TotalSplit ==
    ASSUME NEW f, NEW S, NEW T, Counts(f, S), Counts(f, T), S \cap T = {}
    PROVE  Counts(f, S \cup T) /\ Total(f, S \cup T) = Total(f, S) + Total(f, T)
<1> DEFINE a == Units(f, S)
           b == Units(f, T)
<1>1. Counts(f, S \cup T)
  BY FS_Union DEF Counts
<1>2. Units(f, S \cup T) = a \cup b /\ a \cap b = {}
  BY DEF Units
<1>3. IsFiniteSet(a) /\ Cardinality(a) \in Nat /\ IsFiniteSet(b) /\ Cardinality(b) \in Nat
  BY UnitsFinite
<1>4. Total(f, S) = Cardinality(a) /\ Total(f, T) = Cardinality(b)
      /\ Total(f, S \cup T) = Cardinality(Units(f, S \cup T))
  BY <1>1, TotalCounts
<1> HIDE DEF a, b
<1>5. Cardinality(a \cup b) = Cardinality(a) + Cardinality(b) - Cardinality(a \cap b)
  BY <1>3, FS_Union, Zenon
<1>6. Cardinality(a \cap b) = 0
  BY <1>2, FS_EmptySet
<1>7. Cardinality(a \cup b) = Cardinality(a) + Cardinality(b)
  BY <1>3, <1>5, <1>6
<1> QED BY <1>1, <1>2, <1>4, <1>7

\* The pairs of a member s of S and a member of the set A[s].
Cells(A, S) == UNION {{s} \X A[s] : s \in S}

\* The sizes of sets add up to the number of their pairs.
THEOREM TotalSizes ==
    ASSUME NEW A, NEW c, NEW S, IsFiniteSet(S),
           \A s \in S : IsFiniteSet(A[s]) /\ c[s] = Cardinality(A[s])
    PROVE  /\ Counts(c, S) /\ IsFiniteSet(Cells(A, S))
           /\ Total(c, S) = Cardinality(Cells(A, S))
<1>1. Counts(c, S)
  BY FS_CardinalityType DEF Counts
<1> DEFINE b == [s \in S |-> CHOOSE h : h \in Bijection(1 .. c[s], A[s])]
           F == [u \in Units(c, S) |-> <<u[1], b[u[1]][u[2]]>>]
<1>2. \A s \in S : b[s] \in Bijection(1 .. c[s], A[s])
  BY FS_CardinalityType DEF ExistsBijection
<1> HIDE DEF b
<1>3. \A s \in S : /\ \A i \in 1 .. c[s] : b[s][i] \in A[s]
                   /\ \A i, j \in 1 .. c[s] : b[s][i] = b[s][j] => i = j
                   /\ \A t \in A[s] : \E i \in 1 .. c[s] : b[s][i] = t
  BY <1>2 DEF Bijection, Injection, Surjection, IsInjective
<1>4. \A u \in Units(c, S) : u[1] \in S /\ u[2] \in 1 .. c[u[1]] /\ u = <<u[1], u[2]>>
  BY DEF Units
<1>5. \A s \in S : \A i \in 1 .. c[s] : <<s, i>> \in Units(c, S)
  BY DEF Units
<1>6. \A v : v \in Cells(A, S) <=> \E s \in S : \E t \in A[s] : v = <<s, t>>
  BY DEF Cells
<1>7. F \in [Units(c, S) -> Cells(A, S)]
  BY <1>3, <1>4, <1>6
<1>8. ASSUME NEW u \in Units(c, S), NEW v \in Units(c, S), F[u] = F[v] PROVE u = v
  <2>1. u[1] = v[1] /\ b[u[1]][u[2]] = b[v[1]][v[2]]
    BY <1>8
  <2> QED BY <1>3, <1>4, <2>1
<1>9. ASSUME NEW v \in Cells(A, S) PROVE \E u \in Units(c, S) : F[u] = v
  <2>1. PICK s \in S : \E t \in A[s] : v = <<s, t>>
    BY <1>6
  <2>2. PICK t \in A[s] : v = <<s, t>>
    BY <2>1
  <2>3. PICK i \in 1 .. c[s] : b[s][i] = t
    BY <1>3
  <2>4. <<s, i>> \in Units(c, S) /\ F[<<s, i>>] = v
    BY <1>5, <2>2, <2>3
  <2> QED BY <2>4
<1>10. F \in Bijection(Units(c, S), Cells(A, S))
  <2> HIDE DEF F
  <2> QED BY <1>7, <1>8, <1>9 DEF Bijection, Injection, Surjection, IsInjective
<1>11. IsFiniteSet(Units(c, S)) /\ ExistsBijection(Units(c, S), Cells(A, S))
  BY <1>1, <1>10, UnitsFinite DEF ExistsBijection
<1>12. IsFiniteSet(Cells(A, S)) /\ Cardinality(Cells(A, S)) = Cardinality(Units(c, S))
  BY <1>11, FS_Bijection
<1> QED BY <1>1, <1>12, TotalCounts

\* The total of a sum is the sum of the totals.
THEOREM TotalSum ==
    ASSUME NEW f, NEW d, NEW h, NEW S, Counts(f, S), Counts(d, S), \A x \in S : h[x] = f[x] + d[x]
    PROVE  Counts(h, S) /\ Total(h, S) = Total(f, S) + Total(d, S)
<1> DEFINE a == Units(f, S)
           b == Units(d, S)
           c == UNION {{x} \X (f[x] + 1 .. h[x]) : x \in S}
           F == [u \in b |-> <<u[1], f[u[1]] + u[2]>>]
<1>1. Counts(h, S)
  BY DEF Counts
<1>2. \A x \in S : f[x] \in Nat /\ d[x] \in Nat /\ h[x] = f[x] + d[x]
  BY DEF Counts
<1>3. \A v : v \in c <=> \E x \in S : \E i \in f[x] + 1 .. h[x] : v = <<x, i>>
  OBVIOUS
<1>4. \A v : v \in a <=> \E x \in S : \E i \in 1 .. f[x] : v = <<x, i>>
  BY UnitsMembers
<1>5. \A v : v \in b <=> \E x \in S : \E i \in 1 .. d[x] : v = <<x, i>>
  BY UnitsMembers
<1>6. \A v : v \in Units(h, S) <=> \E x \in S : \E i \in 1 .. h[x] : v = <<x, i>>
  BY UnitsMembers
<1>0. IsFiniteSet(a) /\ Cardinality(a) \in Nat /\ IsFiniteSet(b) /\ Cardinality(b) \in Nat
  BY UnitsFinite
<1>00. Total(f, S) = Cardinality(a) /\ Total(d, S) = Cardinality(b) /\ Total(h, S) = Cardinality(Units(h, S))
  BY <1>1, TotalCounts
<1> HIDE DEF a, b, c
<1>7. Units(h, S) = a \cup c
  <2>1. ASSUME NEW v \in Units(h, S) PROVE v \in a \cup c
    <3>1. PICK x \in S : \E i \in 1 .. h[x] : v = <<x, i>>
      BY <1>6
    <3>2. PICK i \in 1 .. h[x] : v = <<x, i>>
      BY <3>1
    <3>3. i \in 1 .. f[x] \/ i \in f[x] + 1 .. h[x]
      BY <1>2
    <3> QED BY <1>3, <1>4, <3>2, <3>3
  <2>2. ASSUME NEW v \in a \cup c PROVE v \in Units(h, S)
    <3>1. PICK x \in S : \E i \in (1 .. f[x]) \cup (f[x] + 1 .. h[x]) : v = <<x, i>>
      BY <1>3, <1>4
    <3>2. PICK i \in (1 .. f[x]) \cup (f[x] + 1 .. h[x]) : v = <<x, i>>
      BY <3>1
    <3>3. i \in 1 .. h[x]
      BY <1>2
    <3> QED BY <1>6, <3>2, <3>3
  <2> QED BY <2>1, <2>2
<1>8. a \cap c = {}
  <2> SUFFICES ASSUME NEW v \in a, v \in c PROVE FALSE
    OBVIOUS
  <2>1. PICK x \in S : \E i \in 1 .. f[x] : v = <<x, i>>
    BY <1>4
  <2>2. PICK i \in 1 .. f[x] : v = <<x, i>>
    BY <2>1
  <2>3. PICK y \in S : \E j \in f[y] + 1 .. h[y] : v = <<y, j>>
    BY <1>3
  <2>4. PICK j \in f[y] + 1 .. h[y] : v = <<y, j>>
    BY <2>3
  <2>5. x = y /\ i = j
    BY <2>2, <2>4
  <2> QED BY <1>2, <2>5
<1>9. \A u \in b : u[1] \in S /\ u[2] \in 1 .. d[u[1]] /\ u = <<u[1], u[2]>>
  BY <1>5
<1>10. F \in [b -> c]
  <2> SUFFICES ASSUME NEW u \in b PROVE <<u[1], f[u[1]] + u[2]>> \in c
    OBVIOUS
  <2>1. u[1] \in S /\ u[2] \in 1 .. d[u[1]]
    BY <1>9
  <2>2. f[u[1]] + u[2] \in f[u[1]] + 1 .. h[u[1]]
    BY <1>2, <2>1
  <2> QED BY <1>3, <2>1, <2>2
<1>11. ASSUME NEW u \in b, NEW v \in b, F[u] = F[v] PROVE u = v
  <2>1. u[1] = v[1] /\ f[u[1]] + u[2] = f[v[1]] + v[2]
    BY <1>11
  <2>2. u[1] \in S /\ u[2] \in Int /\ v[2] \in Int /\ f[u[1]] \in Nat
    BY <1>2, <1>9
  <2>3. u[2] = v[2]
    BY <2>1, <2>2
  <2> QED BY <1>9, <2>1, <2>3
<1>12. ASSUME NEW v \in c PROVE \E u \in b : F[u] = v
  <2>1. PICK x \in S : \E i \in f[x] + 1 .. h[x] : v = <<x, i>>
    BY <1>3
  <2>2. PICK i \in f[x] + 1 .. h[x] : v = <<x, i>>
    BY <2>1
  <2>3. i - f[x] \in 1 .. d[x] /\ f[x] + (i - f[x]) = i
    BY <1>2
  <2>4. <<x, i - f[x]>> \in b
    BY <1>5, <2>3
  <2>5. F[<<x, i - f[x]>>] = v
    BY <2>2, <2>3, <2>4
  <2> QED BY <2>4, <2>5
<1>13. F \in Bijection(b, c)
  <2> HIDE DEF F
  <2> QED BY <1>10, <1>11, <1>12 DEF Bijection, Injection, Surjection, IsInjective
<1>14. IsFiniteSet(c) /\ Cardinality(c) = Cardinality(b)
  <2>1. ExistsBijection(b, c)
    BY <1>13 DEF ExistsBijection
  <2> QED BY <1>0, <2>1, FS_Bijection
<1>15. Cardinality(a \cup c) = Cardinality(a) + Cardinality(c) - Cardinality(a \cap c)
  BY <1>0, <1>14, FS_Union, Zenon
<1>16. Cardinality(a \cap c) = 0
  BY <1>8, FS_EmptySet
<1> QED BY <1>0, <1>00, <1>1, <1>7, <1>14, <1>15, <1>16

\* Every finite set of naturals that is not empty has a largest one.
LEMMA LargestNatural ==
    ASSUME NEW T \in SUBSET Nat, NEW n \in Nat, T # {}, \A y \in T : y <= n
    PROVE  Max(T) \in T /\ \A y \in T : y <= Max(T)
<1> DEFINE G == {n - y : y \in T}
<1>0. \A y \in T : n - y \in Nat
  OBVIOUS
<1>1. G \in SUBSET Nat /\ G # {}
  BY <1>0
<1>2. Min(G) \in G /\ \A z \in G : Min(G) <= z
  <2> HIDE DEF G
  <2> QED BY <1>1, LeastNatural
<1>3. PICK x \in T : Min(G) = n - x
  BY <1>2
<1>4. \A y \in T : x >= y
  <2> SUFFICES ASSUME NEW y \in T PROVE x >= y
    OBVIOUS
  <2>1. n - x <= n - y
    BY <1>2, <1>3
  <2> QED BY <2>1
<1>5. \E z \in T : \A y \in T : z >= y
  BY <1>4
<1>6. Max(T) \in T /\ \A y \in T : Max(T) >= y
  BY <1>5 DEF Max
<1> QED BY <1>6

\* A total over a sequence, without its first member.
THEOREM TotalShift ==
    ASSUME NEW n \in Nat, NEW f, NEW g, Counts(f, 1 .. n + 1), \A k \in 1 .. n : g[k] = f[k + 1]
    PROVE  Counts(g, 1 .. n) /\ Total(f, 1 .. n + 1) = f[1] + Total(g, 1 .. n)
<1> DEFINE A == 1 .. n + 1
           S == 2 .. n + 1
           a == Units(g, 1 .. n)
           b == Units(f, S)
           F == [u \in a |-> <<u[1] + 1, u[2]>>]
<1>1. (1 .. n + 1) \ {1} = S /\ 1 \in 1 .. n + 1
  OBVIOUS
<1>2. Counts(f, S) /\ Total(f, 1 .. n + 1) = f[1] + Total(f, S)
  <2>1. A \ {1} = S /\ 1 \in A /\ Counts(f, A)
    BY <1>1
  <2> HIDE DEF A, S
  <2>2. \A x \in A : Total(f, A) = f[x] + Total(f, A \ {x}) /\ Counts(f, A \ {x})
    BY <2>1, TotalRemove
  <2> QED BY <2>1, <2>2 DEF A
<1>3. \A k \in 1 .. n : k + 1 \in S /\ k + 1 \in 1 .. n + 1
  OBVIOUS
<1>4. Counts(g, 1 .. n)
  <2>1. IsFiniteSet(1 .. n)
    BY FS_Interval
  <2> QED BY <2>1, <1>3 DEF Counts
<1>5. \A u : u \in a <=> \E x \in 1 .. n : \E i \in 1 .. g[x] : u = <<x, i>>
  BY UnitsMembers
<1>6. \A u : u \in b <=> \E x \in S : \E i \in 1 .. f[x] : u = <<x, i>>
  BY UnitsMembers
<1> HIDE DEF a, b
<1>7. \A u \in a : u[1] \in 1 .. n /\ u[2] \in 1 .. g[u[1]] /\ u = <<u[1], u[2]>>
  BY <1>5
<1>8. \A u \in a : F[u] = <<u[1] + 1, u[2]>>
  OBVIOUS
<1>9. F \in [a -> b]
  <2>1. ASSUME NEW u \in a PROVE <<u[1] + 1, u[2]>> \in b
    BY <1>3, <1>6, <1>7
  <2> QED BY <2>1
<1>10. ASSUME NEW u \in a, NEW v \in a, F[u] = F[v] PROVE u = v
  <2>1. u[1] + 1 = v[1] + 1 /\ u[2] = v[2]
    BY <1>8, <1>10
  <2>2. u[1] = v[1]
    BY <2>1, <1>7
  <2> QED BY <2>1, <2>2, <1>7
<1>11. ASSUME NEW v \in b PROVE \E u \in a : F[u] = v
  <2>1. PICK x \in S : \E i \in 1 .. f[x] : v = <<x, i>>
    BY <1>6
  <2>2. PICK i \in 1 .. f[x] : v = <<x, i>>
    BY <2>1
  <2>3. x - 1 \in 1 .. n /\ (x - 1) + 1 = x
    OBVIOUS
  <2>4. g[x - 1] = f[(x - 1) + 1]
    BY <2>3
  <2>5. <<x - 1, i>> \in a
    BY <2>2, <2>3, <2>4, <1>5
  <2>6. F[<<x - 1, i>>] = v
    BY <2>2, <2>3, <2>5, <1>8
  <2> QED BY <2>5, <2>6
<1>12. F \in Bijection(a, b)
  <2> HIDE DEF F
  <2> QED BY <1>9, <1>10, <1>11 DEF Bijection, Injection, Surjection, IsInjective
<1>13. IsFiniteSet(a) /\ ExistsBijection(a, b)
  BY <1>4, <1>12, UnitsFinite DEF ExistsBijection, a
<1>14. Cardinality(b) = Cardinality(a)
  BY <1>13, FS_Bijection
<1> QED BY <1>2, <1>4, <1>14, TotalCounts DEF a, b
=============================================================================
