------------------------------ MODULE DataFacts ------------------------------
(***************************************************************************)
(* What the proofs need of data: the least and the greatest of a set of    *)
(* natural numbers, sums over finite sets (SumFunctionOnSet), functions    *)
(* defined by recursion, and lists put behind one another (FlattenSeq).    *)
(*                                                                         *)
(* The induction theorems of the library take an operator as parameter;    *)
(* here induction is done on the smallest counterexample, a set, and what  *)
(* a recursive function does at a place is an element of one, H.           *)
(***************************************************************************)
EXTENDS Integers, SequencesExt, SequenceTheorems, WellFoundedInduction,
        FiniteSetTheorems, TLAPS

\* A nonempty set of numbers has a least member (< is well founded).
LEMMA LeastExists ==
  ASSUME NEW S \in SUBSET Nat, S # {}
  PROVE  \E x \in S : \A y \in S : ~ (y < x)
<1>1. \E x \in S : \A y \in S : ~ (<<y, x>> \in OpToRel(<, Nat))
  BY NatLessThanWellFounded, WFMin
<1> QED BY <1>1, Zenon DEF OpToRel

\* Min of a nonempty set of numbers is its least member.
LEMMA MinNat ==
  ASSUME NEW S \in SUBSET Nat, S # {}
  PROVE  Min(S) \in S /\ \A x \in S : Min(S) <= x
<1>1. PICK x \in S : \A y \in S : ~ (y < x)
  BY LeastExists
<1>2. \E m \in S : \A y \in S : m <= y
  BY <1>1
<1> QED BY <1>2 DEF Min

\* Max of a nonempty bounded set of numbers is its greatest member.
LEMMA MaxNat ==
  ASSUME NEW S \in SUBSET Nat, S # {}, NEW b \in Nat, \A x \in S : x <= b
  PROVE  Max(S) \in S /\ \A x \in S : x <= Max(S)
<1> DEFINE R == {b - x : x \in S}
<1>1. R \in SUBSET Nat /\ R # {}
  <2>1. \A x \in S : b - x \in Nat
    OBVIOUS
  <2> QED BY <2>1
<1>2. Min(R) \in R /\ \A x \in R : Min(R) <= x
  BY <1>1, MinNat
<1>3. PICK x \in S : Min(R) = b - x
  BY <1>2
<1>4. ASSUME NEW y \in S PROVE y <= x
  <2>1. b - y \in R
    OBVIOUS
  <2>2. Min(R) <= b - y
    BY <2>1, <1>2
  <2>3. x \in Nat /\ y \in Nat
    OBVIOUS
  <2> QED BY <2>2, <1>3, <2>3
<1>5. \E m \in S : \A y \in S : m >= y
  BY <1>4
<1> QED BY <1>5 DEF Max

-----------------------------------------------------------------------------
(* Induction over a finite set, with the set of subsets in the place of a  *)
(* predicate                                                               *)

\* What holds of the empty set, and stays when an element is added, holds of S.
LEMMA SubsetInduction ==
  ASSUME NEW S, IsFiniteSet(S), NEW P, {} \in P,
         \A T \in SUBSET S : \A x \in S \ T : T \in P => T \cup {x} \in P
  PROVE  S \in P
<1> DEFINE N == {Cardinality(T) : T \in {U \in SUBSET S : U \notin P}}
<1>1. SUFFICES ASSUME S \notin P PROVE FALSE
  OBVIOUS
<1>2. \A T \in SUBSET S : IsFiniteSet(T) /\ Cardinality(T) \in Nat
  BY FS_Subset, FS_CardinalityType
<1>3. N \in SUBSET Nat /\ N # {}
  BY <1>1, <1>2
<1>4. PICK n \in N : \A m \in N : ~(m < n)
  <2> HIDE DEF N
  <2> QED BY <1>3, LeastExists
<1>5. PICK T \in SUBSET S : T \notin P /\ Cardinality(T) = n
  BY <1>4
<1>6. PICK x \in T : TRUE
  BY <1>5
<1>7. /\ T \ {x} \in SUBSET S /\ x \in S \ (T \ {x}) /\ (T \ {x}) \cup {x} = T
      /\ Cardinality(T \ {x}) = Cardinality(T) - 1
  BY <1>2, <1>6, FS_RemoveElement
<1>8. Cardinality(T \ {x}) < n
  BY <1>2, <1>5, <1>7
<1>9. T \ {x} \in P
  BY <1>4, <1>7, <1>8
<1> QED BY <1>5, <1>7, <1>9

-----------------------------------------------------------------------------
(* Sums *)

\* The element that a sum takes next.
Pick(s) == CHOOSE x \in s : TRUE

\* g is the table of the sums of f over the sets in D.
Tabulates(g, f, D) ==
  g = [s \in D |-> IF s = {} THEN 0 ELSE f[Pick(s)] + g[s \ {Pick(s)}]]

\* A sum is read from such a table.
LEMMA SumTable ==
  ASSUME NEW f, NEW S
  PROVE  \E g : g = (CHOOSE h : Tabulates(h, f, SUBSET S)) /\ SumFunctionOnSet(f, S) = g[S]
BY Zenon DEF SumFunctionOnSet, FoldFunctionOnSet, MapThenFoldSet, Tabulates, Pick

\* There is one for the subsets of every finite set.
LEMMA TableExists ==
  ASSUME NEW f, NEW S, IsFiniteSet(S)
  PROVE  \E g : Tabulates(g, f, SUBSET S)
<1> DEFINE D(n) == {s \in SUBSET S : Cardinality(s) <= n}
           N == {n \in Nat : ~ \E g : Tabulates(g, f, D(n))}
<1>1. \A s \in SUBSET S :
        IsFiniteSet(s) /\ Cardinality(s) \in Nat /\ Cardinality(s) <= Cardinality(S)
  BY FS_Subset, FS_CardinalityType
<1>2. \A s \in SUBSET S : s # {} => /\ Pick(s) \in s /\ s \ {Pick(s)} \in SUBSET S
                                    /\ Cardinality(s \ {Pick(s)}) = Cardinality(s) - 1
  <2>1. ASSUME NEW s \in SUBSET S, s # {} PROVE Pick(s) \in s
    BY <2>1 DEF Pick
  <2> QED BY <1>1, <2>1, FS_RemoveElement
<1>3. N = {}
  <2>1. SUFFICES ASSUME N # {} PROVE FALSE
    OBVIOUS
  <2>2. PICK n \in N : \A m \in N : ~(m < n)
    <3>1. N \in SUBSET Nat
      OBVIOUS
    <3> HIDE DEF N
    <3> QED BY <2>1, <3>1, LeastExists
  <2>3. CASE n = 0
    <3>1. D(n) = {{}}
      BY <1>1, <2>3, FS_EmptySet
    <3>2. Tabulates([s \in D(n) |-> 0], f, D(n))
      BY <3>1 DEF Tabulates
    <3> QED BY <2>2, <3>2
  <2>4. CASE n # 0
    <3>1. n - 1 \in Nat /\ n - 1 < n
      BY <2>2, <2>4
    <3>2. PICK g : Tabulates(g, f, D(n - 1))
      BY <2>2, <3>1
    <3> DEFINE h == [s \in D(n) |-> IF s = {} THEN 0 ELSE f[Pick(s)] + g[s \ {Pick(s)}]]
    <3>3. \A s \in D(n - 1) : s \in D(n) /\ h[s] = g[s]
      <4>1. D(n - 1) \subseteq D(n)
        BY <1>1, <3>1
      <4>2. \A s \in D(n - 1) : g[s] = IF s = {} THEN 0 ELSE f[Pick(s)] + g[s \ {Pick(s)}]
        <5> HIDE DEF D
        <5> QED BY <3>2 DEF Tabulates
      <4> HIDE DEF D
      <4> QED BY <4>1, <4>2
    <3>4. \A s \in D(n) : s # {} => s \ {Pick(s)} \in D(n - 1)
      BY <1>1, <1>2, <3>1
    <3>5. \A s \in D(n) : h[s] = IF s = {} THEN 0 ELSE f[Pick(s)] + h[s \ {Pick(s)}]
      BY <3>3, <3>4
    <3>6. Tabulates(h, f, D(n))
      <4> HIDE DEF D
      <4>1. h = [s \in D(n) |-> IF s = {} THEN 0 ELSE f[Pick(s)] + h[s \ {Pick(s)}]]
        BY <3>5
      <4> HIDE DEF h
      <4> QED BY <4>1 DEF Tabulates
    <3> QED BY <2>2, <3>6
  <2> QED BY <2>3, <2>4
<1>4. Cardinality(S) \in Nat /\ D(Cardinality(S)) = SUBSET S
  BY <1>1
<1> QED BY <1>3, <1>4

\* Two tables agree where both have an entry.
LEMMA TablesAgree ==
  ASSUME NEW f, NEW S, NEW T \in SUBSET S, IsFiniteSet(T), NEW g, NEW h,
         Tabulates(g, f, SUBSET S), Tabulates(h, f, SUBSET T)
  PROVE  g[T] = h[T]
<1> DEFINE N == {Cardinality(s) : s \in {t \in SUBSET T : g[t] # h[t]}}
<1>1. SUFFICES ASSUME g[T] # h[T] PROVE FALSE
  OBVIOUS
<1>2. \A s \in SUBSET T : IsFiniteSet(s) /\ Cardinality(s) \in Nat
  BY FS_Subset, FS_CardinalityType
<1>3. N \in SUBSET Nat /\ N # {}
  BY <1>1, <1>2
<1>4. PICK n \in N : \A m \in N : ~(m < n)
  <2> HIDE DEF N
  <2> QED BY <1>3, LeastExists
<1>5. PICK s \in SUBSET T : g[s] # h[s] /\ Cardinality(s) = n
  BY <1>4
<1>6. /\ g[s] = IF s = {} THEN 0 ELSE f[Pick(s)] + g[s \ {Pick(s)}]
      /\ h[s] = IF s = {} THEN 0 ELSE f[Pick(s)] + h[s \ {Pick(s)}]
  BY DEF Tabulates
<1>7. s # {}
  BY <1>5, <1>6
<1>8. Pick(s) \in s /\ s \ {Pick(s)} \in SUBSET T
  BY <1>7 DEF Pick
<1>9. Cardinality(s \ {Pick(s)}) = Cardinality(s) - 1
  BY <1>2, <1>8, FS_RemoveElement
<1>10. Cardinality(s \ {Pick(s)}) < n
  BY <1>2, <1>5, <1>9
<1>11. g[s \ {Pick(s)}] = h[s \ {Pick(s)}]
  BY <1>4, <1>8, <1>10
<1> QED BY <1>5, <1>6, <1>7, <1>11

\* The sum, by its parts.
LEMMA SumIs ==
  ASSUME NEW f, NEW S, IsFiniteSet(S)
  PROVE  SumFunctionOnSet(f, S) =
           IF S = {} THEN 0 ELSE f[Pick(S)] + SumFunctionOnSet(f, S \ {Pick(S)})
<1>1. PICK g : Tabulates(g, f, SUBSET S) /\ SumFunctionOnSet(f, S) = g[S]
  BY SumTable, TableExists
<1>2. g[S] = IF S = {} THEN 0 ELSE f[Pick(S)] + g[S \ {Pick(S)}]
  BY <1>1 DEF Tabulates
<1>3. CASE S = {}
  BY <1>1, <1>2, <1>3
<1>4. CASE S # {}
  <2>1. S \ {Pick(S)} \in SUBSET S /\ IsFiniteSet(S \ {Pick(S)})
    BY FS_RemoveElement
  <2>2. PICK T : T = S \ {Pick(S)}
    OBVIOUS
  <2>3. PICK h : Tabulates(h, f, SUBSET T) /\ SumFunctionOnSet(f, T) = h[T]
    BY <2>1, <2>2, SumTable, TableExists
  <2>4. g[T] = h[T]
    BY <1>1, <2>1, <2>2, <2>3, TablesAgree
  <2> QED BY <1>1, <1>2, <1>4, <2>2, <2>3, <2>4
<1> QED BY <1>3, <1>4

\* Nothing adds up to nothing.
LEMMA SumEmpty ==
  ASSUME NEW f
  PROVE  SumFunctionOnSet(f, {}) = 0
BY SumIs, FS_EmptySet

\* A sum of natural numbers is one.
LEMMA SumType ==
  ASSUME NEW S, IsFiniteSet(S), NEW f, \A x \in S : f[x] \in Nat
  PROVE  SumFunctionOnSet(f, S) \in Nat
<1> DEFINE N == {Cardinality(s) : s \in {t \in SUBSET S : SumFunctionOnSet(f, t) \notin Nat}}
<1>1. SUFFICES ASSUME SumFunctionOnSet(f, S) \notin Nat PROVE FALSE
  OBVIOUS
<1>2. \A s \in SUBSET S : IsFiniteSet(s) /\ Cardinality(s) \in Nat
  BY FS_Subset, FS_CardinalityType
<1>3. N \in SUBSET Nat /\ N # {}
  BY <1>1, <1>2
<1>4. PICK n \in N : \A m \in N : ~(m < n)
  <2> HIDE DEF N
  <2> QED BY <1>3, LeastExists
<1>5. PICK s \in SUBSET S : SumFunctionOnSet(f, s) \notin Nat /\ Cardinality(s) = n
  BY <1>4
<1>6. s # {}
  BY <1>5, SumEmpty
<1>7. Pick(s) \in s /\ s \ {Pick(s)} \in SUBSET S
  BY <1>6 DEF Pick
<1>8. Cardinality(s \ {Pick(s)}) = Cardinality(s) - 1
  BY <1>2, <1>7, FS_RemoveElement
<1>9. SumFunctionOnSet(f, s \ {Pick(s)}) \in Nat
  BY <1>2, <1>4, <1>5, <1>7, <1>8
<1>10. SumFunctionOnSet(f, s) = f[Pick(s)] + SumFunctionOnSet(f, s \ {Pick(s)})
  BY <1>2, <1>6, SumIs
<1> QED BY <1>5, <1>7, <1>9, <1>10

\* Which element is taken first does not matter.
LEMMA SumRemove ==
  ASSUME NEW S, IsFiniteSet(S), NEW f, \A x \in S : f[x] \in Nat, NEW y \in S
  PROVE  SumFunctionOnSet(f, S) = f[y] + SumFunctionOnSet(f, S \ {y})
<1> DEFINE Bad == {t \in SUBSET S :
                     \E x \in t : SumFunctionOnSet(f, t) # f[x] + SumFunctionOnSet(f, t \ {x})}
           N == {Cardinality(s) : s \in Bad}
<1>1. SUFFICES ASSUME S \in Bad PROVE FALSE
  OBVIOUS
<1>2. \A s \in SUBSET S : IsFiniteSet(s) /\ Cardinality(s) \in Nat /\ SumFunctionOnSet(f, s) \in Nat
  <2>1. \A s \in SUBSET S : IsFiniteSet(s) /\ Cardinality(s) \in Nat
    BY FS_Subset, FS_CardinalityType
  <2> QED BY <2>1, SumType
<1>3. N \in SUBSET Nat /\ N # {}
  BY <1>1, <1>2
<1>4. PICK n \in N : \A m \in N : ~(m < n)
  <2> HIDE DEF N
  <2> QED BY <1>3, LeastExists
<1>5. PICK s \in Bad : Cardinality(s) = n
  BY <1>4
<1>6. PICK x \in s : SumFunctionOnSet(f, s) # f[x] + SumFunctionOnSet(f, s \ {x})
  BY <1>5
<1>7. PICK p : p = Pick(s)
  OBVIOUS
<1>8. p \in s /\ SumFunctionOnSet(f, s) = f[p] + SumFunctionOnSet(f, s \ {p})
  <2>1. p \in s
    BY <1>6, <1>7 DEF Pick
  <2> QED BY <1>2, <1>7, <2>1, SumIs
<1>9. x # p
  BY <1>6, <1>8
<1>10. PICK a, b, c : a = s \ {p} /\ b = s \ {x} /\ c = (s \ {p}) \ {x}
  OBVIOUS
<1>11. /\ a \in SUBSET S /\ b \in SUBSET S /\ c \in SUBSET S /\ x \in a /\ p \in b
       /\ a \ {x} = c /\ b \ {p} = c
  BY <1>6, <1>8, <1>9, <1>10
<1>12. Cardinality(a) = n - 1 /\ Cardinality(b) = n - 1
  BY <1>2, <1>5, <1>6, <1>8, <1>10, FS_RemoveElement
<1>13. a \notin Bad /\ b \notin Bad
  <2>1. n - 1 < n
    <3>1. n \in Nat
      BY <1>2, <1>5
    <3> QED BY <3>1
  <2>2. Cardinality(a) \notin N /\ Cardinality(b) \notin N
    BY <1>4, <1>12, <2>1
  <2> QED BY <2>2
<1>14. /\ SumFunctionOnSet(f, a) = f[x] + SumFunctionOnSet(f, c)
       /\ SumFunctionOnSet(f, b) = f[p] + SumFunctionOnSet(f, c)
  BY <1>11, <1>13
<1>15. /\ SumFunctionOnSet(f, c) \in Nat /\ f[x] \in Nat /\ f[p] \in Nat
  BY <1>2, <1>6, <1>8, <1>11
<1>16. SumFunctionOnSet(f, s) = f[p] + (f[x] + SumFunctionOnSet(f, c))
  BY <1>8, <1>10, <1>14
<1>17. SumFunctionOnSet(f, s) # f[x] + (f[p] + SumFunctionOnSet(f, c))
  BY <1>6, <1>10, <1>14
<1> QED BY <1>15, <1>16, <1>17

\* One more element.
LEMMA SumAdd ==
  ASSUME NEW S, IsFiniteSet(S), NEW f, \A x \in S : f[x] \in Nat, NEW y, y \notin S, f[y] \in Nat
  PROVE  SumFunctionOnSet(f, S \cup {y}) = f[y] + SumFunctionOnSet(f, S)
<1>1. PICK T : T = S \cup {y}
  OBVIOUS
<1>2. IsFiniteSet(T) /\ y \in T /\ T \ {y} = S /\ \A x \in T : f[x] \in Nat
  BY <1>1, FS_AddElement
<1>3. SumFunctionOnSet(f, T) = f[y] + SumFunctionOnSet(f, T \ {y})
  BY <1>2, SumRemove
<1> QED BY <1>1, <1>2, <1>3

\* A sum depends on its terms only.
LEMMA SumSame ==
  ASSUME NEW S, IsFiniteSet(S), NEW f, NEW g, \A x \in S : f[x] \in Nat /\ g[x] = f[x]
  PROVE  SumFunctionOnSet(g, S) = SumFunctionOnSet(f, S)
<1> DEFINE P == {T \in SUBSET S : SumFunctionOnSet(g, T) = SumFunctionOnSet(f, T)}
<1>1. {} \in P
  BY SumEmpty
<1>2. ASSUME NEW T \in SUBSET S, NEW x \in S \ T, T \in P PROVE T \cup {x} \in P
  <2>1. IsFiniteSet(T)
    BY FS_Subset
  <2>2. /\ SumFunctionOnSet(g, T \cup {x}) = g[x] + SumFunctionOnSet(g, T)
        /\ SumFunctionOnSet(f, T \cup {x}) = f[x] + SumFunctionOnSet(f, T)
    BY <2>1, SumAdd
  <2> QED BY <1>2, <2>2
<1>3. S \in P
  <2> HIDE DEF P
  <2> QED BY <1>1, <1>2, SubsetInduction
<1> QED BY <1>3

\* One term changes.
LEMMA SumChange ==
  ASSUME NEW S, IsFiniteSet(S), NEW f, NEW g, NEW y \in S,
         \A x \in S : f[x] \in Nat /\ g[x] \in Nat /\ (x # y => g[x] = f[x])
  PROVE  SumFunctionOnSet(g, S) = SumFunctionOnSet(f, S) - f[y] + g[y]
<1>1. PICK T : T = S \ {y}
  OBVIOUS
<1>2. IsFiniteSet(T) /\ \A x \in T : f[x] \in Nat /\ g[x] = f[x]
  BY <1>1, FS_RemoveElement
<1>3. SumFunctionOnSet(g, T) = SumFunctionOnSet(f, T) /\ SumFunctionOnSet(f, T) \in Nat
  BY <1>2, SumSame, SumType
<1>4. /\ SumFunctionOnSet(g, S) = g[y] + SumFunctionOnSet(g, T)
      /\ SumFunctionOnSet(f, S) = f[y] + SumFunctionOnSet(f, T)
  BY <1>1, SumRemove
<1> QED BY <1>3, <1>4

\* Zeros add up to zero.
LEMMA SumZero ==
  ASSUME NEW S, IsFiniteSet(S), NEW f, \A x \in S : f[x] = 0
  PROVE  SumFunctionOnSet(f, S) = 0
<1> DEFINE P == {T \in SUBSET S : SumFunctionOnSet(f, T) = 0}
<1>1. {} \in P
  BY SumEmpty
<1>2. ASSUME NEW T \in SUBSET S, NEW x \in S \ T, T \in P PROVE T \cup {x} \in P
  <2>1. IsFiniteSet(T)
    BY FS_Subset
  <2>2. SumFunctionOnSet(f, T \cup {x}) = f[x] + SumFunctionOnSet(f, T)
    BY <2>1, SumAdd
  <2> QED BY <1>2, <2>2
<1>3. S \in P
  <2> HIDE DEF P
  <2> QED BY <1>1, <1>2, SubsetInduction
<1> QED BY <1>3

\* Links of a chain, each beginning where the one before ends, add up to its length.
LEMMA SumOfChain ==
  ASSUME NEW m \in Nat, NEW n \in Nat, m <= n, NEW lo, NEW f,
         \A i \in m .. n : lo[i] \in Nat /\ f[i] \in Nat,
         \A i \in m .. n : i + 1 \in m .. n => lo[i] + f[i] = lo[i + 1]
  PROVE  SumFunctionOnSet(f, m .. n) = lo[n] + f[n] - lo[m]
<1> DEFINE N == {k \in m .. n : SumFunctionOnSet(f, m .. k) # lo[k] + f[k] - lo[m]}
<1>1. SUFFICES ASSUME n \in N PROVE FALSE
  OBVIOUS
<1>2. N \in SUBSET Nat /\ N # {}
  <2>1. m .. n \subseteq Nat
    OBVIOUS
  <2> QED BY <1>1, <2>1
<1>3. PICK k \in N : \A j \in N : ~(j < k)
  <2> HIDE DEF N
  <2> QED BY <1>2, LeastExists
<1>4. k \in m .. n /\ k \in Nat /\ SumFunctionOnSet(f, m .. k) # lo[k] + f[k] - lo[m]
  OBVIOUS
<1>5. \A i \in m .. n : IsFiniteSet(m .. i) /\ \A x \in m .. i : f[x] \in Nat
  <2>1. ASSUME NEW i \in m .. n
        PROVE  IsFiniteSet(m .. i) /\ \A x \in m .. i : f[x] \in Nat
    <3>1. i \in Int /\ m \in Int /\ m .. i \subseteq m .. n
      OBVIOUS
    <3> QED BY <3>1, FS_Interval
  <2> QED BY <2>1
<1>6. CASE k = m
  <2>1. PICK T : T = m .. m
    OBVIOUS
  <2>2. T = {} \cup {m} /\ IsFiniteSet({}) /\ m \notin {}
    BY <2>1, FS_EmptySet
  <2>3. SumFunctionOnSet(f, {} \cup {m}) = f[m] + SumFunctionOnSet(f, {})
    BY <2>2, <1>4, <1>6, SumAdd
  <2>4. SumFunctionOnSet(f, T) = f[m] + 0
    BY <2>2, <2>3, SumEmpty
  <2> QED BY <1>4, <1>6, <2>1, <2>4
<1>7. CASE k # m
  <2>1. k - 1 \in m .. n /\ k - 1 < k /\ (k - 1) + 1 = k
    BY <1>4, <1>7
  <2>2. SumFunctionOnSet(f, m .. k - 1) = lo[k - 1] + f[k - 1] - lo[m]
    BY <1>3, <2>1
  <2>3. lo[k - 1] + f[k - 1] = lo[k]
    BY <1>4, <2>1
  <2>4. m .. k = (m .. k - 1) \cup {k} /\ k \notin m .. k - 1
    BY <1>4, <1>7
  <2>5. SumFunctionOnSet(f, (m .. k - 1) \cup {k}) = f[k] + SumFunctionOnSet(f, m .. k - 1)
    BY <1>4, <1>5, <2>1, <2>4, SumAdd
  <2>6. /\ lo[k] \in Nat /\ f[k] \in Nat /\ lo[m] \in Nat
        /\ lo[k - 1] \in Nat /\ f[k - 1] \in Nat
    BY <1>4, <2>1
  <2>7. SumFunctionOnSet(f, m .. k - 1) = lo[k] - lo[m]
    BY <2>2, <2>3, <2>6
  <2>8. SumFunctionOnSet(f, m .. k) = f[k] + (lo[k] - lo[m])
    BY <2>4, <2>5, <2>7
  <2> QED BY <1>4, <2>6, <2>8
<1> QED BY <1>6, <1>7

-----------------------------------------------------------------------------
(* Induction and recursion *)

\* Induction over the numbers up to m, the claim a set.
LEMMA Induct ==
  ASSUME NEW m \in Nat, NEW S, 0 \in S, \A n \in Nat : n < m /\ n \in S => n + 1 \in S
  PROVE  \A n \in 0 .. m : n \in S
<1> SUFFICES ASSUME NEW n \in 0 .. m, n \notin S PROVE FALSE
  OBVIOUS
<1> DEFINE Bad == {k \in Nat : k <= m /\ k \notin S}
<1>1. n \in Bad /\ Bad \in SUBSET Nat /\ Bad # {}
  BY DEF Bad
<1>2. PICK k \in Bad : \A j \in Bad : k <= j
  <2> HIDE DEF Bad
  <2> QED BY <1>1, LeastExists
<1>3. k \in Nat /\ k <= m /\ k \notin S /\ k # 0
  BY <1>2
<1>4. PICK j : j = k - 1
  OBVIOUS
<1>5. j \in Nat /\ j < m /\ k = j + 1 /\ ~(k <= j) /\ j <= m
  BY <1>3, <1>4
<1>6. j \in S
  BY <1>2, <1>5
<1> QED BY <1>3, <1>5, <1>6

\* H gives a value of U for a place and a function; it looks at the function behind
\* the place only; f has the value of H everywhere.
Stays(D, U, H) == \A p \in D : \A f \in [D -> U] : H[<<p, f>>] \in U
LooksBehind(D, U, H) ==
  \A p \in D : \A f, g \in [D -> U] :
    (\A q \in D : p < q => f[q] = g[q]) => H[<<p, f>>] = H[<<p, g>>]
Solves(f, D, U, H) == f \in [D -> U] /\ \A p \in D : f[p] = H[<<p, f>>]

\* A function that is defined at p by its values behind p exists.
LEMMA Recursion ==
  ASSUME NEW lo \in Nat, NEW hi \in Nat, NEW D, D = lo .. hi, NEW U, NEW u \in U, NEW H,
         Stays(D, U, H), LooksBehind(D, U, H)
  PROVE  \E f : Solves(f, D, U, H)
<1> USE DEF Stays, LooksBehind
<1> DEFINE Done0(n) == \E f \in [D -> U] : \A p \in D : hi - p < n => f[p] = H[<<p, f>>]
           S == {n \in Nat : Done0(n)}
<1>1. 0 \in S
  <2>1. [p \in D |-> u] \in [D -> U] /\ \A p \in D : ~(hi - p < 0)
    OBVIOUS
  <2> QED BY <2>1
<1>2. ASSUME NEW n \in Nat, n \in S PROVE n + 1 \in S
  <2>1. PICK f \in [D -> U] : \A p \in D : hi - p < n => f[p] = H[<<p, f>>]
    BY <1>2
  <2>2. PICK z : z = hi - n
    OBVIOUS
  <2>3. \A p \in D : p \in Nat /\ (hi - p < n + 1 => p = z \/ hi - p < n) /\ (hi - p < n => z < p)
    BY <2>2
  <2>4. CASE z \in D
    <3>1. PICK v : v = H[<<z, f>>]
      OBVIOUS
    <3>2. v \in U
      BY <2>4, <3>1
    <3>3. PICK g : g = [p \in D |-> IF p = z THEN v ELSE f[p]]
      OBVIOUS
    <3>4. g \in [D -> U] /\ g[z] = v /\ \A p \in D : p # z => g[p] = f[p]
      <4> QED BY <2>4, <3>2, <3>3
    <3>5. \A q \in D : z < q => f[q] = g[q]
      <4>1. \A q \in D : z < q => q # z
        BY <2>3, <2>4
      <4> QED BY <3>4, <4>1
    <3>6. H[<<z, g>>] = v
      BY <2>4, <3>1, <3>4, <3>5
    <3>7. ASSUME NEW p \in D, hi - p < n PROVE g[p] = H[<<p, g>>]
      <4>1. z < p /\ p # z
        BY <2>3, <2>4, <3>7
      <4>2. \A q \in D : p < q => f[q] = g[q]
        <5>1. \A q \in D : p < q => z < q
          BY <2>3, <2>4, <4>1
        <5> QED BY <3>5, <5>1
      <4>3. H[<<p, f>>] = H[<<p, g>>]
        BY <3>4, <4>2
      <4> QED BY <2>1, <3>4, <3>7, <4>1, <4>3
    <3>8. \A p \in D : hi - p < n + 1 => g[p] = H[<<p, g>>]
      BY <2>3, <3>4, <3>6, <3>7
    <3>9. n + 1 \in Nat
      OBVIOUS
    <3> QED BY <3>4, <3>8, <3>9
  <2>5. CASE z \notin D
    <3>1. \A p \in D : hi - p < n + 1 => hi - p < n
      BY <2>3, <2>5
    <3>2. n + 1 \in Nat
      OBVIOUS
    <3> QED BY <2>1, <3>1, <3>2
  <2> QED BY <2>4, <2>5
<1>3. hi + 1 \in S
  <2>1. hi + 1 \in Nat /\ hi + 1 \in 0 .. hi + 1
    OBVIOUS
  <2> HIDE DEF S
  <2> QED BY <1>1, <1>2, <2>1, Induct
<1>4. PICK f \in [D -> U] : \A p \in D : hi - p < hi + 1 => f[p] = H[<<p, f>>]
  BY <1>3
<1>5. \A p \in D : hi - p < hi + 1
  OBVIOUS
<1> QED BY <1>4, <1>5 DEF Solves

\* What follows from everything behind a place holds everywhere.
LEMMA FromBehind ==
  ASSUME NEW lo \in Nat, NEW hi \in Nat, NEW S,
         \A p \in lo .. hi : (\A q \in lo .. hi : p < q => q \in S) => p \in S
  PROVE  \A p \in lo .. hi : p \in S
<1> DEFINE Bad == {p \in lo .. hi : p \notin S}
<1> SUFFICES ASSUME Bad # {} PROVE FALSE
  OBVIOUS
<1>1. Bad \in SUBSET Nat /\ \A x \in Bad : x <= hi
  OBVIOUS
<1>2. Max(Bad) \in Bad /\ \A x \in Bad : x <= Max(Bad)
  <2> HIDE DEF Bad
  <2> QED BY <1>1, MaxNat
<1>3. PICK m \in Bad : \A x \in Bad : x <= m
  BY <1>2
<1>4. m \in Nat /\ m \in lo .. hi /\ m \notin S
  OBVIOUS
<1>5. \A q \in lo .. hi : m < q => q \in S
  <2>1. ASSUME NEW q \in lo .. hi, m < q PROVE q \in S
    <3>1. ~(q <= m)
      BY <1>4, <2>1
    <3> QED BY <1>3, <3>1
  <2> QED BY <2>1
<1> QED BY <1>4, <1>5

\* H gives a value of U for a number and a value; f begins with b and climbs by H.
Rises(n, U, H) == \A i \in 1 .. n : \A x \in U : H[<<i, x>>] \in U
Climbs(f, n, U, b, H) ==
  f \in [0 .. n -> U] /\ f[0] = b /\ \A i \in 1 .. n : f[i] = H[<<i, f[i - 1]>>]

\* A function that is defined at i by its value at i - 1 exists.
LEMMA Climb ==
  ASSUME NEW n \in Nat, NEW U, NEW b \in U, NEW H, Rises(n, U, H)
  PROVE  \E f : Climbs(f, n, U, b, H)
<1> USE DEF Rises
<1> DEFINE D == 0 .. n
           Done0(k) == \E f \in [D -> U] :
                         f[0] = b /\ \A i \in 1 .. n : i <= k => f[i] = H[<<i, f[i - 1]>>]
           S == {k \in Nat : Done0(k)}
<1>1. 0 \in S
  <2>1. [i \in D |-> b] \in [D -> U] /\ [i \in D |-> b][0] = b /\ \A i \in 1 .. n : ~(i <= 0)
    OBVIOUS
  <2> QED BY <2>1
<1>2. ASSUME NEW k \in Nat, k < n, k \in S PROVE k + 1 \in S
  <2>1. PICK f \in [D -> U] : f[0] = b /\ \A i \in 1 .. n : i <= k => f[i] = H[<<i, f[i - 1]>>]
    BY <1>2
  <2>2. PICK m, v : m = k + 1 /\ v = H[<<m, f[k]>>]
    OBVIOUS
  <2>3. k \in D /\ m \in 1 .. n /\ m \in D /\ m \in Nat /\ m - 1 = k
    BY <1>2, <2>2
  <2>4. f[k] \in U
    <3> HIDE DEF D
    <3> QED BY <2>3
  <2>5. v \in U
    BY <2>2, <2>3, <2>4
  <2>6. PICK g : g = [i \in D |-> IF i = m THEN v ELSE f[i]]
    OBVIOUS
  <2>7. g \in [D -> U] /\ g[m] = v /\ \A i \in D : i # m => g[i] = f[i]
    <3> HIDE DEF D
    <3> QED BY <2>3, <2>5, <2>6
  <2>8. \A i \in 1 .. n : /\ i \in D /\ i - 1 \in D
                          /\ (i <= m => (i = m \/ (i <= k /\ i # m /\ i - 1 # m)))
    BY <2>2, <2>3
  <2>9. 0 \in D /\ 0 # m /\ k # m
    BY <2>2
  <2>10. g[0] = b /\ g[k] = f[k]
    <3> HIDE DEF D
    <3> QED BY <2>1, <2>3, <2>7, <2>9
  <2>11. ASSUME NEW i \in 1 .. n, i <= m PROVE g[i] = H[<<i, g[i - 1]>>]
    <3>1. CASE i = m
      BY <2>2, <2>3, <2>7, <2>10, <3>1
    <3>2. CASE i # m
      <4>1. i <= k /\ i - 1 # m /\ i \in D /\ i - 1 \in D
        BY <2>8, <2>11, <3>2
      <4> HIDE DEF D
      <4> QED BY <2>1, <2>7, <3>2, <4>1
    <3> QED BY <3>1, <3>2
  <2> QED BY <2>2, <2>3, <2>7, <2>10, <2>11
<1>3. n \in S
  <2>1. \A k \in 0 .. n : k \in S
    <3> HIDE DEF S
    <3> QED BY <1>1, <1>2, Induct
  <2>2. n \in 0 .. n
    OBVIOUS
  <2> HIDE DEF S
  <2> QED BY <2>1, <2>2
<1>4. PICK f \in [D -> U] : f[0] = b /\ \A i \in 1 .. n : i <= n => f[i] = H[<<i, f[i - 1]>>]
  BY <1>3
<1>5. \A i \in 1 .. n : i <= n
  OBVIOUS
<1> QED BY <1>4, <1>5 DEF Climbs

-----------------------------------------------------------------------------
(* Lists *)

\* Sequences with the same elements are the same.
LEMMA SeqSame ==
  ASSUME NEW V, NEW p \in Seq(V), NEW q \in Seq(V), Len(p) = Len(q),
         \A k \in 1 .. Len(p) : p[k] = q[k]
  PROVE  p = q
OBVIOUS

\* An empty list adds nothing.
LEMMA ConcatNone ==
  ASSUME NEW V, NEW h \in Seq(V)
  PROVE  h \o <<>> = h /\ <<>> \o h = h
OBVIOUS

FlatStep(seqs, f, i) == IF i = 1 THEN seqs[i] ELSE f[i - 1] \o seqs[i]

\* The table in FlattenSeq.
LEMMA FlatTable ==
  ASSUME NEW seqs, Len(seqs) # 0
  PROVE  \E g : /\ g = (CHOOSE h : h = [i \in 1 .. Len(seqs) |-> FlatStep(seqs, h, i)])
                /\ FlattenSeq(seqs) = g[Len(seqs)]
BY Zenon DEF FlattenSeq, FlatStep

\* FlattenSeq puts one list after another.
Joins(f, ss, n, P) ==
  /\ f[0] = <<>> /\ f[n] = FlattenSeq(ss) /\ f[n] \in Seq(P)
  /\ \A i \in 1 .. n : f[i - 1] \in Seq(P) /\ f[i] = f[i - 1] \o ss[i]

\* It does for lists of elements of P.
LEMMA FlatIs ==
  ASSUME NEW P, NEW ss \in Seq(Seq(P)), NEW n, n = Len(ss)
  PROVE  \E f : Joins(f, ss, n, P)
<1> USE DEF Joins
<1>1. n \in Nat /\ DOMAIN ss = 1 .. n /\ \A i \in 1 .. n : ss[i] \in Seq(P)
  OBVIOUS
<1>2. PICK U, e : U = Seq(P) /\ e = <<>>
  OBVIOUS
<1>3. PICK H : H = [x \in (1 .. n) \X U |-> x[2] \o ss[x[1]]]
  OBVIOUS
<1>4. e \in U /\ \A x, y \in U : x \o y \in U /\ e \o x = x
  <2>1. e \in Seq(P)
    BY <1>2
  <2>2. \A x, y \in Seq(P) : x \o y \in Seq(P)
    BY ConcatProperties
  <2>3. \A x \in Seq(P) : <<>> \o x = x
    BY ConcatNone
  <2> QED BY <1>2, <2>1, <2>2, <2>3
<1>5. \A i \in 1 .. n : \A x \in U : H[<<i, x>>] = x \o ss[i] /\ H[<<i, x>>] \in U
  BY <1>1, <1>2, <1>3, <1>4
<1>6. PICK f : Climbs(f, n, U, e, H)
  BY <1>1, <1>4, <1>5, Climb DEF Rises
<1>7. f \in [0 .. n -> U] /\ f[0] = e /\ \A i \in 1 .. n : f[i] = H[<<i, f[i - 1]>>]
  BY <1>6 DEF Climbs
<1>8. \A i \in 1 .. n : i - 1 \in 0 .. n
  BY <1>1
<1>9. \A i \in 1 .. n : f[i - 1] \in U /\ f[i] = f[i - 1] \o ss[i]
  BY <1>5, <1>7, <1>8
<1>10. CASE n = 0
  <2>1. FlattenSeq(ss) = ss
    BY <1>10 DEF FlattenSeq
  <2>2. ss = e
    BY <1>1, <1>2, <1>10
  <2> QED BY <1>2, <1>4, <1>7, <1>9, <1>10, <2>1, <2>2
<1>11. CASE n # 0
  <2>1. PICK h : h = [i \in 1 .. n |-> f[i]]
    OBVIOUS
  <2>2. \A i \in 1 .. n : i # 1 => i - 1 \in 1 .. n
    BY <1>1
  <2>3. 1 \in 1 .. n /\ 1 - 1 = 0
    BY <1>1, <1>11
  <2>4. h[1] = ss[1]
    <3>1. f[1] = f[1 - 1] \o ss[1]
      BY <1>9, <2>3
    <3> QED BY <1>1, <1>2, <1>4, <1>7, <2>1, <2>3, <3>1
  <2>5. h = [i \in 1 .. Len(ss) |-> FlatStep(ss, h, i)]
    <3>1. \A i \in 1 .. n : h[i] = FlatStep(ss, h, i)
      BY <1>9, <2>1, <2>2, <2>4 DEF FlatStep
    <3> QED BY <2>1, <3>1
  <2>6. PICK g : /\ g = [i \in 1 .. Len(ss) |-> FlatStep(ss, g, i)]
                 /\ FlattenSeq(ss) = g[Len(ss)]
    BY <1>11, <2>5, FlatTable
  <2>7. \A i \in 1 .. n : g[i] = IF i = 1 THEN ss[i] ELSE g[i - 1] \o ss[i]
    BY <2>6 DEF FlatStep
  <2>8. \A i \in 1 .. n : g[i] = f[i]
    <3> DEFINE S == {i \in Nat : i = 0 \/ g[i] = f[i]}
    <3>1. 0 \in S
      OBVIOUS
    <3>2. ASSUME NEW i \in Nat, i < n, i \in S PROVE i + 1 \in S
      <4>1. PICK k : k = i + 1
        OBVIOUS
      <4>2. k \in Nat /\ k \in 1 .. n /\ k - 1 = i /\ (i = 0 => k = 1) /\ (i # 0 => k # 1)
        <5>1. n \in Nat /\ i \in Nat /\ i < n
          BY <1>1, <3>2
        <5> QED BY ONLY <4>1, <5>1
      <4>3. CASE i = 0
        BY <2>1, <2>4, <2>7, <4>1, <4>2, <4>3
      <4>4. CASE i # 0
        <5>1. g[i] = f[i]
          BY <3>2, <4>4
        <5>2. g[k] = g[i] \o ss[k] /\ f[k] = f[i] \o ss[k]
          BY <1>9, <2>7, <4>2, <4>4
        <5> QED BY <4>1, <4>2, <5>1, <5>2
      <4> QED BY <4>3, <4>4
    <3>3. \A i \in 0 .. n : i \in S
      <4> HIDE DEF S
      <4> QED BY <1>1, <3>1, <3>2, Induct
    <3>4. \A i \in 1 .. n : i \in 0 .. n /\ i # 0
      BY <1>1
    <3> QED BY <3>3, <3>4
  <2>9. n \in 1 .. n /\ n \in 0 .. n
    BY <1>1, <1>11
  <2>10. f[n] = FlattenSeq(ss) /\ f[n] \in U
    BY <1>7, <2>6, <2>8, <2>9
  <2> QED BY <1>2, <1>7, <1>9, <2>10
<1> QED BY <1>10, <1>11

==============================================================================
