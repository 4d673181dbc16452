--------------------------- MODULE ThreadCounting ---------------------------
(***************************************************************************)
(* Lemmas on how many threads are at given labels, for the proofs about    *)
(* programs that count threads with semaphores.                            *)
(***************************************************************************)
EXTENDS Integers, FiniteSets, FiniteSetTheorems, TLAPS

\* The members of S whose label under f is in L.
AtLabels(S, f, L) == {t \in S : f[t] \in L}

\* 1 if x is in L and 0 if not.
In(x, L) == IF x \in L THEN 1 ELSE 0

\* The count of S at L differs between labels f and g by what t does.
CountChange(S, f, g, t, L) ==
    Cardinality(AtLabels(S, g, L)) =
        Cardinality(AtLabels(S, f, L)) + In(g[t], L) - In(f[t], L)

\* Counts are natural numbers.
LEMMA CountType ==
    ASSUME NEW S, IsFiniteSet(S), NEW f, NEW L
    PROVE  Cardinality(AtLabels(S, f, L)) \in Nat
<1>1. AtLabels(S, f, L) \in SUBSET S  BY DEF AtLabels
<1>2. IsFiniteSet(AtLabels(S, f, L))  BY <1>1, FS_Subset
<1> QED  BY <1>2, FS_CardinalityType

\* When only thread t of S changes its label, from f[t] to g[t], the count
\* changes by whether each of the two is counted.
LEMMA CountMoved ==
    ASSUME NEW S, IsFiniteSet(S), NEW f, NEW g, NEW t \in S, NEW L,
           \A u \in S \ {t} : g[u] = f[u]
    PROVE  CountChange(S, f, g, t, L)
<1> DEFINE A == AtLabels(S, f, L)
           B == AtLabels(S, g, L)
<1>1. A \in SUBSET S /\ IsFiniteSet(A)
  <2>1. A \in SUBSET S  BY DEF AtLabels
  <2> QED  BY <2>1, FS_Subset
<1>2. Cardinality(A) \in Nat  BY <1>1, FS_CardinalityType
<1>3. t \in A <=> f[t] \in L  BY DEF AtLabels
<1>4. CASE g[t] \in L
  <2>1. B = A \cup {t}  BY <1>4 DEF AtLabels
  <2>2. Cardinality(B) = IF t \in A THEN Cardinality(A) ELSE Cardinality(A) + 1
    BY <2>1, <1>1, FS_AddElement
  <2> QED  BY <2>2, <1>2, <1>3, <1>4 DEF In, CountChange
<1>5. CASE g[t] \notin L
  <2>1. B = A \ {t}  BY <1>5 DEF AtLabels
  <2>2. Cardinality(B) = IF t \in A THEN Cardinality(A) - 1 ELSE Cardinality(A)
    BY <2>1, <1>1, FS_RemoveElement
  <2> QED  BY <2>2, <1>2, <1>3, <1>5 DEF In, CountChange
<1> QED  BY <1>4, <1>5

\* The threads of S at L are the same when no thread of S changes its label.
LEMMA CountSame ==
    ASSUME NEW S, NEW f, NEW g, NEW L, \A u \in S : g[u] = f[u]
    PROVE  AtLabels(S, g, L) = AtLabels(S, f, L)
BY DEF AtLabels

\* A thread at a label of L is counted.
LEMMA CountPositive ==
    ASSUME NEW S, IsFiniteSet(S), NEW f, NEW t \in S, NEW L, f[t] \in L
    PROVE  Cardinality(AtLabels(S, f, L)) > 0
<1>1. AtLabels(S, f, L) \in SUBSET S  BY DEF AtLabels
<1>2. IsFiniteSet(AtLabels(S, f, L))  BY <1>1, FS_Subset
<1>3. Cardinality(AtLabels(S, f, L)) \in Nat  BY <1>2, FS_CardinalityType
<1>4. t \in AtLabels(S, f, L)  BY DEF AtLabels
<1>5. Cardinality(AtLabels(S, f, L)) # 0  BY <1>2, <1>4, FS_EmptySet
<1> QED  BY <1>3, <1>5

\* When at most one thread is counted, two threads at a label of L are the same.
LEMMA CountAtMostOne ==
    ASSUME NEW S, IsFiniteSet(S), NEW f, NEW L,
           Cardinality(AtLabels(S, f, L)) <= 1,
           NEW t \in S, NEW u \in S, f[t] \in L, f[u] \in L
    PROVE  t = u
<1> DEFINE A == AtLabels(S, f, L)
<1>1. A \in SUBSET S /\ t \in A /\ u \in A  BY DEF AtLabels
<1>2. IsFiniteSet(A)  BY <1>1, FS_Subset
<1>3. /\ IsFiniteSet(A \ {t})
      /\ Cardinality(A \ {t}) = Cardinality(A) - 1
      /\ Cardinality(A) \in Nat
  BY <1>1, <1>2, FS_RemoveElement, FS_CardinalityType
<1>4. Cardinality(A \ {t}) \in Nat  BY <1>3, FS_CardinalityType
<1>5. Cardinality(A \ {t}) = 0  BY <1>3, <1>4
<1>6. A \ {t} = {}  BY <1>3, <1>5, FS_EmptySet
<1> QED  BY <1>1, <1>6
=============================================================================
