----------------------------- MODULE SumTheorems ------------------------------
(***************************************************************************)
(* What a sum over a finite set is worth, whatever order it is taken in.    *)
(* The modules add amounts with the folds of the community modules.  The     *)
(* function such a fold defines exists and is unique, and the laws of sums    *)
(* follow by taking a smallest set that breaks them.                        *)
(***************************************************************************)
EXTENDS Integers, FiniteSets, FiniteSetsExt, Functions, FiniteSetTheorems, TLAPS

Some(S) == CHOOSE x \in S : TRUE

\* it gives every subset of S the sum of the values of w on it.
Adds(it, w, S) == it = [s \in SUBSET S |-> IF s = {} THEN 0 ELSE w[Some(s)] + it[s \ {Some(s)}]]

\* The sum of w[x] for x in S.
SumOf(w, S) == SumFunctionOnSet(w, S)

\* It is what the function of the fold says of S.
LEMMA SumOfFold ==
  ASSUME NEW S, NEW w
  PROVE  SumOf(w, S) = (CHOOSE it : Adds(it, w, S))[S]
BY DEF SumOf, SumFunctionOnSet, FoldFunctionOnSet, MapThenFoldSet, Adds, Some

-----------------------------------------------------------------------------
(* A set of subsets that holds a set as soon as it holds the set without     *)
(* any one element holds every finite set.                                  *)

LEMMA EverySubset ==
  ASSUME NEW S, IsFiniteSet(S), NEW G,
         {} \in G,
         \A s \in SUBSET S : s # {} /\ (\A x \in s : s \ {x} \in G) => s \in G
  PROVE  SUBSET S \subseteq G
<1> DEFINE T == {s \in SUBSET S : s \notin G}
<1> SUFFICES ASSUME T # {} PROVE FALSE
  OBVIOUS
<1> DEFINE R == StrictSubsetOrdering(S)
<1>1. IsWellFoundedOn(R, FiniteSubsetsOf(S))
  BY FS_StrictSubsetOrderingWellFounded
<1>2. T \subseteq FiniteSubsetsOf(S)
  BY FS_Subset DEF FiniteSubsetsOf
<1>3. PICK m \in T : \A y \in T : <<y, m>> \notin R
  <2> HIDE DEF R, T
  <2> QED BY <1>1, <1>2, WFMin
<1>4. ASSUME NEW x \in m PROVE m \ {x} \in G
  <2>1. m \ {x} \in SUBSET S /\ m \ {x} \subseteq m /\ m \ {x} # m
    OBVIOUS
  <2>2. <<m \ {x}, m>> \in R
    BY <2>1 DEF StrictSubsetOrdering
  <2> QED BY <2>1, <2>2, <1>3
<1> QED BY <1>4, <1>3

-----------------------------------------------------------------------------
(* The function of the fold exists, and there is only one.                  *)

LEMMA AddsOnce ==
  ASSUME NEW S, IsFiniteSet(S), NEW w, NEW i, NEW j, Adds(i, w, S), Adds(j, w, S)
  PROVE  i = j
<1> DEFINE G == {s \in SUBSET S : i[s] = j[s]}
<1>1. {} \in G
  BY DEF Adds
<1>2. ASSUME NEW s \in SUBSET S, s # {}, \A x \in s : s \ {x} \in G PROVE s \in G
  <2>1. Some(s) \in s
    BY <1>2 DEF Some
  <2>2. i[s \ {Some(s)}] = j[s \ {Some(s)}]
    BY <1>2, <2>1
  <2>3. i[s] = w[Some(s)] + i[s \ {Some(s)}] /\ j[s] = w[Some(s)] + j[s \ {Some(s)}]
    BY <1>2 DEF Adds
  <2> QED BY <2>2, <2>3
<1>3. SUBSET S \subseteq G
  <2> HIDE DEF G
  <2> QED BY <1>1, <1>2, EverySubset
<1>4. DOMAIN i = SUBSET S /\ DOMAIN j = SUBSET S /\ i = [s \in DOMAIN i |-> i[s]] /\ j = [s \in DOMAIN j |-> j[s]]
  BY DEF Adds
<1> QED BY <1>3, <1>4

LEMMA AddsWithin ==
  ASSUME NEW S, NEW w, NEW i, Adds(i, w, S), NEW T \in SUBSET S
  PROVE  Adds([s \in SUBSET T |-> i[s]], w, T)
<1> DEFINE j == [s \in SUBSET T |-> i[s]]
<1>1. ASSUME NEW s \in SUBSET T
      PROVE  j[s] = IF s = {} THEN 0 ELSE w[Some(s)] + j[s \ {Some(s)}]
  <2>1. s \in SUBSET S /\ s \ {Some(s)} \in SUBSET T
    OBVIOUS
  <2>2. i[s] = IF s = {} THEN 0 ELSE w[Some(s)] + i[s \ {Some(s)}]
    BY <2>1 DEF Adds
  <2> QED BY <2>1, <2>2
<1> QED BY <1>1 DEF Adds

LEMMA AddsExist ==
  ASSUME NEW S, IsFiniteSet(S), NEW w
  PROVE  \E i : Adds(i, w, S)
<1> DEFINE G == {s \in SUBSET S : \E i : Adds(i, w, s)}
<1>1. {} \in G
  <2>1. Adds([s \in {{}} |-> 0], w, {})
    BY DEF Adds
  <2> QED BY <2>1
<1>2. ASSUME NEW s \in SUBSET S, s # {}, \A x \in s : s \ {x} \in G PROVE s \in G
  <2> DEFINE less(t) == t \ {Some(t)}
             of(t) == CHOOSE i : Adds(i, w, t)
             j == [t \in SUBSET s |-> IF t = {} THEN 0 ELSE w[Some(t)] + of(less(t))[less(t)]]
  <2>1. ASSUME NEW t \in SUBSET s, t # s PROVE Adds(of(t), w, t)
    <3>1. PICK x \in s : t \subseteq s \ {x}
      BY <2>1
    <3>2. PICK i : Adds(i, w, s \ {x})
      BY <1>2
    <3>3. Adds([u \in SUBSET t |-> i[u]], w, t)
      BY <3>1, <3>2, AddsWithin
    <3> HIDE DEF Adds
    <3> QED BY <3>3
  <2>2. ASSUME NEW t \in SUBSET s, t # s, t # {} PROVE of(t)[less(t)] = of(less(t))[less(t)]
    <3>1. Some(t) \in t /\ less(t) \in SUBSET t /\ less(t) \in SUBSET s /\ less(t) # s
      BY <2>2 DEF Some
    <3>2. Adds(of(t), w, t) /\ Adds(of(less(t)), w, less(t))
      BY <2>1, <2>2, <3>1
    <3>3. IsFiniteSet(less(t))
      BY <3>1, FS_Subset
    <3> DEFINE k == [u \in SUBSET less(t) |-> of(t)[u]]
    <3>4. Adds(k, w, less(t))
      <4> HIDE DEF less, of
      <4> QED BY <3>1, <3>2, AddsWithin
    <3>5. k = of(less(t))
      <4> HIDE DEF k, less, of
      <4> QED BY <3>2, <3>3, <3>4, AddsOnce
    <3>6. k[less(t)] = of(t)[less(t)]
      OBVIOUS
    <3> QED BY <3>5, <3>6
  <2>3. ASSUME NEW t \in SUBSET s, t # s PROVE j[t] = of(t)[t]
    <3>1. Adds(of(t), w, t)
      BY <2>1, <2>3
    <3> HIDE DEF of
    <3>2. of(t)[t] = IF t = {} THEN 0 ELSE w[Some(t)] + of(t)[less(t)]
      BY <3>1 DEF Adds
    <3> QED BY <3>2, <2>2, <2>3
  <2>4. ASSUME NEW t \in SUBSET s PROVE j[t] = IF t = {} THEN 0 ELSE w[Some(t)] + j[less(t)]
    <3> HIDE DEF of
    <3>1. CASE t = {}
      BY <3>1
    <3>2. CASE t # {}
      <4>1. less(t) \in SUBSET s /\ less(t) # s
        BY <3>2 DEF Some
      <4>2. j[t] = w[Some(t)] + of(less(t))[less(t)]
        BY <3>2
      <4>3. j[less(t)] = of(less(t))[less(t)]
        <5> HIDE DEF j, less
        <5> QED BY <4>1, <2>3
      <4> QED BY <3>2, <4>2, <4>3
    <3> QED BY <3>1, <3>2
  <2>5. j = [t \in SUBSET s |-> IF t = {} THEN 0 ELSE w[Some(t)] + j[less(t)]]
    <3>1. j = [t \in SUBSET s |-> j[t]]
      OBVIOUS
    <3> HIDE DEF j
    <3> QED BY <2>4, <3>1
  <2>6. Adds(j, w, s)
    <3> HIDE DEF j
    <3> QED BY <2>5 DEF Adds
  <2> HIDE DEF j
  <2> QED BY <2>6
<1>3. SUBSET S \subseteq G
  <2> HIDE DEF G
  <2> QED BY <1>1, <1>2, EverySubset
<1> QED BY <1>3
-----------------------------------------------------------------------------
(* The laws of sums.                                                       *)

LEMMA SumOfNone ==
  ASSUME NEW w
  PROVE  SumOf(w, {}) = 0
<1>1. \E i : Adds(i, w, {})
  BY AddsExist, FS_EmptySet
<1> DEFINE i == CHOOSE i : Adds(i, w, {})
<1>2. Adds(i, w, {})
  <2> HIDE DEF Adds
  <2> QED BY <1>1
<1> HIDE DEF i
<1>3. i[{}] = 0
  BY <1>2 DEF Adds
<1> QED BY <1>3, SumOfFold DEF i

LEMMA SumOfSome ==
  ASSUME NEW S, IsFiniteSet(S), S # {}, NEW w
  PROVE  SumOf(w, S) = w[Some(S)] + SumOf(w, S \ {Some(S)})
<1> DEFINE T == S \ {Some(S)}
           of(s) == CHOOSE i : Adds(i, w, s)
<1>1. T \in SUBSET S /\ IsFiniteSet(T)
  BY FS_Subset
<1>2. Adds(of(S), w, S) /\ Adds(of(T), w, T)
  <2>1. (\E i : Adds(i, w, S)) /\ (\E i : Adds(i, w, T))
    BY <1>1, AddsExist
  <2> HIDE DEF Adds, T
  <2> QED BY <2>1
<1> DEFINE k == [s \in SUBSET T |-> of(S)[s]]
<1>3. Adds(k, w, T)
  <2> HIDE DEF of, T
  <2> QED BY <1>1, <1>2, AddsWithin
<1>4. k = of(T)
  <2> HIDE DEF k, of, T
  <2> QED BY <1>1, <1>2, <1>3, AddsOnce
<1>5. of(S)[S] = w[Some(S)] + of(S)[T]
  <2> HIDE DEF of
  <2> QED BY <1>2 DEF Adds
<1>6. of(S)[T] = of(T)[T]
  <2> HIDE DEF of, T
  <2> QED BY <1>4
<1> QED BY <1>5, <1>6, SumOfFold

\* Any element may be taken first.
LEMMA SumTaken ==
  ASSUME NEW S, IsFiniteSet(S), NEW w, \A x \in S : w[x] \in Int
  PROVE  /\ SumOf(w, S) \in Int
         /\ \A x \in S : SumOf(w, S) = w[x] + SumOf(w, S \ {x})
<1> DEFINE Fine(s) == /\ \A t \in SUBSET s : SumOf(w, t) \in Int
                      /\ \A x \in s : SumOf(w, s) = w[x] + SumOf(w, s \ {x})
           G == {s \in SUBSET S : Fine(s)}
<1>1. {} \in G
  BY SumOfNone
<1>2. ASSUME NEW s \in SUBSET S, s # {}, \A x \in s : s \ {x} \in G PROVE s \in G
  <2> DEFINE c == Some(s)
  <2>1. c \in s
    BY <1>2 DEF Some
  <2>2. IsFiniteSet(s)
    BY FS_Subset
  <2>3. SumOf(w, s) = w[c] + SumOf(w, s \ {c})
    BY <1>2, <2>2, SumOfSome
  <2>4. \A x \in s : Fine(s \ {x})
    BY <1>2
  <2>5. w[c] \in Int /\ SumOf(w, s \ {c}) \in Int
    BY <2>1, <2>4
  <2> HIDE DEF c
  <2>6. ASSUME NEW x \in s, x # c PROVE SumOf(w, s) = w[x] + SumOf(w, s \ {x})
    <3>1. (s \ {c}) \ {x} = (s \ {x}) \ {c}
      OBVIOUS
    <3> DEFINE rest == SumOf(w, (s \ {x}) \ {c})
    <3>2. SumOf(w, s \ {c}) = w[x] + rest
      BY <2>1, <2>4, <2>6, <3>1
    <3>3. SumOf(w, s \ {x}) = w[c] + rest
      BY <2>1, <2>4, <2>6
    <3>4. rest \in Int /\ w[x] \in Int
      <4>1. (s \ {x}) \ {c} \in SUBSET (s \ {c})
        OBVIOUS
      <4> QED BY <2>1, <2>4, <4>1
    <3> HIDE DEF rest
    <3> QED BY <2>3, <2>5, <3>2, <3>3, <3>4
  <2>7. ASSUME NEW t \in SUBSET s PROVE SumOf(w, t) \in Int
    <3>1. CASE t = s
      BY <2>3, <2>5, <3>1
    <3>2. CASE t # s
      <4>1. PICK x \in s : t \in SUBSET (s \ {x})
        BY <3>2
      <4> QED BY <2>4, <4>1
    <3> QED BY <3>1, <3>2
  <2>8. Fine(s)
    BY <2>3, <2>6, <2>7
  <2> HIDE DEF Fine
  <2> QED BY <2>8
<1>3. SUBSET S \subseteq G
  <2> HIDE DEF G
  <2> QED BY <1>1, <1>2, EverySubset
<1> QED BY <1>3

\* Sums of values that are no greater, one by one, are no greater; and less as
\* soon as one value is.
LEMMA SumsOrdered ==
  ASSUME NEW S, IsFiniteSet(S), NEW v, NEW w,
         \A x \in S : v[x] \in Int /\ w[x] \in Int /\ v[x] <= w[x]
  PROVE  /\ SumOf(v, S) <= SumOf(w, S)
         /\ \A x \in S : v[x] < w[x] => SumOf(v, S) < SumOf(w, S)
<1> DEFINE G == {s \in SUBSET S : SumOf(v, s) <= SumOf(w, s)}
<1>1. {} \in G
  BY SumOfNone
<1>2. ASSUME NEW s \in SUBSET S, NEW x \in s
      PROVE  /\ SumOf(v, s) = v[x] + SumOf(v, s \ {x}) /\ SumOf(w, s) = w[x] + SumOf(w, s \ {x})
             /\ SumOf(v, s \ {x}) \in Int /\ SumOf(w, s \ {x}) \in Int
  <2>1. IsFiniteSet(s) /\ IsFiniteSet(s \ {x})
    BY FS_Subset
  <2> QED BY <2>1, SumTaken
<1>3. ASSUME NEW s \in SUBSET S, s # {}, \A x \in s : s \ {x} \in G PROVE s \in G
  <2>1. PICK x \in s : TRUE
    BY <1>3
  <2>2. SumOf(v, s \ {x}) <= SumOf(w, s \ {x}) /\ v[x] <= w[x]
    BY <1>3
  <2>3. v[x] \in Int /\ w[x] \in Int
    OBVIOUS
  <2> QED BY <1>2, <2>2, <2>3
<1>4. SUBSET S \subseteq G
  <2> HIDE DEF G
  <2> QED BY <1>1, <1>3, EverySubset
<1>5. ASSUME NEW x \in S, v[x] < w[x] PROVE SumOf(v, S) < SumOf(w, S)
  <2>1. SumOf(v, S \ {x}) <= SumOf(w, S \ {x})
    BY <1>4
  <2>2. v[x] \in Int /\ w[x] \in Int
    OBVIOUS
  <2> QED BY <1>2, <1>5, <2>1, <2>2
<1> QED BY <1>4, <1>5

\* Equal values have equal sums.
LEMMA SumsEqual ==
  ASSUME NEW S, IsFiniteSet(S), NEW v, NEW w, \A x \in S : v[x] = w[x]
  PROVE  SumOf(v, S) = SumOf(w, S)
<1> DEFINE G == {s \in SUBSET S : SumOf(v, s) = SumOf(w, s)}
<1>1. {} \in G
  BY SumOfNone
<1>2. ASSUME NEW s \in SUBSET S, s # {}, \A x \in s : s \ {x} \in G PROVE s \in G
  <2>1. Some(s) \in s
    BY <1>2 DEF Some
  <2>2. IsFiniteSet(s)
    BY FS_Subset
  <2>3. SumOf(v, s \ {Some(s)}) = SumOf(w, s \ {Some(s)}) /\ v[Some(s)] = w[Some(s)]
    BY <1>2, <2>1
  <2>4. SumOf(v, s) = v[Some(s)] + SumOf(v, s \ {Some(s)}) /\ SumOf(w, s) = w[Some(s)] + SumOf(w, s \ {Some(s)})
    BY <1>2, <2>2, SumOfSome
  <2> QED BY <2>3, <2>4
<1>3. SUBSET S \subseteq G
  <2> HIDE DEF G
  <2> QED BY <1>1, <1>2, EverySubset
<1> QED BY <1>3

\* A sum of natural numbers is one, and no term exceeds it.
LEMMA SumNatural ==
  ASSUME NEW S, IsFiniteSet(S), NEW w, \A x \in S : w[x] \in Nat
  PROVE  SumOf(w, S) \in Nat /\ \A x \in S : w[x] <= SumOf(w, S)
<1> DEFINE G == {s \in SUBSET S : SumOf(w, s) \in Nat}
<1>1. {} \in G
  BY SumOfNone
<1>2. ASSUME NEW s \in SUBSET S, NEW x \in s PROVE SumOf(w, s) = w[x] + SumOf(w, s \ {x})
  <2>1. IsFiniteSet(s)
    BY FS_Subset
  <2> QED BY <2>1, SumTaken
<1>3. ASSUME NEW s \in SUBSET S, s # {}, \A x \in s : s \ {x} \in G PROVE s \in G
  <2>1. PICK x \in s : TRUE
    BY <1>3
  <2>2. SumOf(w, s \ {x}) \in Nat /\ w[x] \in Nat
    BY <1>3
  <2> QED BY <1>2, <2>2
<1>4. SUBSET S \subseteq G
  <2> HIDE DEF G
  <2> QED BY <1>1, <1>3, EverySubset
<1>5. ASSUME NEW x \in S PROVE w[x] <= SumOf(w, S)
  <2>1. SumOf(w, S \ {x}) \in Nat /\ w[x] \in Nat
    BY <1>4
  <2> QED BY <1>2, <2>1
<1> QED BY <1>4, <1>5

\* The sum of sums taken value by value.
LEMMA SumsJoined ==
  ASSUME NEW S, IsFiniteSet(S), NEW u, NEW v, NEW w,
         \A x \in S : v[x] \in Int /\ w[x] \in Int /\ u[x] = v[x] + w[x]
  PROVE  SumOf(u, S) = SumOf(v, S) + SumOf(w, S)
<1> DEFINE G == {s \in SUBSET S : SumOf(u, s) = SumOf(v, s) + SumOf(w, s)}
<1>1. {} \in G
  BY SumOfNone
<1>2. ASSUME NEW s \in SUBSET S, NEW x \in s
      PROVE  /\ SumOf(u, s) = u[x] + SumOf(u, s \ {x})
             /\ SumOf(v, s) = v[x] + SumOf(v, s \ {x}) /\ SumOf(w, s) = w[x] + SumOf(w, s \ {x})
             /\ SumOf(v, s \ {x}) \in Int /\ SumOf(w, s \ {x}) \in Int
  <2>1. IsFiniteSet(s) /\ IsFiniteSet(s \ {x})
    BY FS_Subset
  <2>2. \A y \in S : u[y] \in Int
    OBVIOUS
  <2> QED BY <2>1, <2>2, SumTaken
<1>3. ASSUME NEW s \in SUBSET S, s # {}, \A x \in s : s \ {x} \in G PROVE s \in G
  <2>1. PICK x \in s : TRUE
    BY <1>3
  <2>2. SumOf(u, s \ {x}) = SumOf(v, s \ {x}) + SumOf(w, s \ {x}) /\ u[x] = v[x] + w[x]
    BY <1>3
  <2>3. v[x] \in Int /\ w[x] \in Int
    OBVIOUS
  <2> QED BY <1>2, <2>2, <2>3
<1>4. SUBSET S \subseteq G
  <2> HIDE DEF G
  <2> QED BY <1>1, <1>3, EverySubset
<1> QED BY <1>4

\* A set is summed part by part.
LEMMA SumsOfParts ==
  ASSUME NEW S, IsFiniteSet(S), NEW T \in SUBSET S, NEW w, \A x \in S : w[x] \in Int
  PROVE  SumOf(w, S) = SumOf(w, T) + SumOf(w, S \ T)
<1> DEFINE G == {s \in SUBSET T : SumOf(w, S) = SumOf(w, s) + SumOf(w, S \ s)}
<1>0. IsFiniteSet(T)
  BY FS_Subset
<1>1. {} \in G
  <2>1. S \ {} = S /\ SumOf(w, S) \in Int
    BY SumTaken
  <2> QED BY <2>1, SumOfNone
<1>2. ASSUME NEW s \in SUBSET T, s # {}, \A x \in s : s \ {x} \in G PROVE s \in G
  <2>1. PICK x \in s : TRUE
    BY <1>2
  <2> DEFINE less == s \ {x}
             rest == S \ s
             more == S \ less
  <2>2. IsFiniteSet(s) /\ IsFiniteSet(less) /\ IsFiniteSet(rest) /\ IsFiniteSet(more)
    BY FS_Subset, <2>1
  <2>3. more \ {x} = rest /\ x \in more /\ w[x] \in Int
    BY <2>1
  <2>4. SumOf(w, s) = w[x] + SumOf(w, less) /\ SumOf(w, less) \in Int
    BY <2>1, <2>2, SumTaken
  <2>5. SumOf(w, more) = w[x] + SumOf(w, rest) /\ SumOf(w, rest) \in Int
    BY <2>2, <2>3, SumTaken
  <2>6. SumOf(w, S) = SumOf(w, less) + SumOf(w, more)
    BY <1>2, <2>1
  <2> HIDE DEF less, rest, more
  <2>7. SumOf(w, S) = SumOf(w, s) + SumOf(w, rest)
    BY <2>3, <2>4, <2>5, <2>6
  <2> QED BY <2>7 DEF rest
<1>3. SUBSET T \subseteq G
  <2> HIDE DEF G
  <2> QED BY <1>0, <1>1, <1>2, EverySubset
<1> QED BY <1>3

\* A set may be summed under other names.
LEMMA SumsRenamed ==
  ASSUME NEW S, IsFiniteSet(S), NEW f, NEW v, NEW w,
         \A x, y \in S : f[x] = f[y] => x = y,
         \A x \in S : v[x] \in Int /\ w[f[x]] = v[x]
  PROVE  LET T == {f[x] : x \in S} IN
         IsFiniteSet(T) /\ Cardinality(T) = Cardinality(S) /\ SumOf(w, T) = SumOf(v, S)
<1> DEFINE Im(s) == {f[x] : x \in s}
           Fine(s) == IsFiniteSet(Im(s)) /\ Cardinality(Im(s)) = Cardinality(s) /\ SumOf(w, Im(s)) = SumOf(v, s)
           G == {s \in SUBSET S : Fine(s)}
<1>1. {} \in G
  <2>1. Im({}) = {}
    OBVIOUS
  <2> QED BY <2>1, SumOfNone, FS_EmptySet
<1>2. ASSUME NEW s \in SUBSET S, s # {}, \A x \in s : s \ {x} \in G PROVE s \in G
  <2>1. PICK x \in s : TRUE
    BY <1>2
  <2> DEFINE less == s \ {x}
  <2>2. Im(less) = Im(s) \ {f[x]} /\ f[x] \in Im(s) /\ Im(s) = Im(less) \cup {f[x]} /\ f[x] \notin Im(less)
    BY <2>1
  <2>3. IsFiniteSet(s) /\ x \in s /\ \A y \in s : v[y] \in Int
    BY FS_Subset
  <2>4. \A z \in Im(s) : w[z] \in Int
    OBVIOUS
  <2>5. Fine(less)
    BY <1>2, <2>1
  <2> HIDE DEF Im
  <2>6. IsFiniteSet(Im(s)) /\ Cardinality(Im(s)) = Cardinality(Im(less)) + 1
    <3>1. PICK A, B : A = Im(less) /\ B = Im(s)
      OBVIOUS
    <3>2. IsFiniteSet(A) /\ B = A \cup {f[x]} /\ f[x] \notin A
      BY <2>2, <2>5, <3>1
    <3>3. IsFiniteSet(B) /\ Cardinality(B) = Cardinality(A) + 1
      BY <3>2, FS_AddElement
    <3> QED BY <3>1, <3>3
  <2>7. Cardinality(s) = Cardinality(less) + 1
    <3>1. IsFiniteSet(less) /\ s = less \cup {x} /\ x \notin less
      BY <2>3, FS_Subset
    <3> HIDE DEF less
    <3> QED BY <3>1, FS_AddElement
  <2>8. SumOf(w, Im(s)) = w[f[x]] + SumOf(w, Im(less))
    <3>1. PICK A, B : A = Im(less) /\ B = Im(s)
      OBVIOUS
    <3>2. IsFiniteSet(B) /\ A = B \ {f[x]} /\ f[x] \in B /\ \A z \in B : w[z] \in Int
      BY <2>2, <2>4, <2>6, <3>1
    <3>3. SumOf(w, B) = w[f[x]] + SumOf(w, A)
      BY <3>2, SumTaken
    <3> QED BY <3>1, <3>3
  <2>9. SumOf(v, s) = v[x] + SumOf(v, less)
    BY <2>3, SumTaken
  <2>10. w[f[x]] = v[x]
    OBVIOUS
  <2> HIDE DEF less
  <2> QED BY <2>5, <2>6, <2>7, <2>8, <2>9, <2>10
<1>3. SUBSET S \subseteq G
  <2> HIDE DEF G
  <2> QED BY <1>1, <1>2, EverySubset
<1> QED BY <1>3

\* Sums whose values differ by no more than k.
LEMMA SumsApart ==
  ASSUME NEW S, IsFiniteSet(S), NEW v, NEW w, NEW k \in Int,
         \A x \in S : v[x] \in Int /\ w[x] \in Int /\ v[x] <= w[x] + k
  PROVE  SumOf(v, S) <= SumOf(w, S) + k * Cardinality(S)
<1> DEFINE G == {s \in SUBSET S : SumOf(v, s) <= SumOf(w, s) + k * Cardinality(s)}
<1>1. {} \in G
  BY SumOfNone, FS_EmptySet
<1>2. ASSUME NEW s \in SUBSET S, s # {}, \A x \in s : s \ {x} \in G PROVE s \in G
  <2>1. PICK x \in s : TRUE
    BY <1>2
  <2> DEFINE less == s \ {x}
  <2>2. IsFiniteSet(s) /\ IsFiniteSet(less) /\ s = less \cup {x} /\ x \notin less
    BY <2>1, FS_Subset
  <2>3. SumOf(v, less) <= SumOf(w, less) + k * Cardinality(less)
    BY <1>2
  <2>4. SumOf(v, s) = v[x] + SumOf(v, less) /\ SumOf(w, s) = w[x] + SumOf(w, less)
    BY <2>2, SumTaken
  <2>5. v[x] \in Int /\ w[x] \in Int /\ v[x] <= w[x] + k
    OBVIOUS
  <2>6. SumOf(v, less) \in Int /\ SumOf(w, less) \in Int
    <3>1. \A y \in less : v[y] \in Int /\ w[y] \in Int
      OBVIOUS
    <3> QED BY <2>2, <3>1, SumTaken
  <2> HIDE DEF less
  <2>7. Cardinality(s) = Cardinality(less) + 1 /\ Cardinality(less) \in Nat
    BY <2>2, FS_AddElement, FS_CardinalityType
  <2>8. k * Cardinality(s) = k * Cardinality(less) + k /\ k * Cardinality(less) \in Int
    <3>1. \A n \in Nat : k * (n + 1) = k * n + k /\ k * n \in Int
      OBVIOUS
    <3> QED BY <2>7, <3>1
  <2> QED BY <2>3, <2>4, <2>5, <2>6, <2>8
<1>3. SUBSET S \subseteq G
  <2> HIDE DEF G
  <2> QED BY <1>1, <1>2, EverySubset
<1> QED BY <1>3

\* Every value k times as much.
LEMMA SumsScaled ==
  ASSUME NEW S, IsFiniteSet(S), NEW v, NEW w, NEW k \in Int, \A x \in S : w[x] \in Int /\ v[x] = k * w[x]
  PROVE  SumOf(v, S) = k * SumOf(w, S)
<1> DEFINE G == {s \in SUBSET S : SumOf(v, s) = k * SumOf(w, s)}
<1>1. {} \in G
  BY SumOfNone
<1>2. ASSUME NEW s \in SUBSET S, s # {}, \A x \in s : s \ {x} \in G PROVE s \in G
  <2>1. PICK x \in s : TRUE
    BY <1>2
  <2> DEFINE less == s \ {x}
  <2>2. IsFiniteSet(s) /\ IsFiniteSet(less)
    BY FS_Subset
  <2>3. SumOf(v, less) = k * SumOf(w, less)
    BY <1>2
  <2>4. \A y \in s : v[y] \in Int /\ w[y] \in Int
    OBVIOUS
  <2>5. SumOf(v, s) = v[x] + SumOf(v, less) /\ SumOf(w, s) = w[x] + SumOf(w, less)
    BY <2>2, <2>4, SumTaken
  <2>6. SumOf(w, less) \in Int
    BY <2>2, <2>4, SumTaken
  <2>7. \A a, b \in Int : k * (a + b) = k * a + k * b
    OBVIOUS
  <2>8. w[x] \in Int /\ v[x] = k * w[x]
    OBVIOUS
  <2> HIDE DEF less
  <2> QED BY <2>3, <2>5, <2>6, <2>7, <2>8
<1>3. SUBSET S \subseteq G
  <2> HIDE DEF G
  <2> QED BY <1>1, <1>2, EverySubset
<1> QED BY <1>3

\* A sum whose values are no more than sums over the parts of a larger set.
LEMMA SumsGathered ==
  ASSUME NEW S, IsFiniteSet(S), NEW L, IsFiniteSet(L), NEW c, NEW v, NEW w,
         \A l \in L : c[l] \in S /\ w[l] \in Int,
         \A x \in S : v[x] \in Int /\ v[x] <= SumOf(w, {l \in L : c[l] = x})
  PROVE  SumOf(v, S) <= SumOf(w, L)
<1> DEFINE Of(s) == {l \in L : c[l] \in s}
           G == {s \in SUBSET S : SumOf(v, s) <= SumOf(w, Of(s))}
<1>1. {} \in G
  <2>1. Of({}) = {}
    OBVIOUS
  <2> QED BY <2>1, SumOfNone
<1>2. ASSUME NEW s \in SUBSET S, s # {}, \A x \in s : s \ {x} \in G PROVE s \in G
  <2>1. PICK x \in s : TRUE
    BY <1>2
  <2> DEFINE less == s \ {x}
             one == {l \in L : c[l] = x}
  <2>2. IsFiniteSet(s) /\ IsFiniteSet(less) /\ \A y \in s : v[y] \in Int
    BY FS_Subset
  <2>3. Of(s) \in SUBSET L /\ one \in SUBSET Of(s) /\ Of(less) = Of(s) \ one
    BY <2>1
  <2>4. IsFiniteSet(Of(s)) /\ \A l \in Of(s) : w[l] \in Int
    BY <2>3, FS_Subset
  <2>5. SumOf(v, less) <= SumOf(w, Of(less))
    BY <1>2
  <2>6. SumOf(v, s) = v[x] + SumOf(v, less)
    BY <2>2, SumTaken
  <2>7. v[x] \in Int /\ v[x] <= SumOf(w, one)
    OBVIOUS
  <2>8. SumOf(v, less) \in Int
    BY <2>2, SumTaken
  <2> HIDE DEF Of, one, less
  <2>9. SumOf(w, Of(s)) = SumOf(w, one) + SumOf(w, Of(less))
    <3>1. PICK A : A = Of(s)
      OBVIOUS
    <3>2. IsFiniteSet(A) /\ one \in SUBSET A /\ \A l \in A : w[l] \in Int
      BY <2>3, <2>4, <3>1
    <3>3. SumOf(w, A) = SumOf(w, one) + SumOf(w, A \ one)
      BY <3>2, SumsOfParts
    <3> QED BY <2>3, <3>1, <3>3
  <2>10. SumOf(w, one) \in Int /\ SumOf(w, Of(less)) \in Int
    <3>1. PICK A : A = Of(s)
      OBVIOUS
    <3>2. IsFiniteSet(A) /\ one \in SUBSET A /\ \A l \in A : w[l] \in Int
      BY <2>3, <2>4, <3>1
    <3>3. IsFiniteSet(one) /\ IsFiniteSet(A \ one)
      BY <3>2, FS_Subset
    <3>4. SumOf(w, one) \in Int /\ SumOf(w, A \ one) \in Int
      BY <3>2, <3>3, SumTaken
    <3> QED BY <2>3, <3>1, <3>4
  <2>11. SumOf(v, s) <= SumOf(w, Of(s))
    BY <2>5, <2>6, <2>7, <2>8, <2>9, <2>10
  <2> QED BY <2>11
<1>3. SUBSET S \subseteq G
  <2> HIDE DEF G
  <2> QED BY <1>1, <1>2, EverySubset
<1>4. Of(S) = L
  OBVIOUS
<1> QED BY <1>3, <1>4

\* part[x] is what L has for x: each l in it is for one c[l] in S.
Parted(L, S, c, part) ==
  /\ \A l \in L : c[l] \in S
  /\ \A x \in S : part[x] \in SUBSET L /\ \A l \in L : l \in part[x] <=> c[l] = x

\* A sum over the parts of a set is the sum over the set.
LEMMA SumsGrouped ==
  ASSUME NEW S, IsFiniteSet(S), NEW L, IsFiniteSet(L), NEW c, NEW part, Parted(L, S, c, part), NEW v, NEW w,
         \A l \in L : w[l] \in Int,
         \A x \in S : v[x] = SumOf(w, part[x])
  PROVE  SumOf(v, S) = SumOf(w, L) /\ \A x \in S : v[x] \in Int
<1>0. /\ \A l \in L : c[l] \in S
      /\ \A x \in S : part[x] \in SUBSET L
      /\ \A x \in S : \A l \in L : l \in part[x] <=> c[l] = x
  BY DEF Parted
<1> DEFINE Of(s) == {l \in L : c[l] \in s}
           G == {s \in SUBSET S : SumOf(v, s) = SumOf(w, Of(s))}
<1>1. {} \in G
  <2>1. Of({}) = {}
    OBVIOUS
  <2> QED BY <2>1, SumOfNone
<1>2. ASSUME NEW s \in SUBSET S, NEW x \in s
      PROVE  SumOf(w, Of(s)) = v[x] + SumOf(w, Of(s \ {x})) /\ v[x] \in Int
  <2>1. PICK A, one : A = Of(s) /\ one = part[x]
    OBVIOUS
  <2>2. A \in SUBSET L /\ one \in SUBSET A /\ Of(s \ {x}) = A \ one
    BY <1>0, <2>1
  <2>3. IsFiniteSet(A) /\ IsFiniteSet(one) /\ \A l \in A : w[l] \in Int
    <3>1. IsFiniteSet(A)
      BY <2>2, FS_Subset
    <3> QED BY <2>2, <3>1, FS_Subset
  <2>4. SumOf(w, A) = SumOf(w, one) + SumOf(w, A \ one)
    BY <2>2, <2>3, SumsOfParts
  <2>5. SumOf(w, one) \in Int
    <3>1. \A l \in one : w[l] \in Int
      BY <2>2, <2>3
    <3> QED BY <2>3, <3>1, SumTaken
  <2>6. v[x] = SumOf(w, one)
    BY <2>1
  <2> HIDE DEF Of
  <2> QED BY <2>1, <2>2, <2>4, <2>5, <2>6
<1>3. \A x \in S : v[x] \in Int
  BY <1>2
<1>4. ASSUME NEW s \in SUBSET S, s # {}, \A x \in s : s \ {x} \in G PROVE s \in G
  <2>1. PICK x \in s : TRUE
    BY <1>4
  <2>2. SumOf(v, s) = v[x] + SumOf(v, s \ {x})
    <3>1. IsFiniteSet(s) /\ \A y \in s : v[y] \in Int
      BY <1>3, FS_Subset
    <3> QED BY <3>1, SumTaken
  <2>3. SumOf(v, s \ {x}) = SumOf(w, Of(s \ {x}))
    BY <1>4
  <2>4. SumOf(w, Of(s)) = v[x] + SumOf(w, Of(s \ {x}))
    BY <1>2
  <2>5. SumOf(v, s) = SumOf(w, Of(s))
    <3> HIDE DEF Of
    <3> QED BY <2>2, <2>3, <2>4
  <2> QED BY <2>5
<1>5. SUBSET S \subseteq G
  <2> HIDE DEF G
  <2> QED BY <1>1, <1>4, EverySubset
<1>6. Of(S) = L
  BY <1>0
<1> QED BY <1>3, <1>5, <1>6

\* Losses alone add up to a loss.
LEMMA SumsNegative ==
  ASSUME NEW S, IsFiniteSet(S), S # {}, NEW v, \A x \in S : v[x] \in Int /\ v[x] < 0
  PROVE  SumOf(v, S) < 0
<1>1. PICK zero : zero = [x \in S |-> 0]
  OBVIOUS
<1>2. \A x \in S : zero[x] \in Int /\ zero[x] = 0 * zero[x]
  BY <1>1
<1>3. SumOf(zero, S) = 0 * SumOf(zero, S) /\ SumOf(zero, S) \in Int
  BY <1>2, SumsScaled, SumTaken
<1>4. \A x \in S : SumOf(v, S) < SumOf(zero, S)
  BY <1>1, <1>2, SumsOrdered
<1> QED BY <1>3, <1>4
=============================================================================
