------------------------------ MODULE SumTheorems ------------------------------
(***************************************************************************)
(* Sums over finite sets, as SumFunctionOnSet of module Functions computes  *)
(* them: it takes one element after the other, in an order CHOOSE decides,  *)
(* by recursion over the subsets.  The theorems say that the order does not *)
(* matter, so the sums the ledger states (reserved cash, filled quantities, *)
(* the cash of fills) follow the ledger step by step.                       *)
(*                                                                         *)
(* The library's induction theorems take an operator, which no backend can  *)
(* instantiate.  Induction is stated on a SET of subsets here: that strict  *)
(* inclusion of finite sets is well founded gives a smallest subset which   *)
(* is not in the set, with no operator involved.                            *)
(***************************************************************************)
EXTENDS Functions, FiniteSetTheorems, TLAPS

\* Induction over the subsets of a finite set: a set of subsets that has the empty
\* one, and every subset whose smaller ones it has, has them all.
THEOREM SubsetInduction ==
  ASSUME NEW S, IsFiniteSet(S), NEW G,
         {} \in G,
         \A T \in SUBSET S : T # {} /\ (\A x \in T : T \ {x} \in G) => T \in G
  PROVE  \A T \in SUBSET S : T \in G
  <1>1. IsWellFoundedOn(StrictSubsetOrdering(S), SUBSET S)
    BY FS_StrictSubsetOrderingWellFounded, FS_FiniteSubsetsOfFinite
  <1>2. SUFFICES ASSUME (SUBSET S) \ G # {} PROVE FALSE
    OBVIOUS
  <1>3. PICK T \in (SUBSET S) \ G :
          \A U \in (SUBSET S) \ G : ~ (<<U, T>> \in StrictSubsetOrdering(S))
    <2>1. (SUBSET S) \ G \subseteq SUBSET S
      OBVIOUS
    <2> QED BY <1>1, <1>2, <2>1, WFMin, Zenon
  <1>4. ASSUME NEW x \in T PROVE T \ {x} \in G
    <2>1. T \ {x} \in SUBSET S /\ T \ {x} \subseteq T /\ T \ {x} # T /\ T \in SUBSET S
      OBVIOUS
    <2>2. <<T \ {x}, T>> \in StrictSubsetOrdering(S)
      BY <2>1 DEF StrictSubsetOrdering
    <2> QED BY <1>3, <2>1, <2>2
  <1>5. T # {}
    BY <1>3
  <1> QED BY <1>3, <1>4, <1>5

-------------------------------------------------------------------------------
\* The recursion behind a sum

Pick(s) == CHOOSE x \in s : TRUE

\* f gives the sum of w over every subset of S.
Totals(w, S, f) ==
  f = [s \in SUBSET S |-> IF s = {} THEN 0 ELSE w[Pick(s)] + f[s \ {Pick(s)}]]

LEMMA PickIn == ASSUME NEW s, s # {} PROVE Pick(s) \in s
  BY DEF Pick

LEMMA TotalsType ==
  ASSUME NEW S, IsFiniteSet(S), NEW w, \A x \in S : w[x] \in Int, NEW f, Totals(w, S, f)
  PROVE  \A s \in SUBSET S : f[s] \in Int
  <1> DEFINE G == {s \in SUBSET S : f[s] \in Int}
  <1>1. {} \in G
    BY DEF Totals
  <1>2. ASSUME NEW T \in SUBSET S, T # {}, \A x \in T : T \ {x} \in G
        PROVE  T \in G
    <2>1. Pick(T) \in T
      BY <1>2, PickIn
    <2>2. f[T] = w[Pick(T)] + f[T \ {Pick(T)}]
      BY <1>2 DEF Totals
    <2>3. w[Pick(T)] \in Int /\ f[T \ {Pick(T)}] \in Int
      BY <1>2, <2>1
    <2> QED BY <2>2, <2>3
  <1> HIDE DEF G
  <1>3. \A s \in SUBSET S : s \in G
    BY <1>1, <1>2, SubsetInduction
  <1> QED BY <1>3 DEF G

\* Two summands that agree on S have the same sums.
LEMMA TotalsUnique ==
  ASSUME NEW S, IsFiniteSet(S), NEW w, NEW v, \A x \in S : w[x] = v[x],
         NEW f, NEW g, Totals(w, S, f), Totals(v, S, g)
  PROVE  f = g
  <1> DEFINE G == {s \in SUBSET S : f[s] = g[s]}
  <1>1. {} \in G
    BY DEF Totals
  <1>2. ASSUME NEW T \in SUBSET S, T # {}, \A x \in T : T \ {x} \in G
        PROVE  T \in G
    <2>1. Pick(T) \in T
      BY <1>2, PickIn
    <2>2. /\ f[T] = w[Pick(T)] + f[T \ {Pick(T)}]
          /\ g[T] = v[Pick(T)] + g[T \ {Pick(T)}]
      BY <1>2 DEF Totals
    <2> QED BY <1>2, <2>1, <2>2
  <1> HIDE DEF G
  <1>3. \A s \in SUBSET S : s \in G
    BY <1>1, <1>2, SubsetInduction
  <1> QED BY <1>3 DEF G, Totals

LEMMA TotalsRestrict ==
  ASSUME NEW S, NEW w, NEW f, Totals(w, S, f), NEW T \in SUBSET S
  PROVE  Totals(w, T, [s \in SUBSET T |-> f[s]])
  <1> DEFINE g == [s \in SUBSET T |-> f[s]]
  <1>1. ASSUME NEW s \in SUBSET T
        PROVE  g[s] = IF s = {} THEN 0 ELSE w[Pick(s)] + g[s \ {Pick(s)}]
    BY DEF Totals
  <1> QED BY <1>1, Zenon DEF Totals

\* The recursion has a solution: the solutions of the smaller subsets agree where
\* they overlap, and together give one more step.
LEMMA TotalsExist ==
  ASSUME NEW S, IsFiniteSet(S), NEW w
  PROVE  \E f : Totals(w, S, f)
  <1> DEFINE K == {s \in SUBSET S : \E f : Totals(w, s, f)}
  <1>1. {} \in K
    <2>1. Totals(w, {}, [s \in SUBSET {} |-> 0])
      BY Zenon DEF Totals
    <2> QED BY <2>1
  <1>2. ASSUME NEW T \in SUBSET S, T # {}, \A x \in T : T \ {x} \in K
        PROVE  T \in K
    <2>1. IsFiniteSet(T)
      BY FS_Subset
    <2> DEFINE G(x) == CHOOSE f : Totals(w, T \ {x}, f)
    <2>2. \A x \in T : Totals(w, T \ {x}, G(x))
      BY <1>2
    <2> DEFINE h == [s \in (SUBSET T) \ {T} |-> G(CHOOSE x \in T \ s : TRUE)[s]]
    <2> HIDE DEF G
    <2>3. ASSUME NEW x \in T, NEW y \in T, NEW s \in SUBSET T, x \notin s, y \notin s
          PROVE  G(x)[s] = G(y)[s]
      <3>1. s \in SUBSET (T \ {x}) /\ s \in SUBSET (T \ {y}) /\ IsFiniteSet(s)
        BY <2>3, <2>1, FS_Subset
      <3> DEFINE a == [u \in SUBSET s |-> G(x)[u]]
                 b == [u \in SUBSET s |-> G(y)[u]]
      <3>2. Totals(w, T \ {x}, G(x)) /\ Totals(w, T \ {y}, G(y))
        BY <2>2
      <3>3. Totals(w, s, a) /\ Totals(w, s, b)
        BY <3>1, <3>2, TotalsRestrict
      <3> HIDE DEF a, b
      <3>4. a = b
        BY <3>1, <3>3, TotalsUnique
      <3> QED BY <3>4 DEF a, b
    <2>4. ASSUME NEW s \in SUBSET T, NEW x \in T \ s
          PROVE  h[s] = G(x)[s]
      <3> DEFINE y == CHOOSE y \in T \ s : TRUE
      <3>1. y \in T \ s
        BY <2>4
      <3> HIDE DEF y
      <3>2. h[s] = G(y)[s]
        BY <2>4, Zenon DEF y
      <3> QED BY <2>3, <3>1, <3>2
    <2> HIDE DEF h
    <2> DEFINE g == [s \in SUBSET T |->
                       IF s # T THEN h[s] ELSE
                       IF T = {} THEN 0 ELSE w[Pick(T)] + h[T \ {Pick(T)}]]
    <2>5. ASSUME NEW s \in SUBSET T
          PROVE  g[s] = IF s = {} THEN 0 ELSE w[Pick(s)] + g[s \ {Pick(s)}]
      <3>1. CASE s = T
        BY <3>1, PickIn
      <3>2. CASE s # T
        <4>1. PICK x \in T : x \notin s
          BY <3>2
        <4>2. /\ g[s] = G(x)[s] /\ s \in SUBSET (T \ {x})
              /\ s # {} => g[s \ {Pick(s)}] = G(x)[s \ {Pick(s)}]
          BY <4>1, <3>2, <2>4, PickIn
        <4> HIDE DEF g
        <4>3. Totals(w, T \ {x}, G(x))
          BY <2>2
        <4>4. G(x)[s] = IF s = {} THEN 0 ELSE w[Pick(s)] + G(x)[s \ {Pick(s)}]
          BY <4>2, <4>3 DEF Totals
        <4> QED BY <4>2, <4>4
      <3> QED BY <3>1, <3>2
    <2>6. Totals(w, T, g)
      <3>1. g = [s \in SUBSET T |-> g[s]]
        OBVIOUS
      <3> HIDE DEF g
      <3> QED BY <2>5, <3>1 DEF Totals
    <2> QED BY <2>6
  <1> HIDE DEF K
  <1>3. \A s \in SUBSET S : s \in K
    BY <1>1, <1>2, SubsetInduction
  <1> QED BY <1>3 DEF K

\* Any element may be taken first.
LEMMA TotalsAnyOrder ==
  ASSUME NEW S, IsFiniteSet(S), NEW w, \A x \in S : w[x] \in Int, NEW f, Totals(w, S, f)
  PROVE  \A s \in SUBSET S : \A x \in s : f[s] = w[x] + f[s \ {x}]
  <1> DEFINE G == {s \in SUBSET S : \A x \in s : f[s] = w[x] + f[s \ {x}]}
  <1>1. {} \in G
    OBVIOUS
  <1>2. ASSUME NEW T \in SUBSET S, T # {}, \A x \in T : T \ {x} \in G
        PROVE  T \in G
    <2>1. Pick(T) \in T /\ f[T] = w[Pick(T)] + f[T \ {Pick(T)}]
      BY <1>2, PickIn DEF Totals
    <2>2. ASSUME NEW x \in T, x # Pick(T)
          PROVE  f[T] = w[x] + f[T \ {x}]
      <3> DEFINE p == Pick(T)
                 rest == T \ {p, x}
      <3> HIDE DEF p
      <3>1. p \in T /\ x # p /\ f[T] = w[p] + f[T \ {p}]
        BY <2>1, <2>2 DEF p
      <3>2. (T \ {p}) \ {x} = rest /\ (T \ {x}) \ {p} = rest
        OBVIOUS
      <3> HIDE DEF rest
      <3>3. x \in T \ {p} /\ T \ {p} \in G /\ p \in T \ {x} /\ T \ {x} \in G
        BY <3>1, <1>2
      <3>4. f[T \ {p}] = w[x] + f[rest] /\ f[T \ {x}] = w[p] + f[rest]
        BY <3>2, <3>3
      <3>5. w[x] \in Int /\ w[p] \in Int /\ f[rest] \in Int
        BY <3>1, TotalsType DEF rest
      <3> QED BY <3>1, <3>4, <3>5
    <2> QED BY <2>1, <2>2
  <1> HIDE DEF G
  <1>3. \A s \in SUBSET S : s \in G
    BY <1>1, <1>2, SubsetInduction
  <1> QED BY <1>3 DEF G

\* The community modules compute exactly such a function.
LEMMA SumIs ==
  ASSUME NEW S, IsFiniteSet(S), NEW w, NEW f, Totals(w, S, f)
  PROVE  \A T \in SUBSET S : f[T] = SumFunctionOnSet(w, T)
  <1> TAKE T \in SUBSET S
  <1> DEFINE g == CHOOSE g : Totals(w, T, g)
             r == [s \in SUBSET T |-> f[s]]
  <1>1. IsFiniteSet(T)
    BY FS_Subset
  <1>2. Totals(w, T, g) /\ Totals(w, T, r)
    BY <1>1, TotalsExist, TotalsRestrict
  <1>3. SumFunctionOnSet(w, T) = g[T] /\ r[T] = f[T]
    BY DEF SumFunctionOnSet, FoldFunctionOnSet, MapThenFoldSet, Totals, Pick
  <1> HIDE DEF g, r
  <1>4. g = r
    BY <1>1, <1>2, TotalsUnique
  <1> QED BY <1>3, <1>4

-------------------------------------------------------------------------------
\* Sums

\* Nothing adds up to zero.
THEOREM SumEmpty == \A w : SumFunctionOnSet(w, {}) = 0
  <1> TAKE w
  <1>1. PICK f : Totals(w, {}, f)
    BY FS_EmptySet, TotalsExist
  <1>2. f[{}] = SumFunctionOnSet(w, {})
    BY <1>1, FS_EmptySet, SumIs
  <1> QED BY <1>1, <1>2 DEF Totals

\* A sum of integers is an integer.
THEOREM SumType ==
  ASSUME NEW S, IsFiniteSet(S), NEW w, \A x \in S : w[x] \in Int
  PROVE  SumFunctionOnSet(w, S) \in Int
  <1>1. PICK f : Totals(w, S, f)
    BY TotalsExist
  <1>2. f[S] = SumFunctionOnSet(w, S)
    BY <1>1, SumIs
  <1> QED BY <1>1, <1>2, TotalsType

\* A sum depends on the summands of its elements only.
THEOREM SumSame ==
  ASSUME NEW S, IsFiniteSet(S), NEW w, NEW v, \A x \in S : w[x] = v[x]
  PROVE  SumFunctionOnSet(w, S) = SumFunctionOnSet(v, S)
  <1>1. PICK f : Totals(w, S, f)
    BY TotalsExist
  <1>2. PICK g : Totals(v, S, g)
    BY TotalsExist
  <1>3. f[S] = SumFunctionOnSet(w, S)
    BY <1>1, SumIs
  <1>4. g[S] = SumFunctionOnSet(v, S)
    BY <1>2, SumIs
  <1>5. f = g
    BY <1>1, <1>2, TotalsUnique
  <1> QED BY <1>3, <1>4, <1>5

\* One element of a sum can be taken out of it.
THEOREM SumRemove ==
  ASSUME NEW S, IsFiniteSet(S), NEW w, \A x \in S : w[x] \in Int, NEW x \in S
  PROVE  SumFunctionOnSet(w, S) = w[x] + SumFunctionOnSet(w, S \ {x})
  <1>1. PICK f : Totals(w, S, f)
    BY TotalsExist
  <1>2. f[S] = SumFunctionOnSet(w, S) /\ f[S \ {x}] = SumFunctionOnSet(w, S \ {x})
    BY <1>1, SumIs
  <1> QED BY <1>1, <1>2, TotalsAnyOrder

\* One more element adds its summand.
THEOREM SumAdd ==
  ASSUME NEW S, IsFiniteSet(S), NEW w, \A y \in S : w[y] \in Int,
         NEW x, x \notin S, w[x] \in Int
  PROVE  SumFunctionOnSet(w, S \cup {x}) = SumFunctionOnSet(w, S) + w[x]
  <1> DEFINE T == S \cup {x}
  <1>1. IsFiniteSet(T) /\ x \in T /\ T \ {x} = S /\ \A y \in T : w[y] \in Int
    BY FS_AddElement
  <1>2. SumFunctionOnSet(w, S) \in Int
    BY SumType
  <1> HIDE DEF T
  <1>3. SumFunctionOnSet(w, T) = w[x] + SumFunctionOnSet(w, S)
    <2>1. SumFunctionOnSet(w, T) = w[x] + SumFunctionOnSet(w, T \ {x})
      BY <1>1, SumRemove
    <2> QED BY <1>1, <2>1, Zenon
  <1>4. SumFunctionOnSet(w, T) = SumFunctionOnSet(w, S) + w[x]
    BY <1>2, <1>3
  <1> QED BY <1>4 DEF T

\* When one summand changes, the sum changes by as much.
THEOREM SumChange ==
  ASSUME NEW S, IsFiniteSet(S), NEW w, NEW v, NEW x \in S,
         \A y \in S : w[y] \in Int /\ v[y] \in Int,
         \A y \in S \ {x} : w[y] = v[y]
  PROVE  SumFunctionOnSet(v, S) = SumFunctionOnSet(w, S) - w[x] + v[x]
  <1>1. IsFiniteSet(S \ {x})
    BY FS_RemoveElement
  <1>2. /\ SumFunctionOnSet(w, S) = w[x] + SumFunctionOnSet(w, S \ {x})
        /\ SumFunctionOnSet(v, S) = v[x] + SumFunctionOnSet(v, S \ {x})
    BY SumRemove
  <1>3. SumFunctionOnSet(w, S \ {x}) = SumFunctionOnSet(v, S \ {x})
    BY <1>1, SumSame
  <1>4. SumFunctionOnSet(w, S \ {x}) \in Int
    BY <1>1, SumType
  <1>5. w[x] \in Int /\ v[x] \in Int
    OBVIOUS
  <1> QED BY <1>2, <1>3, <1>4, <1>5

\* Zeros add up to zero.
THEOREM SumZero ==
  ASSUME NEW S, IsFiniteSet(S), NEW w, \A x \in S : w[x] = 0
  PROVE  SumFunctionOnSet(w, S) = 0
  <1>1. PICK f : Totals(w, S, f)
    BY TotalsExist
  <1> DEFINE G == {s \in SUBSET S : f[s] = 0}
  <1>2. {} \in G
    BY <1>1 DEF Totals
  <1>3. ASSUME NEW T \in SUBSET S, T # {}, \A x \in T : T \ {x} \in G
        PROVE  T \in G
    <2>1. Pick(T) \in T /\ f[T] = w[Pick(T)] + f[T \ {Pick(T)}]
      BY <1>1, <1>3, PickIn DEF Totals
    <2> QED BY <2>1, <1>3
  <1> HIDE DEF G
  <1>4. \A s \in SUBSET S : s \in G
    BY <1>2, <1>3, SubsetInduction
  <1>5. f[S] = SumFunctionOnSet(w, S)
    BY <1>1, SumIs
  <1> QED BY <1>4, <1>5 DEF G

\* Natural numbers add up to a natural number, no smaller than any of them.
THEOREM SumNat ==
  ASSUME NEW S, IsFiniteSet(S), NEW w, \A x \in S : w[x] \in Nat
  PROVE  SumFunctionOnSet(w, S) \in Nat /\ \A x \in S : w[x] <= SumFunctionOnSet(w, S)
  <1>1. PICK f : Totals(w, S, f)
    BY TotalsExist
  <1> DEFINE G == {s \in SUBSET S : f[s] \in Nat}
  <1>2. {} \in G
    BY <1>1 DEF Totals
  <1>3. ASSUME NEW T \in SUBSET S, T # {}, \A x \in T : T \ {x} \in G
        PROVE  T \in G
    <2>1. Pick(T) \in T /\ f[T] = w[Pick(T)] + f[T \ {Pick(T)}]
      BY <1>1, <1>3, PickIn DEF Totals
    <2>2. w[Pick(T)] \in Nat /\ f[T \ {Pick(T)}] \in Nat
      BY <2>1, <1>3
    <2> QED BY <2>1, <2>2
  <1> HIDE DEF G
  <1>4. \A s \in SUBSET S : s \in G
    BY <1>2, <1>3, SubsetInduction
  <1>5. f[S] = SumFunctionOnSet(w, S)
    BY <1>1, SumIs
  <1>6. ASSUME NEW x \in S PROVE w[x] <= SumFunctionOnSet(w, S)
    <2>1. SumFunctionOnSet(w, S) = w[x] + SumFunctionOnSet(w, S \ {x})
      BY SumRemove
    <2>2. f[S \ {x}] = SumFunctionOnSet(w, S \ {x}) /\ f[S \ {x}] \in Nat
      BY <1>1, <1>4, SumIs DEF G
    <2> QED BY <2>1, <2>2
  <1> QED BY <1>4, <1>5, <1>6 DEF G

\* A sum is that of a part and that of the rest.
THEOREM SumSplit ==
  ASSUME NEW S, IsFiniteSet(S), NEW w, \A x \in S : w[x] \in Int, NEW T \in SUBSET S
  PROVE  SumFunctionOnSet(w, S) = SumFunctionOnSet(w, T) + SumFunctionOnSet(w, S \ T)
  <1> DEFINE G == {s \in SUBSET S : SumFunctionOnSet(w, S)
                     = SumFunctionOnSet(w, s) + SumFunctionOnSet(w, S \ s)}
  <1>1. {} \in G
    <2>1. SumFunctionOnSet(w, S) \in Int
      BY SumType
    <2> QED BY <2>1, SumEmpty
  <1>2. ASSUME NEW U \in SUBSET S, U # {}, \A x \in U : U \ {x} \in G
        PROVE  U \in G
    <2>1. PICK x \in U : TRUE
      BY <1>2
    <2> DEFINE V == U \ {x}
    <2>2. /\ SumFunctionOnSet(w, S) = SumFunctionOnSet(w, V) + SumFunctionOnSet(w, S \ V)
          /\ IsFiniteSet(U) /\ IsFiniteSet(V) /\ IsFiniteSet(S \ U) /\ IsFiniteSet(S \ V)
          /\ x \in S \ V /\ (S \ V) \ {x} = S \ U
      BY <1>2, FS_Subset
    <2>3. SumFunctionOnSet(w, U) = w[x] + SumFunctionOnSet(w, V)
      BY <2>2, SumRemove
    <2> HIDE DEF V
    <2>4. SumFunctionOnSet(w, S \ V) = w[x] + SumFunctionOnSet(w, S \ U)
      BY <2>2, SumRemove
    <2>5. /\ w[x] \in Int /\ SumFunctionOnSet(w, S \ U) \in Int
          /\ SumFunctionOnSet(w, V) \in Int
      <3>1. V \subseteq S
        BY DEF V
      <3> QED BY <2>2, <3>1, SumType
    <2> QED BY <2>2, <2>3, <2>4, <2>5
  <1> HIDE DEF G
  <1>3. \A s \in SUBSET S : s \in G
    BY <1>1, <1>2, SubsetInduction
  <1> QED BY <1>3 DEF G

================================================================================
