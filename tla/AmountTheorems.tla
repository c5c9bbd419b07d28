---------------------------- MODULE AmountTheorems ----------------------------
(***************************************************************************)
(* What the proofs need to know of amounts: of quotients and of the        *)
(* proportional split of a capacity, and of SumFunctionOnSet, the fold by  *)
(* which the modules add up amounts over a finite set: the sum over the    *)
(* empty set, taking one element out, and that it only looks at the set it *)
(* sums over.  Induction is stated over a set of subsets, which needs no   *)
(* operator.                                                               *)
(***************************************************************************)
EXTENDS FiniteSetsExt, FiniteSetTheorems, TLAPS

(***************************************************************************)
(* Quotients and shares.                                                   *)
(***************************************************************************)

LEMMA Division ==
    ASSUME NEW a \in Nat, NEW d \in Nat \ {0}
    PROVE  /\ a \div d \in Nat
           /\ d * (a \div d) <= a
           /\ a < d * (a \div d) + d
  OBVIOUS

(* Products are compared by their factors.                                 *)
LEMMA ProductMonotone ==
    ASSUME NEW a \in Nat, NEW b \in Nat, NEW c \in Nat, a <= b
    PROVE  a * c <= b * c
<1>1. PICK e \in Nat : b = a + e
  BY b - a \in Nat, b = a + (b - a)
<1>2. b * c = a * c + e * c
  BY <1>1
<1>3. e * c \in Nat /\ a * c \in Nat
  BY <1>1
<1> QED
  BY <1>2, <1>3

(* The Founder's share of what is available, rounded down, and the rest.   *)
LEMMA ProportionalSplit ==
    ASSUME NEW f \in Nat, NEW t \in Nat, f + t # 0,
           NEW available \in Nat, available <= f + t
    PROVE  /\ (available * f) \div (f + t) \in 0..available
           /\ (available * f) \div (f + t) <= f
           /\ available - ((available * f) \div (f + t)) <= t
<1> DEFINE s == f + t
           x == available * f
           q == x \div s
<1>1. s \in Nat \ {0} /\ x \in Nat
  OBVIOUS
<1>2. q \in Nat /\ s * q <= x /\ x < s * q + s
  BY <1>1, Division
<1> HIDE DEF q
<1>3. x <= s * f
  BY ProductMonotone
<1>4. q <= f
  <2> SUFFICES ASSUME q > f PROVE FALSE
    BY <1>2
  <2>1. (f + 1) * s <= q * s
    BY <1>1, <1>2, ProductMonotone
  <2>2. (f + 1) * s = s * f + s /\ q * s = s * q /\ s * f \in Nat /\ s * q \in Nat
    BY <1>1, <1>2
  <2> QED
    BY <1>1, <1>2, <1>3, <2>1, <2>2
<1>5. q <= available
  <2> SUFFICES ASSUME q > available PROVE FALSE
    BY <1>2
  <2>1. (available + 1) * s <= q * s
    BY <1>1, <1>2, ProductMonotone
  <2>2. f * available <= s * available
    BY ProductMonotone
  <2>3. /\ (available + 1) * s = s * available + s
        /\ q * s = s * q /\ f * available = x
        /\ s * available \in Nat /\ s * q \in Nat
    BY <1>1, <1>2
  <2> QED
    BY <1>1, <1>2, <2>1, <2>2, <2>3
<1>6. available - q <= t
  <2> SUFFICES ASSUME available - q > t PROVE FALSE
    BY <1>2
  <2>1. (q + t + 1) * s <= available * s
    BY <1>1, <1>2, <1>5, ProductMonotone
  <2>2. (q + t + 1) * s = s * q + t * s + s
    BY <1>1, <1>2
  <2>3. available * s = x + available * t
    BY <1>1
  <2>4. available * t <= s * t
    BY <1>1, ProductMonotone
  <2>5. /\ s * t = t * s /\ t * s \in Nat /\ s * q \in Nat
        /\ available * t \in Nat
    BY <1>1, <1>2
  <2> HIDE DEF s, x
  <2> QED
    BY <1>1, <1>2, <2>1, <2>2, <2>3, <2>4, <2>5
<1> QED
  BY <1>2, <1>4, <1>5, <1>6 DEF q

(* A quotient reaches n when the dividend reaches n times the divisor.     *)
LEMMA DivisionThreshold ==
    ASSUME NEW a \in Nat, NEW d \in Nat \ {0}, NEW n \in Nat
    PROVE  a >= n * d <=> a \div d >= n
<1> DEFINE q == a \div d
<1>1. q \in Nat /\ d * q <= a /\ a < d * q + d
  BY Division
<1> HIDE DEF q
<1>2. ASSUME q >= n PROVE a >= n * d
  <2>1. n * d <= q * d
    BY <1>1, <1>2, ProductMonotone
  <2>2. q * d = d * q /\ n * d \in Nat /\ d * q \in Nat
    BY <1>1
  <2> QED BY <1>1, <2>1, <2>2
<1>3. ASSUME a >= n * d, q < n PROVE FALSE
  <2>1. (q + 1) * d <= n * d
    BY <1>1, <1>3, ProductMonotone
  <2>2. (q + 1) * d = d * q + d /\ n * d \in Nat /\ d * q \in Nat
    BY <1>1
  <2> QED BY <1>1, <1>3, <2>1, <2>2
<1> QED BY <1>1, <1>2, <1>3 DEF q

(* What lies between the last multiple of d and a has the same quotient.   *)
LEMMA SameQuotient ==
    ASSUME NEW a \in Nat, NEW b \in Nat, NEW d \in Nat \ {0},
           b >= (a \div d) * d, b <= a
    PROVE  b \div d = a \div d
<1> DEFINE q == a \div d
           r == b \div d
<1>1. q \in Nat /\ r \in Nat
  BY Division
<1>2. r >= q
  <2> HIDE DEF q
  <2> QED BY <1>1, DivisionThreshold DEF q
<1>3. q >= r
  <2>1. b >= r * d
    <3> HIDE DEF r
    <3> QED BY <1>1, DivisionThreshold DEF r
  <2>2. r * d \in Nat
    BY <1>1
  <2>3. a >= r * d
    BY <2>1, <2>2
  <2> HIDE DEF r
  <2> QED BY <1>1, <2>3, DivisionThreshold
<1> QED BY <1>1, <1>2, <1>3

(* With more to share, neither the rounded share nor the rest shrinks.     *)
LEMMA SharesGrow ==
    ASSUME NEW f \in Nat, NEW s \in Nat \ {0}, f <= s,
           NEW a \in Nat, NEW b \in Nat, a <= b
    PROVE  /\ (a * f) \div s <= (b * f) \div s
           /\ a - (a * f) \div s <= b - (b * f) \div s
<1> DEFINE x == a * f
           y == b * f
           q == x \div s
           r == y \div s
<1>1. x \in Nat /\ y \in Nat /\ x <= y
  BY ProductMonotone
<1>2. /\ q \in Nat /\ s * q <= x /\ x < s * q + s
      /\ r \in Nat /\ s * r <= y /\ y < s * r + s
  BY <1>1, Division
<1>3. y - x <= s * (b - a)
  <2>1. f * (b - a) <= s * (b - a)
    BY ProductMonotone
  <2>2. y - x = f * (b - a)
    OBVIOUS
  <2> QED BY <2>1, <2>2
<1> HIDE DEF x, y, q, r
<1>4. q <= r
  <2> SUFFICES ASSUME r < q PROVE FALSE
    BY <1>2
  <2>1. (r + 1) * s <= q * s
    BY <1>2, ProductMonotone
  <2>2. (r + 1) * s = s * r + s /\ q * s = s * q /\ s * q \in Nat /\ s * r \in Nat
    BY <1>2
  <2> QED BY <1>1, <1>2, <2>1, <2>2
<1>5. r <= q + (b - a)
  <2> SUFFICES ASSUME r > q + (b - a) PROVE FALSE
    BY <1>2
  <2>1. (q + (b - a) + 1) * s <= r * s
    BY <1>2, ProductMonotone
  <2>2. /\ (q + (b - a) + 1) * s = s * q + s * (b - a) + s
        /\ r * s = s * r /\ s * q \in Nat /\ s * r \in Nat /\ s * (b - a) \in Nat
    BY <1>2
  <2> QED BY <1>1, <1>2, <1>3, <2>1, <2>2
<1>6. a - q <= b - r
  BY <1>2, <1>5
<1> QED BY <1>4, <1>6 DEF q, r, x, y

-----------------------------------------------------------------------------
(***************************************************************************)
(* Sums.                                                                   *)
(***************************************************************************)

(* Subsets of a finite set, the smaller ones first.                        *)
LEMMA SubsetInduction ==
  ASSUME NEW S, IsFiniteSet(S), NEW Q,
         \A T \in SUBSET S : (\A U \in SUBSET T : U # T => U \in Q) => T \in Q
  PROVE  \A T \in SUBSET S : T \in Q
<1> DEFINE R == {T \in SUBSET S : T \notin Q}
<1>1. IsWellFoundedOn(StrictSubsetOrdering(S), SUBSET S)
  BY FS_StrictSubsetOrderingWellFounded, FS_FiniteSubsetsOfFinite
<1>2. SUFFICES ASSUME R # {} PROVE FALSE
  OBVIOUS
<1>3. PICK T \in R : \A U \in R : ~ (<<U, T>> \in StrictSubsetOrdering(S))
  <2>1. R \subseteq SUBSET S
    OBVIOUS
  <2> HIDE DEF R
  <2> QED BY <1>1, <1>2, <2>1, WFMin
<1>4. \A U \in SUBSET T : U # T => U \in Q
  <2> SUFFICES ASSUME NEW U \in SUBSET T, U # T, U \notin Q PROVE FALSE
    OBVIOUS
  <2>1. U \in R /\ <<U, T>> \in (SUBSET S) \X (SUBSET S)
    OBVIOUS
  <2>2. <<U, T>> \in StrictSubsetOrdering(S)
    BY <2>1 DEF StrictSubsetOrdering
  <2> QED BY <1>3, <2>1, <2>2
<1> QED BY <1>4

-----------------------------------------------------------------------------
(* The element the fold takes next, and the equation it solves.            *)
next_of(T) == CHOOSE x \in T : TRUE

Recurses(g, f, S) ==
    g = [T \in SUBSET S |->
           IF T = {} THEN 0 ELSE f[next_of(T)] + g[T \ {next_of(T)}]]

LEMMA SumSolves ==
  ASSUME NEW f, NEW S
  PROVE  SumFunctionOnSet(f, S) = (CHOOSE g : Recurses(g, f, S))[S]
BY DEF SumFunctionOnSet, FoldFunctionOnSet, MapThenFoldSet, Recurses, next_of

LEMMA NextOf == ASSUME NEW T, T # {} PROVE next_of(T) \in T
BY DEF next_of

LEMMA SolutionUnique ==
  ASSUME NEW f, NEW S, IsFiniteSet(S), NEW g, NEW h,
         Recurses(g, f, S), Recurses(h, f, S)
  PROVE  g = h
<1> DEFINE Q == {T \in SUBSET S : g[T] = h[T]}
<1>1. ASSUME NEW T \in SUBSET S, \A U \in SUBSET T : U # T => U \in Q
      PROVE  T \in Q
  <2>1. CASE T = {}
    BY <2>1 DEF Recurses
  <2>2. CASE T # {}
    <3>1. T \ {next_of(T)} \in Q
      BY <1>1, <2>2, NextOf
    <3> QED BY <2>2, <3>1 DEF Recurses
  <2> QED BY <2>1, <2>2
<1> HIDE DEF Q
<1>2. \A T \in SUBSET S : T \in Q
  BY <1>1, SubsetInduction
<1>3. \A T \in SUBSET S : g[T] = h[T]
  BY <1>2 DEF Q
<1>4. g = [T \in SUBSET S |-> g[T]] /\ h = [T \in SUBSET S |-> h[T]]
  BY DEF Recurses
<1> QED BY <1>3, <1>4

(* The fold unfolds: the equation has a solution on every finite set.      *)
LEMMA SumUnfolds ==
  ASSUME NEW f, NEW S, IsFiniteSet(S)
  PROVE  SumFunctionOnSet(f, S) =
           IF S = {} THEN 0
           ELSE f[next_of(S)] + SumFunctionOnSet(f, S \ {next_of(S)})
<1> DEFINE unfolded(T) ==
             IF T = {} THEN 0
             ELSE f[next_of(T)] + SumFunctionOnSet(f, T \ {next_of(T)})
           Q == {T \in SUBSET S : SumFunctionOnSet(f, T) = unfolded(T)}
<1>1. ASSUME NEW T \in SUBSET S, \A U \in SUBSET T : U # T => U \in Q
      PROVE  T \in Q
  <2> DEFINE h == [U \in SUBSET T |-> unfolded(U)]
  <2>1. \A U \in SUBSET T : U # {} =>
          h[U \ {next_of(U)}] = SumFunctionOnSet(f, U \ {next_of(U)})
    <3> SUFFICES ASSUME NEW U \in SUBSET T, U # {}
                 PROVE  h[U \ {next_of(U)}] =
                          SumFunctionOnSet(f, U \ {next_of(U)})
      OBVIOUS
    <3>1. U \ {next_of(U)} \in SUBSET T /\ U \ {next_of(U)} # T
      BY NextOf
    <3>2. U \ {next_of(U)} \in Q
      BY <1>1, <3>1
    <3> QED BY <3>1, <3>2
  <2>2. Recurses(h, f, T)
    BY <2>1 DEF Recurses
  <2>3. IsFiniteSet(T)
    BY FS_Subset
  <2> HIDE DEF h
  <2>4. (CHOOSE g : Recurses(g, f, T)) = h
    BY <2>2, <2>3, SolutionUnique
  <2>5. SumFunctionOnSet(f, T) = h[T]
    BY <2>4, SumSolves
  <2> QED BY <2>5 DEF h
<1> HIDE DEF Q
<1>2. S \in Q
  BY <1>1, SubsetInduction
<1> QED BY <1>2 DEF Q

-----------------------------------------------------------------------------
LEMMA SumOfNothing == ASSUME NEW f PROVE SumFunctionOnSet(f, {}) = 0
BY SumUnfolds, FS_EmptySet

(* Any element may be taken out first, not only the one the fold chooses.  *)
LEMMA SumTakeOut ==
  ASSUME NEW f, NEW S, IsFiniteSet(S), \A x \in S : f[x] \in Int, NEW e \in S
  PROVE  /\ SumFunctionOnSet(f, S) \in Int
         /\ SumFunctionOnSet(f, S \ {e}) \in Int
         /\ SumFunctionOnSet(f, S) = f[e] + SumFunctionOnSet(f, S \ {e})
<1> DEFINE Q == {T \in SUBSET S :
                   /\ SumFunctionOnSet(f, T) \in Int
                   /\ \A x \in T : SumFunctionOnSet(f, T) =
                                     f[x] + SumFunctionOnSet(f, T \ {x})}
<1>1. ASSUME NEW T \in SUBSET S, \A U \in SUBSET T : U # T => U \in Q
      PROVE  T \in Q
  <2>1. CASE T = {}
    BY <2>1, SumOfNothing
  <2>2. CASE T # {}
    <3> DEFINE c == next_of(T)
    <3>1. c \in T /\ T \ {c} \in Q /\ f[c] \in Int
      BY <1>1, <2>2, NextOf
    <3> HIDE DEF c
    <3>2. SumFunctionOnSet(f, T) = f[c] + SumFunctionOnSet(f, T \ {c})
      BY <2>2, SumUnfolds, FS_Subset DEF c
    <3>3. ASSUME NEW x \in T, x # c
          PROVE  SumFunctionOnSet(f, T) = f[x] + SumFunctionOnSet(f, T \ {x})
      <4>1. T \ {x} \in Q /\ T \ {x, c} \in Q /\ f[x] \in Int
        <5>1. T \ {x} # T /\ T \ {x, c} # T
          BY <3>3
        <5> QED BY <1>1, <5>1
      <4>2. (T \ {x}) \ {c} = T \ {x, c} /\ (T \ {c}) \ {x} = T \ {x, c}
        OBVIOUS
      <4>3. SumFunctionOnSet(f, T \ {c}) = f[x] + SumFunctionOnSet(f, T \ {x, c})
        BY <3>1, <3>3, <4>2
      <4>4. SumFunctionOnSet(f, T \ {x}) = f[c] + SumFunctionOnSet(f, T \ {x, c})
        BY <3>1, <3>3, <4>1, <4>2
      <4>5. SumFunctionOnSet(f, T \ {x, c}) \in Int
        BY <4>1
      <4> HIDE DEF Q
      <4> QED BY <3>1, <3>2, <4>1, <4>3, <4>4, <4>5
    <3>4. SumFunctionOnSet(f, T) \in Int
      BY <3>1, <3>2
    <3> QED BY <3>2, <3>3, <3>4
  <2> QED BY <2>1, <2>2
<1> HIDE DEF Q
<1>2. \A T \in SUBSET S : T \in Q
  BY <1>1, SubsetInduction
<1> QED BY <1>2 DEF Q

LEMMA SumType ==
  ASSUME NEW f, NEW S, IsFiniteSet(S), \A x \in S : f[x] \in Int
  PROVE  SumFunctionOnSet(f, S) \in Int
<1>1. CASE S = {}
  BY <1>1, SumOfNothing
<1>2. CASE S # {}
  <2>1. PICK e \in S : TRUE
    BY <1>2
  <2> QED BY <2>1, SumTakeOut
<1> QED BY <1>1, <1>2

(* The same, for every element at once.                                    *)
LEMMA SumTakeAny ==
  ASSUME NEW f, NEW S, IsFiniteSet(S), \A x \in S : f[x] \in Int
  PROVE  \A e \in S :
           /\ SumFunctionOnSet(f, S \ {e}) \in Int
           /\ SumFunctionOnSet(f, S) = f[e] + SumFunctionOnSet(f, S \ {e})
BY SumTakeOut

LEMMA SumAdd ==
  ASSUME NEW f, NEW S, IsFiniteSet(S), NEW e, e \notin S,
         \A x \in S \cup {e} : f[x] \in Int
  PROVE  /\ SumFunctionOnSet(f, S) \in Int
         /\ SumFunctionOnSet(f, S \cup {e}) = f[e] + SumFunctionOnSet(f, S)
<1>1. IsFiniteSet(S \cup {e}) /\ (S \cup {e}) \ {e} = S
  BY FS_AddElement
<1>2. /\ SumFunctionOnSet(f, (S \cup {e}) \ {e}) \in Int
      /\ SumFunctionOnSet(f, S \cup {e}) =
           f[e] + SumFunctionOnSet(f, (S \cup {e}) \ {e})
  <2> DEFINE T == S \cup {e}
  <2>1. IsFiniteSet(T) /\ e \in T /\ \A x \in T : f[x] \in Int
    BY <1>1
  <2> HIDE DEF T
  <2>2. /\ SumFunctionOnSet(f, T \ {e}) \in Int
        /\ SumFunctionOnSet(f, T) = f[e] + SumFunctionOnSet(f, T \ {e})
    BY <2>1, SumTakeOut
  <2> QED BY <2>2 DEF T
<1> QED BY <1>1, <1>2

(* The sum does not depend on the function outside the set.                *)
LEMMA SumAgrees ==
  ASSUME NEW f, NEW g, NEW S, IsFiniteSet(S), \A x \in S : f[x] = g[x]
  PROVE  SumFunctionOnSet(f, S) = SumFunctionOnSet(g, S)
<1> DEFINE Q == {T \in SUBSET S :
                   SumFunctionOnSet(f, T) = SumFunctionOnSet(g, T)}
<1>1. ASSUME NEW T \in SUBSET S, \A U \in SUBSET T : U # T => U \in Q
      PROVE  T \in Q
  <2>1. CASE T = {}
    BY <2>1, SumOfNothing
  <2>2. CASE T # {}
    <3>1. next_of(T) \in T /\ T \ {next_of(T)} \in Q
      BY <1>1, <2>2, NextOf
    <3> QED BY <2>2, <3>1, SumUnfolds, FS_Subset
  <2> QED BY <2>1, <2>2
<1> HIDE DEF Q
<1>2. S \in Q
  BY <1>1, SubsetInduction
<1> QED BY <1>2 DEF Q

LEMMA SumOfZeros ==
  ASSUME NEW f, NEW S, IsFiniteSet(S), \A x \in S : f[x] = 0
  PROVE  SumFunctionOnSet(f, S) = 0
<1> DEFINE Q == {T \in SUBSET S : SumFunctionOnSet(f, T) = 0}
<1>1. ASSUME NEW T \in SUBSET S, \A U \in SUBSET T : U # T => U \in Q
      PROVE  T \in Q
  <2>1. CASE T = {}
    BY <2>1, SumOfNothing
  <2>2. CASE T # {}
    <3>1. next_of(T) \in T /\ T \ {next_of(T)} \in Q
      BY <1>1, <2>2, NextOf
    <3> QED BY <2>2, <3>1, SumUnfolds, FS_Subset
  <2> QED BY <2>1, <2>2
<1> HIDE DEF Q
<1>2. S \in Q
  BY <1>1, SubsetInduction
<1> QED BY <1>2 DEF Q

(* Putting one element in the place of another.                            *)
LEMMA SumExchange ==
  ASSUME NEW f, NEW g, NEW S, IsFiniteSet(S), \A x \in S : f[x] \in Int
  PROVE  \A e \in S : \A b :
           b \notin S \ {e} /\ g[b] \in Int /\ (\A x \in S \ {e} : g[x] = f[x])
             => SumFunctionOnSet(g, (S \ {e}) \cup {b})
                  = SumFunctionOnSet(f, S) - f[e] + g[b]
<1> SUFFICES ASSUME NEW e \in S, NEW b,
                    b \notin S \ {e}, g[b] \in Int, \A x \in S \ {e} : g[x] = f[x]
             PROVE  SumFunctionOnSet(g, (S \ {e}) \cup {b})
                      = SumFunctionOnSet(f, S) - f[e] + g[b]
  OBVIOUS
<1> DEFINE rest == S \ {e}
<1>1. IsFiniteSet(rest) /\ b \notin rest /\ \A x \in rest : f[x] = g[x]
  BY FS_Subset
<1>2. /\ SumFunctionOnSet(f, rest) \in Int
      /\ SumFunctionOnSet(f, S) = f[e] + SumFunctionOnSet(f, rest)
  <2>1. /\ SumFunctionOnSet(f, S \ {e}) \in Int
        /\ SumFunctionOnSet(f, S) = f[e] + SumFunctionOnSet(f, S \ {e})
    BY SumTakeAny
  <2> QED BY <2>1
<1>3. \A x \in rest \cup {b} : g[x] \in Int
  OBVIOUS
<1> HIDE DEF rest
<1>4. SumFunctionOnSet(g, rest) = SumFunctionOnSet(f, rest)
  BY <1>1, SumAgrees
<1>5. SumFunctionOnSet(g, rest \cup {b}) = g[b] + SumFunctionOnSet(g, rest)
  BY <1>1, <1>3, SumAdd
<1>6. SumFunctionOnSet(g, rest \cup {b})
        = SumFunctionOnSet(f, S) - f[e] + g[b]
  BY <1>2, <1>4, <1>5
<1> QED BY <1>6 DEF rest
=============================================================================
