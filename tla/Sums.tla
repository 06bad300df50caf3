-------------------------------- MODULE Sums --------------------------------
(***************************************************************************)
(* Lemmas about sums: SumFunction of the community module Functions is a   *)
(* recursive function on the subsets of its domain.  That it is one, and   *)
(* that the order of the summands does not matter, is proved by taking a   *)
(* smallest set for which it fails.                                        *)
(***************************************************************************)
EXTENDS Integers, FiniteSets, Functions, FiniteSetTheorems, TLAPS

(* Among finite sets there is one that has none of the others in it.       *)
LEMMA SmallestSet ==
  ASSUME NEW S, NEW F, F \subseteq FiniteSubsetsOf(S), F # {}
  PROVE  \E A \in F : \A B \in F : B \subseteq A => B = A
<1>1. IsWellFoundedOn(StrictSubsetOrdering(S), FiniteSubsetsOf(S))
  BY FS_StrictSubsetOrderingWellFounded
<1>2. PICK A \in F : \A B \in F : ~ (<<B, A>> \in StrictSubsetOrdering(S))
  BY <1>1, WFMin
<1> QED
  BY <1>2 DEF StrictSubsetOrdering, FiniteSubsetsOf

(* Among natural numbers there is a smallest one.                          *)
LEMMA SmallestNumber ==
  ASSUME NEW F, F \subseteq Nat, F # {}
  PROVE  \E m \in F : \A k \in F : m <= k
<1> DEFINE G == {0 .. k : k \in F}
<1>1. G \subseteq FiniteSubsetsOf(Nat) /\ G # {}
  <2>1. \A k \in F : IsFiniteSet(0 .. k) /\ 0 .. k \subseteq Nat
    BY FS_Interval
  <2> QED
    BY <2>1 DEF FiniteSubsetsOf
<1>2. PICK A \in G : \A B \in G : B \subseteq A => B = A
  <2> HIDE DEF G
  <2> QED BY <1>1, SmallestSet
<1>3. PICK m \in F : A = 0 .. m
  OBVIOUS
<1>4. ASSUME NEW k \in F, ~(m <= k) PROVE FALSE
  <2>1. 0 .. k \in G /\ 0 .. k \subseteq 0 .. m /\ m \notin 0 .. k /\ m \in 0 .. m
    BY <1>4
  <2> HIDE DEF G
  <2> QED BY <1>2, <1>3, <2>1
<1> QED
  BY <1>4

-----------------------------------------------------------------------------
(* The recursion of SumFunctionOnSet: g is the sum of all subsets of A.    *)
OneOf(s) == CHOOSE x \in s : TRUE

Summed(fun, g, s) == IF s = {} THEN 0 ELSE fun[OneOf(s)] + g[s \ {OneOf(s)}]

Sums(fun, A, g) == g = [s \in SUBSET A |-> Summed(fun, g, s)]

SumOf(fun, A) == CHOOSE g : Sums(fun, A, g)

(* The operator of the library is this function, at the whole set.         *)
LEMMA SumFunctionIsSumOf ==
  ASSUME NEW fun, NEW S
  PROVE  SumFunctionOnSet(fun, S) = SumOf(fun, S)[S]
BY Zenon DEF SumFunctionOnSet, FoldFunctionOnSet, MapThenFoldSet, SumOf, Sums, Summed,
       OneOf

(* The element the recursion takes is one of the set.                      *)
LEMMA AnyInSet ==
  ASSUME NEW s, s # {}
  PROVE  OneOf(s) \in s
BY DEF OneOf

(* Two such functions agree where both are defined.                        *)
LEMMA SumsAgree ==
  ASSUME NEW fun, NEW A, IsFiniteSet(A), NEW B \in SUBSET A,
         NEW g, Sums(fun, A, g), NEW h, Sums(fun, B, h)
  PROVE  \A s \in SUBSET B : g[s] = h[s]
<1> DEFINE F == {s \in SUBSET B : g[s] # h[s]}
<1> SUFFICES ASSUME F # {} PROVE FALSE
  OBVIOUS
<1>1. F \subseteq FiniteSubsetsOf(A)
  BY FS_Subset DEF FiniteSubsetsOf
<1>2. PICK s \in F : \A t \in F : t \subseteq s => t = s
  <2> HIDE DEF F
  <2> QED BY <1>1, SmallestSet
<1>3. g[s] = Summed(fun, g, s) /\ h[s] = Summed(fun, h, s)
  BY DEF Sums
<1>4. s # {}
  BY <1>3 DEF Summed
<1>5. OneOf(s) \in s
  BY <1>4, AnyInSet
<1>6. s \ {OneOf(s)} \in SUBSET B /\ s \ {OneOf(s)} \notin F
  BY <1>2, <1>5
<1>7. g[s \ {OneOf(s)}] = h[s \ {OneOf(s)}]
  BY <1>6
<1> QED
  BY <1>3, <1>4, <1>7 DEF Summed

(* For every finite set there is one.                                      *)
LEMMA SumsExist ==
  ASSUME NEW fun, NEW A, IsFiniteSet(A)
  PROVE  Sums(fun, A, SumOf(fun, A))
<1> DEFINE F == {s \in SUBSET A : ~ \E g : Sums(fun, s, g)}
<1> SUFFICES F = {}
  BY DEF SumOf
<1> SUFFICES ASSUME F # {} PROVE FALSE
  OBVIOUS
<1>1. F \subseteq FiniteSubsetsOf(A)
  BY FS_Subset DEF FiniteSubsetsOf
<1>2. PICK S \in F : \A t \in F : t \subseteq S => t = S
  <2> HIDE DEF F
  <2> QED BY <1>1, SmallestSet
<1> DEFINE h == [s \in SUBSET S |->
                   IF s = {} THEN 0
                   ELSE fun[OneOf(s)] + SumOf(fun, s \ {OneOf(s)})[s \ {OneOf(s)}]]
<1>3. \A t \in SUBSET S : t # S => Sums(fun, t, SumOf(fun, t))
  <2> TAKE t \in SUBSET S
  <2> HAVE t # S
  <2>1. t \notin F /\ t \in SUBSET A
    BY <1>2
  <2> QED BY <2>1 DEF SumOf
<1>4. \A t \in SUBSET S : t # S => h[t] = SumOf(fun, t)[t]
  <2> TAKE t \in SUBSET S
  <2> HAVE t # S
  <2>1. SumOf(fun, t)[t] = Summed(fun, SumOf(fun, t), t)
    BY <1>3 DEF Sums
  <2>2. CASE t = {}
    BY <2>1, <2>2 DEF Summed
  <2>3. CASE t # {}
    <3> DEFINE u == t \ {OneOf(t)}
    <3>1. OneOf(t) \in t
      BY <2>3, AnyInSet
    <3>2. u \in SUBSET t /\ u \in SUBSET S /\ u # S
      BY <3>1
    <3>3. IsFiniteSet(t)
      BY <1>1, FS_Subset
    <3>4. Sums(fun, t, SumOf(fun, t)) /\ Sums(fun, u, SumOf(fun, u))
      BY <1>3, <3>2
    <3>5. SumOf(fun, t)[u] = SumOf(fun, u)[u]
      <4> HIDE DEF u
      <4> QED BY <3>2, <3>3, <3>4, SumsAgree
    <3> QED BY <2>1, <2>3, <3>5 DEF Summed
  <2> QED BY <2>2, <2>3
<1>5. \A s \in SUBSET S : h[s] = Summed(fun, h, s)
  <2> TAKE s \in SUBSET S
  <2>1. CASE s = {}
    BY <2>1 DEF Summed
  <2>2. CASE s # {}
    <3>1. s \ {OneOf(s)} \in SUBSET S /\ s \ {OneOf(s)} # S
      BY <2>2, AnyInSet
    <3>2. h[s \ {OneOf(s)}] = SumOf(fun, s \ {OneOf(s)})[s \ {OneOf(s)}]
      BY <3>1, <1>4
    <3> QED BY <2>2, <3>2 DEF Summed
  <2> QED BY <2>1, <2>2
<1>6. Sums(fun, S, h)
  BY <1>5 DEF Sums
<1> QED
  BY <1>2, <1>6

-----------------------------------------------------------------------------
(* What follows from it: how SumFunctionOnSet is computed.                 *)
LEMMA SumOfEmpty ==
  ASSUME NEW fun
  PROVE  SumFunctionOnSet(fun, {}) = 0
<1>1. Sums(fun, {}, SumOf(fun, {}))
  BY SumsExist, FS_EmptySet
<1>2. SumOf(fun, {})[{}] = 0
  BY <1>1 DEF Sums, Summed
<1> QED
  BY <1>2, SumFunctionIsSumOf

(* One turn of the recursion.                                              *)
LEMMA SumTakesAny ==
  ASSUME NEW fun, NEW A, IsFiniteSet(A), A # {}
  PROVE  SumFunctionOnSet(fun, A)
           = fun[OneOf(A)] + SumFunctionOnSet(fun, A \ {OneOf(A)})
<1> DEFINE B == A \ {OneOf(A)}
<1>1. B \in SUBSET A /\ IsFiniteSet(B)
  BY FS_Subset
<1>2. Sums(fun, A, SumOf(fun, A)) /\ Sums(fun, B, SumOf(fun, B))
  BY <1>1, SumsExist
<1>3. SumOf(fun, A)[A] = fun[OneOf(A)] + SumOf(fun, A)[B]
  BY <1>2 DEF Sums, Summed
<1>4. SumOf(fun, A)[B] = SumOf(fun, B)[B]
  <2> HIDE DEF B
  <2> QED
    BY <1>1, <1>2, SumsAgree
<1> QED
  BY <1>3, <1>4, SumFunctionIsSumOf

(* A set of numbers that is closed under addition holds its sums.          *)
LEMMA SumClosed ==
  ASSUME NEW T, 0 \in T, \A x, y \in T : x + y \in T,
         NEW A, IsFiniteSet(A), NEW fun, \A x \in A : fun[x] \in T
  PROVE  SumFunctionOnSet(fun, A) \in T
<1> DEFINE F == {s \in SUBSET A : SumFunctionOnSet(fun, s) \notin T}
<1> SUFFICES ASSUME F # {} PROVE FALSE
  OBVIOUS
<1>1. F \subseteq FiniteSubsetsOf(A)
  BY FS_Subset DEF FiniteSubsetsOf
<1>2. PICK S \in F : \A t \in F : t \subseteq S => t = S
  <2> HIDE DEF F
  <2> QED BY <1>1, SmallestSet
<1>3. S # {}
  BY SumOfEmpty
<1>4. OneOf(S) \in S
  BY <1>3, AnyInSet
<1>5. S \ {OneOf(S)} \in SUBSET A /\ S \ {OneOf(S)} \notin F
  BY <1>2, <1>4
<1>6. SumFunctionOnSet(fun, S)
        = fun[OneOf(S)] + SumFunctionOnSet(fun, S \ {OneOf(S)})
  BY <1>1, <1>3, SumTakesAny DEF FiniteSubsetsOf
<1> QED
  BY <1>4, <1>5, <1>6

(* Integers add up to an integer,                                          *)
LEMMA SumType ==
  ASSUME NEW A, IsFiniteSet(A), NEW fun, \A x \in A : fun[x] \in Int
  PROVE  SumFunctionOnSet(fun, A) \in Int
<1>1. 0 \in Int /\ \A x, y \in Int : x + y \in Int
  OBVIOUS
<1> QED
  BY <1>1, SumClosed

(* natural numbers to a natural number.                                    *)
LEMMA SumNat ==
  ASSUME NEW A, IsFiniteSet(A), NEW fun, \A x \in A : fun[x] \in Nat
  PROVE  SumFunctionOnSet(fun, A) \in Nat
<1>1. 0 \in Nat /\ \A x, y \in Nat : x + y \in Nat
  OBVIOUS
<1> QED
  BY <1>1, SumClosed

(* OneOf element may be taken out first.                                     *)
LEMMA SumTakes ==
  ASSUME NEW A, IsFiniteSet(A), NEW fun, \A x \in A : fun[x] \in Int,
         NEW e \in A
  PROVE  SumFunctionOnSet(fun, A) = fun[e] + SumFunctionOnSet(fun, A \ {e})
<1> DEFINE Sum(s) == SumFunctionOnSet(fun, s)
           F == {s \in SUBSET A : \E x \in s : Sum(s) # fun[x] + Sum(s \ {x})}
<1> SUFFICES ASSUME F # {} PROVE FALSE
  OBVIOUS
<1>1. F \subseteq FiniteSubsetsOf(A)
  BY FS_Subset DEF FiniteSubsetsOf
<1>2. PICK S \in F : \A t \in F : t \subseteq S => t = S
  <2> HIDE DEF F
  <2> QED BY <1>1, SmallestSet
<1>3. PICK x \in S : Sum(S) # fun[x] + Sum(S \ {x})
  OBVIOUS
<1> DEFINE y == OneOf(S)
<1>4. y \in S
  BY AnyInSet
<1>5. Sum(S) = fun[y] + Sum(S \ {y})
  BY <1>1, SumTakesAny DEF FiniteSubsetsOf
<1>6. x # y
  BY <1>3, <1>5
<1>7. (S \ {y}) \ {x} = (S \ {x}) \ {y}
  OBVIOUS
<1>8. S \ {x} \notin F /\ S \ {y} \notin F
  BY <1>2, <1>4
<1>9. Sum(S \ {y}) = fun[x] + Sum((S \ {y}) \ {x})
  BY <1>6, <1>8
<1>10. Sum(S \ {x}) = fun[y] + Sum((S \ {y}) \ {x})
  <2>1. Sum(S \ {x}) = fun[y] + Sum((S \ {x}) \ {y})
    BY <1>4, <1>6, <1>8
  <2> QED BY <2>1, <1>7
<1>11. fun[x] \in Int /\ fun[y] \in Int /\ Sum((S \ {y}) \ {x}) \in Int
  <2>1. fun[x] \in Int /\ fun[y] \in Int
    BY <1>4
  <2>2. IsFiniteSet((S \ {y}) \ {x})
    BY FS_Subset
  <2> QED BY <2>1, <2>2, SumType
<1> HIDE DEF Sum, F, y
<1> QED
  BY <1>3, <1>5, <1>9, <1>10, <1>11

(* Only the summands matter.                                               *)
LEMMA SumCongruence ==
  ASSUME NEW A, IsFiniteSet(A), NEW f, NEW g, \A x \in A : f[x] = g[x]
  PROVE  SumFunctionOnSet(f, A) = SumFunctionOnSet(g, A)
<1> DEFINE F == {s \in SUBSET A :
                   SumFunctionOnSet(f, s) # SumFunctionOnSet(g, s)}
<1> SUFFICES ASSUME F # {} PROVE FALSE
  OBVIOUS
<1>1. F \subseteq FiniteSubsetsOf(A)
  BY FS_Subset DEF FiniteSubsetsOf
<1>2. PICK S \in F : \A t \in F : t \subseteq S => t = S
  <2> HIDE DEF F
  <2> QED BY <1>1, SmallestSet
<1>3. S # {}
  BY SumOfEmpty
<1>4. OneOf(S) \in S
  BY <1>3, AnyInSet
<1>5. S \ {OneOf(S)} \in SUBSET A /\ S \ {OneOf(S)} \notin F
  BY <1>2, <1>4
<1>6. IsFiniteSet(S)
  BY <1>1 DEF FiniteSubsetsOf
<1>7. /\ SumFunctionOnSet(f, S)
           = f[OneOf(S)] + SumFunctionOnSet(f, S \ {OneOf(S)})
      /\ SumFunctionOnSet(g, S)
           = g[OneOf(S)] + SumFunctionOnSet(g, S \ {OneOf(S)})
  BY <1>3, <1>6, SumTakesAny
<1> QED
  BY <1>2, <1>4, <1>5, <1>7

-----------------------------------------------------------------------------
(* One summand changes.                                                    *)
LEMMA SumChanges ==
  ASSUME NEW A, IsFiniteSet(A), NEW e \in A,
         NEW f, \A x \in A : f[x] \in Int,
         NEW g, g[e] \in Int, \A x \in A \ {e} : g[x] = f[x]
  PROVE  SumFunctionOnSet(g, A) = SumFunctionOnSet(f, A) - f[e] + g[e]
<1>1. \A x \in A : g[x] \in Int
  OBVIOUS
<1>2. IsFiniteSet(A \ {e})
  BY FS_Subset
<1>3. SumFunctionOnSet(g, A \ {e}) = SumFunctionOnSet(f, A \ {e})
  BY <1>2, SumCongruence
<1>4. SumFunctionOnSet(f, A \ {e}) \in Int
  BY <1>2, SumType
<1>5. /\ SumFunctionOnSet(f, A) = f[e] + SumFunctionOnSet(f, A \ {e})
      /\ SumFunctionOnSet(g, A) = g[e] + SumFunctionOnSet(g, A \ {e})
  BY <1>1, SumTakes
<1> QED
  BY <1>3, <1>4, <1>5

(* Sums over 1 .. n: the last summand, and two sequences of them.          *)
LEMMA SumLast ==
  ASSUME NEW n \in Nat, NEW f, \A i \in 1 .. n + 1 : f[i] \in Int
  PROVE  SumFunctionOnSet(f, 1 .. n + 1)
           = SumFunctionOnSet(f, 1 .. n) + f[n + 1]
<1>1. /\ IsFiniteSet(1 .. n + 1) /\ IsFiniteSet(1 .. n)
      /\ n + 1 \in 1 .. n + 1 /\ (1 .. n + 1) \ {n + 1} = 1 .. n
  BY FS_Interval
<1>2. SumFunctionOnSet(f, 1 .. n) \in Int
  BY <1>1, SumType
<1> QED
  BY <1>1, <1>2, SumTakes

Joins(h, f, m, g, n) ==
  /\ m \in Nat /\ n \in Nat
  /\ \A i \in 1 .. m : f[i] \in Int /\ h[i] = f[i]
  /\ \A j \in 1 .. n : g[j] \in Int /\ h[m + j] = g[j]

(* A sum over two stretches joined is that of their sums.                  *)
LEMMA SumConcat ==
  ASSUME NEW h, NEW f, NEW m, NEW g, NEW n, Joins(h, f, m, g, n)
  PROVE  SumFunctionOnSet(h, 1 .. m + n)
           = SumFunctionOnSet(f, 1 .. m) + SumFunctionOnSet(g, 1 .. n)
<1> USE DEF Joins
<1> DEFINE F == {j \in 0 .. n : SumFunctionOnSet(h, 1 .. m + j) #
                   SumFunctionOnSet(f, 1 .. m) + SumFunctionOnSet(g, 1 .. j)}
<1> SUFFICES ASSUME F # {} PROVE FALSE
  OBVIOUS
<1>1. PICK j \in F : \A i \in F : j <= i
  <2>1. F \subseteq Nat
    OBVIOUS
  <2> HIDE DEF F
  <2> QED
    BY <2>1, SmallestNumber
<1>2. j \in Nat /\ j <= n /\ SumFunctionOnSet(f, 1 .. m) \in Int
  <2>1. j \in 0 .. n
    OBVIOUS
  <2>2. IsFiniteSet(1 .. m)
    BY FS_Interval
  <2>3. SumFunctionOnSet(f, 1 .. m) \in Int
    BY <2>2, SumType
  <2> HIDE DEF F
  <2> QED
    BY <2>1, <2>3
<1>3. \A i \in 1 .. m + n : h[i] \in Int
  <2> TAKE i \in 1 .. m + n
  <2>1. i \in 1 .. m \/ (i - m \in 1 .. n /\ i = m + (i - m))
    OBVIOUS
  <2> QED
    BY <2>1
<1>4. CASE j = 0
  <2>1. SumFunctionOnSet(h, 1 .. m + j) = SumFunctionOnSet(f, 1 .. m)
    <3>1. IsFiniteSet(1 .. m)
      BY FS_Interval
    <3>2. SumFunctionOnSet(h, 1 .. m) = SumFunctionOnSet(f, 1 .. m)
      BY <3>1, SumCongruence
    <3>3. 1 .. m + j = 1 .. m
      BY <1>4
    <3> QED
      BY <3>2, <3>3
  <2>2. SumFunctionOnSet(g, 1 .. j) = 0
    <3>1. 1 .. j = {}
      BY <1>4
    <3> QED
      BY <3>1, SumOfEmpty
  <2> QED
    BY <1>2, <2>1, <2>2
<1>5. CASE j # 0
  <2> DEFINE i == j - 1
  <2>1. i \in Nat /\ i + 1 = j /\ m + i \in Nat /\ (m + i) + 1 = m + j
        /\ i \in 0 .. n /\ i \notin F
    BY <1>1, <1>2, <1>5
  <2> HIDE DEF i
  <2>2. SumFunctionOnSet(h, 1 .. m + j)
          = SumFunctionOnSet(h, 1 .. m + i) + h[m + j]
    <3>1. \A x \in 1 .. (m + i) + 1 : h[x] \in Int
      BY <1>3, <2>1
    <3> QED
      BY <2>1, <3>1, SumLast
  <2>3. SumFunctionOnSet(g, 1 .. j) = SumFunctionOnSet(g, 1 .. i) + g[j]
    <3>1. \A x \in 1 .. i + 1 : g[x] \in Int
      BY <2>1
    <3> QED
      BY <2>1, <3>1, SumLast
  <2>4. SumFunctionOnSet(h, 1 .. m + i)
          = SumFunctionOnSet(f, 1 .. m) + SumFunctionOnSet(g, 1 .. i)
    BY <2>1
  <2>5. SumFunctionOnSet(g, 1 .. i) \in Int
    <3>1. IsFiniteSet(1 .. i) /\ \A x \in 1 .. i : g[x] \in Int
      BY <2>1, FS_Interval
    <3> QED
      BY <3>1, SumType
  <2>6. h[m + j] = g[j] /\ g[j] \in Int
    BY <1>1, <1>5
  <2>7. SumFunctionOnSet(h, 1 .. m + j)
          = SumFunctionOnSet(f, 1 .. m) + SumFunctionOnSet(g, 1 .. j)
    BY <1>2, <2>2, <2>3, <2>4, <2>5, <2>6
  <2> QED
    BY <1>1, <2>7
<1> QED
  BY <1>4, <1>5
=============================================================================
