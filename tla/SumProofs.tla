------------------------------ MODULE SumProofs ------------------------------
(***************************************************************************)
(* What the sum of a function over a finite set is: the community modules  *)
(* define it by taking the elements in an order nobody knows.  And what    *)
(* the least, the greatest, a product and a quotient of numbers are.       *)
(***************************************************************************)
EXTENDS FiniteSetsExt, TLAPS, FiniteSetTheorems, WellFoundedInduction

\* A set of naturals has a least element.
LEMMA LeastNat ==
  ASSUME NEW S, S \subseteq Nat, S # {}
  PROVE  \E m \in S : \A n \in S : m <= n
<1>1. PICK x \in S : \A y \in S : ~(<<y, x>> \in OpToRel(<, Nat))
  BY NatLessThanWellFounded, WFMin
<1>2. ASSUME NEW y \in S PROVE x <= y
  <2>1. x \in Nat /\ y \in Nat /\ <<y, x>> \in Nat \X Nat
    OBVIOUS
  <2>2. ~(y < x)
    BY <1>1, <2>1 DEF OpToRel
  <2>3. QED
    BY <2>1, <2>2
<1>3. QED
  BY <1>2

\* Induction on the naturals, the property being a set of them.
LEMMA CountingUp ==
  ASSUME NEW Good, 0 \in Good, \A n \in Nat : n \in Good => n + 1 \in Good
  PROVE  Nat \subseteq Good
<1> DEFINE Bad == {n \in Nat : n \notin Good}
<1>1. SUFFICES ASSUME Bad # {} PROVE FALSE
  OBVIOUS
<1>2. PICK n \in Bad : \A m \in Bad : n <= m
  <2>1. Bad \subseteq Nat
    OBVIOUS
  <2> HIDE DEF Bad
  <2>2. QED
    BY <1>1, <2>1, LeastNat
<1>3. n \in Nat /\ n # 0 /\ n - 1 \in Nat /\ (n - 1) + 1 = n
  BY <1>2
<1>4. n - 1 \in Good
  <2>1. ~ (n <= n - 1)
    BY <1>3
  <2>2. QED
    BY <1>2, <1>3, <2>1
<1>5. QED
  BY <1>2, <1>3, <1>4

(***************************************************************************)
(* Induction on finite sets, the property being a set of sets.             *)
(***************************************************************************)
LEMMA FiniteInduction ==
  ASSUME NEW S, IsFiniteSet(S), NEW Good, {} \in Good,
         \A T \in SUBSET S, x \in S :
           T \in Good /\ x \notin T => T \cup {x} \in Good
  PROVE  S \in Good
<1> DEFINE Bad == {n \in Nat : \E T \in SUBSET S :
                                 T \notin Good /\ Cardinality(T) = n}
<1>1. \A T \in SUBSET S : IsFiniteSet(T) /\ Cardinality(T) \in Nat
  BY FS_Subset, FS_CardinalityType
<1>2. SUFFICES ASSUME S \notin Good PROVE FALSE
  OBVIOUS
<1>3. Bad # {} /\ Bad \subseteq Nat
  BY <1>1, <1>2
<1>4. PICK n \in Bad : \A m \in Bad : n <= m
  <2> HIDE DEF Bad
  <2>1. QED
    BY <1>3, LeastNat
<1>5. PICK T \in SUBSET S : T \notin Good /\ Cardinality(T) = n
  OBVIOUS
<1>6. PICK x \in T : TRUE
  BY <1>5
<1> DEFINE R == T \ {x}
<1>7. /\ R \in SUBSET S /\ x \in S /\ x \notin R /\ R \cup {x} = T
      /\ Cardinality(R) = n - 1 /\ Cardinality(R) \in Nat /\ n \in Nat
  BY <1>1, <1>5, <1>6, FS_RemoveElement
<1> HIDE DEF R
<1>8. R \notin Good
  BY <1>5, <1>7
<1>9. n - 1 \in Bad
  BY <1>7, <1>8
<1>10. ~ (n <= n - 1)
  BY <1>7
<1>11. QED
  BY <1>4, <1>9, <1>10

(***************************************************************************)
(* The recursive function behind the sum.                                  *)
(***************************************************************************)
Picked(s) == CHOOSE x \in s : TRUE
Step(g, h, s) == IF s = {} THEN 0 ELSE g[Picked(s)] + h[s \ {Picked(s)}]

\* h adds g up, over the subsets given.
Adds(g, h, Sets) == h = [s \in Sets |-> Step(g, h, s)]
AddsUp(g, h, S) == Adds(g, h, SUBSET S)

LEMMA SumDef ==
  ASSUME NEW g, NEW S
  PROVE  SumFunctionOnSet(g, S) = (CHOOSE h : AddsUp(g, h, S))[S]
BY DEF AddsUp, SumFunctionOnSet, FoldFunctionOnSet, MapThenFoldSet, Adds, Step, Picked

LEMMA AddsExists ==
  ASSUME NEW g, NEW S, IsFiniteSet(S)
  PROVE  \E h : AddsUp(g, h, S)
<1> DEFINE UpTo(k) == {s \in SUBSET S : Cardinality(s) <= k}
           Bad == {k \in Nat : ~ \E h : Adds(g, h, UpTo(k))}
<1>1. \A T \in SUBSET S : IsFiniteSet(T) /\ Cardinality(T) \in Nat
  BY FS_Subset, FS_CardinalityType
<1>2. \A T \in SUBSET S : Cardinality(T) <= Cardinality(S)
  BY FS_Subset
<1>3. UpTo(Cardinality(S)) = SUBSET S
  BY <1>2
<1>4. 0 \notin Bad
  <2>1. UpTo(0) = {{}}
    BY <1>1, FS_EmptySet
  <2>2. Adds(g, [s \in {{}} |-> 0], {{}})
    BY DEF Adds, Step
  <2>3. QED
    BY <2>1, <2>2
<1>5. ASSUME NEW k \in Nat, k \notin Bad PROVE k + 1 \notin Bad
  <2>1. PICK h : Adds(g, h, UpTo(k))
    BY <1>5
  <2> DEFINE e == [s \in UpTo(k + 1) |-> Step(g, h, s)]
  <2>2. UpTo(k) \subseteq UpTo(k + 1)
    BY <1>1
  <2>3. \A s \in UpTo(k) : e[s] = h[s]
    BY <2>1, <2>2 DEF Adds
  <2>4. ASSUME NEW s \in UpTo(k + 1), s # {}
        PROVE  s \ {Picked(s)} \in UpTo(k)
    <3>1. Picked(s) \in s
      BY <2>4 DEF Picked
    <3>2. Cardinality(s \ {Picked(s)}) = Cardinality(s) - 1
      BY <1>1, <3>1, FS_RemoveElement
    <3>3. QED
      BY <1>1, <3>2
  <2>5. e = [s \in UpTo(k + 1) |-> Step(g, h, s)]
    OBVIOUS
  <2> HIDE DEF e, UpTo
  <2>6. \A s \in UpTo(k + 1) : Step(g, e, s) = Step(g, h, s)
    BY <2>3, <2>4 DEF Step
  <2>7. Adds(g, e, UpTo(k + 1))
    BY <2>5, <2>6 DEF Adds
  <2>8. QED
    BY <2>7
<1>6. Bad = {}
  <2>1. SUFFICES ASSUME Bad # {} PROVE FALSE
    OBVIOUS
  <2> HIDE DEF Bad
  <2>2. Bad \subseteq Nat
    BY DEF Bad
  <2>3. PICK n \in Bad : \A m \in Bad : n <= m
    BY <2>1, <2>2, LeastNat
  <2>4. n \in Nat /\ n # 0 /\ n - 1 \in Nat /\ (n - 1) + 1 = n
    BY <1>4, <2>2, <2>3
  <2>5. n - 1 \notin Bad
    <3>1. ~ (n <= n - 1)
      BY <2>4
    <3>2. QED
      BY <2>3, <3>1
  <2>6. QED
    BY <1>5, <2>3, <2>4, <2>5
<1>7. \E h : Adds(g, h, UpTo(Cardinality(S)))
  BY <1>1, <1>6
<1>8. QED
  BY <1>3, <1>7 DEF AddsUp

LEMMA AddsAgree ==
  ASSUME NEW g, NEW S, IsFiniteSet(S), NEW T, IsFiniteSet(T), T \subseteq S,
         NEW h, AddsUp(g, h, S), NEW e, AddsUp(g, e, T)
  PROVE  h[T] = e[T]
<1> DEFINE Bad == {n \in Nat : \E s \in SUBSET T :
                                 h[s] # e[s] /\ Cardinality(s) = n}
<1>1. \A s \in SUBSET T : IsFiniteSet(s) /\ Cardinality(s) \in Nat
  BY FS_Subset, FS_CardinalityType
<1>2. \A s \in SUBSET T : h[s] = Step(g, h, s) /\ e[s] = Step(g, e, s)
  BY DEF Adds, AddsUp
<1>3. SUFFICES ASSUME h[T] # e[T] PROVE FALSE
  OBVIOUS
<1>4. Bad # {} /\ Bad \subseteq Nat
  BY <1>1, <1>3
<1>5. PICK n \in Bad : \A m \in Bad : n <= m
  <2> HIDE DEF Bad
  <2>1. QED
    BY <1>4, LeastNat
<1>6. PICK s \in SUBSET T : h[s] # e[s] /\ Cardinality(s) = n
  BY <1>5
<1>7. s # {}
  BY <1>2, <1>6 DEF Step
<1> DEFINE r == s \ {Picked(s)}
<1>8. /\ r \in SUBSET T /\ Cardinality(r) = n - 1
      /\ Cardinality(r) \in Nat /\ n \in Nat
  <2>1. Picked(s) \in s
    BY <1>7 DEF Picked
  <2>2. QED
    BY <1>1, <1>6, <2>1, FS_RemoveElement
<1>9. h[r] # e[r]
  BY <1>2, <1>6, <1>7 DEF Step
<1> HIDE DEF r
<1>10. n - 1 \in Bad
  BY <1>8, <1>9
<1>11. ~ (n <= n - 1)
  BY <1>8
<1>12. QED
  BY <1>5, <1>10, <1>11

(***************************************************************************)
(* The facts about sums the proofs use.                                    *)
(***************************************************************************)
LEMMA SumUnrolled ==
  ASSUME NEW g, NEW S, IsFiniteSet(S)
  PROVE  SumFunctionOnSet(g, S) =
           IF S = {} THEN 0
           ELSE g[Picked(S)] + SumFunctionOnSet(g, S \ {Picked(S)})
<1> DEFINE R == S \ {Picked(S)}
           h == CHOOSE f : AddsUp(g, f, S)
           e == CHOOSE f : AddsUp(g, f, R)
<1>1. SumFunctionOnSet(g, S) = h[S] /\ SumFunctionOnSet(g, R) = e[R]
  BY SumDef
<1>2. IsFiniteSet(R) /\ R \subseteq S
  BY FS_Subset
<1> HIDE DEF R
<1>3. AddsUp(g, h, S) /\ AddsUp(g, e, R)
  BY <1>2, AddsExists
<1> HIDE DEF h, e
<1>4. h[R] = e[R]
  BY <1>2, <1>3, AddsAgree
<1>5. h[S] = Step(g, h, S)
  BY <1>3 DEF Adds, AddsUp
<1>6. QED
  BY <1>1, <1>4, <1>5 DEF Step, R

LEMMA SumEmpty ==
  ASSUME NEW g
  PROVE  SumFunctionOnSet(g, {}) = 0
BY SumUnrolled, FS_EmptySet

\* Any element may be taken first.
LEMMA SumTake ==
  ASSUME NEW g, NEW S, IsFiniteSet(S), \A y \in S : g[y] \in Int
  PROVE  /\ SumFunctionOnSet(g, S) \in Int
         /\ \A y \in S : SumFunctionOnSet(g, S)
                           = g[y] + SumFunctionOnSet(g, S \ {y})
<1> DEFINE Sum(T) == SumFunctionOnSet(g, T)
           Any(T) == /\ Sum(T) \in Int
                     /\ \A y \in T : Sum(T) = g[y] + Sum(T \ {y})
           Bad == {n \in Nat : \E T \in SUBSET S :
                                 ~Any(T) /\ Cardinality(T) = n}
<1>1. \A T \in SUBSET S : IsFiniteSet(T) /\ Cardinality(T) \in Nat
  BY FS_Subset, FS_CardinalityType
<1>2. ASSUME NEW T \in SUBSET S
      PROVE  Sum(T) = IF T = {} THEN 0
                      ELSE g[Picked(T)] + Sum(T \ {Picked(T)})
  BY <1>1, SumUnrolled
<1> HIDE DEF Sum
<1>3. SUFFICES ASSUME ~Any(S) PROVE FALSE
  BY DEF Sum
<1>4. Bad # {} /\ Bad \subseteq Nat
  BY <1>1, <1>3
<1>5. PICK n \in Bad : \A m \in Bad : n <= m
  <2> HIDE DEF Bad
  <2>1. QED
    BY <1>4, LeastNat
<1>6. PICK T \in SUBSET S : ~Any(T) /\ Cardinality(T) = n
  BY <1>5
<1> DEFINE c == Picked(T)
<1>7. T # {}
  <2>1. T = {} => Sum(T) = 0
    BY <1>2
  <2>2. QED
    BY <1>6, <2>1
<1>8. c \in T /\ Sum(T) = g[c] + Sum(T \ {c})
  BY <1>2, <1>7 DEF Picked
<1> HIDE DEF c
<1>9. ASSUME NEW y \in T PROVE Any(T \ {y})
  <2>1. /\ Cardinality(T \ {y}) = n - 1 /\ Cardinality(T \ {y}) \in Nat
        /\ n \in Nat /\ T \ {y} \in SUBSET S
    BY <1>1, <1>6, FS_RemoveElement
  <2>2. n - 1 \notin Bad
    <3>1. ~ (n <= n - 1)
      BY <2>1
    <3>2. QED
      BY <1>5, <3>1
  <2> HIDE DEF Any
  <2>3. QED
    BY <2>1, <2>2
<1>10. Sum(T) \in Int
  BY <1>8, <1>9
<1>11. ASSUME NEW y \in T PROVE Sum(T) = g[y] + Sum(T \ {y})
  <2>1. CASE y = c
    BY <1>8, <2>1
  <2>2. CASE y # c
    <3> DEFINE C == T \ {c}
               Y == T \ {y}
               R == C \ {y}
    <3>1. /\ y \in C /\ c \in Y /\ R = Y \ {c} /\ R \in SUBSET S
          /\ C \in SUBSET S /\ g[c] \in Int /\ g[y] \in Int
      BY <1>8, <2>2
    <3>2. Any(C) /\ Any(Y) /\ Sum(T) = g[c] + Sum(C)
      BY <1>8, <1>9
    <3>3. Cardinality(C) = n - 1 /\ n \in Nat
      BY <1>1, <1>6, <1>8, FS_RemoveElement
    <3> HIDE DEF C, Y
    <3>4. Cardinality(R) = n - 2 /\ Cardinality(R) \in Nat
      <4>1. IsFiniteSet(C) /\ Cardinality(R) \in Nat
        BY <1>1, <3>1
      <4>2. Cardinality(R) = Cardinality(C) - 1
        BY <3>1, <4>1, FS_RemoveElement
      <4>3. QED
        BY <3>3, <4>1, <4>2
    <3>5. Sum(C) = g[y] + Sum(R) /\ Sum(Y) = g[c] + Sum(R)
      BY <3>1, <3>2
    <3> HIDE DEF R
    <3>6. Sum(R) \in Int
      <4>1. n - 2 \notin Bad
        <5>1. ~ (n <= n - 2)
          BY <3>3
        <5>2. QED
          BY <1>5, <5>1
      <4>2. Any(R)
        <5> HIDE DEF Any
        <5>1. QED
          BY <3>1, <3>3, <3>4, <4>1
      <4>3. QED
        BY <4>2
    <3>7. Sum(T) = g[y] + Sum(Y)
      <4>1. Sum(T) = g[c] + Sum(C) /\ g[c] \in Int /\ g[y] \in Int
        BY <3>1, <3>2
      <4>2. QED
        BY <3>5, <3>6, <4>1
    <3>8. QED
      BY <3>7 DEF Y
  <2>3. QED
    BY <2>1, <2>2
<1>12. QED
  BY <1>6, <1>10, <1>11

LEMMA SumAdd ==
  ASSUME NEW g, NEW S, IsFiniteSet(S), NEW x, x \notin S,
         \A y \in S \cup {x} : g[y] \in Int
  PROVE  SumFunctionOnSet(g, S \cup {x}) = SumFunctionOnSet(g, S) + g[x]
<1> DEFINE U == S \cup {x}
<1>1. IsFiniteSet(U) /\ U \ {x} = S /\ x \in U
  BY FS_AddElement
<1>2. \A y \in U : g[y] \in Int
  OBVIOUS
<1> HIDE DEF U
<1>3. SumFunctionOnSet(g, U) = g[x] + SumFunctionOnSet(g, S)
  BY <1>1, <1>2, SumTake
<1>4. SumFunctionOnSet(g, S) \in Int /\ g[x] \in Int
  BY <1>1, <1>2, SumTake
<1>5. QED
  BY <1>3, <1>4 DEF U

\* The sum depends on the values in the set alone.
LEMMA SumSame ==
  ASSUME NEW g, NEW h, NEW S, IsFiniteSet(S),
         \A y \in S : g[y] \in Int /\ h[y] = g[y]
  PROVE  SumFunctionOnSet(g, S) = SumFunctionOnSet(h, S)
<1> DEFINE Good == {T \in SUBSET S :
                      SumFunctionOnSet(g, T) = SumFunctionOnSet(h, T)}
<1>1. {} \in Good
  BY SumEmpty
<1>2. ASSUME NEW T \in SUBSET S, NEW x \in S, T \in Good, x \notin T
      PROVE  T \cup {x} \in Good
  <2>1. IsFiniteSet(T)
    BY FS_Subset
  <2>2. /\ SumFunctionOnSet(g, T \cup {x}) = SumFunctionOnSet(g, T) + g[x]
        /\ SumFunctionOnSet(h, T \cup {x}) = SumFunctionOnSet(h, T) + h[x]
    BY <1>2, <2>1, SumAdd
  <2>3. QED
    BY <1>2, <2>2
<1> HIDE DEF Good
<1>3. S \in Good
  BY <1>1, <1>2, FiniteInduction
<1>4. QED
  BY <1>3 DEF Good

LEMMA SumNat ==
  ASSUME NEW g, NEW S, IsFiniteSet(S), \A y \in S : g[y] \in Nat
  PROVE  SumFunctionOnSet(g, S) \in Nat
<1> DEFINE Good == {T \in SUBSET S : SumFunctionOnSet(g, T) \in Nat}
<1>1. {} \in Good
  BY SumEmpty
<1>2. ASSUME NEW T \in SUBSET S, NEW x \in S, T \in Good, x \notin T
      PROVE  T \cup {x} \in Good
  <2>1. IsFiniteSet(T)
    BY FS_Subset
  <2>2. SumFunctionOnSet(g, T \cup {x}) = SumFunctionOnSet(g, T) + g[x]
    BY <1>2, <2>1, SumAdd
  <2>3. QED
    BY <1>2, <2>2
<1> HIDE DEF Good
<1>3. S \in Good
  BY <1>1, <1>2, FiniteInduction
<1>4. QED
  BY <1>3 DEF Good

\* A part sums to no more than the whole.
LEMMA SumPart ==
  ASSUME NEW g, NEW S, IsFiniteSet(S), \A y \in S : g[y] \in Nat,
         NEW P \in SUBSET S
  PROVE  SumFunctionOnSet(g, P) <= SumFunctionOnSet(g, S)
<1> DEFINE Good == {T \in SUBSET S : SumFunctionOnSet(g, T \cap P)
                                       <= SumFunctionOnSet(g, T)}
<1>1. {} \in Good
  <2>1. {} \cap P = {}
    OBVIOUS
  <2>2. QED
    BY <2>1, SumEmpty
<1>2. ASSUME NEW T \in SUBSET S, NEW x \in S, T \in Good, x \notin T
      PROVE  T \cup {x} \in Good
  <2> DEFINE R == T \cap P
             U == T \cup {x}
  <2>1. IsFiniteSet(T) /\ IsFiniteSet(R) /\ R \subseteq S /\ x \notin R
    BY <1>2, FS_Subset
  <2>2. SumFunctionOnSet(g, U) = SumFunctionOnSet(g, T) + g[x]
    BY <1>2, <2>1, SumAdd
  <2>3. U \cap P = IF x \in P THEN R \cup {x} ELSE R
    OBVIOUS
  <2>4. SumFunctionOnSet(g, R \cup {x}) = SumFunctionOnSet(g, R) + g[x]
    <3> HIDE DEF R
    <3>1. QED
      BY <2>1, SumAdd
  <2>5. /\ SumFunctionOnSet(g, T) \in Nat /\ SumFunctionOnSet(g, R) \in Nat
        /\ g[x] \in Nat
    <3> HIDE DEF R
    <3>1. QED
      BY <2>1, SumNat
  <2>6. SumFunctionOnSet(g, R) <= SumFunctionOnSet(g, T)
    BY <1>2
  <2> HIDE DEF R
  <2>7. SumFunctionOnSet(g, U \cap P) <= SumFunctionOnSet(g, U)
    BY <2>2, <2>3, <2>4, <2>5, <2>6
  <2>8. QED
    BY <1>2, <2>7
<1> HIDE DEF Good
<1>3. S \in Good
  BY <1>1, <1>2, FiniteInduction
<1>4. S \cap P = P
  OBVIOUS
<1>5. QED
  BY <1>3, <1>4 DEF Good

\* A finite set of naturals has a greatest element.
LEMMA GreatestNat ==
  ASSUME NEW S, IsFiniteSet(S), S \subseteq Nat, S # {}
  PROVE  Max(S) \in S /\ \A y \in S : y <= Max(S)
<1> DEFINE Good == {T \in SUBSET S : T # {} => \E x \in T : \A y \in T : x >= y}
<1>1. {} \in Good
  OBVIOUS
<1>2. ASSUME NEW T \in SUBSET S, NEW x \in S, T \in Good, x \notin T
      PROVE  T \cup {x} \in Good
  <2>1. CASE T = {}
    BY <2>1
  <2>2. CASE T # {}
    <3>1. PICK m \in T : \A y \in T : m >= y
      BY <1>2, <2>2
    <3>2. \E z \in T \cup {x} : \A y \in T \cup {x} : z >= y
      <4>1. x \in Nat /\ m \in Nat /\ \A y \in T : y \in Nat
        OBVIOUS
      <4>2. CASE x <= m
        BY <3>1, <4>1, <4>2
      <4>3. CASE m <= x
        <5>1. \A y \in T : x >= y
          BY <3>1, <4>1, <4>3
        <5>2. QED
          BY <4>1, <5>1
      <4>4. QED
        BY <4>1, <4>2, <4>3
    <3>3. QED
      BY <3>2
  <2>3. QED
    BY <2>1, <2>2
<1> HIDE DEF Good
<1>3. S \in Good
  BY <1>1, <1>2, FiniteInduction
<1>4. \E x \in S : \A y \in S : x >= y
  BY <1>3 DEF Good
<1>5. Max(S) \in S /\ \A y \in S : Max(S) >= y
  BY <1>4 DEF Max
<1>6. QED
  BY <1>5

LEMMA FiniteImage ==
  ASSUME NEW g, NEW S, IsFiniteSet(S)
  PROVE  IsFiniteSet({g[x] : x \in S})
<1> DEFINE Good == {T \in SUBSET S : IsFiniteSet({g[x] : x \in T})}
<1>1. {} \in Good
  <2>1. {g[x] : x \in {}} = {}
    OBVIOUS
  <2>2. QED
    BY <2>1, FS_EmptySet
<1>2. ASSUME NEW T \in SUBSET S, NEW y \in S, T \in Good, y \notin T
      PROVE  T \cup {y} \in Good
  <2> DEFINE I == {g[x] : x \in T}
  <2>1. {g[x] : x \in T \cup {y}} = I \cup {g[y]}
    OBVIOUS
  <2>2. IsFiniteSet(I)
    BY <1>2
  <2> HIDE DEF I
  <2>3. IsFiniteSet(I \cup {g[y]})
    BY <2>2, FS_AddElement
  <2>4. QED
    BY <1>2, <2>1, <2>3
<1> HIDE DEF Good
<1>3. S \in Good
  BY <1>1, <1>2, FiniteInduction
<1>4. QED
  BY <1>3 DEF Good

\* A sum that is nowhere above the middle of two others is not above it.
LEMMA SumMiddle ==
  ASSUME NEW f, NEW g, NEW h, NEW S, IsFiniteSet(S),
         \A y \in S : f[y] \in Nat /\ g[y] \in Nat /\ h[y] \in Nat,
         \A y \in S : f[y] + g[y] >= 2 * h[y]
  PROVE  SumFunctionOnSet(f, S) + SumFunctionOnSet(g, S)
           >= 2 * SumFunctionOnSet(h, S)
<1> DEFINE Below(T) == SumFunctionOnSet(f, T) + SumFunctionOnSet(g, T)
                         >= 2 * SumFunctionOnSet(h, T)
           Good == {T \in SUBSET S : Below(T)}
<1>1. {} \in Good
  BY SumEmpty
<1>2. ASSUME NEW T \in SUBSET S, NEW x \in S, T \in Good, x \notin T
      PROVE  T \cup {x} \in Good
  <2>1. IsFiniteSet(T)
    BY FS_Subset
  <2>2. /\ SumFunctionOnSet(f, T \cup {x}) = SumFunctionOnSet(f, T) + f[x]
        /\ SumFunctionOnSet(g, T \cup {x}) = SumFunctionOnSet(g, T) + g[x]
        /\ SumFunctionOnSet(h, T \cup {x}) = SumFunctionOnSet(h, T) + h[x]
    BY <1>2, <2>1, SumAdd
  <2>3. /\ SumFunctionOnSet(f, T) \in Nat /\ SumFunctionOnSet(g, T) \in Nat
        /\ SumFunctionOnSet(h, T) \in Nat
    BY <2>1, SumNat
  <2>4. Below(T)
    BY <1>2
  <2>5. f[x] \in Nat /\ g[x] \in Nat /\ h[x] \in Nat /\ f[x] + g[x] >= 2 * h[x]
    OBVIOUS
  <2>6. Below(T \cup {x})
    BY <2>2, <2>3, <2>4, <2>5
  <2>7. QED
    BY <1>2, <2>6
<1> HIDE DEF Good
<1>3. S \in Good
  BY <1>1, <1>2, FiniteInduction
<1>4. QED
  BY <1>3 DEF Good

\* The sum over an interval grows by its next term.
LEMMA SumNext ==
  ASSUME NEW g, NEW a \in Int, NEW b \in Int, a <= b + 1,
         \A y \in a .. b + 1 : g[y] \in Int
  PROVE  SumFunctionOnSet(g, a .. b + 1)
           = SumFunctionOnSet(g, a .. b) + g[b + 1]
<1> DEFINE S == a .. b
           x == b + 1
<1>1. a .. b + 1 = S \cup {x}
  OBVIOUS
<1>2. IsFiniteSet(S) /\ x \notin S
  BY FS_Interval
<1>3. \A y \in S \cup {x} : g[y] \in Int
  BY <1>1
<1> HIDE DEF S, x
<1>4. SumFunctionOnSet(g, S \cup {x}) = SumFunctionOnSet(g, S) + g[x]
  BY <1>2, <1>3, SumAdd
<1>5. QED
  BY <1>1, <1>4 DEF S, x

LEMMA SumTwo ==
  ASSUME NEW g, g[1] \in Int, g[2] \in Int
  PROVE  SumFunctionOnSet(g, 1 .. 2) = g[1] + g[2]
<1>1. 1 .. 0 = {} /\ 1 .. 0 + 1 = 1 .. 1 /\ 1 .. 1 + 1 = 1 .. 2
  OBVIOUS
<1>2. \A y \in 1 .. 2 : g[y] \in Int
  OBVIOUS
<1>3. SumFunctionOnSet(g, 1 .. 0) = 0
  BY <1>1, SumEmpty
<1>4. SumFunctionOnSet(g, 1 .. 0 + 1) = SumFunctionOnSet(g, 1 .. 0) + g[0 + 1]
  <2>1. \A y \in 1 .. 0 + 1 : g[y] \in Int
    BY <1>2
  <2>2. 1 \in Int /\ 0 \in Int /\ 1 <= 0 + 1
    OBVIOUS
  <2>3. QED
    BY <2>1, <2>2, SumNext
<1>5. SumFunctionOnSet(g, 1 .. 1 + 1) = SumFunctionOnSet(g, 1 .. 1) + g[1 + 1]
  <2>1. \A y \in 1 .. 1 + 1 : g[y] \in Int
    BY <1>2
  <2>2. 1 \in Int /\ 1 <= 1 + 1
    OBVIOUS
  <2>3. QED
    BY <2>1, <2>2, SumNext
<1>6. 0 + 1 = 1 /\ 1 + 1 = 2
  OBVIOUS
<1>7. QED
  BY <1>1, <1>3, <1>4, <1>5, <1>6

LEMMA SumThree ==
  ASSUME NEW g, g[1] \in Int, g[2] \in Int, g[3] \in Int
  PROVE  SumFunctionOnSet(g, 1 .. 3) = g[1] + g[2] + g[3]
<1>1. SumFunctionOnSet(g, 1 .. 2) = g[1] + g[2]
  BY SumTwo
<1>2. SumFunctionOnSet(g, 1 .. 2 + 1) = SumFunctionOnSet(g, 1 .. 2) + g[2 + 1]
  <2>1. \A y \in 1 .. 2 + 1 : g[y] \in Int
    OBVIOUS
  <2>2. 1 \in Int /\ 2 \in Int /\ 1 <= 2 + 1
    OBVIOUS
  <2>3. QED
    BY <2>1, <2>2, SumNext
<1>3. 2 + 1 = 3
  OBVIOUS
<1>4. QED
  BY <1>1, <1>2, <1>3

(***************************************************************************)
(* Whole numbers: the greater, the least, a quotient, a product; and two   *)
(* sums, term by term.                                                     *)
(***************************************************************************)
LEMMA PairBounds ==
  ASSUME NEW a \in Int, NEW b \in Int
  PROVE  /\ Min({a, b}) = IF a <= b THEN a ELSE b
         /\ Max({a, b}) = IF a >= b THEN a ELSE b
<1>1. Min({a, b}) = IF a <= b THEN a ELSE b
  BY DEF Min
<1>2. Max({a, b}) = IF a >= b THEN a ELSE b
  BY DEF Max
<1>3. QED
  BY <1>1, <1>2

LEMMA MinNat ==
  ASSUME NEW S, S \subseteq Nat, S # {}
  PROVE  Min(S) \in S /\ \A y \in S : Min(S) <= y
<1>1. \E m \in S : \A n \in S : m <= n
  BY LeastNat
<1>2. QED
  BY <1>1 DEF Min

LEMMA QuotientInt ==
  ASSUME NEW a \in Int, NEW d \in Nat, d > 0
  PROVE  a \div d \in Int
OBVIOUS

LEMMA QuotientMono ==
  ASSUME NEW a \in Int, NEW b \in Int, NEW d \in Nat, d > 0, a <= b
  PROVE  a \div d <= b \div d
<1> DEFINE p == a \div d
           q == b \div d
<1>1. /\ p \in Int /\ q \in Int
      /\ d * p <= a /\ b < d * (q + 1)
  OBVIOUS
<1> HIDE DEF p, q
<1>2. d * p < d * (q + 1)
  BY <1>1
<1>3. p < q + 1
  <2>1. SUFFICES ASSUME p >= q + 1 PROVE FALSE
    BY <1>1
  <2>2. d * p >= d * (q + 1)
    BY <1>1, <2>1
  <2>3. QED
    BY <1>1, <1>2, <2>2
<1>4. p <= q
  BY <1>1, <1>3
<1>5. QED
  BY <1>4 DEF p, q

LEMMA ProductMono ==
  ASSUME NEW a \in Int, NEW b \in Int, NEW c \in Nat, a <= b
  PROVE  a * c \in Int /\ b * c \in Int /\ a * c <= b * c
OBVIOUS

LEMMA SumMono ==
  ASSUME NEW g, NEW h, NEW S, IsFiniteSet(S),
         \A y \in S : g[y] \in Int /\ h[y] \in Int /\ g[y] <= h[y]
  PROVE  /\ SumFunctionOnSet(g, S) \in Int /\ SumFunctionOnSet(h, S) \in Int
         /\ SumFunctionOnSet(g, S) <= SumFunctionOnSet(h, S)
<1> DEFINE Good == {T \in SUBSET S :
             /\ SumFunctionOnSet(g, T) \in Int /\ SumFunctionOnSet(h, T) \in Int
             /\ SumFunctionOnSet(g, T) <= SumFunctionOnSet(h, T)}
<1>1. {} \in Good
  BY SumEmpty
<1>2. ASSUME NEW T \in SUBSET S, NEW x \in S, T \in Good, x \notin T
      PROVE  T \cup {x} \in Good
  <2>1. IsFiniteSet(T)
    BY FS_Subset
  <2>2. /\ SumFunctionOnSet(g, T \cup {x}) = SumFunctionOnSet(g, T) + g[x]
        /\ SumFunctionOnSet(h, T \cup {x}) = SumFunctionOnSet(h, T) + h[x]
    BY <1>2, <2>1, SumAdd
  <2>3. QED
    BY <1>2, <2>2
<1> HIDE DEF Good
<1>3. S \in Good
  BY <1>1, <1>2, FiniteInduction
<1>4. QED
  BY <1>3 DEF Good

\* Two parts without a common element sum to the whole.
LEMMA SumUnion ==
  ASSUME NEW g, NEW A, NEW B, IsFiniteSet(A), IsFiniteSet(B), A \cap B = {},
         \A y \in A \cup B : g[y] \in Int
  PROVE  /\ SumFunctionOnSet(g, A) \in Int /\ SumFunctionOnSet(g, B) \in Int
         /\ SumFunctionOnSet(g, A \cup B)
              = SumFunctionOnSet(g, A) + SumFunctionOnSet(g, B)
<1> DEFINE Sum(T) == SumFunctionOnSet(g, T)
           Good == {T \in SUBSET B : Sum(A \cup T) = Sum(A) + Sum(T)}
<1>1. Sum(A) \in Int /\ Sum(B) \in Int
  BY SumTake
<1>2. {} \in Good
  <2>1. A \cup {} = A /\ Sum({}) = 0
    BY SumEmpty
  <2> HIDE DEF Sum
  <2>2. QED
    BY <1>1, <2>1
<1>3. ASSUME NEW T \in SUBSET B, NEW x \in B, T \in Good, x \notin T
      PROVE  T \cup {x} \in Good
  <2>1. IsFiniteSet(T) /\ IsFiniteSet(A \cup T)
    BY FS_Subset, FS_Union
  <2>2. x \notin A \cup T /\ A \cup (T \cup {x}) = (A \cup T) \cup {x}
    BY <1>3
  <2>3. /\ \A y \in (A \cup T) \cup {x} : g[y] \in Int
        /\ \A y \in T \cup {x} : g[y] \in Int
    OBVIOUS
  <2>4. Sum((A \cup T) \cup {x}) = Sum(A \cup T) + g[x]
    BY <2>1, <2>2, <2>3, SumAdd
  <2>5. Sum(T \cup {x}) = Sum(T) + g[x]
    BY <1>3, <2>1, <2>3, SumAdd
  <2>6. Sum(T) \in Int /\ g[x] \in Int
    BY <2>1, <2>3, SumTake
  <2> HIDE DEF Sum
  <2>7. Sum(A \cup T) = Sum(A) + Sum(T)
    BY <1>3
  <2> DEFINE a == Sum(A)
             t == Sum(T)
             v == g[x]
  <2>8. a \in Int /\ t \in Int /\ v \in Int
    BY <1>1, <2>6
  <2>9. /\ Sum((A \cup T) \cup {x}) = (a + t) + v
        /\ Sum(T \cup {x}) = t + v
    BY <2>4, <2>5, <2>7
  <2> HIDE DEF a, t, v
  <2>10. (a + t) + v = a + (t + v)
    BY <2>8
  <2>11. Sum(A \cup (T \cup {x})) = a + Sum(T \cup {x})
    BY <2>2, <2>9, <2>10
  <2>12. QED
    BY <2>11 DEF a
<1> HIDE DEF Good
<1>4. B \in Good
  BY <1>2, <1>3, FiniteInduction
<1>5. QED
  BY <1>1, <1>4 DEF Good

\* Summed key by key, the sum is the same.
LEMMA SumByKey ==
  ASSUME NEW g, NEW k, NEW S, IsFiniteSet(S), \A y \in S : g[y] \in Int
  PROVE  SumFunctionOnSet(
           [key \in {k[y] : y \in S} |->
              SumFunctionOnSet(g, {y \in S : k[y] = key})],
           {k[y] : y \in S})
           = SumFunctionOnSet(g, S)
<1> DEFINE keys == {k[y] : y \in S}
           Of(key) == {y \in S : k[y] = key}
           Within(K) == {y \in S : k[y] \in K}
           Sum(T) == SumFunctionOnSet(g, T)
           h == [key \in keys |-> Sum(Of(key))]
           Good == {K \in SUBSET keys : SumFunctionOnSet(h, K) = Sum(Within(K))}
<1>1. IsFiniteSet(keys)
  BY FiniteImage
<1>2. ASSUME NEW T \in SUBSET S PROVE IsFiniteSet(T) /\ Sum(T) \in Int
  <2>1. IsFiniteSet(T) /\ \A y \in T : g[y] \in Int
    BY FS_Subset
  <2>2. QED
    BY <2>1, SumTake
<1> HIDE DEF Sum
<1>3. \A key \in keys : h[key] = Sum(Of(key)) /\ h[key] \in Int
  <2>1. \A key \in keys : Of(key) \in SUBSET S
    OBVIOUS
  <2> HIDE DEF keys, Of
  <2>2. QED
    BY <1>2, <2>1
<1> HIDE DEF h
<1>4. {} \in Good
  <2>1. Within({}) = {}
    OBVIOUS
  <2>2. QED
    BY <2>1, SumEmpty DEF Sum
<1>5. ASSUME NEW K \in SUBSET keys, NEW x \in keys, K \in Good, x \notin K
      PROVE  K \cup {x} \in Good
  <2>1. /\ Within(K \cup {x}) = Within(K) \cup Of(x)
        /\ Within(K) \cap Of(x) = {}
        /\ Within(K) \in SUBSET S /\ Of(x) \in SUBSET S
    BY <1>5
  <2>2. SumFunctionOnSet(h, K) = Sum(Within(K))
    BY <1>5
  <2> HIDE DEF Within, Of, Good
  <2>3. IsFiniteSet(Within(K)) /\ IsFiniteSet(Of(x))
    BY <1>2, <2>1
  <2>4. \A y \in Within(K) \cup Of(x) : g[y] \in Int
    BY <2>1
  <2>5. Sum(Within(K) \cup Of(x)) = Sum(Within(K)) + Sum(Of(x))
    BY <2>1, <2>3, <2>4, SumUnion DEF Sum
  <2>6. IsFiniteSet(K) /\ \A key \in K \cup {x} : h[key] \in Int
    BY <1>1, <1>3, FS_Subset
  <2>7. SumFunctionOnSet(h, K \cup {x}) = SumFunctionOnSet(h, K) + h[x]
    BY <1>5, <2>6, SumAdd
  <2>8. SumFunctionOnSet(h, K \cup {x}) = Sum(Within(K \cup {x}))
    BY <1>3, <2>1, <2>2, <2>5, <2>7
  <2>9. QED
    BY <2>8 DEF Good
<1> HIDE DEF Good
<1>6. keys \in Good
  BY <1>1, <1>4, <1>5, FiniteInduction
<1>7. Within(keys) = S
  OBVIOUS
<1>8. SumFunctionOnSet(h, keys) = Sum(S)
  BY <1>6, <1>7 DEF Good
<1>9. QED
  BY <1>8 DEF h, Sum

\* The sum over two.
LEMMA SumPair ==
  ASSUME NEW g, NEW a, NEW b, a # b, g[a] \in Int, g[b] \in Int
  PROVE  SumFunctionOnSet(g, {a, b}) = g[a] + g[b]
<1>1. {a, b} = {a} \cup {b} /\ {a} = {} \cup {a} /\ b \notin {a}
  OBVIOUS
<1>2. IsFiniteSet({}) /\ IsFiniteSet({a})
  BY FS_EmptySet, FS_Singleton
<1>3. SumFunctionOnSet(g, {} \cup {a}) = SumFunctionOnSet(g, {}) + g[a]
  BY <1>2, SumAdd
<1>4. SumFunctionOnSet(g, {a} \cup {b}) = SumFunctionOnSet(g, {a}) + g[b]
  <2>1. \A y \in {a} \cup {b} : g[y] \in Int
    OBVIOUS
  <2>2. QED
    BY <1>1, <1>2, <2>1, SumAdd
<1>5. SumFunctionOnSet(g, {}) = 0
  BY SumEmpty
<1>6. QED
  BY <1>1, <1>3, <1>4, <1>5
=============================================================================
