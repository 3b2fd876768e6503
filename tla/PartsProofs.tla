----------------------------- MODULE PartsProofs -----------------------------
(***************************************************************************)
(* Theorems about the parts of MCParts.  First Protocol: the rosters are     *)
(* what they are said to be.  Then Evaluation: every fraction is the share   *)
(* of comparisons that its name says.  Then Threshold: the two selections    *)
(* are the best there are.  Last the parts side by side: a behaviour of      *)
(* their composition is one of each part, so what is proved of a part alone  *)
(* holds of it there.                                                        *)
(***************************************************************************)
EXTENDS MCParts, ChildProcessProofs, FileStoreProofs, FiniteSetTheorems,
        WellFoundedInduction

-----------------------------------------------------------------------------
(* Counting.                                                                *)

\* Two sets whose elements correspond one to one have as many.
LEMMA OneToOne ==
  ASSUME NEW S, IsFiniteSet(S), NEW T, NEW f \in [S -> T],
         \A x, y \in S : f[x] = f[y] => x = y,
         \A t \in T : \E x \in S : f[x] = t
  PROVE  IsFiniteSet(T) /\ Cardinality(T) = Cardinality(S)
<1>1. f \in Bijection(S, T)
  BY DEF Bijection, Injection, IsInjective, Surjection
<1> QED BY <1>1, FS_Bijection DEF ExistsBijection

\* A set of numbers has a least one: the induction of this module.
LEMMA LeastOf ==
  ASSUME NEW T \in SUBSET Nat, T # {}
  PROVE  \E m \in T : \A k \in T : m <= k
<1>1. PICK m \in T : \A k \in T : <<k, m>> \notin OpToRel(<, Nat)
  BY NatLessThanWellFounded, WFMin
<1>2. ASSUME NEW k \in T PROVE m <= k
  <2>1. m \in Nat /\ k \in Nat
    OBVIOUS
  <2>2. <<k, m>> \in {p \in Nat \X Nat : p[1] < p[2]} <=> k < m
    BY <2>1
  <2> QED BY <1>1, <2>1, <2>2 DEF OpToRel
<1> QED BY <1>2

\* What the recursion of SumFunction defines.
Summing(g, sum) ==
  sum = [s \in SUBSET DOMAIN g |->
           IF s = {} THEN 0
           ELSE g[CHOOSE x \in s : TRUE] + sum[s \ {CHOOSE x \in s : TRUE}]]

\* If anything satisfies the recursion, SumFunction does.
LEMMA SumIsTheRecursion ==
  ASSUME NEW g, NEW K, Summing(g, K)
  PROVE  \E sum : Summing(g, sum) /\ SumFunction(g) = sum[DOMAIN g]
<1> DEFINE sum == CHOOSE sum : Summing(g, sum)
<1>1. Summing(g, sum)
  OBVIOUS
<1>2. SumFunction(g) = sum[DOMAIN g]
  BY DEF SumFunction, SumFunctionOnSet, FoldFunctionOnSet, MapThenFoldSet, Summing
<1> QED BY <1>1, <1>2

Over(A, s) == UNION {A[x] : x \in s}

LEMMA OneMore ==
  ASSUME NEW U, IsFiniteSet(U), NEW D, NEW A \in [D -> SUBSET U],
         \A x, y \in D : x # y => A[x] \cap A[y] = {},
         NEW s \in SUBSET D, NEW x \in s
  PROVE  Cardinality(Over(A, s)) = Cardinality(A[x]) + Cardinality(Over(A, s \ {x}))
<1> DEFINE rest == Over(A, s \ {x})
<1>1. Over(A, s) = A[x] \cup rest /\ A[x] \cap rest = {}
  BY DEF Over
<1>2. A[x] \in SUBSET U /\ rest \in SUBSET U
  BY DEF Over
<1>3. IsFiniteSet(A[x]) /\ IsFiniteSet(rest)
  BY <1>2, FS_Subset, Zenon
<1>4. /\ Cardinality(A[x] \cup rest)
           = Cardinality(A[x]) + Cardinality(rest) - Cardinality(A[x] \cap rest)
      /\ Cardinality({}) = 0 /\ Cardinality(A[x]) \in Nat /\ Cardinality(rest) \in Nat
  BY <1>3, FS_Union, FS_EmptySet, FS_CardinalityType, Zenon
<1>5. Cardinality(Over(A, s)) = Cardinality(A[x]) + Cardinality(rest) - 0
  BY <1>1, <1>4, Zenon
<1> HIDE DEF rest
<1>6. Cardinality(A[x]) + Cardinality(rest) - 0 = Cardinality(A[x]) + Cardinality(rest)
  BY <1>4
<1> QED BY <1>5, <1>6, Zenon DEF rest

\* Counting part by part counts the whole: the cardinalities of disjoint sets
\* sum to that of their union, in whatever order they are taken.
LEMMA SumCounts ==
  ASSUME NEW U, IsFiniteSet(U), NEW D, IsFiniteSet(D), NEW A \in [D -> SUBSET U],
         \A x, y \in D : x # y => A[x] \cap A[y] = {},
         NEW g, g = [x \in D |-> Cardinality(A[x])]
  PROVE  SumFunction(g) = Cardinality(Over(A, D))
<1> DEFINE K == [s \in SUBSET D |-> Cardinality(Over(A, s))]
           next(s) == CHOOSE x \in s : TRUE
<1>0. DOMAIN g = D /\ \A x \in D : g[x] = Cardinality(A[x])
  OBVIOUS
<1>1. ASSUME NEW s \in SUBSET D, s # {}
      PROVE  next(s) \in s /\ K[s] = g[next(s)] + K[s \ {next(s)}]
  <2>1. next(s) \in s
    BY <1>1
  <2>2. s \ {next(s)} \in SUBSET D /\ next(s) \in D
    BY <2>1
  <2> HIDE DEF next
  <2>3. Cardinality(Over(A, s)) = Cardinality(A[next(s)]) + Cardinality(Over(A, s \ {next(s)}))
    BY <2>1, OneMore
  <2> QED BY <2>1, <2>2, <2>3, <1>0
<1>2. K[{}] = 0
  <2>1. Over(A, {}) = {} BY DEF Over
  <2> QED BY <2>1, FS_EmptySet
<1>3. Summing(g, K)
  BY <1>0, <1>1, <1>2 DEF Summing
<1>4. PICK sum : Summing(g, sum) /\ SumFunction(g) = sum[D]
  BY <1>0, <1>3, SumIsTheRecursion
<1>5. ASSUME NEW s \in SUBSET D
      PROVE  sum[s] = IF s = {} THEN 0 ELSE g[next(s)] + sum[s \ {next(s)}]
  BY <1>0, <1>4 DEF Summing
<1> HIDE DEF K, next
<1>6. ASSUME NEW s \in SUBSET D, sum[s] # K[s] PROVE FALSE
  <2> DEFINE wrong == {t \in SUBSET D : sum[t] # K[t]}
             sizes == {Cardinality(t) : t \in wrong}
  <2>1. \A t \in SUBSET D : IsFiniteSet(t) /\ Cardinality(t) \in Nat
    BY FS_Subset, FS_CardinalityType
  <2>2. PICK m \in sizes : \A k \in sizes : m <= k
    <3>1. sizes \in SUBSET Nat /\ sizes # {}
      BY <1>6, <2>1
    <3> QED BY <3>1, LeastOf
  <2>3. PICK t \in wrong : m = Cardinality(t)
    OBVIOUS
  <2>4. t # {}
    BY <1>2, <1>5, <2>3
  <2>5. next(t) \in t /\ t \ {next(t)} \in SUBSET D
    BY <1>1, <2>3, <2>4
  <2>6. Cardinality(t \ {next(t)}) = Cardinality(t) - 1
    BY <2>1, <2>5, FS_RemoveElement
  <2>7. t \ {next(t)} \notin wrong
    BY <2>1, <2>2, <2>3, <2>5, <2>6
  <2>8. sum[t] = g[next(t)] + sum[t \ {next(t)}]
    BY <1>5, <2>3, <2>4
  <2>9. K[t] = g[next(t)] + K[t \ {next(t)}]
    BY <1>1, <2>3, <2>4
  <2>10. sum[t \ {next(t)}] = K[t \ {next(t)}] /\ sum[t] # K[t]
    BY <2>3, <2>5, <2>7
  <2> QED BY <2>8, <2>9, <2>10
<1> QED BY <1>4, <1>6 DEF K

LEMMA Below ==
  ASSUME NEW n \in Nat
  PROVE  IsFiniteSet(0..(n - 1)) /\ Cardinality(0..(n - 1)) = n
<1>1. 0 \in Int /\ n - 1 \in Int
  OBVIOUS
<1>2. /\ IsFiniteSet(0..(n - 1))
      /\ Cardinality(0..(n - 1)) = IF 0 > n - 1 THEN 0 ELSE (n - 1) - 0 + 1
  BY <1>1, FS_Interval, Zenon
<1> QED BY <1>2

\* The number of those before x in a ranking.
Before(S, f, x) == Cardinality({y \in S : f[y] < f[x]})

\* The first k of a ranked set are k.
LEMMA FirstOfRanking ==
  ASSUME NEW S, IsFiniteSet(S), NEW f \in [S -> Int], \A x, y \in S : f[x] = f[y] => x = y,
         NEW k \in Nat, k <= Cardinality(S)
  PROVE  Cardinality({x \in S : Before(S, f, x) < k}) = k
<1> DEFINE n == Cardinality(S)
           pos == [x \in S |-> Before(S, f, x)]
           T == 0..(n - 1)
<1>1. n \in Nat
  BY FS_CardinalityType
<1>2. ASSUME NEW x \in S
      PROVE  /\ IsFiniteSet({y \in S : f[y] < f[x]})
             /\ Before(S, f, x) \in T /\ Before(S, f, x) \in Int
  <2>1. {y \in S : f[y] < f[x]} \in SUBSET S /\ x \notin {y \in S : f[y] < f[x]}
    OBVIOUS
  <2>2. /\ IsFiniteSet({y \in S : f[y] < f[x]})
        /\ Cardinality({y \in S : f[y] < f[x]}) \in Nat
        /\ Cardinality({y \in S : f[y] < f[x]}) <= n
        /\ Cardinality({y \in S : f[y] < f[x]}) # n
    BY <2>1, FS_Subset, FS_CardinalityType
  <2> QED BY <1>1, <2>2 DEF Before
<1>3. ASSUME NEW x \in S, NEW y \in S, f[x] < f[y]
      PROVE  Before(S, f, x) < Before(S, f, y)
  <2> DEFINE X == {z \in S : f[z] < f[x]}
             Y == {z \in S : f[z] < f[y]}
  <2>1. X \in SUBSET Y /\ x \in Y /\ x \notin X
    BY <1>3
  <2>2. IsFiniteSet(Y) /\ Cardinality(X) \in Nat /\ Cardinality(Y) \in Nat
    BY <1>2, FS_CardinalityType
  <2>3. Cardinality(X) <= Cardinality(Y) /\ Cardinality(X) # Cardinality(Y)
    BY <2>1, <2>2, FS_Subset
  <2> QED BY <2>2, <2>3 DEF Before
<1>4. pos \in [S -> T] /\ \A x, y \in S : pos[x] = pos[y] => x = y
  <2>1. pos \in [S -> T]
    BY <1>2
  <2>2. ASSUME NEW x \in S, NEW y \in S, x # y PROVE pos[x] # pos[y]
    <3>1. f[x] \in Int /\ f[y] \in Int /\ f[x] # f[y]
      BY <2>2
    <3>2. pos[x] = Before(S, f, x) /\ pos[y] = Before(S, f, y)
      OBVIOUS
    <3>3. Before(S, f, x) \in Int /\ Before(S, f, y) \in Int
      BY <1>2
    <3>4. f[x] < f[y] \/ f[y] < f[x]
      BY <3>1
    <3> QED BY <1>3, <3>2, <3>3, <3>4
  <2> QED BY <2>1, <2>2
<1> HIDE DEF pos
<1>5. IsFiniteSet(T) /\ Cardinality(T) = n
  BY <1>1, Below
<1>6. pos \in Surjection(S, T)
  <2>1. pos \in Injection(S, T)
    BY <1>4 DEF Injection, IsInjective
  <2> QED BY <1>5, <2>1, FS_Injection
<1> DEFINE A == {x \in S : Before(S, f, x) < k}
           B == 0..(k - 1)
<1>7. B \in SUBSET T /\ Cardinality(B) = k
  BY <1>1, Below
<1>8. \A x \in S : pos[x] = Before(S, f, x) /\ pos[x] \in T
  BY <1>4 DEF pos
<1> DEFINE g == [x \in A |-> pos[x]]
<1>9. /\ g \in [A -> B] /\ \A x, y \in A : g[x] = g[y] => x = y
      /\ \A b \in B : \E x \in A : g[x] = b
  <2>1. ASSUME NEW x \in A PROVE g[x] \in B
    BY <1>1, <1>8, <2>1
  <2>2. ASSUME NEW b \in B PROVE \E x \in A : g[x] = b
    <3>1. PICK x \in S : pos[x] = b
      BY <1>6, <1>7 DEF Surjection
    <3> QED BY <1>8, <3>1
  <2> QED BY <1>4, <2>1, <2>2
<1> HIDE DEF g
<1>10. IsFiniteSet(A)
  BY FS_Subset
<1> QED BY <1>7, <1>9, <1>10, OneToOne

\* n subjects make n(n - 1) ordered pairs of two, n - 1 of them with a given first
\* or a given second one.
PairsOfTwo(C) == {ab \in C \X C : ab[1] # ab[2]}

LEMMA HowManyPairsOfTwo ==
  ASSUME NEW C, IsFiniteSet(C)
  PROVE  /\ IsFiniteSet(PairsOfTwo(C)) /\ Cardinality(C) \in Nat
         /\ Cardinality(PairsOfTwo(C)) = Cardinality(C) * (Cardinality(C) - 1)
         /\ \A c \in C :
              /\ Cardinality({ab \in PairsOfTwo(C) : ab[1] = c}) = Cardinality(C) - 1
              /\ Cardinality({ab \in PairsOfTwo(C) : ab[2] = c}) = Cardinality(C) - 1
              /\ IsFiniteSet({ab \in PairsOfTwo(C) : ab[1] = c})
              /\ IsFiniteSet({ab \in PairsOfTwo(C) : ab[2] = c})
<1> DEFINE D == {ab \in C \X C : ab[1] = ab[2]}
           n == Cardinality(C)
<1>1. n \in Nat
  BY FS_CardinalityType
<1>2. IsFiniteSet(C \X C) /\ Cardinality(C \X C) = n * n
  BY FS_Product
<1>3. IsFiniteSet(D) /\ Cardinality(D) = n
  <2> DEFINE f == [c \in C |-> <<c, c>>]
  <2>1. /\ f \in [C -> D] /\ \A x, y \in C : f[x] = f[y] => x = y
        /\ \A d \in D : \E c \in C : f[c] = d
    OBVIOUS
  <2> HIDE DEF f, D
  <2> QED BY <2>1, OneToOne
<1>4. PairsOfTwo(C) = (C \X C) \ D /\ (C \X C) \cap D = D
  BY DEF PairsOfTwo
<1>5. IsFiniteSet(PairsOfTwo(C)) /\ Cardinality(PairsOfTwo(C)) = n * n - n
  <2> HIDE DEF D, n
  <2>1. /\ IsFiniteSet((C \X C) \ D)
        /\ Cardinality((C \X C) \ D) = Cardinality(C \X C) - Cardinality((C \X C) \cap D)
    BY <1>2, FS_Difference, Zenon
  <2> QED BY <1>2, <1>3, <1>4, <2>1, Zenon
<1>6. n * n - n = n * (n - 1)
  <2> HIDE DEF n
  <2> QED BY <1>1
<1>7. ASSUME NEW c \in C
      PROVE  /\ Cardinality({ab \in PairsOfTwo(C) : ab[1] = c}) = n - 1
             /\ Cardinality({ab \in PairsOfTwo(C) : ab[2] = c}) = n - 1
             /\ IsFiniteSet({ab \in PairsOfTwo(C) : ab[1] = c})
             /\ IsFiniteSet({ab \in PairsOfTwo(C) : ab[2] = c})
  <2> DEFINE S == C \ {c}
             first == {ab \in PairsOfTwo(C) : ab[1] = c}
             second == {ab \in PairsOfTwo(C) : ab[2] = c}
             f == [x \in S |-> <<c, x>>]
             g == [x \in S |-> <<x, c>>]
  <2>1. IsFiniteSet(S) /\ Cardinality(S) = n - 1
    BY FS_RemoveElement
  <2>2. /\ f \in [S -> first] /\ \A x, y \in S : f[x] = f[y] => x = y
        /\ \A d \in first : \E x \in S : f[x] = d
    BY DEF PairsOfTwo
  <2>3. /\ g \in [S -> second] /\ \A x, y \in S : g[x] = g[y] => x = y
        /\ \A d \in second : \E x \in S : g[x] = d
    BY DEF PairsOfTwo
  <2> HIDE DEF f, g, S, first, second
  <2>4. IsFiniteSet(first) /\ Cardinality(first) = n - 1
    BY <2>1, <2>2, OneToOne
  <2>5. IsFiniteSet(second) /\ Cardinality(second) = n - 1
    BY <2>1, <2>3, OneToOne
  <2> QED BY <2>4, <2>5 DEF first, second
<1> QED BY <1>1, <1>5, <1>6, <1>7

\* The cross-subject pairs of some releases, ordered pairs of subjects and fingers.
CrossOf(R, A, F) ==
  {CrossPair(<<SlotOf(q[1], q[2][1][1], "plain", q[2][2]),
               SlotOf(q[1], q[2][1][2], "roll", q[2][2])>>) : q \in R \X (A \X F)}

ArePairs(A) == \A ab \in A : ab = <<ab[1], ab[2]>>

LEMMA HowManyCrossPairs ==
  ASSUME NEW R, NEW A, NEW F, IsFiniteSet(R), IsFiniteSet(A), IsFiniteSet(F),
         ArePairs(A)
  PROVE  /\ IsFiniteSet(CrossOf(R, A, F))
         /\ Cardinality(CrossOf(R, A, F))
              = Cardinality(R) * (Cardinality(A) * Cardinality(F))
<1> DEFINE S == R \X (A \X F)
           T == CrossOf(R, A, F)
           pair(q) == CrossPair(<<SlotOf(q[1], q[2][1][1], "plain", q[2][2]),
                                  SlotOf(q[1], q[2][1][2], "roll", q[2][2])>>)
           f == [q \in S |-> pair(q)]
<1>1. IsFiniteSet(A \X F) /\ Cardinality(A \X F) = Cardinality(A) * Cardinality(F)
  BY FS_Product
<1>2. IsFiniteSet(S) /\ Cardinality(S) = Cardinality(R) * (Cardinality(A) * Cardinality(F))
  BY <1>1, FS_Product
<1>3. f \in [S -> T] /\ \A t \in T : \E q \in S : f[q] = t
  BY DEF CrossOf
<1>4. ASSUME NEW x \in S, NEW y \in S, f[x] = f[y] PROVE x = y
  <2>1. pair(x) = pair(y)
    BY <1>4
  <2>2. /\ pair(x).left = SlotOf(x[1], x[2][1][1], "plain", x[2][2])
        /\ pair(y).left = SlotOf(y[1], y[2][1][1], "plain", y[2][2])
        /\ pair(x).right = SlotOf(x[1], x[2][1][2], "roll", x[2][2])
        /\ pair(y).right = SlotOf(y[1], y[2][1][2], "roll", y[2][2])
    BY DEF CrossPair
  <2>3. /\ SlotOf(x[1], x[2][1][1], "plain", x[2][2])
             = SlotOf(y[1], y[2][1][1], "plain", y[2][2])
        /\ SlotOf(x[1], x[2][1][2], "roll", x[2][2])
             = SlotOf(y[1], y[2][1][2], "roll", y[2][2])
    BY <2>1, <2>2, Zenon
  <2>4. x[1] = y[1] /\ x[2][1][1] = y[2][1][1] /\ x[2][1][2] = y[2][1][2] /\ x[2][2] = y[2][2]
    BY <2>3 DEF SlotOf
  <2>5. /\ x[2][1] = <<x[2][1][1], x[2][1][2]>> /\ y[2][1] = <<y[2][1][1], y[2][1][2]>>
        /\ x[2] \in A \X F /\ y[2] \in A \X F
    BY DEF ArePairs
  <2>6. x[2][1] = y[2][1]
    BY <2>4, <2>5
  <2>7. x[2] = y[2]
    BY <2>4, <2>5, <2>6
  <2> QED BY <2>4, <2>7
<1> HIDE DEF f, T
<1>5. IsFiniteSet(T) /\ Cardinality(T) = Cardinality(S)
  <2> HIDE DEF S
  <2> QED BY <1>2, <1>3, <1>4, OneToOne
<1> QED BY <1>2, <1>5 DEF T

\* The pair of two subjects for a finger.
Cross(r, a, b, f) == CrossPair(<<SlotOf(r, a, "plain", f), SlotOf(r, b, "roll", f)>>)

LEMMA CrossIs ==
  ASSUME NEW r, NEW a, NEW b, NEW f
  PROVE  /\ Cross(r, a, b, f).id = <<SlotOf(r, a, "plain", f), SlotOf(r, b, "roll", f)>>
         /\ Cross(r, a, b, f).left = SlotOf(r, a, "plain", f)
         /\ Cross(r, a, b, f).right = SlotOf(r, b, "roll", f)
         /\ Cross(r, a, b, f).release = r
         /\ Cross(r, a, b, f).left.subject = a /\ Cross(r, a, b, f).right.subject = b
         /\ Cross(r, a, b, f).left.finger = f /\ Cross(r, a, b, f).right.finger = f
         /\ Cross(r, a, b, f).left.release = r /\ Cross(r, a, b, f).right.release = r
         /\ Cross(r, a, b, f).left.impression = "plain"
         /\ Cross(r, a, b, f).right.impression = "roll"
<1>1. \A x, i : /\ SlotOf(r, x, i, f).release = r /\ SlotOf(r, x, i, f).subject = x
                /\ SlotOf(r, x, i, f).finger = f /\ SlotOf(r, x, i, f).impression = i
  BY DEF SlotOf
<1>2. /\ Cross(r, a, b, f).id = <<SlotOf(r, a, "plain", f), SlotOf(r, b, "roll", f)>>
      /\ Cross(r, a, b, f).left = SlotOf(r, a, "plain", f)
      /\ Cross(r, a, b, f).right = SlotOf(r, b, "roll", f)
      /\ Cross(r, a, b, f).release = SlotOf(r, a, "plain", f).release
  BY DEF Cross, CrossPair
<1> QED BY <1>1, <1>2

LEMMA CrossesAre ==
  ASSUME NEW R, NEW A, NEW F, NEW p
  PROVE  p \in CrossOf(R, A, F)
           <=> \E r \in R, ab \in A, f \in F : p = Cross(r, ab[1], ab[2], f)
<1>1. ASSUME NEW q \in R \X (A \X F)
      PROVE  q[1] \in R /\ q[2][1] \in A /\ q[2][2] \in F
  OBVIOUS
<1>2. ASSUME NEW r \in R, NEW ab \in A, NEW f \in F
      PROVE  <<r, <<ab, f>>>> \in R \X (A \X F)
  OBVIOUS
<1>3. p \in CrossOf(R, A, F)
        <=> \E q \in R \X (A \X F) : p = Cross(q[1], q[2][1][1], q[2][1][2], q[2][2])
  BY DEF CrossOf, Cross
<1>4. \A r, ab, f : /\ <<r, <<ab, f>>>>[1] = r /\ <<r, <<ab, f>>>>[2][1] = ab
                    /\ <<r, <<ab, f>>>>[2][2] = f
  OBVIOUS
<1>5. ASSUME p \in CrossOf(R, A, F)
      PROVE  \E r \in R, ab \in A, f \in F : p = Cross(r, ab[1], ab[2], f)
  BY <1>1, <1>3, <1>5
<1>6. ASSUME NEW r \in R, NEW ab \in A, NEW f \in F, p = Cross(r, ab[1], ab[2], f)
      PROVE  p \in CrossOf(R, A, F)
  <2> DEFINE q == <<r, <<ab, f>>>>
  <2>1. q \in R \X (A \X F) /\ q[1] = r /\ q[2][1] = ab /\ q[2][2] = f
    BY <1>2, <1>4
  <2> HIDE DEF q
  <2> QED BY <1>3, <1>6, <2>1
<1> QED BY <1>5, <1>6

\* The pairs of a release, of a finger, of a subject on one side.
OfRelease(S, r) == {p \in S : p.release = r}
OfFinger(S, f) == {p \in S : p.left.finger = f}
OfSubject(S, side, r, s) == {p \in S : p.release = r /\ p[side].subject = s}
FirstIs(A, s) == {ab \in A : ab[1] = s}
SecondIs(A, s) == {ab \in A : ab[2] = s}

LEMMA SelectedBy ==
  ASSUME NEW s, NEW a, NEW b, NEW f
  PROVE  LET p == Cross(s, a, b, f) IN
         p.release = s /\ p.left.finger = f /\ p["left"].subject = a /\ p["right"].subject = b
BY CrossIs

LEMMA OfReleaseIs ==
  ASSUME NEW R, NEW A, NEW F, NEW r \in R
  PROVE  OfRelease(CrossOf(R, A, F), r) = CrossOf({r}, A, F)
<1> SUFFICES ASSUME NEW p PROVE p \in OfRelease(CrossOf(R, A, F), r) <=> p \in CrossOf({r}, A, F)
  OBVIOUS
<1>1. p \in CrossOf(R, A, F) <=> \E s \in R, ab \in A, f \in F : p = Cross(s, ab[1], ab[2], f)
  BY CrossesAre
<1>2. p \in CrossOf({r}, A, F) <=> \E s \in {r}, ab \in A, f \in F : p = Cross(s, ab[1], ab[2], f)
  BY CrossesAre
<1> QED BY <1>1, <1>2, SelectedBy DEF OfRelease

LEMMA OfFingerIs ==
  ASSUME NEW r, NEW A, NEW F, NEW f \in F
  PROVE  OfFinger(CrossOf({r}, A, F), f) = CrossOf({r}, A, {f})
<1> SUFFICES ASSUME NEW p PROVE p \in OfFinger(CrossOf({r}, A, F), f) <=> p \in CrossOf({r}, A, {f})
  OBVIOUS
<1>1. p \in CrossOf({r}, A, F) <=> \E s \in {r}, ab \in A, g \in F : p = Cross(s, ab[1], ab[2], g)
  BY CrossesAre
<1>2. p \in CrossOf({r}, A, {f})
        <=> \E s \in {r}, ab \in A, g \in {f} : p = Cross(s, ab[1], ab[2], g)
  BY CrossesAre
<1>3. ASSUME p \in CrossOf({r}, A, F), p.left.finger = f PROVE p \in CrossOf({r}, A, {f})
  <2>1. PICK ab \in A, g \in F : p = Cross(r, ab[1], ab[2], g)
    BY <1>1, <1>3
  <2>2. g = f
    BY <1>3, <2>1, SelectedBy
  <2> QED BY <1>2, <2>1, <2>2
<1>4. ASSUME p \in CrossOf({r}, A, {f}) PROVE p \in CrossOf({r}, A, F) /\ p.left.finger = f
  <2>1. PICK ab \in A : p = Cross(r, ab[1], ab[2], f)
    BY <1>2, <1>4
  <2> QED BY <1>1, <2>1, SelectedBy
<1> QED BY <1>3, <1>4 DEF OfFinger

LEMMA OfSubjectIs ==
  ASSUME NEW R, NEW A, NEW F, NEW r \in R, NEW s
  PROVE  /\ OfSubject(CrossOf(R, A, F), "left", r, s) = CrossOf({r}, FirstIs(A, s), F)
         /\ OfSubject(CrossOf(R, A, F), "right", r, s) = CrossOf({r}, SecondIs(A, s), F)
<1>1. ASSUME NEW p
      PROVE  /\ p \in OfSubject(CrossOf(R, A, F), "left", r, s)
                  <=> p \in CrossOf({r}, FirstIs(A, s), F)
             /\ p \in OfSubject(CrossOf(R, A, F), "right", r, s)
                  <=> p \in CrossOf({r}, SecondIs(A, s), F)
  <2>1. p \in CrossOf(R, A, F) <=> \E t \in R, ab \in A, f \in F : p = Cross(t, ab[1], ab[2], f)
    BY CrossesAre
  <2>2. p \in CrossOf({r}, FirstIs(A, s), F)
          <=> \E t \in {r}, ab \in FirstIs(A, s), f \in F : p = Cross(t, ab[1], ab[2], f)
    BY CrossesAre
  <2>3. p \in CrossOf({r}, SecondIs(A, s), F)
          <=> \E t \in {r}, ab \in SecondIs(A, s), f \in F : p = Cross(t, ab[1], ab[2], f)
    BY CrossesAre
  <2>4. \A t, a, b, f : LET q == Cross(t, a, b, f) IN
          q.release = t /\ q["left"].subject = a /\ q["right"].subject = b
    BY SelectedBy
  <2> QED BY <2>1, <2>2, <2>3, <2>4 DEF OfSubject, FirstIs, SecondIs
<1> QED BY <1>1

\* How many pairs there are of one release.
LEMMA HowManyOfARelease ==
  ASSUME NEW r, NEW A, NEW F, IsFiniteSet(A), IsFiniteSet(F),
         ArePairs(A)
  PROVE  Cardinality(CrossOf({r}, A, F)) = Cardinality(A) * Cardinality(F)
<1> DEFINE R == {r}
<1>1. IsFiniteSet(R) /\ Cardinality(R) = 1
  BY FS_Singleton
<1> HIDE DEF R
<1>2. Cardinality(A) \in Nat /\ Cardinality(F) \in Nat
  BY FS_CardinalityType
<1>3. Cardinality(CrossOf(R, A, F)) = Cardinality(R) * (Cardinality(A) * Cardinality(F))
  BY <1>1, HowManyCrossPairs
<1>4. \A x \in Nat, y \in Nat : 1 * (x * y) = x * y
  OBVIOUS
<1> QED BY <1>1, <1>2, <1>3, <1>4 DEF R

LEMMA ReleaseCounts ==
  ASSUME NEW A, IsFiniteSet(A), ArePairs(A), NEW F, IsFiniteSet(F), NEW R, NEW r \in R
  PROVE  Cardinality(OfRelease(CrossOf(R, A, F), r)) = Cardinality(A) * Cardinality(F)
<1>1. OfRelease(CrossOf(R, A, F), r) = CrossOf({r}, A, F)
  BY OfReleaseIs
<1>2. Cardinality(CrossOf({r}, A, F)) = Cardinality(A) * Cardinality(F)
  BY HowManyOfARelease
<1> QED BY <1>1, <1>2

LEMMA FingerCounts ==
  ASSUME NEW A, IsFiniteSet(A), ArePairs(A), NEW F, NEW R, NEW r \in R, NEW f \in F
  PROVE  Cardinality(OfFinger(OfRelease(CrossOf(R, A, F), r), f)) = Cardinality(A) * 1
<1>1. OfRelease(CrossOf(R, A, F), r) = CrossOf({r}, A, F)
  BY OfReleaseIs
<1>2. OfFinger(CrossOf({r}, A, F), f) = CrossOf({r}, A, {f})
  BY OfFingerIs
<1> DEFINE G == {f}
<1>3. IsFiniteSet(G)
  BY FS_Singleton
<1>4. Cardinality(G) = 1
  BY FS_Singleton
<1> HIDE DEF G
<1>5. Cardinality(CrossOf({r}, A, G)) = Cardinality(A) * Cardinality(G)
  BY <1>3, HowManyOfARelease
<1> QED BY <1>1, <1>2, <1>4, <1>5 DEF G

LEMMA SubjectCounts ==
  ASSUME NEW A, ArePairs(A), NEW F, IsFiniteSet(F), NEW R, NEW r \in R, NEW s,
         IsFiniteSet(FirstIs(A, s)), IsFiniteSet(SecondIs(A, s))
  PROVE  /\ Cardinality(OfSubject(CrossOf(R, A, F), "left", r, s))
              = Cardinality(FirstIs(A, s)) * Cardinality(F)
         /\ Cardinality(OfSubject(CrossOf(R, A, F), "right", r, s))
              = Cardinality(SecondIs(A, s)) * Cardinality(F)
<1>1. /\ OfSubject(CrossOf(R, A, F), "left", r, s) = CrossOf({r}, FirstIs(A, s), F)
      /\ OfSubject(CrossOf(R, A, F), "right", r, s) = CrossOf({r}, SecondIs(A, s), F)
  BY OfSubjectIs
<1>2. ArePairs(FirstIs(A, s)) /\ ArePairs(SecondIs(A, s))
  BY DEF ArePairs, FirstIs, SecondIs
<1>3. Cardinality(CrossOf({r}, FirstIs(A, s), F)) = Cardinality(FirstIs(A, s)) * Cardinality(F)
  BY <1>2, HowManyOfARelease
<1>4. Cardinality(CrossOf({r}, SecondIs(A, s), F)) = Cardinality(SecondIs(A, s)) * Cardinality(F)
  BY <1>2, HowManyOfARelease
<1> QED BY <1>1, <1>3, <1>4

LEMMA Products ==
  ASSUME NEW n \in Nat, NEW k \in Nat, NEW r \in Nat
  PROVE  /\ r * ((n * (n - 1)) * k) = n * (n - 1) * k * r
         /\ (n * (n - 1)) * 1 = n * (n - 1)
<1> DEFINE m == n * (n - 1)
<1>1. m \in Int
  OBVIOUS
<1> HIDE DEF m
<1>2. r * (m * k) = m * k * r /\ m * 1 = m
  BY <1>1
<1> QED BY <1>2 DEF m

\* What the audit counts in the cross product of two subjects.
LEMMA CrossCounts ==
  ASSUME NEW R, IsFiniteSet(R), NEW C, IsFiniteSet(C), NEW F, IsFiniteSet(F),
         NEW n, n = Cardinality(C), NEW k, k = Cardinality(F),
         NEW A, A = PairsOfTwo(C), NEW S, S = CrossOf(R, A, F)
  PROVE  /\ IsFiniteSet(S) /\ Cardinality(S) = n * (n - 1) * k * Cardinality(R)
         /\ \A r \in R : Cardinality(OfRelease(S, r)) = n * (n - 1) * k
         /\ \A r \in R, f \in F : Cardinality(OfFinger(OfRelease(S, r), f)) = n * (n - 1)
         /\ \A r \in R, s \in C : /\ Cardinality(OfSubject(S, "left", r, s)) = (n - 1) * k
                                  /\ Cardinality(OfSubject(S, "right", r, s)) = (n - 1) * k
<1>1. n \in Nat /\ k \in Nat /\ Cardinality(R) \in Nat
  BY FS_CardinalityType
<1>2. IsFiniteSet(A) /\ Cardinality(A) = n * (n - 1)
  BY HowManyPairsOfTwo
<1>3. ArePairs(A)
  BY DEF PairsOfTwo, ArePairs
<1>4. IsFiniteSet(S) /\ Cardinality(S) = n * (n - 1) * k * Cardinality(R)
  <2>1. IsFiniteSet(S) /\ Cardinality(S) = Cardinality(R) * (Cardinality(A) * Cardinality(F))
    BY <1>2, <1>3, HowManyCrossPairs
  <2>2. Cardinality(R) * ((n * (n - 1)) * k) = n * (n - 1) * k * Cardinality(R)
    BY <1>1, Products
  <2> QED BY <1>2, <2>1, <2>2, Zenon
<1>6. ASSUME NEW r \in R
      PROVE  Cardinality(OfRelease(S, r)) = n * (n - 1) * k
  <2>1. Cardinality(OfRelease(S, r)) = Cardinality(A) * Cardinality(F)
    BY <1>2, <1>3, ReleaseCounts
  <2> QED BY <1>2, <2>1, Zenon
<1>7. ASSUME NEW r \in R, NEW f \in F
      PROVE  Cardinality(OfFinger(OfRelease(S, r), f)) = n * (n - 1)
  <2>1. Cardinality(OfFinger(OfRelease(S, r), f)) = Cardinality(A) * 1
    BY <1>2, <1>3, FingerCounts
  <2>2. (n * (n - 1)) * 1 = n * (n - 1)
    BY <1>1, Products
  <2> QED BY <1>2, <2>1, <2>2, Zenon
<1>8. ASSUME NEW r \in R, NEW s \in C
      PROVE  /\ Cardinality(OfSubject(S, "left", r, s)) = (n - 1) * k
             /\ Cardinality(OfSubject(S, "right", r, s)) = (n - 1) * k
  <2>1. /\ IsFiniteSet(FirstIs(A, s)) /\ IsFiniteSet(SecondIs(A, s))
        /\ Cardinality(FirstIs(A, s)) = n - 1 /\ Cardinality(SecondIs(A, s)) = n - 1
    BY HowManyPairsOfTwo DEF FirstIs, SecondIs
  <2>2. /\ Cardinality(OfSubject(S, "left", r, s)) = Cardinality(FirstIs(A, s)) * Cardinality(F)
        /\ Cardinality(OfSubject(S, "right", r, s)) = Cardinality(SecondIs(A, s)) * Cardinality(F)
    BY <1>3, <2>1, SubjectCounts
  <2> QED BY <2>1, <2>2, Zenon
<1> QED BY <1>4, <1>6, <1>7, <1>8

USE ProtocolAssumption DEF ProtocolAssumption

-----------------------------------------------------------------------------
(* Protocol: the invariant.                                                 *)

InputsFit ==
  /\ releases \in SUBSET DatasetReleases
  /\ rank \in [Subjects -> Subjects] /\ \A s, t \in Subjects : rank[s] = rank[t] => s = t
  /\ DOMAIN flawed \subseteq Slot /\ allTen \in SUBSET Impressions

\* What was drawn is eligible and as many as were asked for.
CohortFits == cohort \in SUBSET EligibleSubjects /\ Cardinality(cohort) = CohortSize

\* What can be stored as a cross-subject pair.
CrossRecord == [id : Slot \X Slot, release : DatasetReleases, left : Slot, right : Slot]

ProtocolInv ==
  /\ protocolAt \in {"inputs", "images", "cohort", "pairs", "roster", "refused", "broken"}
  /\ InputsFit
  /\ IF protocolAt \in {"cohort", "pairs", "roster", "broken"} THEN CohortFits ELSE cohort = {}
  /\ protocolAt = "broken" => IndexBreaks \/ Missing
  /\ stages \in SUBSET ProtocolStages
  /\ IF protocolAt = "pairs"
       THEN \E plan \in Plans : stages = plan.stages /\ pairs = PairsOf(plan.stages, plan.shift)
       ELSE pairs = {}
  /\ IF protocolAt = "roster" THEN roster \in SUBSET CrossRecord ELSE roster = {}

LEMMA SubjectsAreFinite == IsFiniteSet(Subjects) /\ IsFiniteSet(Fingers)
                             /\ Cardinality(Fingers) = NFingers
BY FS_Interval DEF Subjects, Fingers

LEMMA EligibleAreSubjects == EligibleSubjects \in SUBSET Subjects /\ IsFiniteSet(EligibleSubjects)
BY SubjectsAreFinite, FS_Subset DEF EligibleSubjects

\* Drawing gives a cohort of the size that was asked for, whatever the ranking.
LEMMA DrawnFits ==
  ASSUME InputsFit, Cardinality(EligibleSubjects) >= CohortSize
  PROVE  /\ Drawn(EligibleSubjects) \in SUBSET EligibleSubjects
         /\ Cardinality(Drawn(EligibleSubjects)) = CohortSize
<1> DEFINE E == EligibleSubjects
           f == [s \in E |-> rank[s]]
<1>1. IsFiniteSet(E) /\ E \in SUBSET Subjects
  BY EligibleAreSubjects
<1>2. /\ f \in [E -> Int] /\ \A x, y \in E : f[x] = f[y] => x = y
      /\ \A x \in E : f[x] = rank[x]
  BY <1>1 DEF InputsFit, Subjects
<1>3. CohortSize \in Nat /\ CohortSize <= Cardinality(E)
  BY <1>1, FS_CardinalityType
<1>4. \A x \in E : {t \in E : rank[t] < rank[x]} = {y \in E : f[y] < f[x]}
  BY <1>2
<1> HIDE DEF E, f
<1>5. Cardinality({x \in E : Before(E, f, x) < CohortSize}) = CohortSize
  BY <1>1, <1>2, <1>3, FirstOfRanking
<1>6. Drawn(E) = {x \in E : Before(E, f, x) < CohortSize}
  BY <1>4 DEF Drawn, Before
<1> QED BY <1>5, <1>6 DEF E

LEMMA InputsAreKept ==
  ASSUME InputsFit, UNCHANGED protocolInputs
  PROVE  /\ InputsFit' /\ EligibleSubjects' = EligibleSubjects
         /\ IndexBreaks' = IndexBreaks
         /\ UNCHANGED cohort => Missing' = Missing /\ CohortFits' = CohortFits
<1>1. UNCHANGED <<releases, allTen, rank, flawed, away, slaps>>
  BY DEF protocolInputs
<1>2. InputsFit'
  BY <1>1 DEF InputsFit
<1>3. \A slot : Flaw(slot)' = Flaw(slot) /\ Usable(slot)' = Usable(slot)
  BY <1>1 DEF Flaw, Usable
<1>4. IndexBreaks' = IndexBreaks
  BY <1>3 DEF IndexBreaks
<1>5. \A r, s : HasRecord(r, s)' = HasRecord(r, s) /\ IsComplete(r, s)' = IsComplete(r, s)
  BY <1>1, <1>3 DEF HasRecord, IsComplete, Positions
<1>6. EligibleSubjects' = EligibleSubjects
  BY <1>1, <1>5 DEF EligibleSubjects
<1>7. UNCHANGED cohort => Missing' = Missing /\ CohortFits' = CohortFits
  BY <1>1, <1>3, <1>6 DEF Missing, CohortFits
<1> QED BY <1>2, <1>4, <1>6, <1>7

LEMMA SlotsAre ==
  /\ \A r \in DatasetReleases, x \in Subjects, i \in Impressions, f \in Fingers :
       SlotOf(r, x, i, f) \in Slot
  /\ \A id \in Slot \X Slot : CrossPair(id) \in CrossRecord
BY DEF SlotOf, Slot, CrossPair, CrossRecord

LEMMA GeneratedAreRecords ==
  ASSUME InputsFit, cohort \in SUBSET Subjects
  PROVE  Generated \in SUBSET CrossRecord
<1>1. \A r \in releases, x \in cohort, i \in Impressions, f \in Fingers :
        SlotOf(r, x, i, f) \in Slot
  BY SlotsAre DEF InputsFit
<1>2. CrossIds \in SUBSET (Slot \X Slot)
  BY <1>1 DEF CrossIds, Impressions
<1> QED BY <1>2, SlotsAre DEF Generated

LEMMA CohortsAreSubjects ==
  ASSUME ProtocolInv PROVE cohort \in SUBSET Subjects
BY EligibleAreSubjects DEF ProtocolInv, CohortFits

\* A pair of a roster that is read back may be any pair there is.
LEMMA AlteredAreRecords ==
  ASSUME ProtocolInv, AlterRoster PROVE roster' \in SUBSET CrossRecord
<1>1. roster \in SUBSET CrossRecord
  BY DEF ProtocolInv, AlterRoster
<1>2. PICK p \in roster :
       \/ roster' \in {roster \ {p}} \cup {roster \cup {[p EXCEPT !.left = s]} : s \in Slot}
       \/ \E q \in {[p EXCEPT !.right = s] : s \in Slot}
                     \cup {CrossPair(<<s, p.right>>) : s \in Slot}
                     \cup {CrossPair(<<p.left, s>>) : s \in Slot}
                     \cup {[p EXCEPT !.release = r] : r \in DatasetReleases} :
            roster' = (roster \ {p}) \cup {q}
  BY DEF AlterRoster
<1>3. p \in CrossRecord /\ p.left \in Slot /\ p.right \in Slot
  BY <1>1 DEF CrossRecord
<1>4. /\ \A s \in Slot : /\ [p EXCEPT !.left = s] \in CrossRecord
                         /\ [p EXCEPT !.right = s] \in CrossRecord
                         /\ CrossPair(<<s, p.right>>) \in CrossRecord
                         /\ CrossPair(<<p.left, s>>) \in CrossRecord
      /\ \A r \in DatasetReleases : [p EXCEPT !.release = r] \in CrossRecord
  <2>1. ASSUME NEW s \in Slot
        PROVE  CrossPair(<<s, p.right>>) \in CrossRecord /\ CrossPair(<<p.left, s>>) \in CrossRecord
    BY <1>3, SlotsAre
  <2>2. ASSUME NEW s \in Slot
        PROVE  [p EXCEPT !.left = s] \in CrossRecord /\ [p EXCEPT !.right = s] \in CrossRecord
    BY <1>3 DEF CrossRecord
  <2>3. ASSUME NEW r \in DatasetReleases PROVE [p EXCEPT !.release = r] \in CrossRecord
    BY <1>3 DEF CrossRecord
  <2> QED BY <2>1, <2>2, <2>3
<1>5. CASE roster' = roster \ {p}
  BY <1>1, <1>5
<1>6. ASSUME NEW s \in Slot, roster' = roster \cup {[p EXCEPT !.left = s]}
      PROVE  roster' \in SUBSET CrossRecord
  BY <1>1, <1>4, <1>6
<1>7. ASSUME NEW q \in CrossRecord, roster' = (roster \ {p}) \cup {q}
      PROVE  roster' \in SUBSET CrossRecord
  BY <1>1, <1>7
<1> QED BY <1>2, <1>4, <1>5, <1>6, <1>7

LEMMA ProtocolInitially == ProtocolInit => ProtocolInv
BY DEF ProtocolInit, ProtocolInv, InputsFit

LEMMA ProtocolStep == ProtocolInv /\ [ProtocolNext]_protocolVars => ProtocolInv'
<1> SUFFICES ASSUME ProtocolInv, [ProtocolNext]_protocolVars PROVE ProtocolInv'
  OBVIOUS
<1>0. InputsFit /\ cohort \in SUBSET Subjects
  BY CohortsAreSubjects DEF ProtocolInv
<1>1. CASE Deliver
  <2>1. PICK n \in 0..MaxFlaws : \E slots \in [1..n -> Slot] :
          flawed' \in [{slots[i] : i \in 1..n} -> {"absent", "unusable", "twice"}]
    BY <1>1 DEF Deliver
  <2>2. DOMAIN flawed' \subseteq Slot
    BY <2>1
  <2>3. InputsFit'
    BY <1>1, <2>2 DEF Deliver, InputsFit
  <2> QED BY <1>1, <2>3 DEF Deliver, ProtocolInv
<1>2. CASE SelectCohort
  <2>1. InputsFit'
    BY <1>0, <1>2, InputsAreKept DEF SelectCohort
  <2>2. CASE Cardinality(EligibleSubjects) < CohortSize
    BY <1>2, <2>1, <2>2 DEF SelectCohort, ProtocolInv
  <2>3. CASE ~(Cardinality(EligibleSubjects) < CohortSize)
    <3>1. Cardinality(EligibleSubjects) \in Nat
      BY EligibleAreSubjects, FS_CardinalityType
    <3>2. Cardinality(EligibleSubjects) >= CohortSize
      BY <2>3, <3>1
    <3>3. /\ cohort' = Drawn(EligibleSubjects) /\ protocolAt' = "cohort"
          /\ EligibleSubjects' = EligibleSubjects
      BY <1>0, <1>2, <2>3, InputsAreKept DEF SelectCohort
    <3>4. CohortFits'
      BY <1>0, <3>2, <3>3, DrawnFits DEF CohortFits
    <3> QED BY <1>2, <2>1, <3>3, <3>4 DEF SelectCohort, ProtocolInv
  <2> QED BY <2>2, <2>3
<1>3. CASE GeneratePairs
  <2>1. /\ InputsFit' /\ Missing' = Missing /\ CohortFits' = CohortFits
        /\ IndexBreaks' = IndexBreaks /\ CohortFits
    BY <1>0, <1>3, InputsAreKept DEF GeneratePairs, ProtocolInv
  <2>2. PICK plan \in Plans :
          /\ stages' = plan.stages
          /\ IF IndexBreaks \/ Missing
               THEN protocolAt' = "broken" /\ UNCHANGED pairs
               ELSE protocolAt' = "pairs" /\ pairs' = PairsOf(plan.stages, plan.shift)
    BY <1>3 DEF GeneratePairs
  <2>3. /\ PairsOf(plan.stages, plan.shift)' = PairsOf(plan.stages, plan.shift)
        /\ stages' \in SUBSET ProtocolStages
    BY <1>3, <2>2 DEF GeneratePairs, protocolInputs, PairsOf, Plans
  <2>4. CASE IndexBreaks \/ Missing
    BY <1>3, <2>1, <2>2, <2>3, <2>4 DEF GeneratePairs, ProtocolInv
  <2>5. CASE ~(IndexBreaks \/ Missing)
    <3>1. protocolAt' = "pairs" /\ pairs' = PairsOf(plan.stages, plan.shift)'
      BY <2>2, <2>3, <2>5
    <3>2. UNCHANGED <<cohort, roster>> /\ protocolAt = "cohort"
      BY <1>3 DEF GeneratePairs
    <3> QED BY <2>1, <2>2, <2>3, <3>1, <3>2 DEF ProtocolInv
  <2> QED BY <2>4, <2>5
<1>4. CASE GenerateCrossSubjectPairs
  <2>1. /\ InputsFit' /\ Missing' = Missing /\ CohortFits' = CohortFits
        /\ IndexBreaks' = IndexBreaks /\ CohortFits
    BY <1>0, <1>4, InputsAreKept DEF GenerateCrossSubjectPairs, ProtocolInv
  <2>2. Generated \in SUBSET CrossRecord
    BY <1>0, GeneratedAreRecords
  <2> QED BY <1>4, <2>1, <2>2 DEF GenerateCrossSubjectPairs, ProtocolInv
<1>5. CASE AlterRoster
  <2>1. /\ InputsFit' /\ CohortFits' = CohortFits /\ CohortFits
    BY <1>0, <1>5, InputsAreKept DEF AlterRoster, ProtocolInv
  <2>2. roster' \in SUBSET CrossRecord
    BY <1>5, AlteredAreRecords
  <2>3. /\ protocolAt = "roster" /\ protocolAt' = "roster" /\ UNCHANGED <<cohort, stages, pairs>>
    BY <1>5 DEF AlterRoster
  <2> QED BY <2>1, <2>2, <2>3 DEF ProtocolInv
<1>6. CASE UNCHANGED protocolVars
  <2>1. UNCHANGED <<protocolAt, protocolInputs, cohort, stages, pairs, roster>>
    BY <1>6 DEF protocolVars
  <2>2. /\ InputsFit' /\ Missing' = Missing /\ CohortFits' = CohortFits
        /\ IndexBreaks' = IndexBreaks
    BY <1>0, <2>1, InputsAreKept
  <2>3. \A enabled, shift : PairsOf(enabled, shift)' = PairsOf(enabled, shift)
    BY <2>1 DEF protocolInputs, PairsOf
  <2> QED BY <2>1, <2>2, <2>3 DEF ProtocolInv
<1> QED BY <1>1, <1>2, <1>3, <1>4, <1>5, <1>6 DEF ProtocolNext

LEMMA ProtocolInvariant == ProtocolSpec => []ProtocolInv
BY ProtocolInitially, ProtocolStep, PTL DEF ProtocolSpec

-----------------------------------------------------------------------------
(* Protocol: the properties.                                                *)

LEMMA RemainderIs ==
  ASSUME NEW a \in Nat, NEW n \in Nat \ {0}
  PROVE  /\ a % n \in 0..(n - 1) /\ a \div n \in Nat
         /\ a = n * (a \div n) + (a % n)
OBVIOUS

LEMMA NearMultiples ==
  ASSUME NEW n \in Nat \ {0}, NEW p \in Int, NEW q \in Int, NEW d \in Int,
         n * p = n * q + d, d < n, -n < d
  PROVE  d = 0
<1>1. n * (p - q) = d
  OBVIOUS
<1>2. CASE p - q >= 1
  <2>1. n * (p - q) >= n
    BY <1>2
  <2> QED BY <1>1, <2>1
<1>3. CASE p - q <= -1
  <2>1. n * (p - q) <= -n
    BY <1>3
  <2> QED BY <1>1, <2>1
<1>4. CASE p - q = 0
  BY <1>1, <1>4
<1> QED BY <1>2, <1>3, <1>4

LEMMA Division ==
  ASSUME NEW a \in Nat, NEW n \in Nat \ {0}
  PROVE  \E q \in Nat : \E r \in 0..(n - 1) : a = n * q + r /\ r = a % n
BY RemainderIs

LEMMA ShiftNeverJoins ==
  ASSUME NEW n \in Nat \ {0}, NEW s \in Nat, NEW f \in 1..n, NEW g \in 1..n,
         (f - 1 + s) % n = (g - 1 + s) % n
  PROVE  f = g
<1>1. f - 1 + s \in Nat /\ g - 1 + s \in Nat
  OBVIOUS
<1>2. PICK p \in Nat : \E r \in 0..(n - 1) : f - 1 + s = n * p + r /\ r = (f - 1 + s) % n
  BY <1>1, Division
<1>3. PICK q \in Nat : \E r \in 0..(n - 1) : g - 1 + s = n * q + r /\ r = (g - 1 + s) % n
  BY <1>1, Division
<1>4. PICK r \in 0..(n - 1) : f - 1 + s = n * p + r /\ r = (f - 1 + s) % n
  BY <1>2
<1>5. g - 1 + s = n * q + r
  BY <1>3, <1>4
<1>6. n * p = n * q + (f - g) /\ f - g \in Int /\ f - g < n /\ -n < f - g
  BY <1>4, <1>5
<1>7. f - g = 0
  BY <1>6, NearMultiples
<1> QED BY <1>7

LEMMA ShiftNeverFixes ==
  ASSUME NEW n \in Nat \ {0}, NEW s \in Nat, NEW f \in 1..n, (f - 1 + s) % n = f - 1
  PROVE  s % n = 0
<1>1. f - 1 + s \in Nat
  OBVIOUS
<1>2. PICK p \in Nat : \E r \in 0..(n - 1) : f - 1 + s = n * p + r /\ r = (f - 1 + s) % n
  BY <1>1, Division
<1>3. s = n * p
  BY <1>2
<1>4. PICK q \in Nat : \E r \in 0..(n - 1) : s = n * q + r /\ r = s % n
  BY Division
<1>5. PICK r \in 0..(n - 1) : s = n * q + r /\ r = s % n
  BY <1>4
<1>6. n * p = n * q + r
  BY <1>3, <1>5, Zenon
<1>8. r \in Int /\ r < n /\ -n < r
  OBVIOUS
<1>7. r = 0
  BY <1>6, <1>8, NearMultiples
<1> QED BY <1>5, <1>7

\* Shifting moves every finger to another one, no two to the same.
LEMMA ShiftedIs ==
  ASSUME NEW shift \in 1..(NFingers + 1), shift % NFingers # 0
  PROVE  /\ \A f \in Fingers : Shifted(f, shift) \in Fingers /\ Shifted(f, shift) # f
         /\ \A f, g \in Fingers : Shifted(f, shift) = Shifted(g, shift) => f = g
<1>1. shift \in Nat /\ NFingers \in Nat \ {0}
  OBVIOUS
<1>2. ASSUME NEW f \in Fingers
      PROVE  (f - 1 + shift) % NFingers \in 0..(NFingers - 1) /\ f \in 1..NFingers
  <2>1. f \in 1..NFingers /\ f - 1 + shift \in Nat
    BY DEF Fingers
  <2> QED BY <2>1, RemainderIs
<1>3. ASSUME NEW f \in Fingers
      PROVE  Shifted(f, shift) \in Fingers /\ Shifted(f, shift) # f
  <2>1. (f - 1 + shift) % NFingers # f - 1
    BY <1>1, <1>2, ShiftNeverFixes
  <2> QED BY <1>2, <2>1 DEF Shifted, Fingers
<1>4. ASSUME NEW f \in Fingers, NEW g \in Fingers, Shifted(f, shift) = Shifted(g, shift)
      PROVE  f = g
  <2>1. (f - 1 + shift) % NFingers = (g - 1 + shift) % NFingers
    BY <1>2, <1>4 DEF Shifted
  <2> QED BY <1>1, <1>2, <2>1, ShiftNeverJoins
<1> QED BY <1>3, <1>4

LEMMA CriteriaAreFinite ==
  ASSUME ProtocolInv
  PROVE  /\ IsFiniteSet(releases) /\ Cardinality(releases) \in Nat
         /\ IsFiniteSet(cohort) /\ Cardinality(cohort) \in Nat /\ cohort \in SUBSET Subjects
<1>1. cohort \in SUBSET Subjects /\ releases \in SUBSET DatasetReleases
  BY CohortsAreSubjects DEF ProtocolInv, InputsFit
<1> QED BY <1>1, SubjectsAreFinite, FS_Subset, FS_CardinalityType

\* A cohort has every image of an impression that its criteria ask for.
LEMMA CohortsArePairable == ProtocolInv => CohortIsPairable
<1> SUFFICES ASSUME ProtocolInv, ~IndexBreaks, protocolAt = "broken"
             PROVE  \E slot \in Slot : /\ slot.release \in releases /\ slot.subject \in cohort
                                      /\ slot.impression \notin allTen /\ ~Usable(slot)
  BY DEF CohortIsPairable
<1>1. Missing /\ cohort \in SUBSET EligibleSubjects /\ cohort \in SUBSET Subjects
  BY CohortsAreSubjects DEF ProtocolInv, CohortFits
<1>2. PICK slot \in Slot : slot.release \in releases /\ slot.subject \in cohort /\ ~Usable(slot)
  BY <1>1 DEF Missing
<1>3. IsComplete(slot.release, slot.subject)
  BY <1>1, <1>2 DEF EligibleSubjects
<1>4. /\ slot.impression \in Impressions /\ slot.finger \in Fingers
      /\ slot = SlotOf(slot.release, slot.subject, slot.impression, slot.finger)
  BY DEF Slot, SlotOf
<1>5. CASE slot.impression \in allTen
  <2>1. Usable(SlotOf(slot.release, slot.subject, slot.impression, slot.finger))
    BY <1>3, <1>4, <1>5 DEF IsComplete, Positions
  <2> QED BY <1>2, <1>4, <2>1
<1> QED BY <1>2, <1>5

\* The same-subject impostor of a finger.
ImpostorOf(q, shift) ==
  PairOf(SlotOf(q[1], q[2][1], "plain", q[2][2]),
         SlotOf(q[1], q[2][1], "roll", Shifted(q[2][2], shift)), "non_mated")

\* What a pair of the finger f of a plan can be.
PairLike(p, enabled, shift, r, x, f) ==
  \/ p = PairOf(SlotOf(r, x, "plain", f), SlotOf(r, x, "plain", f), "plain_self")
  \/ p = PairOf(SlotOf(r, x, "roll", f), SlotOf(r, x, "roll", f), "roll_self")
  \/ p = PairOf(SlotOf(r, x, "plain", f), SlotOf(r, x, "roll", f), "mated")
  \/ "non_mated" \in enabled /\ p = ImpostorOf(<<r, <<x, f>>>>, shift)

LEMMA PairsAre ==
  ASSUME NEW enabled \in SUBSET ProtocolStages, NEW shift
  PROVE  /\ \A p \in PairsOf(enabled, shift) :
              \E r \in releases, x \in cohort, f \in Fingers :
                PairLike(p, enabled, shift, r, x, f)
         /\ "non_mated" \in enabled =>
              \A r \in releases, x \in cohort, f \in Fingers :
                ImpostorOf(<<r, <<x, f>>>>, shift) \in PairsOf(enabled, shift)
<1>1. \A r, x, f :
        /\ PairOfStage(r, x, f, "plain_self", shift)
             = PairOf(SlotOf(r, x, "plain", f), SlotOf(r, x, "plain", f), "plain_self")
        /\ PairOfStage(r, x, f, "roll_self", shift)
             = PairOf(SlotOf(r, x, "roll", f), SlotOf(r, x, "roll", f), "roll_self")
        /\ PairOfStage(r, x, f, "mated", shift)
             = PairOf(SlotOf(r, x, "plain", f), SlotOf(r, x, "roll", f), "mated")
        /\ PairOfStage(r, x, f, "non_mated", shift) = ImpostorOf(<<r, <<x, f>>>>, shift)
  BY DEF PairOfStage, ImpostorOf
<1>2. \A p : p \in PairsOf(enabled, shift) <=>
        \E r \in releases, x \in cohort, f \in Fingers, st \in enabled :
          p = PairOfStage(r, x, f, st, shift)
  BY DEF PairsOf
<1>3. ASSUME NEW r, NEW x, NEW f, NEW st \in enabled
      PROVE  PairLike(PairOfStage(r, x, f, st, shift), enabled, shift, r, x, f)
  <2>1. st \in {"plain_self", "roll_self", "mated", "non_mated"}
    BY DEF ProtocolStages
  <2>2. CASE st = "plain_self"
    BY <1>1, <2>2 DEF PairLike
  <2>3. CASE st = "roll_self"
    BY <1>1, <2>3 DEF PairLike
  <2>4. CASE st = "mated"
    BY <1>1, <2>4 DEF PairLike
  <2>5. CASE st = "non_mated"
    <3>1. "non_mated" \in enabled
      BY <2>5
    <3> QED BY <1>1, <2>5, <3>1 DEF PairLike
  <2> QED BY <2>1, <2>2, <2>3, <2>4, <2>5
<1>4. ASSUME NEW p \in PairsOf(enabled, shift)
      PROVE  \E r \in releases, x \in cohort, f \in Fingers :
               PairLike(p, enabled, shift, r, x, f)
  BY <1>2, <1>3
<1> QED BY <1>1, <1>2, <1>4

LEMMA ImpostorsAre ==
  ASSUME NEW enabled \in SUBSET ProtocolStages, NEW shift
  PROVE  {p \in PairsOf(enabled, shift) : p.truth = "non_mated"}
           = IF "non_mated" \in enabled
               THEN {ImpostorOf(q, shift) : q \in releases \X (cohort \X Fingers)} ELSE {}
<1>1. \A q : ImpostorOf(q, shift).truth = "non_mated"
  BY DEF ImpostorOf, PairOf
<1>2. \A l, r, t : t \in {"plain_self", "roll_self", "mated"} => PairOf(l, r, t).truth = "mated"
  BY DEF PairOf
<1>3. ASSUME NEW p \in PairsOf(enabled, shift), p.truth = "non_mated"
      PROVE  /\ "non_mated" \in enabled
             /\ \E q \in releases \X (cohort \X Fingers) : p = ImpostorOf(q, shift)
  <2>1. PICK r \in releases, x \in cohort, f \in Fingers : PairLike(p, enabled, shift, r, x, f)
    BY PairsAre
  <2>2. "non_mated" \in enabled /\ p = ImpostorOf(<<r, <<x, f>>>>, shift)
    BY <1>2, <1>3, <2>1 DEF PairLike
  <2>3. <<r, <<x, f>>>> \in releases \X (cohort \X Fingers)
    OBVIOUS
  <2> QED BY <2>2, <2>3
<1>4. ASSUME "non_mated" \in enabled, NEW q \in releases \X (cohort \X Fingers)
      PROVE  ImpostorOf(q, shift) \in PairsOf(enabled, shift)
  <2>1. q = <<q[1], <<q[2][1], q[2][2]>>>> /\ q[1] \in releases /\ q[2][1] \in cohort
        /\ q[2][2] \in Fingers
    OBVIOUS
  <2>2. ImpostorOf(<<q[1], <<q[2][1], q[2][2]>>>>, shift) \in PairsOf(enabled, shift)
    BY <1>4, <2>1, PairsAre
  <2> QED BY <2>1, <2>2
<1>5. CASE "non_mated" \in enabled
  BY <1>1, <1>3, <1>4, <1>5
<1>6. CASE "non_mated" \notin enabled
  BY <1>3, <1>6
<1> QED BY <1>5, <1>6

LEMMA ImpostorSlots ==
  ASSUME NEW shift, NEW q
  PROVE  LET p == ImpostorOf(q, shift) IN
         /\ p.left = SlotOf(q[1], q[2][1], "plain", q[2][2])
         /\ p.right = SlotOf(q[1], q[2][1], "roll", Shifted(q[2][2], shift))
BY DEF ImpostorOf, PairOf

LEMMA SlotsDiffer ==
  ASSUME NEW r, NEW x, NEW i, NEW f, NEW s, NEW y, NEW j, NEW g,
         SlotOf(r, x, i, f) = SlotOf(s, y, j, g)
  PROVE  r = s /\ x = y /\ i = j /\ f = g
BY DEF SlotOf

\* Of the impostors of two fingers neither image is the same.
LEMMA ImpostorsDiffer ==
  ASSUME NEW shift \in 1..(NFingers + 1), shift % NFingers # 0, NEW R, NEW C,
         NEW p \in R \X (C \X Fingers), NEW q \in R \X (C \X Fingers),
         \/ ImpostorOf(p, shift).left = ImpostorOf(q, shift).left
         \/ ImpostorOf(p, shift).right = ImpostorOf(q, shift).right
  PROVE  p = q
<1>1. p[2] \in C \X Fingers /\ q[2] \in C \X Fingers /\ p[2][2] \in Fingers /\ q[2][2] \in Fingers
  OBVIOUS
<1>2. /\ p[1] = q[1] /\ p[2][1] = q[2][1]
      /\ p[2][2] = q[2][2] \/ Shifted(p[2][2], shift) = Shifted(q[2][2], shift)
  BY ImpostorSlots, SlotsDiffer
<1>3. p[2][2] = q[2][2]
  BY <1>1, <1>2, ShiftedIs
<1>4. p[2] = q[2]
  BY <1>1, <1>2, <1>3
<1> QED BY <1>2, <1>4

\* The shift of a plan that makes impostors moves every finger.
LEMMA ShiftsMove ==
  ASSUME NEW plan \in Plans, "non_mated" \in plan.stages
  PROVE  plan.shift \in 1..(NFingers + 1) /\ plan.shift % NFingers # 0
<1>1. plan.shift \in 0..(NFingers + 1) /\ plan.shift % NFingers # 0
  BY DEF Plans
<1>2. 0 % NFingers = 0
  OBVIOUS
<1> QED BY <1>1, <1>2

LEMMA ImpostorsBalance == ProtocolInv => ImpostorsAreBalanced
<1> SUFFICES ASSUME ProtocolInv PROVE ImpostorsAreBalanced
  OBVIOUS
<1> DEFINE nonMated == {p \in pairs : p.truth = "non_mated"}
           S == releases \X (cohort \X Fingers)
<1>1. CASE protocolAt # "pairs"
  <2>1. pairs = {}
    BY <1>1 DEF ProtocolInv
  <2> QED BY <1>1, <2>1 DEF ImpostorsAreBalanced
<1>3. ASSUME protocolAt = "pairs"
      PROVE  \E plan \in Plans :
               /\ plan.stages \in SUBSET ProtocolStages /\ plan.stages = stages
               /\ pairs = PairsOf(plan.stages, plan.shift)
  BY <1>3 DEF ProtocolInv, Plans
<1>4. CASE protocolAt = "pairs" /\ "non_mated" \notin stages
  <2>1. nonMated = {}
    BY <1>3, <1>4, ImpostorsAre
  <2>2. Cardinality(nonMated) = 0
    BY <2>1, FS_EmptySet
  <2> QED BY <1>4, <2>1, <2>2 DEF ImpostorsAreBalanced
<1>2. CASE protocolAt = "pairs" /\ "non_mated" \in stages
  <2>0. PICK plan \in Plans : /\ plan.stages \in SUBSET ProtocolStages /\ plan.stages = stages
                            /\ pairs = PairsOf(plan.stages, plan.shift)
    BY <1>2, <1>3
  <2> DEFINE shift == plan.shift
  <2>1. /\ shift \in 1..(NFingers + 1) /\ shift % NFingers # 0
        /\ pairs = PairsOf(stages, shift) /\ stages \in SUBSET ProtocolStages
    BY <1>2, <2>0, ShiftsMove
  <2> HIDE DEF shift
  <2> DEFINE f == [q \in S |-> ImpostorOf(q, shift)]
  <2>2. nonMated = {ImpostorOf(q, shift) : q \in S}
    BY <1>2, <2>1, ImpostorsAre
  <2>3. ASSUME NEW p \in S, NEW q \in S,
               \/ ImpostorOf(p, shift).left = ImpostorOf(q, shift).left
               \/ ImpostorOf(p, shift).right = ImpostorOf(q, shift).right
        PROVE  p = q
    BY <2>1, <2>3, ImpostorsDiffer
  <2>4. ASSUME NEW q \in S
        PROVE  LET p == ImpostorOf(q, shift) IN
               /\ p.left.subject = p.right.subject /\ p.left.release = p.right.release
               /\ p.left.finger # p.right.finger
    <3>1. q[2] \in cohort \X Fingers /\ q[2][2] \in Fingers
      OBVIOUS
    <3>2. Shifted(q[2][2], shift) # q[2][2]
      BY <2>1, <3>1, ShiftedIs
    <3>3. /\ ImpostorOf(q, shift).left = SlotOf(q[1], q[2][1], "plain", q[2][2])
          /\ ImpostorOf(q, shift).right = SlotOf(q[1], q[2][1], "roll", Shifted(q[2][2], shift))
      BY ImpostorSlots
    <3>4. \A r, x, i, g : /\ SlotOf(r, x, i, g).release = r /\ SlotOf(r, x, i, g).subject = x
                          /\ SlotOf(r, x, i, g).finger = g
      BY DEF SlotOf
    <3> QED BY <3>2, <3>3, <3>4
  <2>5. \A p, q \in nonMated : (p.left = q.left \/ p.right = q.right) => p = q
    BY <2>2, <2>3
  <2>6. f \in [S -> nonMated] /\ \A t \in nonMated : \E q \in S : f[q] = t
    BY <2>2
  <2>7. \A p, q \in S : f[p] = f[q] => p = q
    BY <2>3
  <2>8. /\ IsFiniteSet(S)
        /\ Cardinality(S) = Cardinality(releases) * (CohortSize * NFingers)
    <3>1. Cardinality(cohort) = CohortSize
      BY <1>2 DEF ProtocolInv, CohortFits
    <3>2. /\ IsFiniteSet(cohort \X Fingers)
          /\ Cardinality(cohort \X Fingers) = CohortSize * NFingers
      BY <3>1, CriteriaAreFinite, SubjectsAreFinite, FS_Product
    <3> QED BY <3>2, CriteriaAreFinite, FS_Product
  <2> HIDE DEF f, S, nonMated
  <2>9. Cardinality(nonMated) = Cardinality(S)
    BY <2>6, <2>7, <2>8, OneToOne
  <2>10. Cardinality(releases) * (CohortSize * NFingers)
           = Cardinality(releases) * CohortSize * NFingers
    <3>1. Cardinality(releases) \in Nat /\ CohortSize \in Nat /\ NFingers \in Nat
      BY CriteriaAreFinite
    <3> QED BY <3>1
  <2> QED BY <1>2, <2>2, <2>4, <2>5, <2>8, <2>9, <2>10 DEF ImpostorsAreBalanced, nonMated
<1> QED BY <1>1, <1>2, <1>4

LEMMA ProtocolTypes == ProtocolInv => ProtocolTypeOK
<1> SUFFICES ASSUME ProtocolInv PROVE ProtocolTypeOK
  OBVIOUS
<1>1. ASSUME NEW p \in pairs PROVE p.left \in Slot /\ p.right \in Slot
  <2>1. PICK plan \in Plans : /\ plan.stages \in SUBSET ProtocolStages
                            /\ pairs = PairsOf(plan.stages, plan.shift)
    BY <1>1 DEF ProtocolInv, Plans
  <2> DEFINE shift == plan.shift
  <2>2. PICK r \in releases, x \in cohort, f \in Fingers :
          PairLike(p, plan.stages, shift, r, x, f)
    BY <1>1, <2>1, PairsAre
  <2>3. /\ r \in DatasetReleases /\ x \in Subjects
        /\ "non_mated" \in plan.stages => Shifted(f, shift) \in Fingers
    BY ShiftsMove, ShiftedIs, CohortsAreSubjects DEF ProtocolInv, InputsFit
  <2> HIDE DEF shift
  <2>4. /\ SlotOf(r, x, "plain", f) \in Slot /\ SlotOf(r, x, "roll", f) \in Slot
        /\ "non_mated" \in plan.stages => SlotOf(r, x, "roll", Shifted(f, shift)) \in Slot
    BY <2>3, SlotsAre DEF Impressions
  <2>5. \A l, s, t : PairOf(l, s, t).left = l /\ PairOf(l, s, t).right = s
    BY DEF PairOf
  <2>6. ImpostorOf(<<r, <<x, f>>>>, shift)
          = PairOf(SlotOf(r, x, "plain", f), SlotOf(r, x, "roll", Shifted(f, shift)), "non_mated")
    BY DEF ImpostorOf
  <2> QED BY <2>2, <2>4, <2>5, <2>6 DEF PairLike
<1>2. ASSUME NEW p \in roster PROVE p.left \in Slot /\ p.right \in Slot
  BY <1>2 DEF ProtocolInv, CrossRecord
<1>3. cohort \subseteq Subjects
  BY CohortsAreSubjects
<1> QED BY <1>1, <1>2, <1>3 DEF ProtocolInv, InputsFit, CohortFits, ProtocolTypeOK

\* What is generated is the pairs of every two subjects of the cohort.
LEMMA GeneratedIs == Generated = CrossOf(releases, PairsOfTwo(cohort), Fingers)
<1>2. \A id : id \in CrossIds <=>
        \E r \in releases, a \in cohort, b \in cohort, f \in Fingers :
          a # b /\ id = <<SlotOf(r, a, "plain", f), SlotOf(r, b, "roll", f)>>
  <2>1. ASSUME NEW r, NEW a, NEW b, NEW f, NEW s, NEW x, NEW g,
               <<SlotOf(r, a, "plain", f), SlotOf(r, b, "roll", f)>>
                 = <<SlotOf(s, x, "plain", g), SlotOf(s, x, "roll", g)>>
        PROVE  a = b
    <3>1. /\ SlotOf(r, a, "plain", f) = SlotOf(s, x, "plain", g)
          /\ SlotOf(r, b, "roll", f) = SlotOf(s, x, "roll", g)
      BY <2>1
    <3> QED BY <3>1, SlotsDiffer
  <2> QED BY <2>1 DEF CrossIds
<1>3. \A p : p \in Generated <=>
        \E r \in releases, a \in cohort, b \in cohort, f \in Fingers :
          a # b /\ p = Cross(r, a, b, f)
  <2>1. \A p : p \in Generated <=> \E id \in CrossIds : p = CrossPair(id)
    BY DEF Generated
  <2>2. ASSUME NEW p, p \in Generated
        PROVE  \E r \in releases, a \in cohort, b \in cohort, f \in Fingers :
                 a # b /\ p = Cross(r, a, b, f)
    <3>1. PICK id \in CrossIds : p = CrossPair(id)
      BY <2>1, <2>2
    <3>2. PICK r \in releases, a \in cohort, b \in cohort, f \in Fingers :
            a # b /\ id = <<SlotOf(r, a, "plain", f), SlotOf(r, b, "roll", f)>>
      BY <1>2, <3>1
    <3>3. p = Cross(r, a, b, f)
      BY <3>1, <3>2 DEF Cross
    <3> QED BY <3>2, <3>3
  <2>3. ASSUME NEW p, NEW r \in releases, NEW a \in cohort, NEW b \in cohort, NEW f \in Fingers,
               a # b, p = Cross(r, a, b, f)
        PROVE  p \in Generated
    <3>1. <<SlotOf(r, a, "plain", f), SlotOf(r, b, "roll", f)>> \in CrossIds
      BY <1>2, <2>3
    <3> QED BY <2>1, <2>3, <3>1 DEF Cross
  <2> QED BY <2>2, <2>3
<1>4. ASSUME NEW p
      PROVE  (\E r \in releases, ab \in PairsOfTwo(cohort), f \in Fingers :
                p = Cross(r, ab[1], ab[2], f))
               <=> \E r \in releases, a \in cohort, b \in cohort, f \in Fingers :
                     a # b /\ p = Cross(r, a, b, f)
  <2>1. ASSUME NEW a \in cohort, NEW b \in cohort, a # b
        PROVE  \E ab \in PairsOfTwo(cohort) : ab[1] = a /\ ab[2] = b
    <3>1. <<a, b>> \in PairsOfTwo(cohort) /\ <<a, b>>[1] = a /\ <<a, b>>[2] = b
      BY <2>1 DEF PairsOfTwo
    <3> QED BY <3>1
  <2>2. \A ab \in PairsOfTwo(cohort) : ab[1] \in cohort /\ ab[2] \in cohort /\ ab[1] # ab[2]
    BY DEF PairsOfTwo
  <2> QED BY <2>1, <2>2
<1>5. \A p : p \in Generated <=> p \in CrossOf(releases, PairsOfTwo(cohort), Fingers)
  <2>1. \A p : p \in CrossOf(releases, PairsOfTwo(cohort), Fingers)
          <=> \E r \in releases, ab \in PairsOfTwo(cohort), f \in Fingers :
                p = Cross(r, ab[1], ab[2], f)
    BY CrossesAre
  <2> QED BY <1>3, <1>4, <2>1
<1> QED BY <1>5

\* What is generated passes the audit, and what is honest and well formed is generated.
LEMMA GeneratedAreWellFormed ==
  ASSUME NEW p
  PROVE  p \in Generated => WellFormed(p) /\ p.id = <<p.left, p.right>>
<1> SUFFICES ASSUME p \in Generated PROVE WellFormed(p) /\ p.id = <<p.left, p.right>>
  OBVIOUS
<1>1. PICK r \in releases, ab \in PairsOfTwo(cohort), f \in Fingers : p = Cross(r, ab[1], ab[2], f)
  BY GeneratedIs, CrossesAre
<1>2. ab[1] \in cohort /\ ab[2] \in cohort /\ ab[1] # ab[2]
  BY DEF PairsOfTwo
<1> QED BY <1>1, <1>2, CrossIs DEF WellFormed

LEMMA WellFormedAreGenerated ==
  ASSUME NEW p \in CrossRecord, WellFormed(p), p.id = <<p.left, p.right>>
  PROVE  p \in Generated
<1> DEFINE r == p.release
           a == p.left.subject
           b == p.right.subject
           f == p.left.finger
<1>1. /\ a \in cohort /\ b \in cohort /\ a # b /\ r \in releases
      /\ p.left.release = r /\ p.right.release = r /\ p.right.finger = f
      /\ p.left.impression = "plain" /\ p.right.impression = "roll"
  BY DEF WellFormed
<1>2. f \in Fingers /\ p.left \in Slot /\ p.right \in Slot
  BY DEF CrossRecord, Slot
<1>3. \A slot \in Slot :
        slot = SlotOf(slot.release, slot.subject, slot.impression, slot.finger)
  BY DEF Slot, SlotOf
<1>4. p.left = SlotOf(r, a, "plain", f) /\ p.right = SlotOf(r, b, "roll", f)
  BY <1>1, <1>2, <1>3
<1>5. p = [id |-> p.id, release |-> p.release, left |-> p.left, right |-> p.right]
  BY DEF CrossRecord
<1>6. p = Cross(r, a, b, f)
  <2>1. /\ <<p.left, p.right>>[1] = p.left /\ <<p.left, p.right>>[2] = p.right
        /\ p.left.release = p.release
    BY <1>1
  <2>2. CrossPair(<<p.left, p.right>>) = p
    BY <1>5, <2>1 DEF CrossPair
  <2> QED BY <1>4, <2>2 DEF Cross
<1>7. <<a, b>> \in PairsOfTwo(cohort) /\ <<a, b>>[1] = a /\ <<a, b>>[2] = b
  BY <1>1 DEF PairsOfTwo
<1> QED BY <1>1, <1>2, <1>6, <1>7, GeneratedIs, CrossesAre

LEMMA GeneratedCounts ==
  ASSUME ProtocolInv, NEW n, n = Cardinality(cohort)
  PROVE  /\ IsFiniteSet(Generated)
         /\ Cardinality(Generated) = n * (n - 1) * NFingers * Cardinality(releases)
         /\ \A r \in releases : Cardinality(OfRelease(Generated, r)) = n * (n - 1) * NFingers
         /\ \A r \in releases, f \in Fingers :
              Cardinality(OfFinger(OfRelease(Generated, r), f)) = n * (n - 1)
         /\ \A r \in releases, s \in cohort :
              /\ Cardinality(OfSubject(Generated, "left", r, s)) = (n - 1) * NFingers
              /\ Cardinality(OfSubject(Generated, "right", r, s)) = (n - 1) * NFingers
<1>1. /\ IsFiniteSet(releases) /\ IsFiniteSet(cohort)
      /\ IsFiniteSet(Fingers) /\ NFingers = Cardinality(Fingers)
  BY CriteriaAreFinite, SubjectsAreFinite
<1> QED BY <1>1, GeneratedIs, CrossCounts

LEMMA GeneratedIsClean ==
  ProtocolInv /\ protocolAt = "roster" /\ roster = Generated => AuditIsClean
<1> SUFFICES ASSUME ProtocolInv, protocolAt = "roster", roster = Generated PROVE AuditIsClean
  OBVIOUS
<1>1. \A p, q \in roster : p.id = q.id => p = q
  BY DEF Generated, CrossPair
<1>2. \A p \in roster : WellFormed(p)
  BY GeneratedAreWellFormed
<1> DEFINE n == Cardinality(cohort)
<1>3. /\ Cardinality(roster) = n * (n - 1) * NFingers * Cardinality(releases)
      /\ \A r \in releases : Cardinality(OfRelease(roster, r)) = n * (n - 1) * NFingers
      /\ \A r \in releases, f \in Fingers :
           Cardinality(OfFinger(OfRelease(roster, r), f)) = n * (n - 1)
      /\ \A r \in releases, s \in cohort :
           /\ Cardinality(OfSubject(roster, "left", r, s)) = (n - 1) * NFingers
           /\ Cardinality(OfSubject(roster, "right", r, s)) = (n - 1) * NFingers
  BY GeneratedCounts
<1>4. \A r \in releases, s \in cohort :
           /\ Appearances("left", r, s) = (n - 1) * NFingers
           /\ Appearances("right", r, s) = (n - 1) * NFingers
  BY <1>3 DEF Appearances, OfSubject
<1> QED BY <1>1, <1>2, <1>3, <1>4 DEF AuditIsClean, OfRelease, OfFinger

\* A clean roster of honest ids has only generated pairs, and as many as there are.
LEMMA AuditIsExhaustive == ProtocolInv => AuditMeansExhaustive
<1> SUFFICES ASSUME ProtocolInv, protocolAt = "roster",
                    \A p \in roster : p.id = <<p.left, p.right>>, AuditIsClean
             PROVE  roster = Generated
  BY GeneratedIsClean DEF AuditMeansExhaustive
<1>1. roster \in SUBSET CrossRecord /\ \A p \in roster : WellFormed(p)
  BY DEF ProtocolInv, AuditIsClean
<1>2. roster \in SUBSET Generated
  BY <1>1, WellFormedAreGenerated
<1> DEFINE n == Cardinality(cohort)
<1>3. Cardinality(roster) = n * (n - 1) * NFingers * Cardinality(releases)
  BY DEF AuditIsClean
<1>4. IsFiniteSet(Generated)
      /\ Cardinality(Generated) = n * (n - 1) * NFingers * Cardinality(releases)
  BY GeneratedCounts
<1>5. Cardinality(roster) = Cardinality(Generated)
  BY <1>3, <1>4, Zenon
<1> QED BY <1>2, <1>4, <1>5, FS_Subset

\* For every dataset, draw and plan, and whichever impressions the criteria ask
\* for: a cohort is refused over two images of one slot or over an impression that
\* was not asked for and nothing else, the same-subject impostors are balanced, and
\* a roster that passes the audit is the whole cross product (select_cohort,
\* generate_pairs, audit_cross_subject_pairs).
THEOREM RostersAreComplete ==
  ProtocolSpec => [](ProtocolTypeOK /\ CohortIsPairable /\ ImpostorsAreBalanced
                       /\ AuditMeansExhaustive)
<1>1. ProtocolInv => ProtocolTypeOK /\ CohortIsPairable /\ ImpostorsAreBalanced
                       /\ AuditMeansExhaustive
  BY ProtocolTypes, CohortsArePairable, ImpostorsBalance, AuditIsExhaustive
<1> QED BY <1>1, ProtocolInvariant, PTL

-----------------------------------------------------------------------------
(* Evaluation: the invariant.                                                *)

PairOfRun == [release : EvReleases, stage : Stages, truth : {"mated", "non_mated"},
              left : Images, right : Images]

\* What each layer derives from the ones below it.
DecisionsAre ==
  stored = indexed /\ decisions = [c \in Comparisons |-> Decision(indexed[c])]

The(key, s) == CHOOSE c \in Governing(key, s) : TRUE

UnitsAre ==
  /\ MappingIsSound
  /\ units = [key \in GovernedKeys |->
       [plain_self |-> The(key, "plain_self"), roll_self |-> The(key, "roll_self"),
        mated |-> The(key, "mated"),
        status |-> StatusOf(decisions[The(key, "plain_self")], decisions[The(key, "roll_self")])]]

SelectionIs ==
  selected = [c \in OfStage("mated") |-> Select(units[CHOOSE key \in UnitOf(c) : TRUE].status)]

CountsAre == counts = [family \in Families |-> [r \in EvReleases |-> Tally(family, r)]]

\* A layer, once derived, is what it was derived to be; a refusal ends the chain.
EvInv ==
  /\ evAt \in {"inputs", "ran", "decided", "mapped", "viewed", "counted", "refused"}
  /\ manifest \in [Comparisons -> PairOfRun]
  /\ evAt = "inputs" => indexed = <<>> /\ stored = <<>>
  /\ evAt # "inputs" => /\ indexed \in [Comparisons -> Scores \cup {"failed"}]
                        /\ stored \in [Comparisons -> Scores \cup {"failed"}]
  /\ evAt \in {"inputs", "ran"} => decisions = <<>>
  /\ (decisions = <<>> /\ units = <<>>) \/ (evAt # "inputs" /\ DecisionsAre)
  /\ evAt \in {"inputs", "ran", "decided"} => units = <<>>
  /\ units = <<>> \/ UnitsAre
  /\ evAt \in {"decided", "mapped", "viewed", "counted"} => DecisionsAre
  /\ evAt \in {"mapped", "viewed", "counted"} => UnitsAre
  /\ evAt \in {"viewed", "counted"} => SelectionIs
  /\ evAt = "counted" => CountsAre


LEMMA NextFinger == \A f \in EvFingers : (f % NEvFingers) + 1 \in EvFingers
BY EvaluationAssumption DEF EvaluationAssumption, EvFingers

LEMMA ImagesAre ==
  /\ \A r \in EvReleases, f \in EvFingers :
       ImageOf(r, f, "plain") \in Images /\ ImageOf(r, f, "roll") \in Images
  /\ \A i \in Images : KeyOf(i) \in Keys
BY DEF ImageOf, Images, KeyOf, Keys

LEMMA ProtocolPairsAre == ProtocolManifest \in [Comparisons -> PairOfRun]
<1>1. ASSUME NEW c \in Comparisons PROVE ProtocolPair(c) \in PairOfRun
  <2>1. c.release \in EvReleases /\ c.finger \in EvFingers /\ c.stage \in Stages
    BY DEF Comparisons
  <2> DEFINE plain == ImageOf(c.release, c.finger, "plain")
             roll == ImageOf(c.release, c.finger, "roll")
             other == ImageOf(c.release, (c.finger % NEvFingers) + 1, "roll")
  <2>2. plain \in Images /\ roll \in Images /\ other \in Images
    BY <2>1, NextFinger, ImagesAre
  <2> DEFINE left == IF c.stage = "roll_self" THEN roll ELSE plain
             right == CASE c.stage = "plain_self" -> plain
                        [] c.stage = "non_mated" -> other
                        [] OTHER -> roll
             truth == IF c.stage = "non_mated" THEN "non_mated" ELSE "mated"
  <2>3. left \in Images /\ right \in Images /\ truth \in {"mated", "non_mated"}
    BY <2>2
  <2>4. ProtocolPair(c) = [release |-> c.release, stage |-> c.stage, truth |-> truth,
                           left |-> left, right |-> right]
    BY DEF ProtocolPair
  <2> HIDE DEF left, right, truth
  <2> QED BY <2>1, <2>3, <2>4 DEF PairOfRun
<1> QED BY <1>1 DEF ProtocolManifest

LEMMA EvInitially == EvInit => EvInv
BY ProtocolPairsAre DEF EvInit, EvInv

\* What was derived stays derived while what it was derived from stays.
LEMMA DecisionsStay ==
  ASSUME DecisionsAre, UNCHANGED <<evInputs, stored, decisions>> PROVE DecisionsAre'
BY DEF DecisionsAre, evInputs, Decision, Accepted

LEMMA MappingStays ==
  ASSUME UNCHANGED manifest
  PROVE  /\ MappingIsSound' = MappingIsSound /\ GovernedKeys' = GovernedKeys
         /\ \A s : OfStage(s)' = OfStage(s)
         /\ \A key, s : Governing(key, s)' = Governing(key, s) /\ The(key, s)' = The(key, s)
<1>1. \A s : OfStage(s)' = OfStage(s)
  BY DEF OfStage, StageOf
<1>2. \A key, s : Governing(key, s)' = Governing(key, s)
  BY <1>1 DEF Governing
<1>3. \A key, s : The(key, s)' = The(key, s)
  BY <1>2 DEF The
<1>4. GovernedKeys' = GovernedKeys
  BY <1>1 DEF GovernedKeys
<1>5. MappingIsSound' = MappingIsSound
  BY <1>1, <1>2, <1>4 DEF MappingIsSound
<1> QED BY <1>1, <1>2, <1>3, <1>4, <1>5

LEMMA UnitsStay ==
  ASSUME UnitsAre, UNCHANGED <<evInputs, decisions, units>> PROVE UnitsAre'
BY MappingStays DEF UnitsAre, evInputs

LEMMA SelectionStays ==
  ASSUME SelectionIs, UNCHANGED <<evInputs, units, selected>> PROVE SelectionIs'
BY MappingStays DEF SelectionIs, evInputs, UnitOf

LEMMA TallyStays ==
  ASSUME UNCHANGED <<evInputs, decisions, units, selected>>, NEW family, NEW r
  PROVE  Tally(family, r)' = Tally(family, r)
<1>1. UNCHANGED <<manifest, decisions, units, selected>>
  BY DEF evInputs
<1>2. \A o : DecidedAs(family, r, o)' = DecidedAs(family, r, o)
  BY <1>1, MappingStays DEF DecidedAs
<1>3. \A how : InView(r, how)' = InView(r, how)
  BY <1>1 DEF InView
<1>4. [o \in Outcomes |-> DecidedAs(family, r, o)]' = [o \in Outcomes |-> DecidedAs(family, r, o)]
  BY <1>2
<1>5. [s \in Statuses |->
         Cardinality({key \in DOMAIN units : key.release = r /\ units[key].status = s})]'
        = [s \in Statuses |->
             Cardinality({key \in DOMAIN units : key.release = r /\ units[key].status = s})]
  BY <1>1
<1>6. \A o : {c \in InView(r, "included") : decisions[c] = o}'
                = {c \in InView(r, "included") : decisions[c] = o}
  BY <1>1, <1>3
<1>7. [o \in Outcomes \cup {"ineligible", "undetermined"} |->
         Cardinality(IF o \in Outcomes
                       THEN {c \in InView(r, "included") : decisions[c] = o}
                       ELSE InView(r, o))]'
        = [o \in Outcomes \cup {"ineligible", "undetermined"} |->
             Cardinality(IF o \in Outcomes
                           THEN {c \in InView(r, "included") : decisions[c] = o}
                           ELSE InView(r, o))]
  BY <1>3, <1>6
<1> QED BY <1>4, <1>5, <1>7, Zenon DEF Tally

LEMMA EvStep == EvInv /\ [EvNext]_evVars => EvInv'
<1> SUFFICES ASSUME EvInv, [EvNext]_evVars PROVE EvInv'
  OBVIOUS
<1>1. CASE DeliverRun
  <2>1. evAt = "inputs" /\ evAt' = "ran" /\ stored' = indexed'
        /\ UNCHANGED <<decisions, units, selected, counts>>
    BY <1>1 DEF DeliverRun
  <2>2. manifest' \in [Comparisons -> PairOfRun]
    <3>1. CASE UNCHANGED manifest
      BY <3>1 DEF EvInv
    <3>2. ASSUME NEW c \in Comparisons, NEW p \in Altered(c),
                 manifest' = [ProtocolManifest EXCEPT ![c] = p]
          PROVE  manifest' \in [Comparisons -> PairOfRun]
      <4>1. ProtocolPair(c) \in PairOfRun
        BY ProtocolPairsAre DEF ProtocolManifest
      <4>2. p \in PairOfRun
        BY <4>1 DEF Altered, PairOfRun
      <4> QED BY <3>2, <4>2, ProtocolPairsAre
    <3> QED BY <1>1, <3>1, <3>2 DEF DeliverRun
  <2>3. indexed' \in [Comparisons -> Scores \cup {"failed"}]
    <3> DEFINE run(n, odd, as) ==
                 [c \in Comparisons |->
                   IF \E i \in 1..n : odd[i] = c
                     THEN as[CHOOSE i \in 1..n : odd[i] = c] ELSE Expected(c, direction')]
               plain == [c \in Comparisons |-> Expected(c, direction')]
    <3>1. \A c, dir : Expected(c, dir) \in Scores
      BY DEF Expected, Scores
    <3>2. ASSUME NEW n, NEW odd, NEW as \in [1..n -> Scores \cup {"failed"}]
          PROVE  run(n, odd, as) \in [Comparisons -> Scores \cup {"failed"}]
      <4>1. ASSUME NEW c \in Comparisons, \E i \in 1..n : odd[i] = c
            PROVE  as[CHOOSE i \in 1..n : odd[i] = c] \in Scores \cup {"failed"}
        <5>1. (CHOOSE i \in 1..n : odd[i] = c) \in 1..n
          BY <4>1
        <5> QED BY <5>1
      <4>2. ASSUME NEW c \in Comparisons
            PROVE  (IF \E i \in 1..n : odd[i] = c
                     THEN as[CHOOSE i \in 1..n : odd[i] = c] ELSE Expected(c, direction'))
                     \in Scores \cup {"failed"}
        BY <3>1, <4>1
      <4> QED BY <4>2
    <3>3. plain \in [Comparisons -> Scores \cup {"failed"}]
      BY <3>1
    <3>4. \/ indexed' = plain
          \/ \E n \in 0..MaxOddities : \E odd \in [1..n -> Comparisons] :
             \E as \in [1..n -> Scores \cup {"failed"}] : indexed' = run(n, odd, as)
      BY <1>1, Zenon DEF DeliverRun
    <3> HIDE DEF run, plain
    <3> QED BY <3>2, <3>3, <3>4
  <2> QED BY <2>1, <2>2, <2>3 DEF EvInv
<1>2. CASE ResultChanges
  <2>1. evAt = "ran" /\ UNCHANGED <<evAt, evInputs, decisions, units, selected, counts>>
    BY <1>2 DEF ResultChanges
  <2>2. stored' \in [Comparisons -> Scores \cup {"failed"}]
    <3>1. PICK c \in Comparisons, s \in Scores : stored' = [stored EXCEPT ![c] = s]
      BY <1>2 DEF ResultChanges
    <3> QED BY <2>1, <3>1 DEF EvInv
  <2> QED BY <2>1, <2>2 DEF EvInv, evInputs
<1>3. CASE ApplyProfile
  <2>1. evAt = "ran" /\ decisions = <<>> /\ units = <<>>
        /\ UNCHANGED <<evInputs, stored, units, selected, counts>>
    BY <1>3 DEF ApplyProfile, Refuse, EvInv
  <2>2. CASE Refuse
    BY <2>1, <2>2 DEF Refuse, EvInv, evInputs
  <2>3. CASE ~Refuse
    <3>1. stored = indexed /\ evAt' = "decided"
          /\ decisions' = [c \in Comparisons |-> Decision(stored[c])]
      BY <1>3, <2>3 DEF ApplyProfile
    <3>2. DecisionsAre'
      BY <2>1, <3>1 DEF DecisionsAre, evInputs, Decision, Accepted
    <3> QED BY <2>1, <3>1, <3>2 DEF EvInv, evInputs
  <2> QED BY <2>2, <2>3
<1>4. CASE DeriveEligibility
  <2>1. evAt = "decided" /\ DecisionsAre /\ units = <<>>
        /\ UNCHANGED <<evInputs, stored, decisions, selected, counts>>
    BY <1>4 DEF DeriveEligibility, Refuse, EvInv
  <2>2. DecisionsAre'
    BY <2>1, DecisionsStay
  <2>3. CASE Refuse
    BY <2>1, <2>2, <2>3 DEF Refuse, EvInv, evInputs
  <2>4. CASE ~Refuse
    <3>1. MappingIsSound /\ evAt' = "mapped"
      BY <1>4, <2>4 DEF DeriveEligibility
    <3>2. UnitsAre'
      <4>1. units' = [key \in GovernedKeys |->
                [plain_self |-> The(key, "plain_self"), roll_self |-> The(key, "roll_self"),
                 mated |-> The(key, "mated"),
                 status |-> StatusOf(decisions[The(key, "plain_self")],
                                     decisions[The(key, "roll_self")])]]
        BY <1>4, <2>4 DEF DeriveEligibility, The
      <4> QED BY <2>1, <3>1, <4>1, MappingStays DEF UnitsAre, evInputs
    <3> QED BY <2>1, <2>2, <3>1, <3>2 DEF EvInv, evInputs
  <2> QED BY <2>3, <2>4
<1>5. CASE BuildViews
  <2>1. evAt = "mapped" /\ DecisionsAre /\ UnitsAre
        /\ UNCHANGED <<evInputs, stored, decisions, units, counts>>
    BY <1>5 DEF BuildViews, Refuse, EvInv
  <2>2. DecisionsAre' /\ UnitsAre'
    BY <2>1, DecisionsStay, UnitsStay
  <2>3. CASE Refuse
    BY <2>1, <2>2, <2>3 DEF Refuse, EvInv, evInputs
  <2>4. CASE ~Refuse
    <3>1. evAt' = "viewed" /\ SelectionIs'
      BY <1>5, <2>1, <2>4, MappingStays DEF BuildViews, SelectionIs, UnitOf, evInputs
    <3> QED BY <2>1, <2>2, <3>1 DEF EvInv, evInputs
  <2> QED BY <2>3, <2>4
<1>6. CASE Aggregate
  <2>1. evAt = "viewed" /\ DecisionsAre /\ UnitsAre /\ SelectionIs
        /\ UNCHANGED <<evInputs, stored, decisions, units, selected>>
    BY <1>6 DEF Aggregate, Refuse, EvInv
  <2>2. DecisionsAre' /\ UnitsAre' /\ SelectionIs'
    BY <2>1, DecisionsStay, UnitsStay, SelectionStays
  <2>3. CASE Refuse
    BY <2>1, <2>2, <2>3 DEF Refuse, EvInv, evInputs
  <2>4. CASE ~Refuse
    <3>1. evAt' = "counted"
          /\ counts' = [family \in Families |-> [r \in EvReleases |-> Tally(family, r)]]
      BY <1>6, <2>4 DEF Aggregate
    <3>2. \A family, r : Tally(family, r)' = Tally(family, r)
      BY <2>1, TallyStays
    <3>3. CountsAre'
      BY <3>1, <3>2 DEF CountsAre
    <3> QED BY <2>1, <2>2, <3>1, <3>3 DEF EvInv, evInputs
  <2> QED BY <2>3, <2>4
<1>7. CASE UNCHANGED evVars
  <2>1. UNCHANGED <<evAt, evInputs, stored, decisions, units, selected, counts>>
    BY <1>7 DEF evVars
  <2>2. /\ DecisionsAre => DecisionsAre'
        /\ UnitsAre => UnitsAre'
        /\ SelectionIs => SelectionIs'
    BY <2>1, DecisionsStay, UnitsStay, SelectionStays
  <2>3. CountsAre => CountsAre'
    <3>1. \A family, r : Tally(family, r)' = Tally(family, r)
      BY <2>1, TallyStays
    <3> QED BY <2>1, <3>1 DEF CountsAre
  <2> QED BY <2>1, <2>2, <2>3 DEF EvInv, evInputs
<1> QED BY <1>1, <1>2, <1>3, <1>4, <1>5, <1>6, <1>7 DEF EvNext

LEMMA EvInvariant == EvSpec => []EvInv
BY EvInitially, EvStep, PTL DEF EvSpec

-----------------------------------------------------------------------------
(* Evaluation: units and the views.                                         *)

LEMMA ComparisonsAreFinite == IsFiniteSet(Comparisons)
<1> DEFINE D == EvReleases \X (EvFingers \X Stages)
           f == [t \in D |-> [release |-> t[1], finger |-> t[2][1], stage |-> t[2][2]]]
<1>1. IsFiniteSet(EvFingers)
  BY EvaluationAssumption, FS_Interval DEF EvaluationAssumption, EvFingers
<1>2. IsFiniteSet(Stages)
  <2>1. Stages = (({"plain_self"} \cup {"roll_self"}) \cup {"mated"}) \cup {"non_mated"}
    BY DEF Stages
  <2> QED BY <2>1, FS_Singleton, FS_Union
<1>3. IsFiniteSet(D)
  BY <1>1, <1>2, EvaluationAssumption, FS_Product DEF EvaluationAssumption
<1>4. f \in Surjection(D, Comparisons)
  <2>1. f \in [D -> Comparisons]
    BY DEF Comparisons
  <2>2. ASSUME NEW c \in Comparisons PROVE \E t \in D : f[t] = c
    <3>1. <<c.release, <<c.finger, c.stage>>>> \in D
      BY DEF Comparisons
    <3>2. f[<<c.release, <<c.finger, c.stage>>>>] = c
      BY <3>1 DEF Comparisons
    <3> QED BY <3>1, <3>2
  <2> QED BY <2>1, <2>2 DEF Surjection
<1> QED BY <1>3, <1>4, FS_Surjection

\* A mapping that was accepted has one comparison of each kind for each of its fingers.
LEMMA TheIs ==
  ASSUME MappingIsSound, NEW key \in GovernedKeys, NEW s \in Governed
  PROVE  /\ Governing(key, s) = {The(key, s)}
         /\ The(key, s) \in OfStage(s) /\ The(key, s) \in Comparisons
         /\ KeyOf(manifest[The(key, s)].left) = key
<1>1. Governing(key, s) \in SUBSET Comparisons /\ Cardinality(Governing(key, s)) = 1
  BY DEF MappingIsSound, Governing, OfStage
<1>2. IsFiniteSet(Governing(key, s))
  BY <1>1, ComparisonsAreFinite, FS_Subset
<1>3. PICK c : Governing(key, s) = {c}
  BY <1>1, <1>2, FS_Singleton
<1>4. The(key, s) = c
  BY <1>3 DEF The
<1> QED BY <1>1, <1>3, <1>4 DEF Governing, OfStage

\* The comparisons of a kind are those of the fingers that have any.
LEMMA KeysOfStage ==
  ASSUME MappingIsSound, NEW s \in Governed, NEW c \in OfStage(s)
  PROVE  /\ KeyOf(manifest[c].left) \in GovernedKeys
         /\ The(KeyOf(manifest[c].left), s) = c
<1>1. KeyOf(manifest[c].left) \in GovernedKeys
  BY DEF GovernedKeys
<1>2. c \in Governing(KeyOf(manifest[c].left), s)
  BY DEF Governing
<1> QED BY <1>1, <1>2, TheIs

LEMMA UnitIs ==
  ASSUME UnitsAre
  PROVE  /\ DOMAIN units = GovernedKeys /\ MappingIsSound
         /\ \A key \in GovernedKeys :
              /\ units[key].plain_self = The(key, "plain_self")
              /\ units[key].roll_self = The(key, "roll_self")
              /\ units[key].mated = The(key, "mated")
              /\ units[key].status = StatusOf(decisions[The(key, "plain_self")],
                                              decisions[The(key, "roll_self")])
BY DEF UnitsAre

LEMMA UnitOfIs ==
  ASSUME UnitsAre, NEW c \in OfStage("mated")
  PROVE  UnitOf(c) = {KeyOf(manifest[c].left)}
<1>1. "mated" \in Governed
  BY DEF Governed
<1>2. KeyOf(manifest[c].left) \in GovernedKeys /\ The(KeyOf(manifest[c].left), "mated") = c
  BY <1>1, UnitIs, KeysOfStage
<1>3. \A key \in GovernedKeys : The(key, "mated") = c => key = KeyOf(manifest[c].left)
  BY <1>1, UnitIs, TheIs
<1> QED BY <1>2, <1>3, UnitIs DEF UnitOf

LEMMA ImageIs ==
  ASSUME NEW i \in Images
  PROVE  i = ImageOf(KeyOf(i).release, KeyOf(i).finger, i.impression)
BY DEF Images, ImageOf, KeyOf

LEMMA ManifestIs ==
  ASSUME EvInv, NEW c \in Comparisons
  PROVE  /\ manifest[c].left \in Images /\ manifest[c].right \in Images
         /\ manifest[c].release \in EvReleases
BY DEF EvInv, PairOfRun

LEMMA UnitsJoinOneFinger ==
  ASSUME EvInv, UnitsAre, NEW key \in GovernedKeys
  PROVE  /\ manifest[The(key, "plain_self")].right = ImageOf(key.release, key.finger, "plain")
         /\ manifest[The(key, "roll_self")].left = ImageOf(key.release, key.finger, "roll")
         /\ manifest[The(key, "mated")].left = ImageOf(key.release, key.finger, "plain")
         /\ manifest[The(key, "mated")].right = ImageOf(key.release, key.finger, "roll")
         /\ manifest[The(key, "mated")].release = key.release
<1>1. MappingIsSound
  BY DEF UnitsAre
<1>2. \A s \in Governed : /\ The(key, s) \in OfStage(s) /\ The(key, s) \in Comparisons
                          /\ KeyOf(manifest[The(key, s)].left) = key
  BY <1>1, TheIs
<1>3. ASSUME NEW s \in Governed
      PROVE  /\ manifest[The(key, s)].left
                  = ImageOf(key.release, key.finger, manifest[The(key, s)].left.impression)
             /\ manifest[The(key, s)].right \in Images
  BY <1>2, ManifestIs, ImageIs
<1>4. SelfIsSound(manifest[The(key, "plain_self")], "plain")
  BY <1>1, <1>2 DEF MappingIsSound, Governed
<1>5. SelfIsSound(manifest[The(key, "roll_self")], "roll")
  BY <1>1, <1>2 DEF MappingIsSound, Governed
<1>6. MatedIsSound(manifest[The(key, "mated")])
  BY <1>1, <1>2 DEF MappingIsSound, Governed
<1>7. manifest[The(key, "plain_self")].right = ImageOf(key.release, key.finger, "plain")
  BY <1>3, <1>4 DEF SelfIsSound, Governed
<1>8. manifest[The(key, "roll_self")].left = ImageOf(key.release, key.finger, "roll")
  BY <1>3, <1>5 DEF SelfIsSound, Governed
<1>9. manifest[The(key, "mated")].left = ImageOf(key.release, key.finger, "plain")
  BY <1>3, <1>6 DEF MatedIsSound, Governed
<1>10. /\ manifest[The(key, "mated")].right = ImageOf(key.release, key.finger, "roll")
       /\ manifest[The(key, "mated")].release = key.release
  <2> DEFINE p == manifest[The(key, "mated")]
  <2>1. p.right \in Images
    BY <1>3 DEF Governed
  <2>2. p.right.release = key.release /\ p.right.finger = key.finger
        /\ p.release = key.release /\ p.right.impression = "roll"
    BY <1>6, <1>9 DEF MatedIsSound, ImageOf
  <2> QED BY <2>1, <2>2 DEF Images, ImageOf
<1> QED BY <1>7, <1>8, <1>9, <1>10

LEMMA UnitsAreTheirFingers == EvInv => UnitsAreWhole
<1> SUFFICES ASSUME EvInv PROVE UnitsAreWhole
  OBVIOUS
<1>1. CASE units = <<>>
  BY <1>1 DEF UnitsAreWhole
<1>2. CASE UnitsAre
  <2>1. ASSUME NEW c \in OfStage("mated") PROVE Cardinality(UnitOf(c)) = 1
    BY <1>2, UnitOfIs, FS_Singleton
  <2> QED BY <1>2, <2>1, UnitIs, UnitsJoinOneFinger DEF UnitsAreWhole
<1> QED BY <1>1, <1>2 DEF EvInv

\* What derive_eligibility accepted, build_views and aggregate find complete: every
\* mated comparison has its unit and the SELF decisions are those of the units, so
\* neither layer refuses for a unit that is missing or one too many.
UnitsAreAccounted ==
  evAt \in {"mapped", "viewed"} =>
    SelfAgrees /\ \A c \in OfStage("mated") : UnitOf(c) # {}

\* The two refusals of build_views and aggregate that ask for it can therefore not
\* be met, whatever manifest eligibility has accepted.
THEOREM NothingIsUnaccounted == EvSpec => []UnitsAreAccounted
<1>1. ASSUME EvInv PROVE UnitsAreAccounted
  <2> SUFFICES ASSUME UnitsAre
               PROVE  SelfAgrees /\ \A c \in OfStage("mated") : UnitOf(c) # {}
    BY <1>1 DEF UnitsAreAccounted, EvInv
  <2>1. ASSUME NEW s \in {"plain_self", "roll_self"}
        PROVE  OfStage(s) = {units[key][s] : key \in DOMAIN units}
    <3>1. s \in Governed /\ MappingIsSound /\ DOMAIN units = GovernedKeys
      BY UnitIs DEF Governed
    <3>2. \A key \in GovernedKeys : units[key][s] = The(key, s)
      BY UnitIs
    <3>3. \A key \in GovernedKeys : The(key, s) \in OfStage(s)
      BY <3>1, TheIs
    <3>4. \A c \in OfStage(s) : \E key \in GovernedKeys : The(key, s) = c
      BY <3>1, KeysOfStage
    <3> QED BY <3>1, <3>2, <3>3, <3>4
  <2>2. \A c \in OfStage("mated") : UnitOf(c) # {}
    BY UnitOfIs
  <2> QED BY <2>1, <2>2 DEF SelfAgrees
<1> QED BY <1>1, EvInvariant, PTL

\* What was decided is what the scores say.
LEMMA KindsAreDecisions ==
  ASSUME DecisionsAre, NEW c \in Comparisons
  PROVE  /\ Kind(c) = decisions[c] /\ decisions[c] \in Outcomes
         /\ decisions[c] = "undecidable" <=> Unscored(c)
         /\ decisions[c] = "non_match" <=> ~Unscored(c) /\ ~Passed(c)
<1>1. decisions[c] = Decision(indexed[c])
  BY DEF DecisionsAre
<1> QED BY <1>1 DEF Decision, Kind, Unscored, Passed, Outcomes

LEMMA SelfOfIs ==
  ASSUME UnitsAre, NEW c \in OfStage("mated"), NEW key, key = KeyOf(manifest[c].left)
  PROVE  SelfOf(c) = {The(key, "plain_self"), The(key, "roll_self")}
<1>1. MappingIsSound /\ {"plain_self", "roll_self", "mated"} \subseteq Governed
  BY UnitIs DEF Governed
<1>2. key \in GovernedKeys
  BY <1>1, KeysOfStage
<1>3. \A s \in {"plain_self", "roll_self"} :
        {d \in OfStage(s) : KeyOf(manifest[d].left) = key} = {The(key, s)}
  BY <1>1, <1>2, KeysOfStage, TheIs
<1> QED BY <1>3 DEF SelfOf

\* The status of a unit is what the scores of its finger say.
LEMMA ConditionIs ==
  ASSUME EvInv, DecisionsAre, UnitsAre, NEW c \in OfStage("mated")
  PROVE  /\ KeyOf(manifest[c].left) \in DOMAIN units
         /\ units[KeyOf(manifest[c].left)].status = Condition(c)
         /\ Condition(c) \in Statuses
<1> DEFINE key == KeyOf(manifest[c].left)
           plain == The(key, "plain_self")
           roll == The(key, "roll_self")
<1>1. MappingIsSound /\ {"plain_self", "roll_self", "mated"} \subseteq Governed
  BY UnitIs DEF Governed
<1>2. key \in GovernedKeys
  BY <1>1, KeysOfStage
<1>3. plain \in Comparisons /\ roll \in Comparisons
  BY <1>1, <1>2, TheIs
<1>4. SelfOf(c) = {plain, roll}
  BY SelfOfIs
<1>5. key \in DOMAIN units /\ units[key].status = StatusOf(decisions[plain], decisions[roll])
  BY <1>2, UnitIs
<1> HIDE DEF key, plain, roll
<1>6. \A d \in {plain, roll} :
        /\ decisions[d] \in Outcomes
        /\ decisions[d] = "undecidable" <=> Unscored(d)
        /\ decisions[d] = "non_match" <=> ~Unscored(d) /\ ~Passed(d)
  BY <1>3, KindsAreDecisions
<1>7. StatusOf(decisions[plain], decisions[roll]) = Condition(c)
  BY <1>4, <1>6 DEF StatusOf, Condition
<1>8. Condition(c) \in Statuses
  BY DEF Condition, Statuses
<1> QED BY <1>5, <1>7, <1>8 DEF key

LEMMA SelectionOf ==
  ASSUME EvInv, DecisionsAre, UnitsAre, SelectionIs
  PROVE  /\ DOMAIN selected = OfStage("mated")
         /\ \A c \in OfStage("mated") : selected[c] = Select(Condition(c))
<1>1. DOMAIN selected = OfStage("mated")
  BY DEF SelectionIs
<1>2. ASSUME NEW c \in OfStage("mated") PROVE selected[c] = Select(Condition(c))
  <2>1. (CHOOSE key \in UnitOf(c) : TRUE) = KeyOf(manifest[c].left)
    BY UnitOfIs
  <2>2. selected[c] = Select(units[CHOOSE key \in UnitOf(c) : TRUE].status)
    BY DEF SelectionIs
  <2> QED BY <2>1, <2>2, ConditionIs
<1> QED BY <1>1, <1>2

\* A finger whose SELF comparisons both matched is eligible, and no other is.
LEMMA SurvivorsAreEligible ==
  ASSUME EvInv, DecisionsAre, UnitsAre, NEW key \in GovernedKeys
  PROVE  key \notin FailedFingers({c \in Comparisons : decisions[c] # "match"})
           <=> units[key].status = "eligible"
<1> DEFINE failed == {c \in Comparisons : decisions[c] # "match"}
           plain == The(key, "plain_self")
           roll == The(key, "roll_self")
<1>1. MappingIsSound /\ {"plain_self", "roll_self"} \subseteq Governed
  BY UnitIs DEF Governed
<1>2. /\ plain \in OfStage("plain_self") /\ roll \in OfStage("roll_self")
      /\ plain \in Comparisons /\ roll \in Comparisons
      /\ KeyOf(manifest[plain].left) = key /\ KeyOf(manifest[roll].left) = key
  BY <1>1, TheIs
<1>3. ASSUME NEW c \in Comparisons, StageOf(c) \in {"plain_self", "roll_self"},
             KeyOf(manifest[c].left) = key
      PROVE  c = plain \/ c = roll
  BY <1>1, <1>3, KeysOfStage DEF OfStage
<1>4. key \in FailedFingers(failed) <=> plain \in failed \/ roll \in failed
  BY <1>2, <1>3 DEF FailedFingers, OfStage
<1>5. units[key].status = StatusOf(decisions[plain], decisions[roll])
  BY UnitIs
<1>6. decisions[plain] \in Outcomes /\ decisions[roll] \in Outcomes
  BY <1>2, KindsAreDecisions
<1>7. StatusOf(decisions[plain], decisions[roll]) = "eligible"
        <=> decisions[plain] = "match" /\ decisions[roll] = "match"
  BY <1>6 DEF StatusOf, Outcomes
<1> HIDE DEF plain, roll
<1> QED BY <1>2, <1>4, <1>5, <1>7

LEMMA FiltersSelectTheSame == EvInv => FiltersAgree
<1> SUFFICES ASSUME EvInv, evAt \in {"viewed", "counted"}
             PROVE LET failed == {c \in Comparisons : decisions[c] # "match"} IN
    /\ SelfEligiblePairs(failed, {"mated"}) = {c \in DOMAIN selected : selected[c] = "included"}
    /\ \A c \in SelfEligiblePairs(failed, {"non_mated"}) :
         \A image \in {manifest[c].left, manifest[c].right} :
           KeyOf(image) \in DOMAIN units => units[KeyOf(image)].status = "eligible"
  BY DEF FiltersAgree
<1> DEFINE failed == {c \in Comparisons : decisions[c] # "match"}
<1>1. DecisionsAre /\ UnitsAre /\ SelectionIs /\ DOMAIN units = GovernedKeys
  BY UnitIs DEF EvInv
<1>2. \A key \in GovernedKeys : key \notin FailedFingers(failed) <=> units[key].status = "eligible"
  BY <1>1, SurvivorsAreEligible
<1> HIDE DEF failed
<1>3. ASSUME NEW c \in OfStage("mated")
      PROVE  c \in SelfEligiblePairs(failed, {"mated"}) <=> selected[c] = "included"
  <2> DEFINE key == KeyOf(manifest[c].left)
  <2>1. key \in GovernedKeys /\ units[key].status = Condition(c) /\ Condition(c) \in Statuses
    BY <1>1, ConditionIs
  <2>2. KeyOf(manifest[c].right) = key
    <3>1. MatedIsSound(manifest[c])
      BY <1>1, UnitIs DEF MappingIsSound
    <3> QED BY <3>1 DEF MatedIsSound, KeyOf
  <2>3. selected[c] = Select(Condition(c))
    BY <1>1, SelectionOf
  <2>4. c \in Comparisons /\ StageOf(c) = "mated"
    BY DEF OfStage
  <2>5. c \in SelfEligiblePairs(failed, {"mated"}) <=> key \notin FailedFingers(failed)
    BY <2>2, <2>4 DEF SelfEligiblePairs
  <2>6. Select(Condition(c)) = "included" <=> Condition(c) = "eligible"
    BY <2>1 DEF Select, Statuses
  <2> QED BY <1>2, <2>1, <2>3, <2>5, <2>6
<1>4. SelfEligiblePairs(failed, {"mated"}) \subseteq OfStage("mated")
  BY DEF SelfEligiblePairs, OfStage
<1>5. DOMAIN selected = OfStage("mated")
  BY <1>1, SelectionOf
<1>6. SelfEligiblePairs(failed, {"mated"}) = {c \in DOMAIN selected : selected[c] = "included"}
  BY <1>3, <1>4, <1>5
<1>7. ASSUME NEW c \in SelfEligiblePairs(failed, {"non_mated"}),
             NEW image \in {manifest[c].left, manifest[c].right}, KeyOf(image) \in DOMAIN units
      PROVE  units[KeyOf(image)].status = "eligible"
  <2>1. KeyOf(image) \notin FailedFingers(failed)
    BY <1>7 DEF SelfEligiblePairs
  <2> QED BY <1>1, <1>2, <1>7, <2>1
<1> QED BY <1>6, <1>7 DEF failed

-----------------------------------------------------------------------------
(* Evaluation: counts and rates.                                            *)

\* The comparisons a family is about, what the scores make of each, and those of
\* them in a scope that are made one of some labels.
MembersOf(family) == OfStage(IF family \in Stages THEN family ELSE "mated")
Label(family, c) ==
  CASE family = "conditional" -> IF Condition(c) = "eligible" THEN Kind(c) ELSE Condition(c)
    [] family = "eligibility" -> Condition(c)
    [] OTHER                  -> Kind(c)
Labels(family) ==
  CASE family = "conditional" -> Outcomes \cup {"ineligible", "undetermined"}
    [] family = "eligibility" -> Statuses
    [] OTHER                  -> Outcomes
Rows(family, scope, labels) ==
  {c \in MembersOf(family) : manifest[c].release \in scope /\ Label(family, c) \in labels}

LEMMA RowsAreFinite ==
  ASSUME NEW family, NEW scope, NEW labels
  PROVE  /\ Rows(family, scope, labels) \in SUBSET Comparisons
         /\ IsFiniteSet(Rows(family, scope, labels))
         /\ Cardinality(Rows(family, scope, labels)) \in 0..Cardinality(Comparisons)
         /\ Cardinality(Rows(family, scope, labels)) = 0 <=> Rows(family, scope, labels) = {}
<1>1. Rows(family, scope, labels) \in SUBSET Comparisons
  BY DEF Rows, MembersOf, OfStage
<1>2. /\ IsFiniteSet(Rows(family, scope, labels))
      /\ Cardinality(Rows(family, scope, labels)) <= Cardinality(Comparisons)
  BY <1>1, ComparisonsAreFinite, FS_Subset
<1>3. Cardinality(Rows(family, scope, labels)) \in Nat /\ Cardinality(Comparisons) \in Nat
  BY <1>2, ComparisonsAreFinite, FS_CardinalityType
<1> QED BY <1>1, <1>2, <1>3, FS_EmptySet

\* A count of the aggregate is the number of its rows.
LEMMA DecidedRows ==
  ASSUME DecisionsAre, NEW family \in Stages, NEW r, NEW o
  PROVE  DecidedAs(family, r, o) = Cardinality(Rows(family, {r}, {o}))
<1>1. {c \in OfStage(family) : manifest[c].release = r /\ decisions[c] = o}
        = Rows(family, {r}, {o})
  <2>1. MembersOf(family) = OfStage(family)
    BY DEF MembersOf
  <2>2. \A c \in OfStage(family) : Label(family, c) = decisions[c]
    BY KindsAreDecisions DEF Label, Stages, OfStage
  <2> QED BY <2>1, <2>2 DEF Rows
<1> QED BY <1>1 DEF DecidedAs

LEMMA StatusRows ==
  ASSUME EvInv, DecisionsAre, UnitsAre, NEW r, NEW s
  PROVE  Cardinality({key \in DOMAIN units : key.release = r /\ units[key].status = s})
           = Cardinality(Rows("eligibility", {r}, {s}))
<1> DEFINE K == {key \in DOMAIN units : key.release = r /\ units[key].status = s}
           C == Rows("eligibility", {r}, {s})
           f == [c \in C |-> KeyOf(manifest[c].left)]
<1>1. MappingIsSound /\ "mated" \in Governed /\ DOMAIN units = GovernedKeys
  BY UnitIs DEF Governed
<1>2. C = {c \in OfStage("mated") : manifest[c].release = r /\ Condition(c) = s}
  BY DEF Rows, MembersOf, Label, Stages
<1>3. ASSUME NEW c \in OfStage("mated")
      PROVE  /\ KeyOf(manifest[c].left) \in GovernedKeys
             /\ The(KeyOf(manifest[c].left), "mated") = c
             /\ KeyOf(manifest[c].left).release = manifest[c].release
             /\ units[KeyOf(manifest[c].left)].status = Condition(c)
  <2>1. MatedIsSound(manifest[c])
    BY <1>1 DEF MappingIsSound
  <2>2. KeyOf(manifest[c].left).release = manifest[c].release
    BY <2>1 DEF MatedIsSound, KeyOf
  <2> QED BY <1>1, <2>2, KeysOfStage, ConditionIs
<1>4. ASSUME NEW key \in GovernedKeys
      PROVE  The(key, "mated") \in OfStage("mated") /\ KeyOf(manifest[The(key, "mated")].left) = key
  BY <1>1, TheIs
<1> HIDE DEF K, C
<1>5. f \in [C -> K]
  BY <1>1, <1>2, <1>3 DEF K
<1>6. \A c, d \in C : f[c] = f[d] => c = d
  BY <1>2, <1>3
<1>7. \A key \in K : \E c \in C : f[c] = key
  <2> SUFFICES ASSUME NEW key \in K PROVE \E c \in C : f[c] = key
    OBVIOUS
  <2>1. key \in GovernedKeys /\ key.release = r /\ units[key].status = s
    BY <1>1 DEF K
  <2>2. The(key, "mated") \in C
    BY <1>2, <1>3, <1>4, <2>1
  <2> QED BY <1>4, <2>1, <2>2
<1>8. IsFiniteSet(C)
  BY RowsAreFinite DEF C
<1> HIDE DEF f
<1>9. Cardinality(K) = Cardinality(C)
  BY <1>5, <1>6, <1>7, <1>8, OneToOne
<1> QED BY <1>9 DEF K, C

LEMMA SelectedRows ==
  ASSUME EvInv, DecisionsAre, UnitsAre, SelectionIs, NEW r,
         NEW o \in Outcomes \cup {"ineligible", "undetermined"}
  PROVE  Cardinality(IF o \in Outcomes THEN {c \in InView(r, "included") : decisions[c] = o}
                                       ELSE InView(r, o))
           = Cardinality(Rows("conditional", {r}, {o}))
<1>1. Rows("conditional", {r}, {o})
        = {c \in OfStage("mated") : manifest[c].release = r /\ Label("conditional", c) = o}
  BY DEF Rows, MembersOf, Stages
<1>2. ASSUME NEW c \in OfStage("mated")
      PROVE  /\ selected[c] = Select(Condition(c)) /\ Condition(c) \in Statuses
             /\ Kind(c) = decisions[c] /\ decisions[c] \in Outcomes
  BY SelectionOf, ConditionIs, KindsAreDecisions DEF OfStage
<1>3. DOMAIN selected = OfStage("mated")
  BY SelectionOf
<1>4. CASE o \in Outcomes
  <2>1. ASSUME NEW c \in OfStage("mated")
        PROVE  selected[c] = "included" /\ decisions[c] = o <=> Label("conditional", c) = o
    BY <1>2, <1>4 DEF Label, Select, Statuses, Outcomes
  <2>2. {c \in InView(r, "included") : decisions[c] = o} = Rows("conditional", {r}, {o})
    BY <1>1, <1>3, <2>1 DEF InView
  <2> QED BY <1>4, <2>2
<1>5. CASE o \notin Outcomes
  <2>1. ASSUME NEW c \in OfStage("mated")
        PROVE  selected[c] = o <=> Label("conditional", c) = o
    BY <1>2, <1>5 DEF Label, Select, Statuses, Outcomes
  <2>2. InView(r, o) = Rows("conditional", {r}, {o})
    BY <1>1, <1>3, <2>1 DEF InView
  <2> QED BY <1>5, <2>2
<1> QED BY <1>4, <1>5

LEMMA CountsAreRows ==
  ASSUME EvInv, evAt = "counted", NEW family \in Families, NEW r \in EvReleases
  PROVE  /\ DOMAIN counts[family][r] = Labels(family)
         /\ \A o \in Labels(family) : counts[family][r][o] = Cardinality(Rows(family, {r}, {o}))
<1>1. DecisionsAre /\ UnitsAre /\ SelectionIs /\ CountsAre
  BY DEF EvInv
<1>2. counts[family][r] = Tally(family, r)
  BY <1>1 DEF CountsAre
<1>3. CASE family \in Stages
  <2>1. Tally(family, r) = [o \in Outcomes |-> DecidedAs(family, r, o)]
    <3>1. family # "eligibility" /\ family # "conditional"
      BY <1>3 DEF Stages
    <3> QED BY <1>3, <3>1 DEF Tally
  <2>2. Labels(family) = Outcomes
    BY <1>3 DEF Labels, Stages
  <2> QED BY <1>1, <1>2, <1>3, <2>1, <2>2, DecidedRows
<1>4. CASE family = "eligibility"
  <2>1. Tally(family, r)
          = [s \in Statuses |->
               Cardinality({key \in DOMAIN units : key.release = r /\ units[key].status = s})]
    BY <1>4 DEF Tally, Stages
  <2>2. Labels(family) = Statuses
    BY <1>4 DEF Labels
  <2> QED BY <1>1, <1>2, <1>4, <2>1, <2>2, StatusRows
<1>5. CASE family = "conditional"
  <2>1. Tally(family, r)
          = [o \in Outcomes \cup {"ineligible", "undetermined"} |->
               Cardinality(IF o \in Outcomes
                             THEN {c \in InView(r, "included") : decisions[c] = o}
                             ELSE InView(r, o))]
    BY <1>5 DEF Tally, Stages
  <2>2. Labels(family) = Outcomes \cup {"ineligible", "undetermined"}
    BY <1>5 DEF Labels
  <2> QED BY <1>1, <1>2, <1>5, <2>1, <2>2, SelectedRows
<1> QED BY <1>3, <1>4, <1>5 DEF Families

\* A pooled count is the number of its rows: no row is counted for two releases or
\* as two things.
LEMMA PooledCounts ==
  ASSUME EvInv, evAt = "counted", NEW family \in Families,
         NEW scope \in SUBSET EvReleases, NEW labels \in SUBSET Labels(family)
  PROVE  Counted(family, scope, labels) = Cardinality(Rows(family, scope, labels))
<1> DEFINE D == scope \X labels
           A == [ro \in D |-> Rows(family, {ro[1]}, {ro[2]})]
           g == [ro \in D |-> counts[family][ro[1]][ro[2]]]
<1>1. IsFiniteSet(D)
  <2>1. IsFiniteSet(Labels(family))
    <3>1. Labels(family) \in SUBSET
            (({"match"} \cup {"non_match"}) \cup {"undecidable"})
              \cup (({"eligible"} \cup {"ineligible"}) \cup {"undetermined"})
      BY DEF Labels, Outcomes, Statuses
    <3>2. IsFiniteSet((({"match"} \cup {"non_match"}) \cup {"undecidable"})
                        \cup (({"eligible"} \cup {"ineligible"}) \cup {"undetermined"}))
      BY FS_Singleton, FS_Union
    <3> QED BY <3>1, <3>2, FS_Subset
  <2>2. IsFiniteSet(labels)
    BY <2>1, FS_Subset
  <2>3. IsFiniteSet(scope)
    BY EvaluationAssumption, FS_Subset DEF EvaluationAssumption
  <2> QED BY <2>2, <2>3, FS_Product
<1>2. A \in [D -> SUBSET Comparisons]
  BY RowsAreFinite
<1>3. \A p, q \in D : p # q => A[p] \cap A[q] = {}
  BY DEF Rows
<1>4. g = [ro \in D |-> Cardinality(A[ro])]
  <2>1. ASSUME NEW ro \in D PROVE counts[family][ro[1]][ro[2]] = Cardinality(A[ro])
    <3>1. ro[1] \in EvReleases /\ ro[2] \in Labels(family)
      OBVIOUS
    <3> QED BY <3>1, CountsAreRows
  <2> QED BY <2>1
<1>5. Over(A, D) = Rows(family, scope, labels)
  <2>1. ASSUME NEW c, c \in Rows(family, scope, labels) PROVE c \in Over(A, D)
    <3>1. <<manifest[c].release, Label(family, c)>> \in D
      BY <2>1 DEF Rows
    <3>2. c \in A[<<manifest[c].release, Label(family, c)>>]
      BY <2>1, <3>1 DEF Rows
    <3> QED BY <3>1, <3>2 DEF Over
  <2>2. ASSUME NEW c, c \in Over(A, D) PROVE c \in Rows(family, scope, labels)
    BY <2>2 DEF Over, Rows
  <2> QED BY <2>1, <2>2
<1>6. Counted(family, scope, labels) = SumFunction(g)
  BY DEF Counted
<1> HIDE DEF D, A, g
<1>7. SumFunction(g) = Cardinality(Over(A, D))
  BY <1>1, <1>2, <1>3, <1>4, ComparisonsAreFinite, SumCounts
<1> QED BY <1>5, <1>6, <1>7

\* Of every metric the numerator is part of the denominator, and that of what its
\* family counts.
LEMMA MetricsAre ==
  ASSUME NEW metric \in Metrics
  PROVE  /\ metric.family \in Families
         /\ metric.numerator \subseteq Denominator(metric)
         /\ Denominator(metric) \subseteq Labels(metric.family)
<1>1. CASE metric \in {Metric(f, {"match"}, d) : f \in {"plain_self", "roll_self", "non_mated"},
                                                 d \in {"decided", "attempts"}}
  <2>1. PICK f \in {"plain_self", "roll_self", "non_mated"}, d \in {"decided", "attempts"} :
          metric = Metric(f, {"match"}, d)
    BY <1>1
  <2>2. metric.family = f /\ metric.numerator = {"match"} /\ metric.denominator = d
    BY <2>1 DEF Metric
  <2>3. Denominator(metric) \in {{"match", "non_match"}, Outcomes}
    BY <2>2 DEF Denominator
  <2> QED BY <2>2, <2>3 DEF Families, Stages, Labels, Outcomes
<1>2. CASE metric \in {Metric("eligibility", {s}, "attempts") : s \in Statuses}
  <2>1. PICK s \in Statuses : metric = Metric("eligibility", {s}, "attempts")
    BY <1>2
  <2>2. metric.family = "eligibility" /\ metric.numerator = {s} /\ metric.denominator = "attempts"
    BY <2>1 DEF Metric
  <2>3. Denominator(metric) = Statuses
    BY <2>2 DEF Denominator
  <2> QED BY <2>2, <2>3 DEF Families, Labels
<1>3. CASE metric \in {Metric(f, {"non_match"}, "decided") : f \in {"mated", "conditional"}}
  <2>1. PICK f \in {"mated", "conditional"} : metric = Metric(f, {"non_match"}, "decided")
    BY <1>3
  <2>2. metric.family = f /\ metric.numerator = {"non_match"} /\ metric.denominator = "decided"
    BY <2>1 DEF Metric
  <2>3. Denominator(metric) = {"match", "non_match"}
    BY <2>2 DEF Denominator
  <2> QED BY <2>2, <2>3 DEF Families, Stages, Labels, Outcomes
<1>4. CASE metric \in {Metric(f, {"non_match", "undecidable"}, "attempts")
                         : f \in {"mated", "conditional"}}
  <2>1. PICK f \in {"mated", "conditional"} :
          metric = Metric(f, {"non_match", "undecidable"}, "attempts")
    BY <1>4
  <2>2. metric.family = f /\ metric.numerator = {"non_match", "undecidable"}
        /\ metric.denominator = "attempts"
    BY <2>1 DEF Metric
  <2>3. Denominator(metric) = Outcomes
    BY <2>2 DEF Denominator
  <2> QED BY <2>2, <2>3 DEF Families, Stages, Labels, Outcomes
<1>5. CASE metric = Metric("conditional", Outcomes, "rows")
  <2>1. metric.family = "conditional" /\ metric.numerator = Outcomes /\ metric.denominator = "rows"
    BY <1>5 DEF Metric
  <2>2. Denominator(metric) = Outcomes \cup {"ineligible", "undetermined"}
    BY <2>1 DEF Denominator
  <2> QED BY <2>1, <2>2 DEF Families, Labels
<1> QED BY <1>1, <1>2, <1>3, <1>4, <1>5 DEF Metrics

\* The rows that the definition of a rate counts are those of the aggregate.
LEMMA PopulationIs ==
  ASSUME NEW family \in Families, NEW scope, NEW labels
  PROVE  /\ {p \in Population(family, scope) : p[2] \in labels} = {}
              <=> Rows(family, scope, labels) = {}
         /\ Cardinality({p \in Population(family, scope) : p[2] \in labels})
              = Cardinality(Rows(family, scope, labels))
<1> DEFINE P == {p \in Population(family, scope) : p[2] \in labels}
           R == Rows(family, scope, labels)
           in == {c \in Comparisons : manifest[c].release \in scope}
           f == [c \in R |-> <<c, Label(family, c)>>]
<1>1. Population(family, scope) = {<<c, Label(family, c)>> : c \in in \cap MembersOf(family)}
  <2>1. CASE family = "conditional"
    <3>1. MembersOf(family) = OfStage("mated")
      BY <2>1 DEF MembersOf, Stages
    <3> QED BY <2>1, <3>1 DEF Population, Label
  <2>2. CASE family = "eligibility"
    <3>1. MembersOf(family) = OfStage("mated")
      BY <2>2 DEF MembersOf, Stages
    <3> QED BY <2>2, <3>1 DEF Population, Label
  <2>3. CASE family \in Stages
    <3>1. MembersOf(family) = OfStage(family)
      BY <2>3 DEF MembersOf
    <3>2. family # "eligibility" /\ family # "conditional"
      BY <2>3 DEF Stages
    <3> QED BY <3>1, <3>2 DEF Population, Label
  <2> QED BY <2>1, <2>2, <2>3 DEF Families
<1>2. R = {c \in in \cap MembersOf(family) : Label(family, c) \in labels}
  BY DEF Rows, MembersOf, OfStage
<1>3. P = {<<c, Label(family, c)>> : c \in R}
  BY <1>1, <1>2
<1>4. IsFiniteSet(R)
  BY RowsAreFinite
<1> HIDE DEF R, P
<1>5. f \in [R -> P] /\ (\A c, d \in R : f[c] = f[d] => c = d) /\ \A p \in P : \E c \in R : f[c] = p
  BY <1>3
<1> HIDE DEF f
<1>6. Cardinality(P) = Cardinality(R)
  BY <1>4, <1>5, OneToOne
<1> QED BY <1>3, <1>6 DEF P, R

LEMMA RatesAreShares == EvInv => NumbersAreWhatTheySay
<1> SUFFICES ASSUME EvInv, evAt = "counted", NEW metric \in Metrics, NEW scope \in Scopes
             PROVE  LET rows == {p \in Population(metric.family, scope) : p[2] \in Denominator(metric)}
                        hits == {p \in rows : p[2] \in metric.numerator}
                    IN Observation(metric, scope) =
                         IF rows = {} THEN "undefined" ELSE <<Cardinality(hits), Cardinality(rows)>>
  BY DEF NumbersAreWhatTheySay
<1> DEFINE rows == {p \in Population(metric.family, scope) : p[2] \in Denominator(metric)}
           hits == {p \in rows : p[2] \in metric.numerator}
           of == Rows(metric.family, scope, Denominator(metric))
           part == Rows(metric.family, scope, metric.numerator)
<1>1. /\ metric.family \in Families /\ metric.numerator \subseteq Denominator(metric)
      /\ Denominator(metric) \subseteq Labels(metric.family)
  BY MetricsAre
<1>2. scope \in SUBSET EvReleases
  BY DEF Scopes
<1>3. hits = {p \in Population(metric.family, scope) : p[2] \in metric.numerator}
  BY <1>1
<1>4. (rows = {} <=> of = {}) /\ Cardinality(rows) = Cardinality(of)
  BY <1>1, PopulationIs
<1>5. Cardinality(hits) = Cardinality(part)
  BY <1>1, <1>3, PopulationIs
<1>6. /\ Counted(metric.family, scope, Denominator(metric)) = Cardinality(of)
      /\ Counted(metric.family, scope, metric.numerator) = Cardinality(part)
  BY <1>1, <1>2, PooledCounts
<1>7. Cardinality(of) = 0 <=> of = {}
  BY RowsAreFinite
<1> HIDE DEF rows, hits, of, part
<1>8. Observation(metric, scope) =
        IF rows = {} THEN "undefined" ELSE <<Cardinality(hits), Cardinality(rows)>>
  BY <1>4, <1>5, <1>6, <1>7 DEF Observation
<1> QED BY <1>8 DEF rows, hits

LEMMA EvTypes == EvInv => EvTypeOK
<1> SUFFICES ASSUME EvInv PROVE EvTypeOK
  OBVIOUS
<1>1. /\ evAt \in {"inputs", "ran", "decided", "mapped", "viewed", "counted", "refused"}
      /\ \A c \in DOMAIN indexed : indexed[c] \in Scores \cup {"failed"}
      /\ DOMAIN stored = DOMAIN indexed
  BY DEF EvInv
<1>2. /\ DOMAIN units \subseteq Keys
      /\ \A key \in DOMAIN units : units[key].status \in Statuses
  <2>1. CASE units = <<>>
    BY <2>1
  <2>2. CASE UnitsAre
    <3>1. GovernedKeys \subseteq Keys
      BY ManifestIs, ImagesAre DEF GovernedKeys, OfStage
    <3>2. \A a, b : StatusOf(a, b) \in Statuses
      BY DEF StatusOf, Statuses
    <3> QED BY <2>2, <3>1, <3>2, UnitIs
  <2> QED BY <2>1, <2>2 DEF EvInv
<1>3. \A c \in DOMAIN decisions : decisions[c] \in Outcomes
  <2>1. CASE decisions = <<>>
    BY <2>1
  <2>2. CASE DecisionsAre
    <3>1. DOMAIN decisions = Comparisons
      BY <2>2 DEF DecisionsAre
    <3> QED BY <2>2, <3>1, KindsAreDecisions
  <2> QED BY <2>1, <2>2 DEF EvInv
<1>4. ASSUME evAt = "counted", NEW f \in Families, NEW r \in EvReleases,
             NEW o \in DOMAIN counts[f][r]
      PROVE  counts[f][r][o] \in 0..Cardinality(Comparisons)
  <2>1. o \in Labels(f) /\ counts[f][r][o] = Cardinality(Rows(f, {r}, {o}))
    BY <1>4, CountsAreRows
  <2> QED BY <2>1, RowsAreFinite
<1> QED BY <1>1, <1>2, <1>3, <1>4 DEF EvTypeOK

\* From whatever manifest and results, through every layer that refuses rather
\* than repairs: units are three comparisons of one finger, the two selections of
\* surviving fingers agree, and every published fraction, of a release or pooled,
\* is the share of comparisons its name says (apply_decision_profile,
\* derive_eligibility, build_views, aggregate, the metric policy).
THEOREM RatesAreWhatTheySay ==
  EvSpec => [](EvTypeOK /\ UnitsAreWhole /\ FiltersAgree /\ NumbersAreWhatTheySay)
<1>1. EvInv => EvTypeOK /\ UnitsAreWhole /\ FiltersAgree /\ NumbersAreWhatTheySay
  BY EvTypes, UnitsAreTheirFingers, FiltersSelectTheSame, RatesAreShares
<1> QED BY <1>1, EvInvariant, PTL

USE ThresholdAssumption DEF ThresholdAssumption

-----------------------------------------------------------------------------
(* Threshold: scores and sets of attempts.                                  *)

\* Whom a threshold at x accepts.
AcceptedBy(x, attempts) ==
  {a \in Scored(attempts) : score[a] = x \/ Beyond(score[a], x)}

\* What StartSweep takes for its inputs.
Graded == score \in [Attempts -> 0..MaxScore] /\ higher \in BOOLEAN

LEMMA GreatestOf ==
  ASSUME NEW T \in SUBSET Nat, T # {}, NEW n \in Nat, \A k \in T : k <= n
  PROVE  \E m \in T : \A k \in T : k <= m
<1> DEFINE U == {n - k : k \in T}
<1>1. U \in SUBSET Nat /\ U # {}
  <2>1. \A k \in T : n - k \in Nat
    OBVIOUS
  <2> QED BY <2>1
<1>2. PICK u \in U : \A k \in U : u <= k
  BY <1>1, LeastOf
<1>3. PICK m \in T : u = n - m
  OBVIOUS
<1>4. \A k \in T : n - k \in U
  OBVIOUS
<1> HIDE DEF U
<1>5. ASSUME NEW k \in T PROVE k <= m
  <2>1. n - m <= n - k
    BY <1>2, <1>3, <1>4
  <2>2. n \in Nat /\ m \in Nat /\ k \in Nat
    BY <1>3
  <2> HIDE DEF U
  <2> QED BY ONLY <2>1, <2>2
<1> QED BY <1>3, <1>5

\* The last of a set of scores in the order of the sweep.
LEMMA FurthestOf ==
  ASSUME NEW T \in SUBSET (0..MaxScore), T # {}
  PROVE  \E y \in T : \A z \in T : z = y \/ Beyond(z, y)
<1>1. CASE higher
  <2>1. PICK m \in T : \A k \in T : m <= k
    BY LeastOf
  <2> QED BY <1>1, <2>1 DEF Beyond
<1>2. CASE ~higher
  <2>1. PICK m \in T : \A k \in T : k <= m
    <3>1. T \in SUBSET Nat /\ MaxScore \in Nat /\ \A k \in T : k <= MaxScore
      OBVIOUS
    <3> QED BY <3>1, GreatestOf, Zenon
  <2> QED BY <1>2, <2>1 DEF Beyond
<1> QED BY <1>1, <1>2

\* ... and the first, which is what the sweep and select_boundary begin with.
LEMMA StrictestOf ==
  ASSUME NEW T \in SUBSET (0..MaxScore), T # {}
  PROVE  \E y \in T : \A z \in T : ~Beyond(z, y)
<1>1. CASE higher
  <2>1. PICK m \in T : \A k \in T : k <= m
    <3>1. T \in SUBSET Nat /\ MaxScore \in Nat /\ \A k \in T : k <= MaxScore
      OBVIOUS
    <3> QED BY <3>1, GreatestOf, Zenon
  <2> QED BY <1>1, <2>1 DEF Beyond
<1>2. CASE ~higher
  <2>1. PICK m \in T : \A k \in T : m <= k
    BY LeastOf
  <2> QED BY <1>2, <2>1 DEF Beyond
<1> QED BY <1>1, <1>2

LEMMA BeyondOrders ==
  ASSUME NEW x \in Int, NEW y \in Int, NEW z \in Int
  PROVE  /\ ~Beyond(x, x)
         /\ Beyond(x, y) => ~Beyond(y, x)
         /\ Beyond(x, y) \/ x = y \/ Beyond(y, x)
         /\ Beyond(x, y) /\ Beyond(y, z) => Beyond(x, z)
BY DEF Beyond

LEMMA CountsOfAttempts ==
  ASSUME NEW A \in SUBSET Attempts
  PROVE  IsFiniteSet(A) /\ Cardinality(A) \in Nat
<1>1. IsFiniteSet(Attempts)
  BY FS_Interval DEF Attempts
<1> QED BY <1>1, FS_Subset, FS_CardinalityType

LEMMA HowManyAttempts ==
  /\ Genuine \in SUBSET Attempts /\ Cardinality(Genuine) = NGenuine
  /\ Impostors \in SUBSET Attempts /\ Cardinality(Impostors) = NImpostor
<1>1. Genuine = 1..NGenuine /\ Impostors = (NGenuine + 1)..(NGenuine + NImpostor)
  BY DEF Genuine, Impostors, Attempts
<1>2. Cardinality(1..NGenuine) = NGenuine
  BY FS_Interval
<1>3. Cardinality((NGenuine + 1)..(NGenuine + NImpostor)) = NImpostor
  BY FS_Interval
<1> QED BY <1>1, <1>2, <1>3 DEF Attempts

LEMMA FewerAttempts ==
  ASSUME NEW A \in SUBSET Attempts, NEW B \in SUBSET A
  PROVE  /\ Cardinality(A) \in Nat /\ Cardinality(B) \in Nat
         /\ Cardinality(B) <= Cardinality(A)
BY CountsOfAttempts, FS_Subset

LEMMA ScoresAreGrades ==
  ASSUME Graded, NEW A \in SUBSET Attempts
  PROVE  /\ Scored(A) \in SUBSET A /\ Scored(A) \in SUBSET Attempts
         /\ ScoresOf(A) \in SUBSET (1..MaxScore)
         /\ \A a \in Scored(A) : score[a] \in ScoresOf(A) /\ score[a] \in 1..MaxScore
BY DEF Graded, Scored, ScoresOf, Failed


-----------------------------------------------------------------------------
(* The invariant of the sweep.                                              *)

PointsFit ==
  /\ points \in Seq([cut : 0..MaxScore, genuine : Nat, impostor : Nat])
  /\ Len(points) >= 1
  /\ points[1].genuine = 0 /\ points[1].impostor = 0

\* The counters that were carried along are those of a threshold at the cut.
PointsCount == \A i \in 2..Len(points) :
  /\ points[i].cut \in ScoresOf(Attempts)
  /\ points[i].genuine = Cardinality(AcceptedBy(points[i].cut, Genuine))
  /\ points[i].impostor = Cardinality(AcceptedBy(points[i].cut, Impostors))

CutsAreOrdered == \A i, j \in 2..Len(points) :
  i < j => Beyond(points[i].cut, points[j].cut)

\* There are no more points than scores: each cut leaves one fewer.
CutsHaveRoom == \A i \in 2..Len(points) :
  IF higher THEN points[i].cut + i <= MaxScore + 2 ELSE i <= points[i].cut + 1

\* The sweep skips no score.
NoneSkipped == \A y \in ScoresOf(Attempts) :
  y \in Uncut \/ \E i \in 2..Len(points) : points[i].cut = y

Sweep == PointsFit /\ PointsCount /\ CutsAreOrdered /\ CutsHaveRoom /\ NoneSkipped

\* What the evaluation takes: of the points within the target the best.
FarPoint(t, i) ==
  /\ i \in 1..Len(points) /\ Within(points[i].impostor, NImpostor, t)
  /\ \A j \in 1..Len(points) : Within(points[j].impostor, NImpostor, t) => Better(i, j)

\* What the calibration takes: of the most permissive boundaries an inclusive one.
BestBoundary(t, b) ==
  /\ b \in Admissible(t)
  /\ \A c \in Admissible(t) :
       /\ Permissiveness(c) <= Permissiveness(b)
       /\ Permissiveness(c) = Permissiveness(b) /\ b.strict => c.strict

Chosen ==
  /\ FarPoint(target, point)
  /\ IF Scored(Impostors) = {} THEN boundary = <<>> ELSE BestBoundary(target, boundary)

ThInv ==
  /\ thAt \in {"inputs", "sweeping", "swept", "chosen"} /\ target \in 0..TargetUnit
  /\ thAt = "inputs" => points = <<>>
  /\ thAt # "inputs" => Graded /\ Sweep
  /\ thAt \in {"swept", "chosen"} => Uncut = {}
  /\ thAt # "chosen" => point = 0 /\ boundary = <<>>
  /\ thAt = "chosen" => Chosen

LEMMA AcceptedIn ==
  ASSUME Graded, NEW x, NEW A \in SUBSET Attempts
  PROVE  /\ AcceptedBy(x, A) \in SUBSET A
         /\ AcceptedAt(x, A) = Cardinality(AcceptedBy(x, A))
         /\ IsFiniteSet(AcceptedBy(x, A)) /\ Cardinality(AcceptedBy(x, A)) \in Nat
         /\ Cardinality(AcceptedBy(x, A)) <= Cardinality(A)
<1>1. AcceptedBy(x, A) \in SUBSET A /\ AcceptedBy(x, A) \in SUBSET Attempts
  BY DEF AcceptedBy, Scored
<1> QED BY <1>1, CountsOfAttempts, FewerAttempts DEF AcceptedBy, AcceptedAt

\* Between two thresholds with nobody's score in between nothing changes.
LEMMA SameAccepted ==
  ASSUME Graded, NEW A \in SUBSET Attempts, NEW x \in Int, NEW y \in Int,
         y = x \/ Beyond(y, x),
         \A a \in AcceptedBy(x, A) : score[a] = y \/ Beyond(score[a], y)
  PROVE  AcceptedBy(x, A) = AcceptedBy(y, A)
<1>1. ASSUME NEW a \in AcceptedBy(y, A) PROVE a \in AcceptedBy(x, A)
  <2>1. a \in Scored(A) /\ score[a] \in Int /\ (score[a] = y \/ Beyond(score[a], y))
    BY <1>1, ScoresAreGrades DEF AcceptedBy
  <2>2. Beyond(score[a], y) /\ Beyond(y, x) => Beyond(score[a], x)
    BY <2>1, BeyondOrders
  <2> QED BY <2>1, <2>2 DEF AcceptedBy
<1> QED BY <1>1 DEF AcceptedBy

\* A cut accepts whom the cut before it accepted, and those who are tied at it.
LEMMA TiedAreAdded ==
  ASSUME Graded, NEW A \in SUBSET Attempts, NEW c \in Int, NEW x \in ScoresOf(Attempts),
         Beyond(c, x),
         \A a \in AcceptedBy(x, A) : score[a] = x \/ score[a] = c \/ Beyond(score[a], c)
  PROVE  Cardinality(AcceptedBy(x, A)) = Cardinality(AcceptedBy(c, A)) + Tied(x, A)
<1> DEFINE T == {a \in A : score[a] = x}
<1>1. x \in Int /\ x # Failed
  BY ScoresAreGrades DEF Failed
<1>2. AcceptedBy(c, A) \cap T = {}
  BY <1>1, BeyondOrders DEF AcceptedBy
<1>3. ASSUME NEW a \in AcceptedBy(c, A) PROVE a \in AcceptedBy(x, A)
  <2>1. a \in Scored(A) /\ score[a] \in Int /\ (score[a] = c \/ Beyond(score[a], c))
    BY <1>3, ScoresAreGrades DEF AcceptedBy
  <2>2. Beyond(score[a], c) => Beyond(score[a], x)
    BY <1>1, <2>1, BeyondOrders
  <2> QED BY <2>1, <2>2 DEF AcceptedBy
<1>4. T \subseteq AcceptedBy(x, A)
  BY <1>1 DEF AcceptedBy, Scored
<1>5. ASSUME NEW a \in AcceptedBy(x, A) PROVE a \in AcceptedBy(c, A) \cup T
  BY <1>5 DEF AcceptedBy, Scored
<1>6. /\ IsFiniteSet(T) /\ Cardinality(T) \in Nat
      /\ IsFiniteSet(AcceptedBy(c, A)) /\ Cardinality(AcceptedBy(c, A)) \in Nat
  BY CountsOfAttempts, AcceptedIn
<1>7. Cardinality(AcceptedBy(c, A) \cup T)
        = Cardinality(AcceptedBy(c, A)) + Cardinality(T) - Cardinality({})
  BY <1>2, <1>6, FS_Union
<1>8. AcceptedBy(x, A) = AcceptedBy(c, A) \cup T
  BY <1>3, <1>4, <1>5
<1> QED BY <1>6, <1>7, <1>8, FS_EmptySet DEF Tied

-----------------------------------------------------------------------------
(* A cut keeps the invariant.                                               *)

LEMMA FirstPoint ==
  ASSUME ThInv, StartSweep PROVE Graded' /\ Sweep'
<1>1. Len(points') = 1 /\ points'[1] = [cut |-> Failed, genuine |-> 0, impostor |-> 0]
  BY DEF StartSweep
<1>2. points' \in Seq([cut : 0..MaxScore, genuine : Nat, impostor : Nat])
  BY DEF StartSweep, Failed
<1>3. PointsFit'
  BY <1>1, <1>2 DEF PointsFit
<1>4. PointsCount' /\ CutsAreOrdered' /\ CutsHaveRoom'
  BY <1>1 DEF PointsCount, CutsAreOrdered, CutsHaveRoom
<1>5. NoneSkipped'
  BY <1>1 DEF NoneSkipped, Uncut
<1> QED BY <1>3, <1>4, <1>5 DEF StartSweep, Graded, Sweep

LEMMA ElementsOf ==
  ASSUME NEW S, NEW s \in Seq(S)
  PROVE  /\ Len(s) \in Nat /\ DOMAIN s = 1..Len(s)
         /\ \A i \in 1..Len(s) : s[i] \in S
OBVIOUS

LEMMA PointsAre ==
  ASSUME PointsFit
  PROVE  /\ Len(points) \in Nat /\ Len(points) > 0 /\ DOMAIN points = 1..Len(points)
         /\ \A i \in 1..Len(points) : /\ points[i].cut \in 0..MaxScore
                                      /\ points[i].genuine \in Nat
                                      /\ points[i].impostor \in Nat
<1>1. points \in Seq([cut : 0..MaxScore, genuine : Nat, impostor : Nat])
  BY DEF PointsFit
<1>2. \A i \in 1..Len(points) : points[i] \in [cut : 0..MaxScore, genuine : Nat, impostor : Nat]
  BY <1>1, ElementsOf, Zenon
<1>3. \A i \in 1..Len(points) : /\ points[i].cut \in 0..MaxScore
                                /\ points[i].genuine \in Nat
                                /\ points[i].impostor \in Nat
  BY <1>2
<1>4. Len(points) \in Nat /\ Len(points) > 0
  BY <1>1 DEF PointsFit
<1> QED BY <1>1, <1>3, <1>4

\* The sweep's next score ends the order of the scores before it: whoever is
\* accepted there is tied or was accepted already.
LEMMA NextIsNext ==
  ASSUME ThInv, thAt = "sweeping", NEW x \in Uncut, \A y \in Uncut : ~Beyond(y, x),
         NEW A \in SUBSET Attempts
  PROVE  LET last == points[Len(points)] IN
         /\ Cardinality(AcceptedBy(x, A)) \in Nat
         /\ Len(points) = 1 => Cardinality(AcceptedBy(x, A)) = Tied(x, A)
         /\ Len(points) > 1 => /\ Beyond(last.cut, x)
                               /\ Cardinality(AcceptedBy(x, A))
                                    = Cardinality(AcceptedBy(last.cut, A)) + Tied(x, A)
<1> DEFINE last == points[Len(points)]
<1>1. Graded /\ PointsFit /\ PointsCount /\ CutsAreOrdered /\ NoneSkipped
  BY DEF ThInv, Sweep
<1>0. Len(points) \in Nat /\ Len(points) > 0
  BY <1>1, PointsAre
<1>2. x \in ScoresOf(Attempts) /\ x \in Int /\ x # Failed
  BY <1>1, ScoresAreGrades DEF Uncut, Failed
<1>3. \A a \in AcceptedBy(x, A) :
        a \in Attempts /\ a \in Scored(Attempts) /\ score[a] \in ScoresOf(Attempts)
        /\ score[a] \in Int
  BY <1>1, ScoresAreGrades DEF AcceptedBy, Scored
<1>4. Cardinality(AcceptedBy(x, A)) \in Nat
  BY <1>1, AcceptedIn
<1>5. CASE Len(points) = 1
  <2>1. \A a \in AcceptedBy(x, A) : score[a] = x
    BY <1>3, <1>5 DEF AcceptedBy, Uncut
  <2>2. AcceptedBy(x, A) = {a \in A : score[a] = x}
    BY <1>2, <2>1 DEF AcceptedBy, Scored
  <2> QED BY <1>4, <1>5, <2>2 DEF Tied
<1>6. CASE Len(points) > 1
  <2>1. Len(points) \in 2..Len(points)
    BY <1>0, <1>6
  <2>2. last.cut \in Int /\ Beyond(last.cut, x)
    BY <1>1, <1>6, <2>1, PointsAre DEF Uncut, LastPoint
  <2>3. ASSUME NEW a \in AcceptedBy(x, A), score[a] # x
        PROVE  score[a] = last.cut \/ Beyond(score[a], last.cut)
    <3>1. score[a] \in ScoresOf(Attempts) /\ Beyond(score[a], x)
      BY <1>3, <2>3 DEF AcceptedBy
    <3>2. PICK i \in 2..Len(points) : points[i].cut = score[a]
      BY <1>1, <3>1 DEF NoneSkipped
    <3>3. i = Len(points) \/ i < Len(points)
      BY <1>0, <3>2
    <3> QED BY <1>1, <2>1, <3>2, <3>3 DEF CutsAreOrdered
  <2>4. Cardinality(AcceptedBy(x, A)) = Cardinality(AcceptedBy(last.cut, A)) + Tied(x, A)
    BY <1>1, <1>2, <2>2, <2>3, TiedAreAdded
  <2> QED BY <1>4, <1>6, <2>2, <2>4
<1> QED BY <1>0, <1>4, <1>5, <1>6

LEMMA AppendedPoint ==
  ASSUME PointsFit, NEW p, points' = Append(points, p)
  PROVE  /\ Len(points') = Len(points) + 1 /\ points'[Len(points) + 1] = p
         /\ \A i \in 1..Len(points) : points'[i] = points[i]
<1>1. points \in Seq([cut : 0..MaxScore, genuine : Nat, impostor : Nat])
  BY DEF PointsFit
<1> QED BY <1>1

LEMMA CutKeepsTheSweep ==
  ASSUME ThInv, Cut PROVE Graded' /\ Sweep'
<1> DEFINE n == Len(points)
           last == points[n]
<1>1. /\ thAt = "sweeping" /\ Graded /\ Sweep /\ score' = score /\ higher' = higher
  BY DEF Cut, ThInv
<1>2. PointsFit /\ PointsCount /\ CutsAreOrdered /\ CutsHaveRoom /\ NoneSkipped
  BY <1>1 DEF Sweep
<1>3. PICK x \in Uncut :
        /\ \A y \in Uncut : ~Beyond(y, x)
        /\ points' = Append(points, [cut |-> x,
                       genuine  |-> LastPoint.genuine + Tied(x, Genuine),
                       impostor |-> LastPoint.impostor + Tied(x, Impostors)])
  BY DEF Cut
<1> DEFINE new == [cut |-> x, genuine  |-> LastPoint.genuine + Tied(x, Genuine),
                   impostor |-> LastPoint.impostor + Tied(x, Impostors)]
<1>4. /\ n \in Nat /\ n > 0 /\ (n = 1 \/ n > 1) /\ n \in 1..n
      /\ \A i \in 1..n : points[i].cut \in 0..MaxScore
  BY <1>2, PointsAre
<1>5. /\ Len(points') = n + 1 /\ points'[n + 1] = new
      /\ \A i \in 1..n : points'[i] = points[i]
  BY <1>2, <1>3, AppendedPoint
<1>6. x \in ScoresOf(Attempts) /\ x \in 1..MaxScore
  BY <1>1, ScoresAreGrades DEF Uncut
<1>7. n > 1 => Beyond(last.cut, x)
  BY <1>1, <1>3, NextIsNext, HowManyAttempts
<1>8. /\ new.genuine = Cardinality(AcceptedBy(x, Genuine))
      /\ new.impostor = Cardinality(AcceptedBy(x, Impostors))
      /\ new.genuine \in Nat /\ new.impostor \in Nat
  <2>1. CASE n = 1
    <3>1. LastPoint.genuine = 0 /\ LastPoint.impostor = 0
      BY <1>2, <2>1 DEF LastPoint, PointsFit
    <3>2. /\ Cardinality(AcceptedBy(x, Genuine)) \in Nat
          /\ Cardinality(AcceptedBy(x, Genuine)) = Tied(x, Genuine)
          /\ Cardinality(AcceptedBy(x, Impostors)) \in Nat
          /\ Cardinality(AcceptedBy(x, Impostors)) = Tied(x, Impostors)
      BY <1>1, <1>3, <2>1, NextIsNext, HowManyAttempts
    <3> QED BY <3>1, <3>2
  <2>2. CASE n > 1
    <3>1. n \in 2..n
      BY <1>4, <2>2
    <3>2. /\ LastPoint.genuine = Cardinality(AcceptedBy(last.cut, Genuine))
          /\ LastPoint.impostor = Cardinality(AcceptedBy(last.cut, Impostors))
      BY <1>2, <3>1 DEF LastPoint, PointsCount
    <3>3. /\ Cardinality(AcceptedBy(x, Genuine)) \in Nat
          /\ Cardinality(AcceptedBy(x, Genuine))
               = Cardinality(AcceptedBy(last.cut, Genuine)) + Tied(x, Genuine)
          /\ Cardinality(AcceptedBy(x, Impostors)) \in Nat
          /\ Cardinality(AcceptedBy(x, Impostors))
               = Cardinality(AcceptedBy(last.cut, Impostors)) + Tied(x, Impostors)
      BY <1>1, <1>3, <2>2, NextIsNext, HowManyAttempts
    <3> QED BY <3>2, <3>3
  <2> QED BY <1>4, <2>1, <2>2
<1> HIDE DEF new, n
<1>9. new.cut = x
  BY DEF new
<1>10. PointsFit'
  <2>1. new \in [cut : 0..MaxScore, genuine : Nat, impostor : Nat]
    BY <1>6, <1>8, <1>9 DEF new
  <2>2. points' \in Seq([cut : 0..MaxScore, genuine : Nat, impostor : Nat])
    BY <1>2, <1>3, <2>1 DEF PointsFit, new
  <2>3. points'[1].genuine = 0 /\ points'[1].impostor = 0
    BY <1>2, <1>4, <1>5 DEF PointsFit
  <2> QED BY <1>4, <1>5, <2>2, <2>3 DEF PointsFit
<1>11. \A i \in 2..(n + 1) : i = n + 1 \/ (i \in 2..n /\ i \in 1..n)
  BY <1>4
<1>12. PointsCount'
  <2>1. \A i \in 2..Len(points') :
          /\ points'[i].cut \in ScoresOf(Attempts)
          /\ points'[i].genuine = Cardinality(AcceptedBy(points'[i].cut, Genuine))
          /\ points'[i].impostor = Cardinality(AcceptedBy(points'[i].cut, Impostors))
    BY <1>2, <1>5, <1>6, <1>8, <1>9, <1>11 DEF PointsCount, n
  <2> QED BY <1>1, <2>1 DEF PointsCount, ScoresOf, Scored, AcceptedBy, Beyond
<1>13. \A i \in 2..n : Beyond(points[i].cut, x)
  <2> SUFFICES ASSUME NEW i \in 2..n PROVE Beyond(points[i].cut, x)
    OBVIOUS
  <2>1. i = n \/ (i < n /\ n \in 2..n /\ n > 1) 
    BY <1>4
  <2>2. i = n => Beyond(points[i].cut, x)
    BY <1>7, <1>4
  <2>3. i < n /\ n \in 2..n => Beyond(points[i].cut, last.cut)
    BY <1>2 DEF CutsAreOrdered, n
  <2>4. i \in 1..n
    BY <1>4
  <2>5. points[i].cut \in Int /\ last.cut \in Int /\ x \in Int
    BY <1>4, <1>6, <2>4
  <2> QED BY <1>7, <2>1, <2>2, <2>3, <2>5, BeyondOrders
<1>14. CutsAreOrdered'
  <2>1. \A i, j \in 2..Len(points') : i < j => Beyond(points'[i].cut, points'[j].cut)
    BY <1>2, <1>4, <1>5, <1>9, <1>11, <1>13 DEF CutsAreOrdered, n
  <2> QED BY <1>1, <2>1 DEF CutsAreOrdered, Beyond
<1>15. CutsHaveRoom'
  <2>1. n = 1 => IF higher THEN x + (n + 1) <= MaxScore + 2 ELSE n + 1 <= x + 1
    BY <1>4, <1>6
  <2>2. n > 1 => IF higher THEN x + (n + 1) <= MaxScore + 2 ELSE n + 1 <= x + 1
    <3> SUFFICES ASSUME n > 1
                 PROVE  IF higher THEN x + (n + 1) <= MaxScore + 2 ELSE n + 1 <= x + 1
      OBVIOUS
    <3>1. n \in 2..n
      BY <1>4
    <3>2. IF higher THEN last.cut + n <= MaxScore + 2 ELSE n <= last.cut + 1
      BY <1>2, <3>1 DEF CutsHaveRoom, n
    <3>3. last.cut \in Int
      BY <1>4
    <3> QED BY <1>4, <1>6, <1>7, <3>2, <3>3 DEF Beyond
  <2>3. \A i \in 2..Len(points') :
          IF higher THEN points'[i].cut + i <= MaxScore + 2 ELSE i <= points'[i].cut + 1
    BY <1>2, <1>4, <1>5, <1>9, <1>11, <2>1, <2>2 DEF CutsHaveRoom, n
  <2> QED BY <1>1, <2>3 DEF CutsHaveRoom
<1>16. NoneSkipped'
  <2> SUFFICES ASSUME NEW y \in ScoresOf(Attempts)
               PROVE  \/ Beyond(x, y)
                      \/ \E i \in 2..Len(points') : points'[i].cut = y
    <3>1. LastPoint'.cut = x
      BY <1>5, <1>9 DEF LastPoint
    <3> QED BY <1>1, <3>1 DEF NoneSkipped, Uncut, ScoresOf, Scored, Beyond
  <2>1. CASE y = x
    BY <1>4, <1>5, <1>9, <2>1
  <2>2. CASE y \in Uncut /\ y # x
    <3>1. y \in Int /\ x \in Int
      BY <1>1, <1>6, ScoresAreGrades
    <3> QED BY <1>3, <2>2, <3>1, BeyondOrders
  <2>3. ASSUME NEW i \in 2..n, points[i].cut = y
        PROVE  \E j \in 2..Len(points') : points'[j].cut = y
    BY <1>4, <1>5, <2>3
  <2> QED BY <1>2, <2>1, <2>2, <2>3 DEF NoneSkipped, n
<1>17. Graded'
  BY <1>1 DEF Graded
<1> QED BY <1>10, <1>12, <1>14, <1>15, <1>16, <1>17 DEF Sweep

-----------------------------------------------------------------------------
(* The choices exist.                                                       *)

LEMMA ProductIsNatural == ASSUME NEW a \in Nat, NEW b \in Nat PROVE a * b \in Nat
OBVIOUS

LEMMA PointsAreCounts ==
  ASSUME Graded, Sweep
  PROVE  \A i \in 1..Len(points) :
           points[i].genuine \in 0..NGenuine /\ points[i].impostor \in 0..NImpostor
<1>1. PointsFit /\ PointsCount
  BY DEF Sweep
<1>2. points[1].genuine = 0 /\ points[1].impostor = 0 /\ Len(points) \in Nat
  BY <1>1, PointsAre DEF PointsFit
<1>3. ASSUME NEW i \in 2..Len(points)
      PROVE  points[i].genuine \in 0..NGenuine /\ points[i].impostor \in 0..NImpostor
  BY <1>1, AcceptedIn, HowManyAttempts DEF PointsCount
<1> QED BY <1>2, <1>3

LEMMA FarPointExists ==
  ASSUME Graded, Sweep, NEW t \in Nat
  PROVE  FarPoint(t, FarTargetPoint(t))
<1> DEFINE W == {i \in 1..Len(points) : Within(points[i].impostor, NImpostor, t)}
<1>1. PointsFit /\ Len(points) \in Nat /\ DOMAIN points = 1..Len(points) /\ Len(points) > 0
  BY PointsAre DEF Sweep
<1>2. 1 \in W
  <2>1. points[1].impostor * TargetUnit <= t * NImpostor
    BY <1>1, ProductIsNatural DEF PointsFit
  <2> QED BY <1>1, <2>1 DEF Within
<1>3. \A i \in W : points[i].genuine \in 0..NGenuine /\ points[i].impostor \in Nat
  BY PointsAreCounts
<1> HIDE DEF W
<1>4. PICK g \in {points[i].genuine : i \in W} : \A h \in {points[i].genuine : i \in W} : h <= g
  <2> DEFINE G == {points[i].genuine : i \in W}
  <2>1. G \in SUBSET Nat /\ G # {} /\ NGenuine \in Nat /\ \A h \in G : h <= NGenuine
    BY <1>2, <1>3
  <2> HIDE DEF G
  <2>2. \E g \in G : \A h \in G : h <= g
    BY <2>1, GreatestOf, Zenon
  <2> QED BY <2>2 DEF G
<1> DEFINE V == {i \in W : points[i].genuine = g}
<1>5. PICK m \in {points[i].impostor : i \in V} : \A k \in {points[i].impostor : i \in V} : m <= k
  <2> DEFINE I == {points[i].impostor : i \in V}
  <2>1. I \in SUBSET Nat /\ I # {}
    BY <1>3, <1>4
  <2> HIDE DEF I
  <2>2. \E m \in I : \A k \in I : m <= k
    BY <2>1, LeastOf, Zenon
  <2> QED BY <2>2 DEF I
<1> DEFINE U == {i \in V : points[i].impostor = m}
<1>6. PICK i \in U : \A j \in U : i <= j
  <2>1. U \in SUBSET Nat /\ U # {}
    BY <1>5 DEF W
  <2> HIDE DEF U
  <2> QED BY <2>1, LeastOf, Zenon
<1>7. ASSUME NEW j \in W PROVE Better(i, j)
  <2>1. /\ points[i].genuine = g /\ points[i].impostor = m
        /\ points[j].genuine \in Int /\ points[j].impostor \in Int /\ g \in Int /\ m \in Int
    BY <1>3, <1>4, <1>5, <1>6
  <2>2. points[j].genuine <= g
    BY <1>4
  <2>3. points[j].genuine = g => m <= points[j].impostor
    BY <1>5
  <2>4. points[j].genuine = g /\ points[j].impostor = m => i <= j
    BY <1>6
  <2> QED BY <2>1, <2>2, <2>3, <2>4 DEF Better
<1>8. i \in W /\ \A j \in W : Better(i, j)
  BY <1>6, <1>7
<1>9. W = {k \in DOMAIN points : Within(points[k].impostor, NImpostor, t)}
  BY <1>1 DEF W
<1>10. FarTargetPoint(t) \in W /\ \A j \in W : Better(FarTargetPoint(t), j)
  BY <1>8, <1>9 DEF FarTargetPoint
<1> QED BY <1>10 DEF FarPoint, W

\* The impostors' scores that a boundary decides are a match.
Decided(b) == {x \in ScoresOf(Impostors) : Decides(b, x)}

LEMMA DecidedIn ==
  ASSUME Graded, NEW b
  PROVE  /\ Permissiveness(b) = Cardinality(Decided(b)) /\ IsFiniteSet(Decided(b))
         /\ Permissiveness(b) \in Nat /\ Permissiveness(b) <= MaxScore
<1>1. Decided(b) \in SUBSET (1..MaxScore)
  BY ScoresAreGrades, HowManyAttempts DEF Decided
<1>2. IsFiniteSet(1..MaxScore) /\ Cardinality(1..MaxScore) = MaxScore
  BY FS_Interval
<1> QED BY <1>1, <1>2, FS_Subset, FS_CardinalityType DEF Decided, Permissiveness

LEMMA CandidatesAre ==
  ASSUME Graded, NEW b \in Candidates
  PROVE  /\ b.threshold \in ScoresOf(Impostors) /\ b.threshold \in 1..MaxScore
         /\ b.strict \in BOOLEAN
BY ScoresAreGrades, HowManyAttempts DEF Candidates

LEMMA MatchesIn ==
  ASSUME Graded, NEW b, NEW A \in SUBSET Attempts
  PROVE  /\ Matches(b, A) \in SUBSET Scored(A) /\ Matches(b, A) \in SUBSET Attempts
         /\ IsFiniteSet(Matches(b, A)) /\ Cardinality(Matches(b, A)) \in Nat
<1>1. Matches(b, A) \in SUBSET Scored(A) /\ Matches(b, A) \in SUBSET Attempts
  BY DEF Matches, Scored
<1> QED BY <1>1, CountsOfAttempts

LEMMA SomeAdmissible ==
  ASSUME Graded, Scored(Impostors) # {}, NEW t \in Nat
  PROVE  Admissible(t) # {}
<1>1. ScoresOf(Impostors) \in SUBSET (0..MaxScore) /\ ScoresOf(Impostors) # {}
  <2>1. ScoresOf(Impostors) \in SUBSET (1..MaxScore)
    BY ScoresAreGrades, HowManyAttempts
  <2> QED BY <2>1 DEF ScoresOf
<1>2. PICK y \in ScoresOf(Impostors) : \A z \in ScoresOf(Impostors) : ~Beyond(z, y)
  BY <1>1, StrictestOf
<1> DEFINE b == [threshold |-> y, strict |-> TRUE]
<1>3. b \in Candidates /\ b.threshold = y /\ b.strict = TRUE
  BY DEF Candidates
<1>4. \A a \in Scored(Impostors) : ~Decides(b, score[a])
  BY <1>2, <1>3, ScoresAreGrades, HowManyAttempts DEF Decides
<1>5. Matches(b, Impostors) = {}
  BY <1>4 DEF Matches
<1>6. Cardinality(Matches(b, Impostors)) = 0
  BY <1>5, FS_EmptySet
<1>7. Cardinality(Scored(Impostors)) \in Nat
  BY CountsOfAttempts, ScoresAreGrades, HowManyAttempts
<1>8. 0 * TargetUnit <= t * Cardinality(Scored(Impostors))
  BY <1>7, ProductIsNatural
<1> QED BY <1>3, <1>6, <1>8 DEF Admissible, Within

LEMMA BoundaryExists ==
  ASSUME Graded, Scored(Impostors) # {}, NEW t \in Nat
  PROVE  BestBoundary(t, Boundary(t))
<1> DEFINE best == {b \in Admissible(t) : \A c \in Admissible(t) :
                      Permissiveness(c) <= Permissiveness(b)}
           first(b, c) == IF b.strict = c.strict THEN b.threshold <= c.threshold ELSE ~b.strict
<1>1. best # {}
  <2> DEFINE P == {Permissiveness(b) : b \in Admissible(t)}
  <2>1. P \in SUBSET Nat /\ P # {} /\ MaxScore \in Nat /\ \A p \in P : p <= MaxScore
    BY SomeAdmissible, DecidedIn
  <2> HIDE DEF P
  <2>2. PICK p \in P : \A q \in P : q <= p
    BY <2>1, GreatestOf, Zenon
  <2> QED BY <2>2 DEF P
<1>2. \A b \in best : /\ b.threshold \in Nat /\ b.strict \in BOOLEAN /\ b \in Admissible(t)
                      /\ \A c \in Admissible(t) : Permissiveness(c) <= Permissiveness(b)
                      /\ Permissiveness(b) \in Nat
  BY CandidatesAre, DecidedIn DEF Admissible
<1>3. \A c \in Admissible(t), b \in best :
        Permissiveness(c) = Permissiveness(b) => c \in best
  OBVIOUS
<1> HIDE DEF best
<1>4. \E b \in best : \A c \in best : first(b, c)
  <2> DEFINE N == {b.threshold : b \in {c \in best : ~c.strict}}
             M == {b.threshold : b \in best}
  <2>1. CASE N # {}
    <3>1. N \in SUBSET Nat
      BY <1>2
    <3>2. PICK n \in N : \A k \in N : n <= k
      BY <2>1, <3>1, LeastOf
    <3>3. PICK b \in best : ~b.strict /\ b.threshold = n
      BY <3>2
    <3>4. ASSUME NEW c \in best PROVE first(b, c)
      <4>1. CASE c.strict
        BY <1>2, <3>3, <4>1
      <4>2. CASE ~c.strict
        BY <1>2, <3>2, <3>3, <4>2
      <4> QED BY <4>1, <4>2
    <3> QED BY <3>4
  <2>2. CASE N = {}
    <3>1. M \in SUBSET Nat /\ M # {}
      BY <1>1, <1>2
    <3>2. PICK n \in M : \A k \in M : n <= k
      BY <3>1, LeastOf
    <3>3. PICK b \in best : b.threshold = n
      BY <3>2
    <3>4. \A c \in best : c.strict = TRUE
      BY <1>2, <2>2
    <3> QED BY <3>2, <3>3, <3>4
  <2> QED BY <2>1, <2>2
<1>5. Boundary(t) = CHOOSE b \in best : \A c \in best : first(b, c)
  BY DEF Boundary, best
<1>6. Boundary(t) \in best /\ \A c \in best : first(Boundary(t), c)
  BY <1>4, <1>5
<1>7. ASSUME NEW c \in Admissible(t), Permissiveness(c) = Permissiveness(Boundary(t)),
             Boundary(t).strict
      PROVE  c.strict
  BY <1>2, <1>3, <1>6, <1>7
<1> QED BY <1>2, <1>6, <1>7 DEF BestBoundary

-----------------------------------------------------------------------------
(* What is chosen is the best there is.                                     *)

\* No threshold is missing from a sweep that is over.
LEMMA EveryThreshold ==
  ASSUME Graded, Sweep, Uncut = {}, NEW x \in Int
  PROVE  \E i \in 1..Len(points) :
           /\ points[i].genuine = Cardinality(AcceptedBy(x, Genuine))
           /\ points[i].impostor = Cardinality(AcceptedBy(x, Impostors))
<1> DEFINE T == {score[a] : a \in AcceptedBy(x, Attempts)}
<1>1. /\ PointsFit /\ PointsCount /\ CutsAreOrdered /\ NoneSkipped
      /\ Len(points) \in Nat /\ Len(points) > 0
  BY PointsAre DEF Sweep
<1>2. /\ T \in SUBSET (0..MaxScore)
      /\ \A y \in T : y \in ScoresOf(Attempts) /\ (y = x \/ Beyond(y, x))
  BY ScoresAreGrades DEF AcceptedBy
<1>3. \A A \in SUBSET Attempts : \A a \in AcceptedBy(x, A) : score[a] \in T
  BY DEF AcceptedBy, Scored
<1> HIDE DEF T
<1>4. CASE T = {}
  <2>1. AcceptedBy(x, Genuine) = {} /\ AcceptedBy(x, Impostors) = {}
    BY <1>3, <1>4, HowManyAttempts
  <2> QED BY <1>1, <2>1, FS_EmptySet DEF PointsFit
<1>5. CASE T # {}
  <2>1. PICK y \in T : \A z \in T : z = y \/ Beyond(z, y)
    BY <1>2, <1>5, FurthestOf
  <2>2. PICK i \in 2..Len(points) : points[i].cut = y
    BY <1>1, <1>2 DEF NoneSkipped
  <2>3. y \in Int
    BY <1>2
  <2>4. ASSUME NEW A \in SUBSET Attempts PROVE AcceptedBy(x, A) = AcceptedBy(y, A)
    <3>1. \A a \in AcceptedBy(x, A) : score[a] = y \/ Beyond(score[a], y)
      BY <1>3, <2>1
    <3> QED BY <1>2, <2>3, <3>1, SameAccepted
  <2>5. i \in 1..Len(points)
    BY <1>1
  <2> QED BY <1>1, <2>2, <2>4, <2>5, HowManyAttempts DEF PointsCount
<1> QED BY <1>4, <1>5

\* The evaluation's point, among all thresholds.
LEMMA FarPointIsOptimal ==
  ASSUME Graded, Sweep, Uncut = {}, NEW t \in Nat, NEW i, FarPoint(t, i), NEW x \in Int,
         Within(Cardinality(AcceptedBy(x, Impostors)), NImpostor, t)
  PROVE  \/ Cardinality(AcceptedBy(x, Genuine)) < points[i].genuine
         \/ /\ Cardinality(AcceptedBy(x, Genuine)) = points[i].genuine
            /\ Cardinality(AcceptedBy(x, Impostors)) >= points[i].impostor
<1>1. PICK j \in 1..Len(points) :
        /\ points[j].genuine = Cardinality(AcceptedBy(x, Genuine))
        /\ points[j].impostor = Cardinality(AcceptedBy(x, Impostors))
  BY EveryThreshold
<1>2. i \in 1..Len(points) /\ Better(i, j)
  BY <1>1 DEF FarPoint
<1>3. /\ points[i].genuine \in Int /\ points[i].impostor \in Int
      /\ points[j].genuine \in Int /\ points[j].impostor \in Int
  BY <1>2, PointsAreCounts
<1> QED BY <1>1, <1>2, <1>3 DEF Better

LEMMA InclusiveMatches ==
  ASSUME Graded, NEW y \in ScoresOf(Impostors), NEW A \in SUBSET Attempts
  PROVE  LET c == [threshold |-> y, strict |-> FALSE] IN
         c \in Candidates /\ c.strict = FALSE /\ Matches(c, A) = AcceptedBy(y, A)
BY DEF Candidates, Matches, AcceptedBy, Decides

\* Boundaries are nested, so that counting the scores they decide compares them.
LEMMA BoundariesNest ==
  ASSUME Graded, NEW b \in Candidates, NEW c \in Candidates,
         Permissiveness(c) <= Permissiveness(b)
  PROVE  Decided(c) \subseteq Decided(b)
<1> SUFFICES ASSUME NEW x \in Decided(c), x \notin Decided(b) PROVE FALSE
  OBVIOUS
<1>1. /\ x \in ScoresOf(Impostors) /\ Decides(c, x) /\ ~Decides(b, x)
      /\ b.threshold \in Int /\ c.threshold \in Int /\ ScoresOf(Impostors) \in SUBSET Int
  BY CandidatesAre, ScoresAreGrades, HowManyAttempts DEF Decided
<1>2. ASSUME NEW z \in Decided(b) PROVE z \in Decided(c)
  <2>1. z \in ScoresOf(Impostors) /\ z \in Int /\ x \in Int /\ Decides(b, z)
    BY <1>1 DEF Decided
  <2>2. Decides(c, z)
    BY <1>1, <2>1 DEF Decides, Beyond
  <2> QED BY <2>1, <2>2 DEF Decided
<1>3. Decided(b) \in SUBSET Decided(c)
  BY <1>2
<1>4. Cardinality(Decided(b)) = Cardinality(Decided(c))
  BY <1>3, DecidedIn, FS_Subset
<1>5. Decided(c) = Decided(b)
  BY <1>3, <1>4, DecidedIn, FS_Subset
<1> QED BY <1>5

\* The calibration's boundary, among all thresholds.
LEMMA BoundaryIsOptimal ==
  ASSUME Graded, NEW t \in Nat, NEW b, BestBoundary(t, b), NEW x \in Int,
         Within(Cardinality(AcceptedBy(x, Impostors)), Cardinality(Scored(Impostors)), t)
  PROVE  Cardinality(AcceptedBy(x, Impostors)) <= Cardinality(Matches(b, Impostors))
<1> DEFINE T == {score[a] : a \in AcceptedBy(x, Impostors)}
<1>1. /\ T \in SUBSET (0..MaxScore)
      /\ \A y \in T : y \in ScoresOf(Impostors) /\ (y = x \/ Beyond(y, x))
      /\ \A a \in AcceptedBy(x, Impostors) : score[a] \in T
  BY ScoresAreGrades, HowManyAttempts DEF AcceptedBy
<1>2. Impostors \in SUBSET Attempts /\ Cardinality(Matches(b, Impostors)) \in Nat
  BY MatchesIn, HowManyAttempts
<1> HIDE DEF T
<1>3. CASE T = {}
  <2>1. AcceptedBy(x, Impostors) = {}
    BY <1>1, <1>3
  <2> QED BY <1>2, <2>1, FS_EmptySet
<1>4. CASE T # {}
  <2>1. PICK y \in T : \A z \in T : z = y \/ Beyond(z, y)
    BY <1>1, <1>4, FurthestOf
  <2>2. y \in Int /\ y \in ScoresOf(Impostors)
    BY <1>1
  <2>3. \A a \in AcceptedBy(x, Impostors) : score[a] = y \/ Beyond(score[a], y)
    BY <1>1, <2>1
  <2>4. AcceptedBy(x, Impostors) = AcceptedBy(y, Impostors)
    BY <1>1, <1>2, <2>2, <2>3, SameAccepted
  <2> DEFINE c == [threshold |-> y, strict |-> FALSE]
  <2>5. c \in Candidates /\ Matches(c, Impostors) = AcceptedBy(x, Impostors)
    BY <1>2, <2>2, <2>4, InclusiveMatches
  <2> HIDE DEF c
  <2>6. c \in Admissible(t) /\ b \in Candidates
    BY <2>5 DEF Admissible, BestBoundary
  <2>7. Decided(c) \subseteq Decided(b)
    BY <2>5, <2>6, BoundariesNest DEF BestBoundary
  <2>8. \A a \in Scored(Impostors) : score[a] \in ScoresOf(Impostors)
    BY <1>2, ScoresAreGrades
  <2>9. Matches(c, Impostors) \in SUBSET Matches(b, Impostors)
    BY <2>7, <2>8 DEF Matches, Decided
  <2> QED BY <1>2, <2>5, <2>9, MatchesIn, FewerAttempts
<1> QED BY <1>3, <1>4

LEMMA StrictAcceptsNobody ==
  ASSUME Graded, NEW t \in Nat, NEW b, BestBoundary(t, b), b.strict
  PROVE  Matches(b, Impostors) = {}
<1> DEFINE T == {score[a] : a \in Matches(b, Impostors)}
<1> SUFFICES ASSUME Matches(b, Impostors) # {} PROVE FALSE
  OBVIOUS
<1>1. /\ b \in Candidates /\ b.threshold \in Int /\ Impostors \in SUBSET Attempts
      /\ \A a \in Scored(Impostors) : score[a] \in ScoresOf(Impostors) /\ score[a] \in 1..MaxScore
  BY CandidatesAre, ScoresAreGrades, HowManyAttempts DEF BestBoundary, Admissible
<1>2. /\ T \in SUBSET (0..MaxScore) /\ T # {}
      /\ \A y \in T : y \in ScoresOf(Impostors) /\ Decides(b, y)
  BY <1>1 DEF Matches
<1>3. PICK y \in T : \A z \in T : z = y \/ Beyond(z, y)
  BY <1>2, FurthestOf
<1> DEFINE c == [threshold |-> y, strict |-> FALSE]
<1>4. /\ c \in Candidates /\ c.threshold = y /\ c.strict = FALSE /\ y \in Int
      /\ Decides(b, y)
  BY <1>1, <1>2, InclusiveMatches
<1> HIDE DEF c
<1>5. ASSUME NEW a \in Scored(Impostors) PROVE Decides(c, score[a]) <=> Decides(b, score[a])
  <2>1. score[a] \in Int
    BY <1>1
  <2>2. Decides(b, score[a]) => Decides(c, score[a])
    <3>1. Decides(b, score[a]) => score[a] \in T
      BY DEF Matches
    <3> QED BY <1>3, <1>4, <3>1 DEF Decides
  <2>3. Decides(c, score[a]) => Decides(b, score[a])
    BY <1>1, <1>4, <2>1 DEF Decides, Beyond
  <2> QED BY <2>2, <2>3
<1>6. Matches(c, Impostors) = Matches(b, Impostors)
  BY <1>5 DEF Matches
<1>7. Decided(c) = Decided(b)
  BY <1>5 DEF Decided, ScoresOf
<1>8. Permissiveness(c) = Permissiveness(b)
  BY <1>7, DecidedIn
<1>9. c \in Admissible(t)
  BY <1>4, <1>6 DEF Admissible, BestBoundary
<1> QED BY <1>4, <1>8, <1>9 DEF BestBoundary

LEMMA MoreAttemptsAllowMore ==
  ASSUME NEW t \in Nat, NEW n \in Nat, NEW m \in Nat, n <= m
  PROVE  t * n <= t * m
<1>1. t * (m - n) \in Nat
  BY ProductIsNatural
<1>2. t * (m - n) = t * m - t * n
  OBVIOUS
<1> QED BY <1>1, <1>2

\* A strict boundary is an inclusive one a score further.
LEMMA BoundaryIsAThreshold ==
  ASSUME Graded, NEW b \in Candidates
  PROVE  \E x \in Int : \A A \in SUBSET Attempts : Matches(b, A) = AcceptedBy(x, A)
<1> DEFINE x == IF ~b.strict THEN b.threshold
                ELSE IF higher THEN b.threshold + 1 ELSE b.threshold - 1
<1>1. b.threshold \in Int /\ x \in Int
  BY CandidatesAre
<1>2. ASSUME NEW A \in SUBSET Attempts, NEW a \in Scored(A)
      PROVE  Decides(b, score[a]) <=> (score[a] = x \/ Beyond(score[a], x))
  <2>1. score[a] \in Int
    BY <1>2, ScoresAreGrades
  <2>2. CASE ~b.strict
    BY <2>2 DEF Decides
  <2>3. CASE b.strict /\ higher
    BY <1>1, <2>1, <2>3 DEF Decides, Beyond
  <2>4. CASE b.strict /\ ~higher
    BY <1>1, <2>1, <2>4 DEF Decides, Beyond
  <2> QED BY <2>2, <2>3, <2>4
<1>3. \A A \in SUBSET Attempts : Matches(b, A) = AcceptedBy(x, A)
  BY <1>2 DEF Matches, AcceptedBy
<1> QED BY <1>1, <1>3

LEMMA SweepReachesTheBoundary ==
  ASSUME Graded, Sweep, Uncut = {}, NEW t \in Nat, NEW i, FarPoint(t, i),
         NEW b, BestBoundary(t, b)
  PROVE  Cardinality(Matches(b, Genuine)) <= points[i].genuine
<1>1. b \in Admissible(t) /\ b \in Candidates
  BY DEF BestBoundary, Admissible
<1>2. PICK x \in Int : \A A \in SUBSET Attempts : Matches(b, A) = AcceptedBy(x, A)
  BY <1>1, BoundaryIsAThreshold
<1> DEFINE taken == Cardinality(Matches(b, Impostors))
           n == Cardinality(Scored(Impostors))
<1>3. taken * TargetUnit <= t * n
  BY <1>1 DEF Admissible, Within
<1>4. n \in Nat /\ n <= NImpostor /\ taken \in Nat
  <2>1. n \in Nat /\ n <= Cardinality(Impostors)
    BY ScoresAreGrades, HowManyAttempts, FewerAttempts
  <2> QED BY <2>1, MatchesIn, HowManyAttempts
<1>5. t * n <= t * NImpostor
  BY <1>4, MoreAttemptsAllowMore
<1>6. taken * TargetUnit \in Nat /\ t * n \in Nat /\ t * NImpostor \in Nat
  BY <1>4, ProductIsNatural
<1>7. taken * TargetUnit <= t * NImpostor
  BY <1>3, <1>5, <1>6
<1>8. Within(Cardinality(AcceptedBy(x, Impostors)), NImpostor, t)
  BY <1>2, <1>7, HowManyAttempts DEF Within
<1>9. /\ Matches(b, Genuine) = AcceptedBy(x, Genuine)
      /\ Cardinality(AcceptedBy(x, Genuine)) \in Nat
  BY <1>2, HowManyAttempts, AcceptedIn
<1>10. i \in 1..Len(points) /\ points[i].genuine \in Int
  BY PointsAreCounts DEF FarPoint
<1>11. \/ Cardinality(AcceptedBy(x, Genuine)) < points[i].genuine
       \/ Cardinality(AcceptedBy(x, Genuine)) = points[i].genuine
  BY <1>8, FarPointIsOptimal
<1> QED BY <1>9, <1>10, <1>11

LEMMA ChosenIsOptimal == ThInv =>
  /\ ThTypeOK /\ PointsAreThresholds /\ FarChoiceIsOptimal
  /\ BoundaryIsMostPermissive /\ GenuineNeverMoveTheBoundary
  /\ SweepIsNoWorse
<1> SUFFICES ASSUME ThInv
             PROVE  /\ ThTypeOK /\ PointsAreThresholds /\ FarChoiceIsOptimal
                    /\ BoundaryIsMostPermissive /\ GenuineNeverMoveTheBoundary
                    /\ SweepIsNoWorse
  OBVIOUS
<1>1. CASE thAt = "inputs"
  <2>1. points = <<>> /\ point = 0 /\ boundary = <<>> /\ target \in 0..TargetUnit
    BY <1>1 DEF ThInv
  <2>2. ThTypeOK
    BY <1>1, <2>1 DEF ThTypeOK
  <2>3. PointsAreThresholds
    BY <1>1, <2>1 DEF PointsAreThresholds
  <2> QED BY <1>1, <2>2, <2>3 DEF FarChoiceIsOptimal, BoundaryIsMostPermissive,
            GenuineNeverMoveTheBoundary, SweepIsNoWorse
<1>2. CASE thAt # "inputs"
  <2>1. /\ Graded /\ Sweep /\ target \in 0..TargetUnit /\ target \in Nat
        /\ thAt \in {"sweeping", "swept", "chosen"}
    BY <1>2 DEF ThInv
  <2>2. /\ PointsFit /\ PointsCount /\ CutsHaveRoom
        /\ Len(points) \in Nat /\ Len(points) > 0 /\ DOMAIN points = 1..Len(points)
    BY <2>1, PointsAre DEF Sweep
  <2>3. \A y, A : AcceptedAt(y, A) = Cardinality(AcceptedBy(y, A))
    BY DEF AcceptedAt, AcceptedBy
  <2>4. ThTypeOK
    <3>1. Len(points) <= MaxScore + 1
      <4>1. CASE Len(points) > 1
        <5>1. Len(points) \in 2..Len(points)
          BY <2>2, <4>1
        <5>2. points[Len(points)].cut \in 1..MaxScore
          BY <2>1, <2>2, <5>1, ScoresAreGrades DEF PointsCount
        <5> QED BY <2>2, <5>1, <5>2 DEF CutsHaveRoom
      <4> QED BY <2>2, <4>1
    <3>2. point \in 0..Len(points)
      BY <2>1, <2>2 DEF ThInv, Chosen, FarPoint
    <3>3. \A k \in DOMAIN points :
            points[k].genuine \in 0..NGenuine /\ points[k].impostor \in 0..NImpostor
      BY <2>1, <2>2, PointsAreCounts
    <3> QED BY <2>1, <3>1, <3>2, <3>3 DEF ThTypeOK, Graded
  <2>5. PointsAreThresholds
    <3>1. \A k \in 2..Len(points) :
            /\ points[k].genuine = AcceptedAt(points[k].cut, Genuine)
            /\ points[k].impostor = AcceptedAt(points[k].cut, Impostors)
      BY <2>2, <2>3 DEF PointsCount
    <3>2. ASSUME thAt \in {"swept", "chosen"}, NEW x \in 0..(MaxScore + 1)
          PROVE  \E k \in DOMAIN points :
                   /\ points[k].genuine = AcceptedAt(x, Genuine)
                   /\ points[k].impostor = AcceptedAt(x, Impostors)
      <4>1. Uncut = {}
        BY <3>2 DEF ThInv
      <4>2. PICK k \in 1..Len(points) :
              /\ points[k].genuine = Cardinality(AcceptedBy(x, Genuine))
              /\ points[k].impostor = Cardinality(AcceptedBy(x, Impostors))
        <5>1. x \in Int
          OBVIOUS
        <5> QED BY <2>1, <4>1, <5>1, EveryThreshold
      <4> QED BY <2>2, <2>3, <4>2
    <3> QED BY <3>1, <3>2 DEF PointsAreThresholds
  <2>6. CASE thAt # "chosen"
    BY <2>4, <2>5, <2>6 DEF FarChoiceIsOptimal, BoundaryIsMostPermissive,
       GenuineNeverMoveTheBoundary, SweepIsNoWorse
  <2>7. CASE thAt = "chosen"
    <3>1. /\ Uncut = {} /\ FarPoint(target, point)
          /\ boundary # <<>> => BestBoundary(target, boundary)
      BY <2>7 DEF ThInv, Chosen
    <3>2. FarChoiceIsOptimal
      <4>1. Within(points[point].impostor, NImpostor, target)
        BY <3>1 DEF FarPoint
      <4>2. ASSUME NEW x \in 0..(MaxScore + 1),
                   Within(AcceptedAt(x, Impostors), NImpostor, target)
            PROVE  \/ AcceptedAt(x, Genuine) < points[point].genuine
                   \/ /\ AcceptedAt(x, Genuine) = points[point].genuine
                      /\ AcceptedAt(x, Impostors) >= points[point].impostor
        BY <2>1, <2>3, <3>1, <4>2, FarPointIsOptimal
      <4> QED BY <4>1, <4>2 DEF FarChoiceIsOptimal
    <3>3. BoundaryIsMostPermissive
      <4> SUFFICES ASSUME boundary # <<>>
                   PROVE  LET taken == Cardinality(Matches(boundary, Impostors))
                              n == Cardinality(Scored(Impostors))
                          IN /\ taken * TargetUnit <= target * n
                             /\ \A x \in 0..(MaxScore + 1) :
                                  AcceptedAt(x, Impostors) * TargetUnit <= target * n =>
                                    AcceptedAt(x, Impostors) <= taken
        BY DEF BoundaryIsMostPermissive
      <4>1. BestBoundary(target, boundary)
        BY <3>1
      <4>2. Cardinality(Matches(boundary, Impostors)) * TargetUnit
              <= target * Cardinality(Scored(Impostors))
        BY <4>1 DEF BestBoundary, Admissible, Within
      <4>3. ASSUME NEW x \in 0..(MaxScore + 1),
                   AcceptedAt(x, Impostors) * TargetUnit
                     <= target * Cardinality(Scored(Impostors))
            PROVE  AcceptedAt(x, Impostors) <= Cardinality(Matches(boundary, Impostors))
        <5>1. Within(Cardinality(AcceptedBy(x, Impostors)), Cardinality(Scored(Impostors)), target)
          BY <2>3, <4>3 DEF Within
        <5> QED BY <2>1, <2>3, <4>1, <5>1, BoundaryIsOptimal
      <4> QED BY <4>2, <4>3
    <3>4. GenuineNeverMoveTheBoundary
      <4>1. boundary # <<>> => boundary.threshold \in ScoresOf(Impostors)
        BY <2>1, <3>1, CandidatesAre DEF BestBoundary, Admissible
      <4>2. boundary # <<>> /\ boundary.strict => Matches(boundary, Impostors) = {}
        BY <2>1, <3>1, StrictAcceptsNobody
      <4> QED BY <4>1, <4>2 DEF GenuineNeverMoveTheBoundary
    <3>5. SweepIsNoWorse
      BY <2>1, <3>1, SweepReachesTheBoundary DEF SweepIsNoWorse
    <3> QED BY <2>4, <2>5, <3>2, <3>3, <3>4, <3>5
  <2> QED BY <2>6, <2>7
<1> QED BY <1>1, <1>2

-----------------------------------------------------------------------------
(* The invariant holds.                                                     *)

LEMMA CountIsKept ==
  ASSUME score' = score, higher' = higher,
         \A i \in 2..Len(points') :
           /\ points'[i].cut \in ScoresOf(Attempts)
           /\ points'[i].genuine = Cardinality(AcceptedBy(points'[i].cut, Genuine))
           /\ points'[i].impostor = Cardinality(AcceptedBy(points'[i].cut, Impostors))
  PROVE  PointsCount'
BY DEF PointsCount, ScoresOf, Scored, AcceptedBy, Beyond

LEMMA SweepIsKept ==
  ASSUME Graded, Sweep, UNCHANGED <<score, higher, points>>
  PROVE  Graded' /\ Sweep' /\ Uncut' = Uncut
<1>1. /\ ScoresOf(Attempts)' = ScoresOf(Attempts) /\ Uncut' = Uncut
      /\ \A x, A : AcceptedBy(x, A)' = AcceptedBy(x, A)
  BY DEF ScoresOf, Scored, Uncut, LastPoint, Beyond, AcceptedBy
<1>2. Graded' /\ PointsFit'
  BY DEF Graded, Sweep, PointsFit
<1>3. PointsCount'
  <2>1. \A i \in 2..Len(points') :
          /\ points'[i].cut \in ScoresOf(Attempts)
          /\ points'[i].genuine = Cardinality(AcceptedBy(points'[i].cut, Genuine))
          /\ points'[i].impostor = Cardinality(AcceptedBy(points'[i].cut, Impostors))
    BY DEF Sweep, PointsCount
  <2> QED BY <2>1, CountIsKept
<1>4. CutsAreOrdered'
  BY DEF Sweep, CutsAreOrdered, Beyond
<1>5. CutsHaveRoom' /\ NoneSkipped'
  BY <1>1 DEF Sweep, CutsHaveRoom, NoneSkipped
<1> QED BY <1>1, <1>2, <1>3, <1>4, <1>5 DEF Sweep

LEMMA FarPointIsKept ==
  ASSUME UNCHANGED points, NEW t, NEW i, FarPoint(t, i)
  PROVE  /\ i \in 1..Len(points')
         /\ Within(points'[i].impostor, NImpostor, t)
         /\ \A j \in 1..Len(points') :
              Within(points'[j].impostor, NImpostor, t) => Better(i, j)'
BY DEF FarPoint, Better

LEMMA BoundaryIsKept ==
  ASSUME UNCHANGED <<score, higher>>, NEW t, NEW b, BestBoundary(t, b)
  PROVE  /\ b \in Admissible(t)'
         /\ \A c \in Admissible(t)' :
              /\ Permissiveness(c)' <= Permissiveness(b)'
              /\ Permissiveness(c)' = Permissiveness(b)' /\ b.strict => c.strict
<1>1. /\ Candidates' = Candidates /\ Scored(Impostors)' = Scored(Impostors)
      /\ ScoresOf(Impostors)' = ScoresOf(Impostors)
  BY DEF Candidates, ScoresOf, Scored
<1>2. ASSUME NEW c
      PROVE  /\ Matches(c, Impostors)' = Matches(c, Impostors)
             /\ Permissiveness(c)' = Permissiveness(c)
  <2>1. \A x : Decides(c, x)' <=> Decides(c, x)
    BY DEF Decides, Beyond
  <2>2. Matches(c, Impostors)' = Matches(c, Impostors)
    BY <1>1, <2>1 DEF Matches
  <2>3. {x \in ScoresOf(Impostors) : Decides(c, x)}'
          = {x \in ScoresOf(Impostors) : Decides(c, x)}
    BY <1>1, <2>1
  <2>4. Permissiveness(c)' = Permissiveness(c)
    BY <2>3 DEF Permissiveness
  <2> QED BY <2>2, <2>4
<1>3. Admissible(t)' = Admissible(t)
  BY <1>1, <1>2 DEF Admissible
<1> QED BY <1>2, <1>3 DEF BestBoundary

LEMMA ThInitially == ThInit => ThInv
<1> SUFFICES ASSUME ThInit PROVE ThInv
  OBVIOUS
<1> QED BY DEF ThInit, ThInv

LEMMA ThStep == ThInv /\ [ThNext]_thVars => ThInv'
<1> SUFFICES ASSUME ThInv, [ThNext]_thVars PROVE ThInv'
  OBVIOUS
<1>1. CASE StartSweep
  <2>1. Graded' /\ Sweep'
    BY <1>1, FirstPoint
  <2> QED BY <1>1, <2>1 DEF ThInv, StartSweep
<1>2. CASE Cut
  <2>1. Graded' /\ Sweep'
    BY <1>2, CutKeepsTheSweep
  <2> QED BY <1>2, <2>1 DEF ThInv, Cut
<1>3. CASE EndSweep
  <2>1. Graded /\ Sweep /\ Uncut = {} /\ UNCHANGED <<score, higher, points>>
    BY <1>3 DEF EndSweep, ThInv
  <2>2. Graded' /\ Sweep' /\ Uncut' = {}
    BY <2>1, SweepIsKept
  <2> QED BY <1>3, <2>2 DEF ThInv, EndSweep
<1>4. CASE Choose
  <2>1. /\ Graded /\ Sweep /\ Uncut = {} /\ UNCHANGED <<score, higher, points>>
        /\ target' \in 0..TargetUnit /\ target' \in Nat
    BY <1>4 DEF Choose, ThInv
  <2>2. Graded' /\ Sweep' /\ Uncut' = {}
    BY <2>1, SweepIsKept
  <2>3. FarPoint(target', point')
    BY <1>4, <2>1, FarPointExists DEF Choose
  <2>4. FarPoint(target, point)'
    BY <2>1, <2>3, FarPointIsKept DEF FarPoint
  <2>5. IF Scored(Impostors) = {} THEN boundary' = <<>> ELSE BestBoundary(target', boundary')
    BY <1>4, <2>1, BoundaryExists DEF Choose
  <2>6. Scored(Impostors)' = Scored(Impostors)
    BY <2>1 DEF Scored
  <2>7. Scored(Impostors) # {} => BestBoundary(target, boundary)'
    BY <2>1, <2>5, BoundaryIsKept DEF BestBoundary
  <2>8. Chosen'
    BY <2>4, <2>5, <2>6, <2>7 DEF Chosen
  <2> QED BY <1>4, <2>1, <2>2, <2>8 DEF ThInv, Choose
<1>5. CASE UNCHANGED thVars
  <2>1. UNCHANGED <<thAt, score, higher, points, target, point, boundary>>
    BY <1>5 DEF thVars
  <2>2. thAt # "inputs" => Graded' /\ Sweep' /\ Uncut' = Uncut
    BY <2>1, SweepIsKept DEF ThInv
  <2>3. Chosen => Chosen'
    <3> SUFFICES ASSUME Chosen PROVE Chosen'
      OBVIOUS
    <3>1. FarPoint(target, point)'
      BY <2>1, FarPointIsKept DEF FarPoint, Chosen
    <3>2. Scored(Impostors)' = Scored(Impostors)
      BY <2>1 DEF Scored
    <3>3. Scored(Impostors) # {} => BestBoundary(target, boundary)'
      BY <2>1, BoundaryIsKept DEF BestBoundary, Chosen
    <3> QED BY <2>1, <3>1, <3>2, <3>3 DEF Chosen
  <2> QED BY <2>1, <2>2, <2>3 DEF ThInv
<1> QED BY <1>1, <1>2, <1>3, <1>4, <1>5 DEF ThNext

\* For any scores of any attempts and any target: the sweep misses no threshold,
\* the evaluation takes the best of all of them within its target and the
\* calibration the most permissive, genuine scores never move it, and the
\* evaluation never reports a lower TAR than the calibrated boundary reaches.
THEOREM SelectionsAreOptimal == ThSpec =>
  [](/\ ThTypeOK /\ PointsAreThresholds /\ FarChoiceIsOptimal
     /\ BoundaryIsMostPermissive /\ GenuineNeverMoveTheBoundary
     /\ SweepIsNoWorse)
BY ThInitially, ThStep, ChosenIsOptimal, PTL DEF ThSpec

-----------------------------------------------------------------------------
(* The composition.                                                         *)

\* A step of the composition is a step of a part or leaves it alone.
LEMMA StepsOfParts ==
  ASSUME [PartsNext]_partsVars
  PROVE  /\ [FlxNext]_flxVars /\ [BridgeNext]_bridgeVars /\ [TreeNext]_treeVars
         /\ [BundleNext]_bundleVars /\ [PrepNext]_prepVars
         /\ [ProtocolNext]_protocolVars /\ [EvNext]_evVars /\ [ThNext]_thVars
<1>1. CASE UNCHANGED partsVars
  BY <1>1 DEF partsVars, children, stores, derived
<1>2. CASE FlxMoves /\ FlxNext
  BY <1>2 DEF FlxMoves, stores, derived
<1>3. CASE BridgeMoves /\ BridgeNext
  BY <1>3 DEF BridgeMoves, stores, derived
<1>4. CASE TreeMoves /\ TreeNext
  BY <1>4 DEF TreeMoves, stores, derived
<1>5. CASE BundleMoves /\ BundleNext
  BY <1>5 DEF BundleMoves, children, derived
<1>6. CASE ImagesMove /\ PrepNext
  BY <1>6 DEF ImagesMove, children, derived
<1>7. ASSUME NEW part, DocumentsMove(part)
      PROVE  UNCHANGED <<flxVars, bridgeVars, treeVars, bundleVars, prepVars>>
  BY <1>7 DEF DocumentsMove, children, stores
<1> QED BY <1>1, <1>2, <1>3, <1>4, <1>5, <1>6, <1>7 DEF PartsNext

\* The composition is faithful: whatever else moves, each part that keeps state
\* behaves as its own specification says.
THEOREM EachPartIsItself ==
  PartsSpec => /\ FlxSpec /\ BridgeSpec /\ TreeSpec /\ BundleSpec /\ PrepSpec
               /\ ProtocolSpec /\ EvSpec /\ ThSpec
<1>1. PartsInit => /\ FlxInit /\ BridgeInit /\ TreeInit /\ BundleInit /\ PrepInit
                   /\ ProtocolInit /\ EvInit /\ ThInit
  BY DEF PartsInit
<1> QED
  BY <1>1, StepsOfParts, PTL
  DEF PartsSpec, FlxSpec, BridgeSpec, TreeSpec, BundleSpec, PrepSpec, ProtocolSpec, EvSpec, ThSpec

\* In any interleaving of the parts no FLX worker is beside another or outlives
\* its adapter, no bridge runs but the one its client holds, and no timeout is
\* reported over a process that still runs.
THEOREM NobodyIsLeft == PartsSpec => []NobodyIsLeftBehind
<1>1. FlxTypeOK /\ OneWorker /\ BridgeTypeOK /\ NoBridgeIsLost /\ TreeTypeOK
        /\ TimedOutIsGone => NobodyIsLeftBehind
  BY DEF NobodyIsLeftBehind
<1> QED
  BY <1>1, EachPartIsItself, FlxTypeCorrect, NeverTwoWorkers, BridgeTypeCorrect, OneBridge,
     TreeTypeCorrect, NoneOutlivesATimeout, PTL

\* In any interleaving of the parts an FLX comparison fails only over a late or
\* refused request or a fault, and the walk over the bridge loses no more
\* comparisons than there were faults and late answers.
THEOREM EveryFailureHasItsCause == PartsSpec => []FailuresAreExplained
<1>1. FailuresHaveACause /\ OneFaultOneFailure => FailuresAreExplained
  BY DEF FailuresAreExplained
<1> QED
  BY <1>1, EachPartIsItself, NoFailureWithoutACause, EachFaultCostsOne, PTL

\* In any interleaving of the parts a runtime that was copied for a run is whole,
\* of one moment and given to nobody who came after it was damaged.
THEOREM BundlesStaySound == PartsSpec => []BundlesAreSound
<1>1. BundleTypeOK /\ BundlesAreWhole /\ DamageIsReported => BundlesAreSound
  BY DEF BundlesAreSound
<1> QED
  BY <1>1, EachPartIsItself, BundlesAreRuntimes, PTL

\* ... and a set of images with a marker is one resampler's, cites what is on
\* disk and stays ready until an image is damaged.
THEOREM PreparationsStaySound == PartsSpec => []PreparationsAreSound
<1>1. PrepTypeOK /\ OneResampler /\ MarkerCitesItsChain /\ FinishedIsReady
        => PreparationsAreSound
  BY DEF PreparationsAreSound
<1> QED
  BY <1>1, EachPartIsItself, PreparationsEndSound, PTL

\* In the composition the published fractions are what their names say.
THEOREM RatesStayTrue == PartsSpec => []RatesAreSound
<1>1. EvTypeOK /\ UnitsAreWhole /\ FiltersAgree /\ NumbersAreWhatTheySay => RatesAreSound
  BY DEF RatesAreSound
<1> QED BY <1>1, EachPartIsItself, RatesAreWhatTheySay, PTL

\* ... and the thresholds that are derived from a run are the best there are.
THEOREM ThresholdsStayOptimal == PartsSpec => []ThresholdsAreOptimal
<1>1. ThTypeOK /\ PointsAreThresholds /\ FarChoiceIsOptimal /\ BoundaryIsMostPermissive
        /\ GenuineNeverMoveTheBoundary /\ SweepIsNoWorse => ThresholdsAreOptimal
  BY DEF ThresholdsAreOptimal
<1> QED
  BY <1>1, EachPartIsItself, SelectionsAreOptimal, PTL

\* ... and so are the rosters what they are said to be.
THEOREM RostersStayWhole == PartsSpec => []RostersAreWhole
<1>1. ProtocolTypeOK /\ CohortIsPairable /\ ImpostorsAreBalanced /\ AuditMeansExhaustive
        => RostersAreWhole
  BY DEF RostersAreWhole
<1> QED
  BY <1>1, EachPartIsItself, RostersAreComplete, PTL
=============================================================================
