----------------------------- MODULE DataFacts -----------------------------
(***************************************************************************)
(* Facts about data that the proofs of several components need: a bounded  *)
(* set of numbers that is not empty has a least and a greatest element,    *)
(* which is what proofs by induction rest on here; a function defined by   *)
(* recursion exists; and how the sums of the community modules compute.    *)
(***************************************************************************)
EXTENDS Integers, Functions, Powers, FiniteSetTheorems, SequenceTheorems, TLAPS

\* A non-empty family of subsets of a finite set has a minimal member.
LEMMA MinimalSubset ==
  ASSUME NEW U, IsFiniteSet(U), NEW F, F \subseteq SUBSET U, F # {}
  PROVE  \E A \in F : \A B \in F : B \subseteq A => B = A
<1> DEFINE R == StrictSubsetOrdering(U)
           S == FiniteSubsetsOf(U)
<1>1. IsWellFoundedOn(R, S)
  BY FS_StrictSubsetOrderingWellFounded
<1>2. F \subseteq S
  BY FS_FiniteSubsetsOfFinite
<1>3. \E A \in F : \A B \in F : ~ (<<B, A>> \in R)
  <2> HIDE DEF R, S
  <2> QED
    BY <1>1, <1>2, WFMin
<1> QED
  BY <1>3 DEF StrictSubsetOrdering

\* The initial segments 1 .. i of a set order its elements by inclusion.
LEMMA LeastExists ==
  ASSUME NEW n \in Nat, NEW S \in SUBSET (1 .. n), S # {}
  PROVE  \E i \in S : \A j \in S : i <= j
<1> DEFINE U == 1 .. n
           F == {1 .. i : i \in S}
<1>0. \E A \in F : \A B \in F : B \subseteq A => B = A
  <2>1. \A i \in S : 1 .. i \subseteq U
    OBVIOUS
  <2>2. F \subseteq SUBSET U
    BY <2>1, Zenon
  <2>3. F # {}
    BY Zenon
  <2>4. IsFiniteSet(U)
    BY FS_Interval
  <2> HIDE DEF F, U
  <2> QED
    BY <2>2, <2>3, <2>4, MinimalSubset
<1>1. PICK A \in F : \A B \in F : B \subseteq A => B = A
  BY <1>0, Zenon
<1>2. PICK i \in S : A = 1 .. i
  OBVIOUS
<1>3. ASSUME NEW j \in S, j < i
      PROVE  FALSE
  <2>1. 1 .. j \subseteq A /\ i \in A /\ i \notin 1 .. j
    BY <1>2, <1>3
  <2> QED
    BY <1>1, <2>1
<1> QED
  BY <1>3

\* The same for the mirror image of the set.
LEMMA GreatestExists ==
  ASSUME NEW n \in Nat, NEW S \in SUBSET (1 .. n), S # {}
  PROVE  \E i \in S : \A j \in S : i >= j
<1> DEFINE M == {n + 1 - i : i \in S}
<1>1. \A i \in S : n + 1 - i \in 1 .. n
  OBVIOUS
<1>2. M \in SUBSET (1 .. n) /\ M # {}
  BY <1>1, Zenon
<1>3. PICK m \in M : \A j \in M : m <= j
  BY <1>2, LeastExists
<1>4. PICK i \in S : m = n + 1 - i
  BY <1>3
<1>5. \A j \in S : i >= j
  BY <1>3, <1>4
<1> QED
  BY <1>5

\* A remainder is no larger than what was divided.
LEMMA ModBound ==
  ASSUME NEW a \in Nat, NEW b \in Nat \ {0}
  PROVE  a % b \in 0 .. a
<1>1. a % b \in Nat
  BY SMT
<1>2. a = b * (a \div b) + (a % b)
  BY SMT
<1>3. a \div b \in Nat
  BY SMT
<1>4. b * (a \div b) \in Nat
  BY <1>3, SMT
<1> QED
  BY <1>1, <1>2, <1>4, SMT

\* Quotient and remainder, and how they move.
LEMMA Division ==
  ASSUME NEW a \in Int, NEW b \in Nat \ {0}
  PROVE  a \div b \in Int /\ a % b \in 0..b - 1 /\ a = b * (a \div b) + (a % b)
OBVIOUS

\* A greater number has no smaller quotient.
LEMMA DivisionMonotone ==
  ASSUME NEW a \in Int, NEW c \in Int, a <= c, NEW b \in Nat \ {0}
  PROVE  a \div b <= c \div b
<1>1. ASSUME NEW q \in Int, NEW p \in Int, NEW r \in 0..b - 1, NEW s \in 0..b - 1,
             b * q + r <= b * p + s
      PROVE  q <= p
  <2> SUFFICES ASSUME q >= p + 1
               PROVE  FALSE
    OBVIOUS
  <2>1. q - p - 1 \in Nat
    OBVIOUS
  <2>2. b * (q - p - 1) \in Nat
    BY <2>1
  <2>3. b * (q - p - 1) = b * q - b * p - b
    OBVIOUS
  <2>4. b * q \in Int /\ b * p \in Int
    OBVIOUS
  <2> QED
    BY <1>1, <2>2, <2>3, <2>4
<1>2. a \div b \in Int /\ a % b \in 0..b - 1 /\ a = b * (a \div b) + (a % b)
  BY Division
<1>3. c \div b \in Int /\ c % b \in 0..b - 1 /\ c = b * (c \div b) + (c % b)
  BY Division
<1> QED
  BY <1>1, <1>2, <1>3

\* A quotient is known from a product and a rest.
LEMMA QuotientIs ==
  ASSUME NEW b \in Nat \ {0}, NEW a \in Int, NEW r \in 0..b - 1
  PROVE  (b * a + r) \div b = a /\ (b * a + r) % b = r
<1>1. ASSUME NEW q \in Int, NEW s \in 0..b - 1, b * a + r = b * q + s
      PROVE  q = a
  <2>1. b * q \in Int /\ b * a \in Int
    OBVIOUS
  <2>2. ASSUME NEW d \in Int, b * d \in -(b - 1)..b - 1
        PROVE  d = 0
    <3>1. ASSUME d >= 1 PROVE FALSE
      <4>1. b * (d - 1) \in Nat /\ b * (d - 1) = b * d - b
        BY <3>1
      <4> QED
        BY <2>2, <4>1
    <3>2. ASSUME d <= -1 PROVE FALSE
      <4>1. -1 - d \in Nat
        BY <3>2
      <4>2. b * (-1 - d) \in Nat /\ b * (-1 - d) = -b - b * d
        BY <4>1
      <4> QED
        BY <2>2, <4>2
    <3> QED
      BY <3>1, <3>2
  <2>3. b * (a - q) = b * a - b * q /\ a - q \in Int
    OBVIOUS
  <2>4. b * (a - q) \in -(b - 1)..b - 1
    BY <1>1, <2>1, <2>3
  <2>5. a - q = 0
    BY <2>2, <2>3, <2>4
  <2> QED
    BY <2>5
<1>2. b * a + r \in Int /\ b * a \in Int
  OBVIOUS
<1>3. /\ (b * a + r) \div b \in Int /\ (b * a + r) % b \in 0..b - 1
      /\ b * a + r = b * ((b * a + r) \div b) + ((b * a + r) % b)
  BY <1>2, Division
<1>4. (b * a + r) \div b = a
  BY <1>1, <1>3
<1> QED
  BY <1>2, <1>3, <1>4

\* A multiple of b is b times its quotient.
LEMMA Multiples ==
  ASSUME NEW a \in Int, NEW b \in Nat \ {0}
  PROVE  (b * a) % b = 0 /\ (b * a) \div b = a
<1>1. 0 \in 0..b - 1 /\ b * a + 0 = b * a
  OBVIOUS
<1> QED
  BY <1>1, QuotientIs

-----------------------------------------------------------------------------
\* What holds at 0 and is handed from each number to the next holds up to n.
LEMMA Induction ==
  ASSUME NEW n \in Nat, NEW G, 0 \in G, \A k \in 1..n : k - 1 \in G => k \in G
  PROVE  \A k \in 0..n : k \in G
<1> DEFINE Bad == {k \in 1..n : k \notin G}
<1> SUFFICES ASSUME Bad # {}
             PROVE  FALSE
  OBVIOUS
<1>1. PICK k \in Bad : \A j \in Bad : k <= j
  BY LeastExists
<1>2. k - 1 = 0 \/ (k - 1 \in 1..n /\ k - 1 \notin Bad)
  BY <1>1
<1> QED
  BY <1>1, <1>2

Steps(n, V) == [1..n -> [V -> V]]

\* A function on 0 .. n may be defined by its value at 0 and a step.
LEMMA RecursionExists ==
  ASSUME NEW n \in Nat, NEW V, NEW base \in V, NEW Step \in Steps(n, V)
  PROVE  \E f \in [0..n -> V] : f[0] = base /\ \A k \in 1..n : f[k] = Step[k][f[k - 1]]
<1> DEFINE Good(m) == \E f \in [0..m -> V] :
                         f[0] = base /\ \A k \in 1..m : f[k] = Step[k][f[k - 1]]
<1>1. Good(0)
  <2> DEFINE f == [k \in 0..0 |-> base]
  <2>1. f \in [0..0 -> V] /\ f[0] = base /\ \A k \in 1..0 : f[k] = Step[k][f[k - 1]]
    OBVIOUS
  <2> HIDE DEF f
  <2> QED
    BY <2>1
<1>2. ASSUME NEW m \in 1..n, Good(m - 1)
      PROVE  Good(m)
  <2>1. PICK f \in [0..m - 1 -> V] :
          f[0] = base /\ \A k \in 1..m - 1 : f[k] = Step[k][f[k - 1]]
    BY <1>2
  <2> DEFINE g == [k \in 0..m |-> IF k = m THEN Step[m][f[m - 1]] ELSE f[k]]
  <2>2. Step[m][f[m - 1]] \in V
    BY <2>1 DEF Steps
  <2>3. g \in [0..m -> V]
    BY <2>1, <2>2
  <2>4. g[0] = base
    BY <2>1
  <2>5. \A k \in 1..m : g[k] = Step[k][g[k - 1]]
    BY <2>1
  <2> HIDE DEF g
  <2> QED
    BY <2>3, <2>4, <2>5
<1> HIDE DEF Good
<1> DEFINE G == {m \in 0..n : Good(m)}
<1>3. 0 \in G /\ \A k \in 1..n : k - 1 \in G => k \in G
  BY <1>1, <1>2
<1> HIDE DEF G
<1>4. \A k \in 0..n : k \in G
  BY <1>3, Induction
<1>5. n \in G
  BY <1>4
<1> QED
  BY <1>5 DEF G, Good

\* The same from any number on.
LEMMA FromFacts ==
  ASSUME NEW i \in Nat \ {0}, NEW j \in Nat, i <= j
  PROVE  /\ i - 1 \in i - 1..j /\ j \in i - 1..j /\ i - 1 < i
         /\ \A k \in i..j : k - 1 \in i - 1..j /\ k \in i - 1..j /\ ~(k < i)
         /\ \A k \in i - 1..j : k \in i..j \/ k = i - 1
OBVIOUS

LEMMA InductionFrom ==
  ASSUME NEW i \in Nat \ {0}, NEW j \in Nat, i <= j,
         NEW G, i - 1 \in G, \A k \in i..j : k - 1 \in G => k \in G
  PROVE  \A k \in i - 1..j : k \in G
<1> DEFINE n == j - i + 1
           H == {m \in 0..n : i - 1 + m \in G}
<1>1. n \in Nat
  OBVIOUS
<1>2. 0 \in H /\ \A m \in 1..n : m - 1 \in H => m \in H
  <2>1. i - 1 + 0 = i - 1 /\ 0 \in 0..n
    OBVIOUS
  <2>2. ASSUME NEW m \in 1..n, m - 1 \in H
        PROVE  m \in H
    <3>1. i - 1 + m \in i..j /\ i - 1 + (m - 1) = i - 1 + m - 1 /\ m \in 0..n
      OBVIOUS
    <3> QED
      BY <2>2, <3>1
  <2> QED
    BY <2>1, <2>2
<1> HIDE DEF H
<1>3. \A m \in 0..n : m \in H
  <2> HIDE DEF n
  <2> QED
    BY <1>1, <1>2, Induction
<1>4. ASSUME NEW k \in i - 1..j
      PROVE  k \in G
  <2>1. k - i + 1 \in 0..n /\ i - 1 + (k - i + 1) = k
    OBVIOUS
  <2> QED
    BY <1>3, <2>1 DEF H
<1> QED
  BY <1>4

StepsFrom(i, j, V) == [i..j -> [V -> V]]
\* f starts from base and takes the steps i..j.
Follows(f, i, j, V, base, Step) ==
  f \in [i - 1..j -> V] /\ f[i - 1] = base /\ \A k \in i..j : f[k] = Step[k][f[k - 1]]

LEMMA RecursionFrom ==
  ASSUME NEW i \in Nat \ {0}, NEW j \in Nat, i <= j + 1,
         NEW V, NEW base \in V, NEW Step \in StepsFrom(i, j, V)
  PROVE  \E f : Follows(f, i, j, V, base, Step)
<1> DEFINE n == j - i + 1
           Shifted == [m \in 1..n |-> Step[i - 1 + m]]
<1>1. n \in Nat /\ \A m \in 1..n : i - 1 + m \in i..j
  OBVIOUS
<1>2. Shifted \in Steps(n, V)
  BY <1>1 DEF Steps, StepsFrom
<1>3. PICK g \in [0..n -> V] : g[0] = base /\ \A m \in 1..n : g[m] = Shifted[m][g[m - 1]]
  <2> HIDE DEF n, Shifted
  <2> QED
    BY <1>1, <1>2, RecursionExists
<1> DEFINE f == [k \in i - 1..j |-> g[k - i + 1]]
<1>4. \A k \in i - 1..j : k - i + 1 \in 0..n
  OBVIOUS
<1>5. f \in [i - 1..j -> V]
  BY <1>3, <1>4
<1>6. f[i - 1] = base
  <2>1. i - 1 \in i - 1..j /\ i - 1 - i + 1 = 0
    OBVIOUS
  <2> QED
    BY <1>3, <2>1
<1>7. ASSUME NEW k \in i..j
      PROVE  f[k] = Step[k][f[k - 1]]
  <2>1. /\ k - i + 1 \in 1..n /\ i - 1 + (k - i + 1) = k /\ k \in i - 1..j /\ k - 1 \in i - 1..j
        /\ k - 1 - i + 1 = k - i + 1 - 1
    OBVIOUS
  <2>2. f[k] = g[k - i + 1] /\ f[k - 1] = g[k - i + 1 - 1]
    BY <2>1
  <2>3. g[k - i + 1] = Shifted[k - i + 1][g[k - i + 1 - 1]] /\ Shifted[k - i + 1] = Step[k]
    BY <1>3, <2>1
  <2> HIDE DEF f, n, Shifted
  <2> QED
    BY <2>2, <2>3
<1> HIDE DEF f
<1> QED
  BY <1>5, <1>6, <1>7 DEF Follows

Chosen(T) == CHOOSE x \in T : TRUE
\* What the recursive function behind a sum over the subsets of U satisfies.
SumsUp(total, h, U) ==
  total = [T \in SUBSET U |-> IF T = {} THEN 0 ELSE h[Chosen(T)] + total[T \ {Chosen(T)}]]

LEMMA ChosenIn == ASSUME NEW T, T # {} PROVE Chosen(T) \in T
BY DEF Chosen

Sized(U, n) == {T \in SUBSET U : Cardinality(T) <= n}
SumsWithin(total, h, U, n) ==
  \A T \in Sized(U, n) :
    total[T] = IF T = {} THEN 0 ELSE h[Chosen(T)] + total[T \ {Chosen(T)}]

LEMMA SumsUpToSize ==
  ASSUME NEW U, IsFiniteSet(U), NEW h \in [U -> Int], NEW n \in Nat
  PROVE  \E t \in [Sized(U, n) -> Int] : SumsWithin(t, h, U, n)
<1> DEFINE Good(m) == \E t \in [Sized(U, m) -> Int] : SumsWithin(t, h, U, m)
           G == {m \in 0..n : Good(m)}
<1>1. \A T \in SUBSET U : IsFiniteSet(T) /\ Cardinality(T) \in Nat
  BY FS_Subset, FS_CardinalityType
<1>2. \A T \in SUBSET U : T # {} => /\ Chosen(T) \in T /\ T \ {Chosen(T)} \in SUBSET U
                                    /\ Cardinality(T \ {Chosen(T)}) = Cardinality(T) - 1
  BY <1>1, ChosenIn, FS_RemoveElement
<1>3. \A T \in SUBSET U : Cardinality(T) = 0 <=> T = {}
  BY <1>1, FS_EmptySet
<1>4. Good(0)
  <2> DEFINE t == [T \in Sized(U, 0) |-> 0]
  <2>1. t \in [Sized(U, 0) -> Int]
    OBVIOUS
  <2>2. SumsWithin(t, h, U, 0)
    BY <1>1, <1>3 DEF SumsWithin, Sized
  <2> HIDE DEF t
  <2> QED
    BY <2>1, <2>2
<1>5. ASSUME NEW m \in 1..n, Good(m - 1)
      PROVE  Good(m)
  <2>1. PICK s \in [Sized(U, m - 1) -> Int] : SumsWithin(s, h, U, m - 1)
    BY <1>5
  <2> DEFINE t == [T \in Sized(U, m) |-> IF T \in Sized(U, m - 1) THEN s[T]
                                         ELSE h[Chosen(T)] + s[T \ {Chosen(T)}]]
  <2>2. \A T \in Sized(U, m) :
          /\ T # {} => Chosen(T) \in U /\ T \ {Chosen(T)} \in Sized(U, m - 1)
          /\ T = {} => T \in Sized(U, m - 1)
    BY <1>1, <1>2, <1>3 DEF Sized
  <2>3. t \in [Sized(U, m) -> Int]
    BY <2>1, <2>2
  <2>4. \A T \in Sized(U, m - 1) : t[T] = s[T] /\ T \in Sized(U, m)
    BY <1>1 DEF Sized
  <2>5. SumsWithin(t, h, U, m)
    <3> SUFFICES ASSUME NEW T \in Sized(U, m)
                 PROVE  t[T] = IF T = {} THEN 0 ELSE h[Chosen(T)] + t[T \ {Chosen(T)}]
      BY DEF SumsWithin
    <3>1. CASE T \in Sized(U, m - 1)
      <4>1. s[T] = IF T = {} THEN 0 ELSE h[Chosen(T)] + s[T \ {Chosen(T)}]
        BY <2>1, <3>1 DEF SumsWithin
      <4> HIDE DEF t
      <4> QED
        BY <2>2, <2>4, <3>1, <4>1
    <3>2. CASE T \notin Sized(U, m - 1)
      <4>1. t[T] = h[Chosen(T)] + s[T \ {Chosen(T)}]
        BY <3>2
      <4> HIDE DEF t
      <4> QED
        BY <2>2, <2>4, <3>2, <4>1
    <3> QED
      BY <3>1, <3>2
  <2> HIDE DEF t
  <2> QED
    BY <2>3, <2>5
<1>6. Good(n)
  <2> HIDE DEF Good
  <2>1. 0 \in G /\ \A k \in 1..n : k - 1 \in G => k \in G
    BY <1>4, <1>5
  <2> HIDE DEF G
  <2>2. n \in G
    BY <2>1, Induction
  <2> QED
    BY <2>2 DEF G
<1> QED
  BY <1>6

LEMMA SumsUpExists ==
  ASSUME NEW U, IsFiniteSet(U), NEW h \in [U -> Int]
  PROVE  \E t \in [SUBSET U -> Int] : SumsUp(t, h, U)
<1> DEFINE n == Cardinality(U)
<1>1. n \in Nat
  BY FS_CardinalityType
<1>2. Sized(U, n) = SUBSET U
  BY FS_Subset DEF Sized
<1> HIDE DEF n
<1>3. PICK t \in [Sized(U, n) -> Int] : SumsWithin(t, h, U, n)
  BY <1>1, SumsUpToSize
<1>4. t \in [SUBSET U -> Int] /\ \A T \in SUBSET U :
        t[T] = IF T = {} THEN 0 ELSE h[Chosen(T)] + t[T \ {Chosen(T)}]
  BY <1>2, <1>3 DEF SumsWithin
<1> QED
  BY <1>4 DEF SumsUp

LEMMA SumsAgree ==
  ASSUME NEW U, IsFiniteSet(U), NEW V, U \subseteq V, NEW g, NEW h,
         \A x \in U : g[x] = h[x],
         NEW s, SumsUp(s, g, U), NEW t, SumsUp(t, h, V)
  PROVE  \A T \in SUBSET U : s[T] = t[T]
<1> DEFINE Bad == {T \in SUBSET U : s[T] # t[T]}
<1> SUFFICES ASSUME Bad # {}
             PROVE  FALSE
  OBVIOUS
<1>0. Bad \subseteq SUBSET U
  OBVIOUS
<1>1. PICK T \in Bad : \A S \in Bad : S \subseteq T => S = T
  <2> HIDE DEF Bad
  <2> QED
    BY <1>0, MinimalSubset
<1>2. T # {}
  BY <1>1 DEF SumsUp
<1>3. Chosen(T) \in T /\ T \ {Chosen(T)} \in SUBSET U
  BY <1>1, <1>2, ChosenIn
<1>4. T \ {Chosen(T)} \notin Bad
  BY <1>1, <1>3
<1>5. s[T \ {Chosen(T)}] = t[T \ {Chosen(T)}] /\ g[Chosen(T)] = h[Chosen(T)]
  BY <1>1, <1>3, <1>4
<1>6. s[T] = g[Chosen(T)] + s[T \ {Chosen(T)}]
  BY <1>1, <1>2 DEF SumsUp
<1>7. t[T] = h[Chosen(T)] + t[T \ {Chosen(T)}]
  BY <1>1, <1>2 DEF SumsUp
<1> QED
  BY <1>1, <1>5, <1>6, <1>7

Removed(T, x) == T \ {x}

LEMMA SumsUpAnyOrder ==
  ASSUME NEW U, IsFiniteSet(U), NEW h, \A x \in U : h[x] \in Int,
         NEW t, \A T \in SUBSET U : t[T] \in Int, SumsUp(t, h, U), NEW W \in SUBSET U, NEW w \in W
  PROVE  t[W] = h[w] + t[Removed(W, w)]
<1> DEFINE Bad == {T \in SUBSET U : \E x \in T : t[T] # h[x] + t[T \ {x}]}
<1> SUFFICES ASSUME Bad # {}
             PROVE  FALSE
  BY DEF Removed
<1>0. Bad \subseteq SUBSET U
  OBVIOUS
<1>1. PICK T \in Bad : \A S \in Bad : S \subseteq T => S = T
  <2> HIDE DEF Bad
  <2> QED
    BY <1>0, MinimalSubset
<1>2. PICK x \in T : t[T] # h[x] + t[T \ {x}]
  BY <1>1
<1> DEFINE y == Chosen(T)
<1>3. y \in T
  BY ChosenIn
<1>4. t[T] = h[y] + t[T \ {y}]
  BY <1>1, <1>2 DEF SumsUp
<1> HIDE DEF y
<1>5. x # y
  BY <1>2, <1>4
<1>6. T \ {y} \notin Bad /\ T \ {x} \notin Bad
  BY <1>1, <1>2, <1>3
<1>7. t[T \ {y}] = h[x] + t[(T \ {y}) \ {x}]
  BY <1>1, <1>2, <1>3, <1>5, <1>6
<1>8. t[T \ {x}] = h[y] + t[(T \ {x}) \ {y}]
  BY <1>1, <1>2, <1>3, <1>5, <1>6
<1>9. (T \ {y}) \ {x} = (T \ {x}) \ {y}
  OBVIOUS
<1>10. /\ h[x] \in Int /\ h[y] \in Int /\ t[T \ {x}] \in Int /\ t[T \ {y}] \in Int
       /\ t[(T \ {x}) \ {y}] \in Int
  BY <1>1, <1>2, <1>3
<1>11. t[(T \ {y}) \ {x}] = t[(T \ {x}) \ {y}]
  BY <1>9, Zenon
<1>12. t[T] = h[x] + t[T \ {x}]
  <2> HIDE DEF Bad
  <2> QED
    BY <1>4, <1>7, <1>8, <1>10, <1>11
<1> QED
  BY <1>2, <1>12

LEMMA SumOnSetUnrolls ==
  ASSUME NEW U, IsFiniteSet(U), NEW h, \A x \in U : h[x] \in Int
  PROVE  \E t \in [SUBSET U -> Int] : /\ SumsUp(t, h, U) /\ SumFunctionOnSet(h, U) = t[U]
<1> DEFINE body(t) == [T \in SUBSET U |-> IF T = {} THEN 0 ELSE h[Chosen(T)] + t[T \ {Chosen(T)}]]
           t == CHOOSE t : t = body(t)
           g == [x \in U |-> h[x]]
<1>1. PICK s \in [SUBSET U -> Int] : SumsUp(s, g, U)
  BY SumsUpExists
<1>2. SumsUp(s, h, U)
  BY <1>1, ChosenIn DEF SumsUp
<1>3. t = body(t)
  <2>1. s = body(s)
    BY <1>2 DEF SumsUp
  <2> HIDE DEF body
  <2> QED
    BY <2>1
<1>4. SumFunctionOnSet(h, U) = t[U]
  BY DEF SumFunctionOnSet, FoldFunctionOnSet, MapThenFoldSet, Chosen
<1>5. SumsUp(t, h, U)
  <2> HIDE DEF t
  <2> QED
    BY <1>3 DEF SumsUp
<1> HIDE DEF t
<1>6. \A T \in SUBSET U : t[T] = s[T]
  BY <1>1, <1>2, <1>5, SumsAgree
<1>7. t \in [SUBSET U -> Int]
  <2>1. t = [T \in SUBSET U |-> t[T]]
    BY <1>5 DEF SumsUp
  <2> QED
    BY <1>1, <1>6, <2>1
<1> QED
  BY <1>4, <1>5, <1>7

-----------------------------------------------------------------------------
(* The sums of the community modules, over a finite set of numbers.        *)

LEMMA SumOfNone ==
  ASSUME NEW h
  PROVE  SumFunctionOnSet(h, {}) = 0
<1>1. IsFiniteSet({})
  BY FS_EmptySet
<1>2. PICK t \in [SUBSET {} -> Int] : SumsUp(t, h, {}) /\ SumFunctionOnSet(h, {}) = t[{}]
  BY <1>1, SumOnSetUnrolls
<1> QED
  BY <1>2 DEF SumsUp

LEMMA SumIsInt ==
  ASSUME NEW S, IsFiniteSet(S), NEW h, \A x \in S : h[x] \in Int
  PROVE  SumFunctionOnSet(h, S) \in Int
<1>1. PICK t \in [SUBSET S -> Int] : SumsUp(t, h, S) /\ SumFunctionOnSet(h, S) = t[S]
  BY SumOnSetUnrolls
<1> QED
  BY <1>1

\* Only the values on the set count.
LEMMA SumsEqual ==
  ASSUME NEW S, IsFiniteSet(S), NEW g, NEW h, \A x \in S : h[x] \in Int /\ g[x] = h[x]
  PROVE  SumFunctionOnSet(g, S) = SumFunctionOnSet(h, S)
<1>1. PICK s \in [SUBSET S -> Int] : SumsUp(s, g, S) /\ SumFunctionOnSet(g, S) = s[S]
  BY SumOnSetUnrolls
<1>2. PICK t \in [SUBSET S -> Int] : SumsUp(t, h, S) /\ SumFunctionOnSet(h, S) = t[S]
  BY SumOnSetUnrolls
<1>3. \A T \in SUBSET S : s[T] = t[T]
  BY <1>1, <1>2, SumsAgree
<1> QED
  BY <1>1, <1>2, <1>3

LEMMA SumSplits ==
  ASSUME NEW U, IsFiniteSet(U), NEW e \in U, NEW h, \A x \in U : h[x] \in Int
  PROVE  SumFunctionOnSet(h, U) = h[e] + SumFunctionOnSet(h, U \ {e})
<1>1. IsFiniteSet(U \ {e}) /\ U \ {e} \subseteq U
  BY FS_RemoveElement
<1>2. PICK t \in [SUBSET U -> Int] : SumsUp(t, h, U) /\ SumFunctionOnSet(h, U) = t[U]
  BY SumOnSetUnrolls
<1>3. PICK s \in [SUBSET (U \ {e}) -> Int] :
        SumsUp(s, h, U \ {e}) /\ SumFunctionOnSet(h, U \ {e}) = s[U \ {e}]
  BY <1>1, SumOnSetUnrolls
<1>4. s[U \ {e}] = t[U \ {e}]
  BY <1>1, <1>2, <1>3, SumsAgree
<1>5. U \in SUBSET U /\ \A T \in SUBSET U : t[T] \in Int
  OBVIOUS
<1>6. t[U] = h[e] + t[Removed(U, e)]
  BY <1>2, <1>5, SumsUpAnyOrder
<1>7. t[Removed(U, e)] = t[U \ {e}]
  BY DEF Removed
<1> QED
  BY <1>2, <1>3, <1>4, <1>6, <1>7

LEMMA SumAddsElement ==
  ASSUME NEW S, IsFiniteSet(S), NEW e, e \notin S, NEW h, \A x \in S \union {e} : h[x] \in Int
  PROVE  SumFunctionOnSet(h, S \union {e}) = SumFunctionOnSet(h, S) + h[e]
<1> DEFINE U == S \union {e}
<1>1. IsFiniteSet(U) /\ e \in U /\ U \ {e} = S
  BY FS_AddElement
<1>2. SumFunctionOnSet(h, S) \in Int /\ h[e] \in Int
  BY SumIsInt
<1>3. \A x \in U : h[x] \in Int
  OBVIOUS
<1> HIDE DEF U
<1>4. SumFunctionOnSet(h, U) = h[e] + SumFunctionOnSet(h, U \ {e})
  BY <1>1, <1>3, SumSplits
<1>5. SumFunctionOnSet(h, U) = SumFunctionOnSet(h, S) + h[e]
  <2>1. SumFunctionOnSet(h, U) = h[e] + SumFunctionOnSet(h, S)
    BY <1>1, <1>4, Zenon
  <2> QED
    BY <1>2, <2>1
<1> QED
  BY <1>5 DEF U

\* Sums over intervals: a sequence adds up to what its prefixes do.
LEMMA SumExtends ==
  ASSUME NEW n \in Nat, NEW h, \A i \in 1..n + 1 : h[i] \in Int
  PROVE  SumFunctionOnSet(h, 1..n + 1) = SumFunctionOnSet(h, 1..n) + h[n + 1]
<1>1. 1..n + 1 = (1..n) \union {n + 1} /\ n + 1 \notin 1..n
  OBVIOUS
<1>2. IsFiniteSet(1..n)
  BY FS_Interval
<1>3. SumFunctionOnSet(h, (1..n) \union {n + 1}) = SumFunctionOnSet(h, 1..n) + h[n + 1]
  BY <1>1, <1>2, SumAddsElement
<1> QED
  BY <1>1, <1>3

\* A part of a sum of naturals is no greater than the sum.
LEMMA SumGrows ==
  ASSUME NEW S, IsFiniteSet(S), NEW T \in SUBSET S, NEW h, \A x \in S : h[x] \in Nat
  PROVE  /\ SumFunctionOnSet(h, T) <= SumFunctionOnSet(h, S)
         /\ SumFunctionOnSet(h, S) \in Nat
<1> DEFINE Sum(U) == SumFunctionOnSet(h, U)
           Bad == {U \in SUBSET S : ~(\A V \in SUBSET U : Sum(V) <= Sum(U)) \/ Sum(U) < 0}
<1>1. Bad \subseteq SUBSET S
  OBVIOUS
<1>2. \A U \in SUBSET S : IsFiniteSet(U)
  BY FS_Subset
<1>3. \A U \in SUBSET S : Sum(U) \in Int
  BY <1>2, SumIsInt
<1>4. Sum({}) = 0
  BY SumOfNone
<1>5. ASSUME NEW U \in SUBSET S, NEW x \in U
      PROVE  Sum(U) = Sum(U \ {x}) + h[x] /\ h[x] \in Nat
  <2>1. U = (U \ {x}) \union {x} /\ x \notin U \ {x}
    OBVIOUS
  <2>2. IsFiniteSet(U \ {x})
    BY <1>2
  <2>3. \A y \in (U \ {x}) \union {x} : h[y] \in Int
    OBVIOUS
  <2>4. SumFunctionOnSet(h, (U \ {x}) \union {x}) = SumFunctionOnSet(h, U \ {x}) + h[x]
    BY <2>1, <2>2, <2>3, SumAddsElement
  <2> QED
    BY <2>1, <2>4
<1> HIDE DEF Sum
<1>6. Bad = {}
  <2> SUFFICES ASSUME Bad # {}
               PROVE  FALSE
    OBVIOUS
  <2>1. PICK U \in Bad : \A V \in Bad : V \subseteq U => V = U
    <3> HIDE DEF Bad
    <3> QED
      BY <1>1, MinimalSubset
  <2>2. U \in SUBSET S /\ (~(\A V \in SUBSET U : Sum(V) <= Sum(U)) \/ Sum(U) < 0)
    BY <2>1
  <2>3. ASSUME NEW x \in U
        PROVE  /\ \A V \in SUBSET (U \ {x}) : Sum(V) <= Sum(U \ {x})
               /\ Sum(U \ {x}) <= Sum(U) /\ Sum(U) >= 0
               /\ Sum(U) \in Int /\ Sum(U \ {x}) \in Int
    <3>1. U \ {x} \in SUBSET S /\ U \ {x} # U /\ U \ {x} \subseteq U
      BY <2>2
    <3>2. U \ {x} \notin Bad
      BY <2>1, <3>1
    <3>3. \A V \in SUBSET (U \ {x}) : Sum(V) <= Sum(U \ {x})
      BY <3>1, <3>2
    <3>4. ~(Sum(U \ {x}) < 0)
      BY <3>1, <3>2
    <3>5. Sum(U) = Sum(U \ {x}) + h[x] /\ h[x] \in Nat
      BY <1>5, <2>2
    <3>6. Sum(U) \in Int /\ Sum(U \ {x}) \in Int
      BY <1>3, <2>2, <3>1
    <3> QED
      BY <3>3, <3>4, <3>5, <3>6
  <2> HIDE DEF Bad
  <2>4. Sum(U) \in Int /\ Sum(U) >= 0
    <3>1. CASE U = {}
      BY <1>4, <3>1
    <3>2. CASE U # {}
      <4>1. PICK x \in U : TRUE
        BY <3>2
      <4> QED
        BY <2>3, <4>1
    <3> QED
      BY <3>1, <3>2
  <2>5. PICK V \in SUBSET U : ~(Sum(V) <= Sum(U))
    BY <2>2, <2>4
  <2>6. V # U /\ Sum(V) \in Int
    BY <1>3, <2>2, <2>4, <2>5
  <2>7. PICK x \in U : x \notin V
    BY <2>5, <2>6
  <2>8. V \in SUBSET (U \ {x})
    BY <2>5, <2>7
  <2>9. Sum(V) <= Sum(U \ {x}) /\ Sum(U \ {x}) <= Sum(U) /\ Sum(U) \in Int /\ Sum(U \ {x}) \in Int
    BY <2>3, <2>7, <2>8
  <2> QED
    BY <2>5, <2>6, <2>9
<1> QED
  BY <1>3, <1>6 DEF Sum

LEMMA SumOfSequence ==
  ASSUME NEW s \in Seq(Int)
  PROVE  /\ SumFunction(s) \in Int
         /\ SumFunction(s) = SumFunctionOnSet(s, 1..Len(s))
         /\ s = <<>> => SumFunction(s) = 0
         /\ s \in Seq(Nat) => SumFunction(s) \in Nat
<1>1. DOMAIN s = 1..Len(s) /\ \A i \in 1..Len(s) : s[i] \in Int
  OBVIOUS
<1>2. IsFiniteSet(1..Len(s))
  BY FS_Interval
<1>3. SumFunction(s) = SumFunctionOnSet(s, 1..Len(s))
  BY <1>1 DEF SumFunction
<1>4. SumFunctionOnSet(s, 1..Len(s)) \in Int
  BY <1>1, <1>2, SumIsInt
<1>5. ASSUME s = <<>>
      PROVE  SumFunction(s) = 0
  BY <1>3, <1>5, SumOfNone
<1>6. ASSUME s \in Seq(Nat)
      PROVE  SumFunctionOnSet(s, 1..Len(s)) \in Nat
  <2>1. \A i \in 1..Len(s) : s[i] \in Nat
    BY <1>6
  <2> QED
    BY <1>2, <2>1, SumGrows
<1> QED
  BY <1>3, <1>4, <1>5, <1>6

LEMMA SumOfAppend ==
  ASSUME NEW s \in Seq(Int), NEW e \in Int
  PROVE  SumFunction(Append(s, e)) = SumFunction(s) + e
<1> DEFINE a == Append(s, e)
           n == Len(s)
<1>1. /\ n \in Nat /\ a \in Seq(Int) /\ Len(a) = n + 1 /\ a[n + 1] = e
      /\ \A i \in 1..n : a[i] = s[i]
      /\ \A i \in 1..n : s[i] \in Int
      /\ \A i \in 1..n + 1 : a[i] \in Int
  OBVIOUS
<1>2. IsFiniteSet(1..n)
  BY <1>1, FS_Interval
<1> HIDE DEF a, n
<1>3. SumFunctionOnSet(a, 1..n + 1) = SumFunctionOnSet(a, 1..n) + e
  BY <1>1, SumExtends
<1>4. SumFunctionOnSet(a, 1..n) = SumFunctionOnSet(s, 1..n)
  BY <1>1, <1>2, SumsEqual
<1>5. SumFunction(a) = SumFunctionOnSet(a, 1..n + 1) /\ SumFunction(s) = SumFunctionOnSet(s, 1..n)
  BY <1>1, SumOfSequence DEF n
<1> QED
  BY <1>3, <1>4, <1>5 DEF a

\* A function with one argument more, and no arguments at all.
LEMMA SumOneMore ==
  ASSUME NEW n \in Nat, NEW f, NEW g, DOMAIN f = 1..n, DOMAIN g = 1..n + 1,
         \A m \in 1..n : g[m] = f[m] /\ f[m] \in Int, g[n + 1] \in Int
  PROVE  SumFunction(g) = SumFunction(f) + g[n + 1]
<1>1. IsFiniteSet(1..n) /\ \A m \in 1..n + 1 : g[m] \in Int
  <2>1. IsFiniteSet(1..n)
    BY FS_Interval
  <2>2. \A m \in 1..n + 1 : m \in 1..n \/ m = n + 1
    OBVIOUS
  <2> QED
    BY <2>1, <2>2
<1>2. SumFunctionOnSet(g, 1..n + 1) = SumFunctionOnSet(g, 1..n) + g[n + 1]
  BY <1>1, SumExtends
<1>3. SumFunctionOnSet(g, 1..n) = SumFunctionOnSet(f, 1..n)
  BY <1>1, SumsEqual
<1>4. SumFunction(g) = SumFunctionOnSet(g, 1..n + 1) /\ SumFunction(f) = SumFunctionOnSet(f, 1..n)
  BY Zenon DEF SumFunction
<1> QED
  BY <1>2, <1>3, <1>4

LEMMA SumOfNothing ==
  ASSUME NEW f, DOMAIN f = {}
  PROVE  SumFunction(f) = 0
BY SumOfNone, Zenon DEF SumFunction

Image(p, S) == {p[x] : x \in S}

\* A sum does not change when its arguments are renamed apart.
LEMMA SumRenamed ==
  ASSUME NEW S, IsFiniteSet(S), NEW p, NEW g, NEW h,
         \A x, y \in S : x # y => p[x] # p[y],
         \A x \in S : g[x] \in Int /\ g[x] = h[p[x]]
  PROVE  SumFunctionOnSet(g, S) = SumFunctionOnSet(h, Image(p, S))
<1> DEFINE Bad == {T \in SUBSET S : SumFunctionOnSet(g, T) # SumFunctionOnSet(h, Image(p, T))}
<1> SUFFICES ASSUME Bad # {}
             PROVE  FALSE
  OBVIOUS
<1>1. PICK T \in Bad : \A V \in Bad : V \subseteq T => V = T
  <2>1. Bad \subseteq SUBSET S
    OBVIOUS
  <2> HIDE DEF Bad
  <2> QED
    BY <2>1, MinimalSubset
<1>2. T \in SUBSET S /\ SumFunctionOnSet(g, T) # SumFunctionOnSet(h, Image(p, T))
  BY <1>1
<1>3. PICK x \in T : TRUE
  <2>1. Image(p, {}) = {}
    BY DEF Image
  <2>2. SumFunctionOnSet(g, {}) = SumFunctionOnSet(h, {})
    BY SumOfNone
  <2> QED
    BY <1>2, <2>1, <2>2
<1> DEFINE V == T \ {x}
<1>4. V \in SUBSET S /\ V # T /\ V \subseteq T /\ T = V \union {x} /\ x \notin V /\ x \in S
  BY <1>2, <1>3
<1>5. SumFunctionOnSet(g, V) = SumFunctionOnSet(h, Image(p, V))
  <2>1. V \notin Bad
    BY <1>1, <1>4
  <2> HIDE DEF V
  <2> QED
    BY <1>4, <2>1
<1> HIDE DEF V, Bad
<1>6. Image(p, T) = Image(p, V) \union {p[x]} /\ p[x] \notin Image(p, V)
  BY <1>4 DEF Image
<1>7. IsFiniteSet(V) /\ IsFiniteSet(Image(p, V))
  <2>1. IsFiniteSet(V)
    BY <1>4, FS_Subset
  <2> DEFINE f == [y \in V |-> p[y]]
  <2>2. f \in Surjection(V, Image(p, V))
    BY DEF Surjection, Image
  <2> HIDE DEF f
  <2> QED
    BY <2>1, <2>2, FS_Surjection
<1>8. SumFunctionOnSet(g, V \union {x}) = SumFunctionOnSet(g, V) + g[x]
  <2>1. \A y \in V \union {x} : g[y] \in Int
    BY <1>4
  <2> QED
    BY <1>4, <1>7, <2>1, SumAddsElement
<1>9. SumFunctionOnSet(h, Image(p, V) \union {p[x]}) = SumFunctionOnSet(h, Image(p, V)) + h[p[x]]
  <2>1. \A z \in Image(p, V) \union {p[x]} : h[z] \in Int
    <3>1. \A y \in V \union {x} : h[p[y]] \in Int
      BY <1>4
    <3> QED
      BY <3>1 DEF Image
  <2> QED
    BY <1>6, <1>7, <2>1, SumAddsElement
<1>10. g[x] = h[p[x]]
  BY <1>4
<1> QED
  BY <1>2, <1>4, <1>5, <1>6, <1>8, <1>9, <1>10, Zenon

\* What a sequence adds up to when one of its elements is taken out.
LEMMA SumWithout ==
  ASSUME NEW s \in Seq(Int), NEW r \in Seq(Int), NEW i \in 1..Len(s), Len(r) = Len(s) - 1,
         \A k \in 1..Len(r) : r[k] = IF k < i THEN s[k] ELSE s[k + 1]
  PROVE  SumFunction(s) = SumFunction(r) + s[i]
<1> DEFINE n == Len(r)
           p == [k \in 1..n |-> IF k < i THEN k ELSE k + 1]
<1>1. n \in Nat /\ i \in 1..n + 1 /\ Len(s) = n + 1
  OBVIOUS
<1>2. \A k \in 1..n : r[k] \in Int /\ r[k] = s[p[k]]
  <2>1. \A k \in 1..n : r[k] \in Int
    OBVIOUS
  <2> QED
    BY <2>1
<1>3. \A k \in 1..n + 1 : s[k] \in Int
  OBVIOUS
<1> HIDE DEF n
<1>4. \A j, k \in 1..n : j # k => p[j] # p[k]
  BY <1>1
<1>5. Image(p, 1..n) = (1..n + 1) \ {i}
  <2>1. \A k \in 1..n : p[k] \in (1..n + 1) \ {i}
    BY <1>1
  <2>2. ASSUME NEW k \in (1..n + 1) \ {i}
        PROVE  \E j \in 1..n : p[j] = k
    <3>1. CASE k < i
      <4>1. k \in 1..n /\ p[k] = k
        BY <1>1, <3>1
      <4> QED
        BY <4>1
    <3>2. CASE ~(k < i)
      <4>1. k - 1 \in 1..n /\ p[k - 1] = k
        BY <1>1, <3>2
      <4> QED
        BY <4>1
    <3> QED
      BY <3>1, <3>2
  <2> HIDE DEF p
  <2> QED
    BY <2>1, <2>2 DEF Image
<1> HIDE DEF p
<1>6. IsFiniteSet(1..n) /\ IsFiniteSet(1..n + 1)
  BY <1>1, FS_Interval
<1>7. SumFunctionOnSet(r, 1..n) = SumFunctionOnSet(s, Image(p, 1..n))
  <2> DEFINE D == 1..n
  <2>1. IsFiniteSet(D) /\ \A x, y \in D : x # y => p[x] # p[y]
    BY <1>4, <1>6
  <2>2. \A x \in D : r[x] \in Int /\ r[x] = s[p[x]]
    BY <1>2
  <2>3. SumFunctionOnSet(r, D) = SumFunctionOnSet(s, Image(p, D))
    <3> HIDE DEF D
    <3> QED
      BY <2>1, <2>2, SumRenamed
  <2> QED
    BY <2>3
<1>8. SumFunctionOnSet(s, 1..n + 1) = s[i] + SumFunctionOnSet(s, (1..n + 1) \ {i})
  BY <1>1, <1>3, <1>6, SumSplits
<1>9. SumFunction(r) = SumFunctionOnSet(r, 1..n) /\ SumFunction(s) = SumFunctionOnSet(s, 1..n + 1)
      /\ SumFunction(r) \in Int
  BY <1>1, SumOfSequence DEF n
<1>10. SumFunction(s) = s[i] + SumFunction(r)
  BY <1>5, <1>7, <1>8, <1>9, Zenon
<1> QED
  BY <1>1, <1>3, <1>9, <1>10

\* What holds of the empty set and of every set with one element more holds of
\* every finite set.
LEMMA SetInduction ==
  ASSUME NEW S, IsFiniteSet(S), NEW G, {} \in G,
         \A T \in SUBSET S : \A x \in S : x \notin T /\ T \in G => T \union {x} \in G
  PROVE  S \in G
<1> DEFINE Bad == {T \in SUBSET S : T \notin G}
<1> SUFFICES ASSUME Bad # {}
             PROVE  FALSE
  OBVIOUS
<1>1. PICK A \in Bad : \A B \in Bad : B \subseteq A => B = A
  <2>1. Bad \subseteq SUBSET S
    OBVIOUS
  <2> HIDE DEF Bad
  <2> QED
    BY <2>1, MinimalSubset
<1>2. A \in SUBSET S /\ A \notin G
  BY <1>1
<1>3. PICK x \in A : TRUE
  BY <1>2
<1>4. A \ {x} \in SUBSET S /\ A \ {x} # A /\ (A \ {x}) \union {x} = A /\ x \in S
  BY <1>2, <1>3
<1>5. A \ {x} \in G
  BY <1>1, <1>4
<1> QED
  BY <1>2, <1>4, <1>5

\* A sum of sums, each weighted by a number.
LEMMA SumCombines ==
  ASSUME NEW S, IsFiniteSet(S), NEW f, NEW g, NEW h, NEW a \in Int, NEW b \in Int,
         \A x \in S : f[x] \in Int /\ g[x] \in Int /\ h[x] = a * f[x] + b * g[x]
  PROVE  SumFunctionOnSet(h, S) = a * SumFunctionOnSet(f, S) + b * SumFunctionOnSet(g, S)
<1> DEFINE Adds(T) == SumFunctionOnSet(h, T)
                        = a * SumFunctionOnSet(f, T) + b * SumFunctionOnSet(g, T)
           G == {T \in SUBSET S : Adds(T)}
<1>1. {} \in G
  BY SumOfNone
<1>2. ASSUME NEW T \in SUBSET S, NEW x \in S, x \notin T, T \in G
      PROVE  T \union {x} \in G
  <2>1. IsFiniteSet(T)
    BY FS_Subset
  <2>2. \A y \in T \union {x} : f[y] \in Int /\ g[y] \in Int /\ h[y] \in Int
    OBVIOUS
  <2>3. /\ SumFunctionOnSet(f, T \union {x}) = SumFunctionOnSet(f, T) + f[x]
        /\ SumFunctionOnSet(g, T \union {x}) = SumFunctionOnSet(g, T) + g[x]
        /\ SumFunctionOnSet(h, T \union {x}) = SumFunctionOnSet(h, T) + h[x]
    BY <1>2, <2>1, <2>2, SumAddsElement
  <2>4. SumFunctionOnSet(f, T) \in Int /\ SumFunctionOnSet(g, T) \in Int
    BY <2>1, <2>2, SumIsInt
  <2>6. Adds(T) /\ f[x] \in Int /\ g[x] \in Int /\ h[x] = a * f[x] + b * g[x]
    BY <1>2
  <2>7. a * (SumFunctionOnSet(f, T) + f[x]) + b * (SumFunctionOnSet(g, T) + g[x])
          = (a * SumFunctionOnSet(f, T) + b * SumFunctionOnSet(g, T)) + (a * f[x] + b * g[x])
    <3> DEFINE u == SumFunctionOnSet(f, T)
               v == SumFunctionOnSet(g, T)
               p == f[x]
               q == g[x]
    <3>1. u \in Int /\ v \in Int /\ p \in Int /\ q \in Int
      BY <2>4, <2>6
    <3> HIDE DEF u, v, p, q
    <3>2. a * (u + p) + b * (v + q) = (a * u + b * v) + (a * p + b * q)
      BY <3>1
    <3> QED
      BY <3>2 DEF u, v, p, q
  <2>8. Adds(T \union {x})
    BY <2>3, <2>6, <2>7, Zenon
  <2> HIDE DEF Adds
  <2> QED
    BY <2>8
<1> HIDE DEF G
<1>3. S \in G
  BY <1>1, <1>2, SetInduction
<1> QED
  BY <1>3 DEF G

\* A sum of equal values.
LEMMA SumOfConstant ==
  ASSUME NEW S, IsFiniteSet(S), NEW h, NEW c \in Int, \A x \in S : h[x] = c
  PROVE  SumFunctionOnSet(h, S) = c * Cardinality(S)
<1> DEFINE Adds(T) == SumFunctionOnSet(h, T) = c * Cardinality(T)
           G == {T \in SUBSET S : Adds(T)}
<1>1. {} \in G
  BY SumOfNone, FS_EmptySet
<1>2. ASSUME NEW T \in SUBSET S, NEW x \in S, x \notin T, T \in G
      PROVE  T \union {x} \in G
  <2>1. IsFiniteSet(T)
    BY FS_Subset
  <2>2. SumFunctionOnSet(h, T \union {x}) = SumFunctionOnSet(h, T) + c
    <3>1. h[x] = c /\ \A y \in T \union {x} : h[y] \in Int
      OBVIOUS
    <3>2. SumFunctionOnSet(h, T \union {x}) = SumFunctionOnSet(h, T) + h[x]
      BY <1>2, <2>1, <3>1, SumAddsElement
    <3> QED
      BY <3>1, <3>2
  <2>3. Cardinality(T) \in Nat /\ Cardinality(T \union {x}) = Cardinality(T) + 1
    BY <1>2, <2>1, FS_AddElement, FS_CardinalityType
  <2>4. \A n \in Nat : c * (n + 1) = c * n + c
    OBVIOUS
  <2>5. Adds(T)
    BY <1>2
  <2>6. Adds(T \union {x})
    BY <2>2, <2>3, <2>4, <2>5, Zenon
  <2> HIDE DEF Adds
  <2> QED
    BY <2>6
<1> HIDE DEF G
<1>3. S \in G
  BY <1>1, <1>2, SetInduction
<1> QED
  BY <1>3 DEF G

\* How many values a function takes.
LEMMA ImageSize ==
  ASSUME NEW S, IsFiniteSet(S), NEW p
  PROVE  /\ IsFiniteSet(Image(p, S)) /\ Cardinality(Image(p, S)) <= Cardinality(S)
         /\ (\A x, y \in S : x # y => p[x] # p[y])
              => Cardinality(Image(p, S)) = Cardinality(S)
<1> DEFINE f == [x \in S |-> p[x]]
<1>1. f \in Surjection(S, Image(p, S))
  BY DEF Surjection, Image
<1>2. (\A x, y \in S : x # y => p[x] # p[y]) => f \in Injection(S, Image(p, S))
  BY DEF Injection, IsInjective, Image
<1> HIDE DEF f
<1> QED
  BY <1>1, <1>2, FS_Surjection

Partners(R, B, a) == {b \in B : <<a, b>> \in R}

\* Pairs, counted by their first elements.
LEMMA PairsCount ==
  ASSUME NEW A, IsFiniteSet(A), NEW B, IsFiniteSet(B), NEW R \in SUBSET (A \X B), NEW m \in Nat,
         \A a \in A : Cardinality(Partners(R, B, a)) = m
  PROVE  Cardinality(R) = m * Cardinality(A)
<1> DEFINE Of(T) == {pair \in R : pair[1] \in T}
           Counted(T) == IsFiniteSet(Of(T)) /\ Cardinality(Of(T)) = m * Cardinality(T)
           G == {T \in SUBSET A : Counted(T)}
<1>1. {} \in G
  BY FS_EmptySet
<1>2. ASSUME NEW T \in SUBSET A, NEW a \in A, a \notin T, T \in G
      PROVE  T \union {a} \in G
  <2> DEFINE D == {b \in B : <<a, b>> \in R}
             p == [b \in D |-> <<a, b>>]
  <2>1. IsFiniteSet(D) /\ Cardinality(D) = m
    BY FS_Subset DEF Partners
  <2>2. Image(p, D) = Of({a})
    <3>1. \A pair \in Of({a}) : pair[2] \in D /\ pair = p[pair[2]]
      OBVIOUS
    <3>2. \A b \in D : p[b] \in Of({a})
      OBVIOUS
    <3> HIDE DEF D, p, Of
    <3> QED
      BY <3>1, <3>2 DEF Image
  <2>3. \A b, c \in D : b # c => p[b] # p[c]
    OBVIOUS
  <2>4. IsFiniteSet(Of({a})) /\ Cardinality(Of({a})) = m
    <3> HIDE DEF D, p, Of
    <3> QED
      BY <2>1, <2>2, <2>3, ImageSize
  <2>5. Of(T \union {a}) = Of(T) \union Of({a}) /\ Of(T) \intersect Of({a}) = {}
    BY <1>2
  <2>6. Counted(T)
    BY <1>2
  <2>7. /\ IsFiniteSet(T) /\ Cardinality(T) \in Nat
        /\ Cardinality(T \union {a}) = Cardinality(T) + 1
    BY <1>2, FS_Subset, FS_AddElement, FS_CardinalityType
  <2>8. IsFiniteSet(Of(T \union {a}))
        /\ Cardinality(Of(T \union {a})) = m * Cardinality(T) + m
    <3> HIDE DEF Of
    <3>1. IsFiniteSet(Of(T) \union Of({a}))
          /\ Cardinality(Of(T) \union Of({a}))
               = Cardinality(Of(T)) + Cardinality(Of({a})) - Cardinality(Of(T) \intersect Of({a}))
      BY <2>4, <2>6, FS_Union
    <3>2. Cardinality(Of(T) \intersect Of({a})) = 0
      BY <2>5, FS_EmptySet
    <3>3. m * Cardinality(T) \in Nat
      BY <2>7
    <3>4. m * Cardinality(T) + m - 0 = m * Cardinality(T) + m
      BY <3>3
    <3> QED
      BY <2>4, <2>5, <2>6, <3>1, <3>2, <3>4, Zenon
  <2>9. m * (Cardinality(T) + 1) = m * Cardinality(T) + m
    BY <2>7
  <2>10. Counted(T \union {a})
    BY <2>7, <2>8, <2>9, Zenon
  <2> HIDE DEF Counted
  <2> QED
    BY <2>10
<1>3. A \in G
  <2> HIDE DEF G
  <2> QED
    BY <1>1, <1>2, SetInduction
<1>4. Of(A) = R
  OBVIOUS
<1> QED
  BY <1>3, <1>4

LEMMA DisjointSize ==
  ASSUME NEW A, IsFiniteSet(A), NEW B, IsFiniteSet(B), A \cap B = {}
  PROVE  /\ IsFiniteSet(A \union B)
         /\ Cardinality(A \union B) = Cardinality(A) + Cardinality(B)
<1>1. Cardinality(A) \in Nat /\ Cardinality(B) \in Nat /\ Cardinality(A \cap B) = 0
  BY FS_CardinalityType, FS_EmptySet
<1>2. /\ IsFiniteSet(A \union B)
      /\ Cardinality(A \union B) = Cardinality(A) + Cardinality(B) - Cardinality(A \cap B)
  BY FS_Union
<1> QED
  BY <1>1, <1>2

-----------------------------------------------------------------------------
\* A sum is as large as its terms are, and larger if one of them is.
LEMMA SumsOrdered ==
  ASSUME NEW S, IsFiniteSet(S), NEW g, NEW h,
         \A x \in S : g[x] \in Int /\ h[x] \in Int /\ g[x] <= h[x]
  PROVE  /\ SumFunctionOnSet(g, S) \in Int /\ SumFunctionOnSet(h, S) \in Int
         /\ SumFunctionOnSet(g, S) <= SumFunctionOnSet(h, S)
         /\ (\E x \in S : g[x] < h[x]) => SumFunctionOnSet(g, S) < SumFunctionOnSet(h, S)
<1> DEFINE d == [x \in S |-> h[x] - g[x]]
           sumG == SumFunctionOnSet(g, S)
           sumH == SumFunctionOnSet(h, S)
           sumD == SumFunctionOnSet(d, S)
<1>1. \A x \in S : d[x] \in Nat /\ d[x] = 1 * h[x] + (-1) * g[x] /\ (g[x] < h[x] => d[x] > 0)
  OBVIOUS
<1>2. sumG \in Int /\ sumH \in Int
  BY SumIsInt
<1> HIDE DEF d
<1>3. sumD = 1 * sumH + (-1) * sumG
  <2>1. 1 \in Int /\ -1 \in Int
    OBVIOUS
  <2> QED
    BY <1>1, <2>1, SumCombines
<1>4. \A T \in SUBSET S : SumFunctionOnSet(d, T) <= sumD /\ sumD \in Nat
  BY <1>1, SumGrows
<1>5. sumD \in Nat
  BY <1>4
<1>6. ASSUME NEW x \in S, g[x] < h[x]
      PROVE  sumD > 0
  <2>1. IsFiniteSet({}) /\ x \notin {} /\ {} \union {x} = {x}
    BY FS_EmptySet
  <2>2. \A y \in {} \union {x} : d[y] \in Int
    BY <1>1
  <2>3. SumFunctionOnSet(d, {} \union {x}) = SumFunctionOnSet(d, {}) + d[x]
    BY <2>1, <2>2, SumAddsElement
  <2>4. SumFunctionOnSet(d, {x}) = d[x]
    BY <1>1, <2>1, <2>3, SumOfNone
  <2>5. SumFunctionOnSet(d, {x}) <= sumD /\ d[x] > 0 /\ d[x] \in Nat
    BY <1>1, <1>4, <1>6
  <2> QED
    BY <1>5, <2>4, <2>5
<1> HIDE DEF sumG, sumH, sumD
<1>7. sumD = sumH - sumG
  BY <1>2, <1>3
<1> QED
  BY <1>2, <1>5, <1>6, <1>7 DEF sumG, sumH

-----------------------------------------------------------------------------
(* Powers.                                                                 *)

Multiplies(f, b, n) ==
  f \in [0..n -> Nat] /\ f[0] = 1 /\ \A k \in 1..n : f[k] = b * f[k - 1]

LEMMA PowerUnrolls ==
  ASSUME NEW b \in Nat, NEW n \in Nat
  PROVE  \E f : Multiplies(f, b, n) /\ Power(b, n) = f[n]
<1> DEFINE body(f) == [k \in 0..n |-> IF k = 0 THEN 1 ELSE b * f[k - 1]]
           f == CHOOSE f : f = body(f)
           Times == [k \in 1..n |-> [v \in Nat |-> b * v]]
           one == 1
<1>1. /\ Times \in StepsFrom(1, n, Nat) /\ one \in Nat /\ 1 \in Nat \ {0} /\ 1 <= n + 1
      /\ \A k \in 1..n : \A v \in Nat : Times[k][v] = b * v
  BY DEF StepsFrom
<1> HIDE DEF Times, one
<1>2. PICK g : Follows(g, 1, n, Nat, one, Times)
  BY <1>1, RecursionFrom
<1>3. g \in [0..n -> Nat] /\ g = [k \in 0..n |-> g[k]] /\ \A k \in 0..n : g[k] = IF k = 0 THEN 1 ELSE b * g[k - 1]
  <2>0. 1 - 1 = 0 /\ \A k \in 1..n : k - 1 \in 0..n
    OBVIOUS
  <2>1. g \in [0..n -> Nat] /\ g[0] = one /\ \A k \in 1..n : g[k] = Times[k][g[k - 1]]
    BY <1>2, <2>0, Zenon DEF Follows
  <2>3. \A k \in 1..n : g[k] = b * g[k - 1]
    BY <1>1, <2>0, <2>1
  <2>2. \A k \in 0..n : k = 0 \/ k \in 1..n
    OBVIOUS
  <2> QED
    BY <2>1, <2>2, <2>3 DEF one
<1>4. f = body(f)
  <2>1. g = body(g)
    BY <1>3
  <2> HIDE DEF body
  <2> QED
    BY <2>1
<1>5. Power(b, n) = f[n]
  BY DEF Power
<1> HIDE DEF f
<1>6. f[0] = 1 /\ \A k \in 1..n : f[k] = b * f[k - 1]
  BY <1>4
<1> DEFINE Same == {k \in 0..n : f[k] = g[k]}
<1>7. 0 \in Same /\ \A k \in 1..n : k - 1 \in Same => k \in Same
  BY <1>3, <1>6
<1>8. \A k \in 0..n : k \in Same
  <2> HIDE DEF Same
  <2> QED
    BY <1>7, Induction
<1>9. f \in [0..n -> Nat]
  <2>1. f = [k \in 0..n |-> f[k]]
    BY <1>4
  <2>2. \A k \in 0..n : f[k] \in Nat
    BY <1>3, <1>8
  <2> QED
    BY <2>1, <2>2
<1> QED
  BY <1>5, <1>6, <1>9 DEF Multiplies

\* Power is b ^ n.
LEMMA PowerFacts ==
  ASSUME NEW b \in Nat \ {0}, NEW n \in Nat
  PROVE  /\ Power(b, n) \in Nat \ {0}
         /\ Power(b, 0) = 1
         /\ Power(b, n + 1) = b * Power(b, n)
<1>1. PICK f : Multiplies(f, b, n) /\ Power(b, n) = f[n]
  BY PowerUnrolls
<1>2. PICK g : Multiplies(g, b, n + 1) /\ Power(b, n + 1) = g[n + 1]
  BY PowerUnrolls
<1>3. PICK h : Multiplies(h, b, 0) /\ Power(b, 0) = h[0]
  BY PowerUnrolls
<1> DEFINE Same == {k \in 0..n : f[k] = g[k] /\ f[k] # 0}
<1>4. 0 \in Same
  BY <1>1, <1>2 DEF Multiplies
<1>5. ASSUME NEW k \in 1..n, k - 1 \in Same
      PROVE  k \in Same
  <2>1. f[k] = b * f[k - 1] /\ g[k] = b * g[k - 1] /\ f[k - 1] \in Nat
    BY <1>1, <1>2 DEF Multiplies
  <2>2. b * f[k - 1] # 0
    <3>1. \A x, y \in Nat : x # 0 /\ y # 0 => x * y # 0
      OBVIOUS
    <3> QED
      BY <1>5, <2>1, <3>1
  <2> QED
    BY <1>5, <2>1, <2>2
<1> HIDE DEF Same
<1>6. \A k \in 0..n : k \in Same
  BY <1>4, <1>5, Induction
<1>7. f[n] = g[n] /\ f[n] # 0 /\ f[n] \in Nat
  BY <1>1, <1>6 DEF Same, Multiplies
<1>8. g[n + 1] = b * g[n]
  <2>1. n + 1 \in 1..n + 1 /\ n + 1 - 1 = n
    OBVIOUS
  <2> QED
    BY <1>2, <2>1 DEF Multiplies
<1> QED
  BY <1>1, <1>2, <1>3, <1>7, <1>8 DEF Multiplies

=============================================================================
