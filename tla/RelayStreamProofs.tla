------------------------- MODULE RelayStreamProofs -------------------------
(***************************************************************************)
(* Proofs about RelayStream, for every number of events, Mac connections,  *)
(* mobile connections and faults, every queue limit and every set of       *)
(* faults that happen.  The argument follows each committed event that no  *)
(* fault put at risk: until a mobile has it, some reader is going to       *)
(* broadcast it, a replay is going to read it, a buffer or a queue holds   *)
(* it, or the mobile is, or is about to be, waiting for a keyframe that    *)
(* will describe it.                                                       *)
(***************************************************************************)
EXTENDS RelayStream, FiniteSetTheorems, WellFoundedInduction, TLAPS

-----------------------------------------------------------------------------
(* Orders, queues and sequences of cursors.                                *)

(* The order of the naturals is well founded.                              *)
LEMMA NatOrderWellFounded ==
    \E R : /\ IsWellFoundedOn(R, Nat)
           /\ \A a, b \in Nat : a < b => <<a, b>> \in R
<1> DEFINE R == OpToRel(<, Nat)
<1>1. \A a, b \in Nat : a < b => <<a, b>> \in R
  <2> SUFFICES ASSUME NEW a \in Nat, NEW b \in Nat, a < b
               PROVE  <<a, b>> \in {ss \in Nat \X Nat : ss[1] < ss[2]}
    BY DEF OpToRel
  <2> QED
    OBVIOUS
<1>2. IsWellFoundedOn(R, Nat)
  BY NatLessThanWellFounded
<1> HIDE DEF R
<1>3. QED
  BY <1>1, <1>2

(* Every nonempty set of naturals has a least element, which Min returns.  *)
LEMMA MinIsLeast ==
    ASSUME NEW S \in SUBSET Nat, S # {}
    PROVE  Min(S) \in S /\ \A y \in S : Min(S) <= y
<1>1. PICK R : /\ IsWellFoundedOn(R, Nat)
               /\ \A a, b \in Nat : a < b => <<a, b>> \in R
  BY NatOrderWellFounded
<1>2. \A a, b \in Nat : a < b => <<a, b>> \in R
  BY <1>1, Zenon
<1>3. PICK x \in S : \A y \in S : ~ (<<y, x>> \in R)
  <2>1. IsWellFoundedOn(R, Nat)
    BY <1>1
  <2>2. QED
    BY <2>1, WFMin, Zenon
<1>4. ASSUME NEW y \in S
      PROVE  x <= y
  <2>1. ~ (y < x)
    BY <1>2, <1>3, Zenon
  <2>2. QED
    BY <2>1
<1>5. QED
  BY <1>4 DEF Min

(* Every nonempty set of naturals that has an upper bound has a greatest   *)
(* element, which Max returns.                                             *)
LEMMA MaxIsGreatest ==
    ASSUME NEW N \in Nat, NEW S \in SUBSET (0..N), S # {}
    PROVE  Max(S) \in S /\ \A y \in S : y <= Max(S)
<1> DEFINE T == {N - x : x \in S}
<1>1. T \subseteq Nat /\ T # {}
  <2>1. \A x \in S : N - x \in Nat
    OBVIOUS
  <2>2. PICK x \in S : TRUE
    OBVIOUS
  <2>3. QED
    BY <2>1, <2>2
<1>2. Min(T) \in T /\ \A y \in T : Min(T) <= y
  BY <1>1, MinIsLeast
<1>3. PICK x \in S : Min(T) = N - x
  BY <1>2
<1>4. ASSUME NEW y \in S
      PROVE  x >= y
  <2>1. N - x <= N - y
    BY <1>2, <1>3
  <2>2. QED
    BY <2>1
<1>5. QED
  BY <1>4 DEF Max

-----------------------------------------------------------------------------
(* The order in which rows and buffered events are sent.                   *)

Increasing(s) == \A i, j \in DOMAIN s : i < j => s[i] < s[j]

(* An increasing sequence of naturals is increasing without ties.          *)
LEMMA IncreasingIsInjective ==
    ASSUME NEW S \in SUBSET Nat, NEW n \in Nat, NEW s \in [1..n -> S], Increasing(s)
    PROVE  \A i, j \in 1..n : s[i] = s[j] => i = j
<1> SUFFICES ASSUME NEW i \in 1..n, NEW j \in 1..n, i # j
             PROVE  s[i] # s[j]
    OBVIOUS
<1>1. s[i] \in Nat /\ s[j] \in Nat /\ DOMAIN s = 1..n
  OBVIOUS
<1>2. CASE i < j
  BY <1>1, <1>2 DEF Increasing
<1>3. CASE j < i
  BY <1>1, <1>3 DEF Increasing
<1>4. QED
  BY <1>2, <1>3

(* Every bounded set of naturals can be enumerated in increasing order: a  *)
(* least bound for which that fails would be no bound of the set without   *)
(* its greatest element.                                                   *)
LEMMA IncreasingExists ==
    ASSUME NEW N \in Nat, NEW S \in SUBSET (1..N)
    PROVE  \E s \in [1..Cardinality(S) -> S] : Increasing(s)
<1> DEFINE Enumerated(T) == \E s \in [1..Cardinality(T) -> T] : Increasing(s)
           Bad == {n \in Nat : \E T \in SUBSET (1..n) : ~Enumerated(T)}
<1>1. SUFFICES ASSUME Bad # {}
               PROVE  FALSE
  OBVIOUS
<1>2. Bad \in SUBSET Nat
  OBVIOUS
<1> DEFINE m == Min(Bad)
<1>3. m \in Bad /\ \A n \in Bad : m <= n
  BY <1>1, <1>2, MinIsLeast, Zenon
<1> HIDE DEF m
<1>4. PICK T \in SUBSET (1..m) : ~Enumerated(T)
  BY <1>3
<1>5. m \in Nat
  BY <1>2, <1>3
<1> HIDE DEF Bad
<1>11. ASSUME NEW n \in Nat, n < m, NEW U \in SUBSET (1..n)
       PROVE  Enumerated(U)
  <2>1. n \notin Bad
    BY <1>3, <1>5, <1>11
  <2>2. QED
    BY <2>1 DEF Bad
<1>12. T \subseteq 1..m /\ ~Enumerated(T)
  BY <1>4
<1> HIDE DEF Enumerated
<1>6. IsFiniteSet(T)
  <2>1. IsFiniteSet(1..m)
    BY <1>5, FS_Interval
  <2>2. QED
    BY <2>1, FS_Subset
<1>7. CASE T = {}
  <2>1. Cardinality(T) = 0
    BY <1>7, FS_EmptySet
  <2>2. [i \in 1..0 |-> 0] \in [1..Cardinality(T) -> T]
    BY <2>1
  <2>3. Increasing([i \in 1..0 |-> 0])
    BY DEF Increasing
  <2>4. QED
    BY <1>12, <2>2, <2>3 DEF Enumerated
<1>8. CASE T # {} /\ m \notin T
  <2>1. m # 0
    <3>1. PICK x \in T : x \in 1..m
      BY <1>8, <1>12
    <3>2. QED
      BY <1>5, <3>1
  <2>2. m - 1 \in Nat /\ m - 1 < m
    BY <1>5, <2>1
  <2>3. T \in SUBSET (1..(m - 1))
    <3> SUFFICES ASSUME NEW x \in T
                 PROVE  x \in 1..(m - 1)
        OBVIOUS
    <3>1. x \in 1..m /\ x # m
      BY <1>8, <1>12
    <3>2. QED
      BY <1>5, <3>1
  <2>4. QED
    BY <1>11, <1>12, <2>2, <2>3
<1>9. CASE m \in T
  <2> DEFINE U == T \ {m}
  <2>1. m \in 1..m /\ m # 0
    BY <1>5, <1>9, <1>12
  <2>2. m - 1 \in Nat /\ m - 1 < m
    BY <1>5, <2>1
  <2>3. \A x \in U : x \in 1..(m - 1) /\ x < m
    <3> SUFFICES ASSUME NEW x \in U
                 PROVE  x \in 1..(m - 1) /\ x < m
        OBVIOUS
    <3>1. x \in 1..m /\ x # m
      BY <1>12
    <3>2. QED
      BY <1>5, <3>1
  <2>4. Enumerated(U)
    <3>1. U \in SUBSET (1..(m - 1))
      BY <2>3
    <3>2. QED
      BY <1>11, <2>2, <3>1
  <2>5. PICK s \in [1..Cardinality(U) -> U] : Increasing(s)
    BY <2>4 DEF Enumerated
  <2>6. Cardinality(U) = Cardinality(T) - 1
    BY <1>6, <1>9, FS_RemoveElement
  <2>7. Cardinality(T) \in Nat /\ Cardinality(U) \in Nat
    BY <1>6, FS_CardinalityType, FS_RemoveElement
  <2> DEFINE k == Cardinality(T)
             r == [i \in 1..k |-> IF i = k THEN m ELSE s[i]]
  <2>8. r \in [1..k -> T]
    <3> SUFFICES ASSUME NEW i \in 1..k, i # k
                 PROVE  s[i] \in T
        BY <1>9
    <3>1. i \in 1..Cardinality(U)
      BY <2>6, <2>7
    <3>2. QED
      BY <2>5, <3>1
  <2>9. Increasing(r)
    <3> SUFFICES ASSUME NEW i \in 1..k, NEW j \in 1..k, i < j
                 PROVE  r[i] < r[j]
        BY DEF Increasing
    <3>1. i \in 1..Cardinality(U) /\ r[i] = s[i]
      BY <2>6, <2>7
    <3>2. s[i] \in U
      BY <2>5, <3>1
    <3>3. s[i] < m
      BY <2>3, <3>2
    <3>4. CASE j = k
      BY <3>1, <3>3, <3>4
    <3>5. CASE j # k
      <4>1. j \in 1..Cardinality(U) /\ r[j] = s[j]
        BY <2>6, <2>7, <3>5
      <4>2. QED
        BY <2>5, <3>1, <4>1 DEF Increasing
    <3>6. QED
      BY <3>4, <3>5
  <2> HIDE DEF r
  <2>10. QED
    BY <1>12, <2>8, <2>9 DEF Enumerated
<1>10. QED
  BY <1>7, <1>8, <1>9

(* What InOrder returns: the elements, each once, in increasing order.     *)
LEMMA InOrderSorts ==
    ASSUME NEW N \in Nat, NEW S \in SUBSET (1..N)
    PROVE  /\ InOrder(S) \in Seq(S)
           /\ Increasing(InOrder(S))
           /\ \A x \in S : \E i \in DOMAIN InOrder(S) : InOrder(S)[i] = x
<1> DEFINE s == InOrder(S)
           k == Cardinality(S)
<1>1. IsFiniteSet(S)
  <2>1. IsFiniteSet(1..N)
    BY FS_Interval
  <2>2. QED
    BY <2>1, FS_Subset
<1>2. k \in Nat
  BY <1>1, FS_CardinalityType
<1>3. s \in [1..k -> S] /\ Increasing(s)
  BY IncreasingExists DEF InOrder, Increasing
<1> HIDE DEF s
<1>4. s \in Seq(S)
  BY <1>2, <1>3
<1>5. \A i, j \in 1..k : s[i] = s[j] => i = j
  <2>1. S \in SUBSET Nat
    OBVIOUS
  <2> HIDE DEF k
  <2>2. QED
    BY <1>2, <1>3, <2>1, IncreasingIsInjective
<1>6. s \in Injection(1..k, S)
  BY <1>3, <1>5 DEF Injection, IsInjective
<1>7. IsFiniteSet(1..k) /\ Cardinality(1..k) = k
  BY <1>2, FS_Interval
<1>8. s \in Surjection(1..k, S)
  BY <1>1, <1>6, <1>7, FS_Injection
<1>9. \A x \in S : \E i \in 1..k : s[i] = x
  BY <1>8 DEF Surjection
<1>10. QED
  BY <1>3, <1>4, <1>9 DEF s

(* RemoveAt closes the gap.                                                *)
LEMMA RemoveAtShifts ==
    ASSUME NEW T, NEW q \in Seq(T), NEW i \in 1..Len(q)
    PROVE  /\ RemoveAt(q, i) \in Seq(T)
           /\ Len(RemoveAt(q, i)) = Len(q) - 1
           /\ \A k \in 1..(Len(q) - 1) :
                RemoveAt(q, i)[k] = IF k < i THEN q[k] ELSE q[k + 1]
<1> DEFINE a == SubSeq(q, 1, i - 1)
           b == SubSeq(q, i + 1, Len(q))
<1>0. Len(q) \in Nat /\ DOMAIN q = 1..Len(q) /\ \A k \in 1..Len(q) : q[k] \in T
  OBVIOUS
<1>1. a \in Seq(T) /\ Len(a) = i - 1 /\ \A k \in 1..(i - 1) : a[k] = q[k]
  OBVIOUS
<1>2. b \in Seq(T) /\ Len(b) = Len(q) - i /\ \A k \in 1..(Len(q) - i) : b[k] = q[i + k]
  <2>1. b = [k \in 1..(Len(q) - i) |-> q[i + k]]
    BY <1>0
  <2>2. \A k \in 1..(Len(q) - i) : q[i + k] \in T
    BY <1>0
  <2>3. Len(q) - i \in Nat
    BY <1>0
  <2> HIDE DEF b
  <2>4. QED
    BY <2>1, <2>2, <2>3
<1> HIDE DEF a, b
<1>3. RemoveAt(q, i) = a \o b
  BY DEF RemoveAt, a, b
<1>4. a \o b \in Seq(T) /\ Len(a \o b) = Len(q) - 1
  <2>1. a \o b \in Seq(T)
    BY <1>1, <1>2
  <2>2. Len(a \o b) = Len(a) + Len(b)
    <3>1. a \in Seq(T) /\ b \in Seq(T)
      BY <1>1, <1>2
    <3>2. QED
      BY <3>1
  <2>3. QED
    BY <1>0, <1>1, <1>2, <2>1, <2>2
<1>5. ASSUME NEW k \in 1..(Len(q) - 1)
      PROVE  (a \o b)[k] = IF k < i THEN q[k] ELSE q[k + 1]
  <2>1. (a \o b)[k] = IF k <= Len(a) THEN a[k] ELSE b[k - Len(a)]
    BY <1>1, <1>2, <1>4
  <2>2. CASE k < i
    BY <1>1, <2>1, <2>2
  <2>3. CASE ~(k < i)
    <3>1. k - Len(a) \in 1..(Len(q) - i) /\ i + (k - Len(a)) = k + 1
      BY <1>1, <2>3
    <3>2. b[k - Len(a)] = q[k + 1]
      BY <1>2, <3>1
    <3>3. QED
      BY <1>1, <2>1, <2>3, <3>2
  <2>4. QED
    BY <2>2, <2>3
<1>6. QED
  BY <1>3, <1>4, <1>5

-----------------------------------------------------------------------------
(* The hub's queue: a task stands in it once, and in front of another or   *)
(* behind it.                                                              *)

Before(a, b, q) == \E i, j \in DOMAIN q : i < j /\ q[i] = a /\ q[j] = b

Once(q) == \A i, j \in DOMAIN q : q[i] = q[j] => i = j

(* What taking the head off leaves in the queue, and in which order.       *)
LEMMA TailQueue ==
    ASSUME NEW T, NEW q \in Seq(T), Once(q), q # <<>>
    PROVE  /\ Tail(q) \in Seq(T) /\ Once(Tail(q))
           /\ ToSet(Tail(q)) = ToSet(q) \ {Head(q)}
           /\ \A a, b : Before(a, b, Tail(q)) => Before(a, b, q)
           /\ \A a \in ToSet(Tail(q)) : Before(Head(q), a, q)
<1> DEFINE r == Tail(q)
<1>1. /\ r \in Seq(T) /\ Len(q) \in Nat /\ Len(q) > 0 /\ Len(r) = Len(q) - 1
      /\ DOMAIN q = 1..Len(q) /\ DOMAIN r = 1..Len(r)
      /\ \A k \in 1..Len(r) : r[k] = q[k + 1]
      /\ Head(q) = q[1]
  OBVIOUS
<1> HIDE DEF r
<1>2. \A k \in DOMAIN r : k + 1 \in DOMAIN q /\ k + 1 > 1
  BY <1>1
<1>3. Once(r)
  BY <1>1, <1>2 DEF Once
<1>4. ToSet(r) = ToSet(q) \ {Head(q)}
  <2>1. ASSUME NEW x \in ToSet(r)
        PROVE  x \in ToSet(q) \ {Head(q)}
    <3>1. PICK k \in DOMAIN r : r[k] = x
      BY DEF ToSet
    <3>2. k + 1 \in DOMAIN q /\ q[k + 1] = x /\ k + 1 # 1
      BY <1>1, <1>2, <3>1
    <3>3. x # q[1]
      BY <1>1, <3>2 DEF Once
    <3>4. QED
      BY <1>1, <3>2, <3>3 DEF ToSet
  <2>2. ASSUME NEW x \in ToSet(q) \ {Head(q)}
        PROVE  x \in ToSet(r)
    <3>1. PICK k \in DOMAIN q : q[k] = x
      BY DEF ToSet
    <3>2. k # 1
      BY <1>1, <3>1
    <3>3. k - 1 \in DOMAIN r /\ r[k - 1] = x
      BY <1>1, <3>1, <3>2
    <3>4. QED
      BY <3>3 DEF ToSet
  <2>3. QED
    BY <2>1, <2>2
<1>5. ASSUME NEW a, NEW b, Before(a, b, r)
      PROVE  Before(a, b, q)
  <2>1. PICK i \in DOMAIN r, j \in DOMAIN r : i < j /\ r[i] = a /\ r[j] = b
    BY <1>5 DEF Before
  <2>2. /\ i + 1 \in DOMAIN q /\ j + 1 \in DOMAIN q /\ i + 1 < j + 1
        /\ q[i + 1] = a /\ q[j + 1] = b
    BY <1>1, <1>2, <2>1
  <2>3. QED
    BY <2>2 DEF Before
<1>6. ASSUME NEW a \in ToSet(r)
      PROVE  Before(Head(q), a, q)
  <2>1. PICK k \in DOMAIN r : r[k] = a
    BY DEF ToSet
  <2>2. 1 \in DOMAIN q /\ k + 1 \in DOMAIN q /\ 1 < k + 1 /\ q[k + 1] = a
    BY <1>1, <1>2, <2>1
  <2>3. QED
    BY <1>1, <2>2 DEF Before
<1>7. QED
  BY <1>1, <1>3, <1>4, <1>5, <1>6 DEF r

(* A task that asks for the lock stands behind all the others.             *)
LEMMA AppendQueue ==
    ASSUME NEW T, NEW q \in Seq(T), Once(q), NEW x \in T, x \notin ToSet(q)
    PROVE  /\ Append(q, x) \in Seq(T) /\ Once(Append(q, x))
           /\ ToSet(Append(q, x)) = ToSet(q) \cup {x}
           /\ \A a, b : Before(a, b, Append(q, x))
                => Before(a, b, q) \/ (a \in ToSet(q) /\ b = x)
           /\ q # <<>> => Head(Append(q, x)) = Head(q)
<1> DEFINE r == Append(q, x)
<1>1. /\ r \in Seq(T) /\ Len(q) \in Nat /\ Len(r) = Len(q) + 1
      /\ DOMAIN q = 1..Len(q) /\ DOMAIN r = 1..Len(r)
      /\ \A k \in 1..Len(q) : r[k] = q[k]
      /\ r[Len(q) + 1] = x
  OBVIOUS
<1>2. q # <<>> => Head(r) = Head(q)
  OBVIOUS
<1> HIDE DEF r
<1>3. \A k \in DOMAIN q : q[k] # x
  BY DEF ToSet
<1>4. Once(r)
  <2> SUFFICES ASSUME NEW i \in DOMAIN r, NEW j \in DOMAIN r, r[i] = r[j]
               PROVE  i = j
      BY DEF Once
  <2>1. CASE i \in DOMAIN q /\ j \in DOMAIN q
    BY <1>1, <2>1 DEF Once
  <2>2. CASE i \notin DOMAIN q \/ j \notin DOMAIN q
    BY <1>1, <1>3, <2>2
  <2>3. QED
    BY <2>1, <2>2
<1>5. ToSet(r) = ToSet(q) \cup {x}
  <2>1. ASSUME NEW y \in ToSet(r)
        PROVE  y \in ToSet(q) \cup {x}
    <3>1. PICK k \in DOMAIN r : r[k] = y
      BY DEF ToSet
    <3>2. k \in DOMAIN q \/ k = Len(q) + 1
      BY <1>1
    <3>3. QED
      BY <1>1, <3>1, <3>2 DEF ToSet
  <2>2. ASSUME NEW y \in ToSet(q)
        PROVE  y \in ToSet(r)
    <3>1. PICK k \in DOMAIN q : q[k] = y
      BY DEF ToSet
    <3>2. k \in DOMAIN r /\ r[k] = y
      BY <1>1, <3>1
    <3>3. QED
      BY <3>2 DEF ToSet
  <2>3. Len(q) + 1 \in DOMAIN r
    BY <1>1
  <2>4. x \in ToSet(r)
    BY <1>1, <2>3 DEF ToSet
  <2>5. QED
    BY <2>1, <2>2, <2>4
<1>6. ASSUME NEW a, NEW b, Before(a, b, r)
      PROVE  Before(a, b, q) \/ (a \in ToSet(q) /\ b = x)
  <2>1. PICK i \in DOMAIN r, j \in DOMAIN r : i < j /\ r[i] = a /\ r[j] = b
    BY <1>6 DEF Before
  <2>2. i \in DOMAIN q /\ q[i] = a
    BY <1>1, <2>1
  <2>3. CASE j \in DOMAIN q
    BY <1>1, <2>1, <2>2, <2>3 DEF Before
  <2>4. CASE j \notin DOMAIN q
    <3>1. j = Len(q) + 1
      BY <1>1, <2>4
    <3>2. QED
      BY <1>1, <2>1, <2>2, <3>1 DEF ToSet
  <2>5. QED
    BY <2>3, <2>4
<1>7. QED
  BY <1>1, <1>2, <1>4, <1>5, <1>6 DEF r

(* A task that is cancelled leaves the others where they stand.            *)
LEMMA WithdrawnQueue ==
    ASSUME NEW T, NEW q \in Seq(T), Once(q), NEW x
    PROVE  /\ Withdrawn(x, q) \in Seq(T) /\ Once(Withdrawn(x, q))
           /\ ToSet(Withdrawn(x, q)) = ToSet(q) \ {x}
           /\ \A a, b : Before(a, b, Withdrawn(x, q)) => Before(a, b, q)
           /\ q # <<>> /\ Head(q) # x
                => Withdrawn(x, q) # <<>> /\ Head(Withdrawn(x, q)) = Head(q)
<1>1. CASE x \notin ToSet(q)
  <2>1. Withdrawn(x, q) = q
    BY <1>1 DEF Withdrawn
  <2>2. QED
    BY <1>1, <2>1
<1>2. CASE x \in ToSet(q)
  <2> DEFINE n == CHOOSE i \in DOMAIN q : q[i] = x
             r == RemoveAt(q, n)
  <2>1. n \in DOMAIN q /\ q[n] = x
    BY <1>2 DEF ToSet
  <2>2. DOMAIN q = 1..Len(q) /\ Len(q) \in Nat
    OBVIOUS
  <2> HIDE DEF n
  <2>3. /\ r \in Seq(T) /\ Len(r) = Len(q) - 1
        /\ \A k \in 1..(Len(q) - 1) : r[k] = IF k < n THEN q[k] ELSE q[k + 1]
    BY <2>1, <2>2, RemoveAtShifts
  <2>4. Withdrawn(x, q) = r
    BY <1>2 DEF Withdrawn, n
  <2>5. DOMAIN r = 1..(Len(q) - 1)
    BY <2>3
  <2> DEFINE at(k) == IF k < n THEN k ELSE k + 1
  <2> HIDE DEF r
  <2>6. \A k \in DOMAIN r : at(k) \in DOMAIN q /\ at(k) # n /\ r[k] = q[at(k)]
    <3> SUFFICES ASSUME NEW k \in DOMAIN r
                 PROVE  at(k) \in DOMAIN q /\ at(k) # n /\ r[k] = q[at(k)]
        OBVIOUS
    <3>1. k \in 1..(Len(q) - 1) /\ n \in 1..Len(q)
      BY <2>1, <2>2, <2>5
    <3>2. CASE k < n
      BY <2>2, <2>3, <3>1, <3>2
    <3>3. CASE ~(k < n)
      BY <2>2, <2>3, <3>1, <3>3
    <3>4. QED
      BY <3>2, <3>3
  <2>7. \A i, j \in DOMAIN r : i < j => at(i) < at(j)
    BY <2>1, <2>2, <2>5
  <2>8. \A k \in DOMAIN q : k # n => \E i \in DOMAIN r : at(i) = k
    <3> SUFFICES ASSUME NEW k \in DOMAIN q, k # n
                 PROVE  \E i \in DOMAIN r : at(i) = k
        OBVIOUS
    <3>1. CASE k < n
      <4>1. k \in DOMAIN r /\ at(k) = k
        BY <2>1, <2>2, <2>5, <3>1
      <4>2. QED
        BY <4>1
    <3>2. CASE ~(k < n)
      <4>1. k - 1 \in DOMAIN r /\ at(k - 1) = k
        BY <2>1, <2>2, <2>5, <3>2
      <4>2. QED
        BY <4>1
    <3>3. QED
      BY <3>1, <3>2
  <2> HIDE DEF at
  <2>9. Once(r)
    <3> SUFFICES ASSUME NEW i \in DOMAIN r, NEW j \in DOMAIN r, r[i] = r[j]
                 PROVE  i = j
        BY DEF Once
    <3>1. at(i) = at(j)
      BY <2>6 DEF Once
    <3>2. i \in Nat /\ j \in Nat /\ at(i) \in Nat
      BY <2>2, <2>5, <2>6
    <3>3. ~(i < j) /\ ~(j < i)
      BY <2>7, <3>1, <3>2
    <3>4. QED
      BY <3>2, <3>3
  <2>10. ToSet(r) = ToSet(q) \ {x}
    <3>1. ASSUME NEW y \in ToSet(r)
          PROVE  y \in ToSet(q) \ {x}
      <4>1. PICK k \in DOMAIN r : r[k] = y
        BY DEF ToSet
      <4>2. at(k) \in DOMAIN q /\ at(k) # n /\ q[at(k)] = y
        BY <2>6, <4>1
      <4>3. y # x
        BY <2>1, <4>2 DEF Once
      <4>4. QED
        BY <4>2, <4>3 DEF ToSet
    <3>2. ASSUME NEW y \in ToSet(q) \ {x}
          PROVE  y \in ToSet(r)
      <4>1. PICK k \in DOMAIN q : q[k] = y
        BY DEF ToSet
      <4>2. PICK i \in DOMAIN r : at(i) = k
        BY <2>1, <2>8, <4>1
      <4>3. r[i] = y
        BY <2>6, <4>1, <4>2
      <4>4. QED
        BY <4>3 DEF ToSet
    <3>3. QED
      BY <3>1, <3>2
  <2>11. ASSUME NEW a, NEW b, Before(a, b, r)
         PROVE  Before(a, b, q)
    <3>1. PICK i \in DOMAIN r, j \in DOMAIN r : i < j /\ r[i] = a /\ r[j] = b
      BY <2>11 DEF Before
    <3>2. /\ at(i) \in DOMAIN q /\ at(j) \in DOMAIN q /\ at(i) < at(j)
          /\ q[at(i)] = a /\ q[at(j)] = b
      BY <2>6, <2>7, <3>1
    <3>3. QED
      BY <3>2 DEF Before
  <2>12. ASSUME q # <<>>, Head(q) # x
         PROVE  r # <<>> /\ Head(r) = Head(q)
    <3>1. Head(q) = q[1] /\ n # 1
      BY <2>1, <2>12
    <3>2. n \in 1..Len(q) /\ n > 1
      BY <2>1, <2>2, <3>1
    <3>3. 1 \in 1..(Len(q) - 1) /\ 1 < n
      BY <2>2, <3>2
    <3>4. r[1] = q[1] /\ Len(r) >= 1
      BY <2>3, <2>2, <3>3
    <3>5. QED
      BY <2>3, <3>1, <3>4
  <2>13. QED
    BY <2>3, <2>4, <2>9, <2>10, <2>11, <2>12
<1>3. QED
  BY <1>1, <1>2

-----------------------------------------------------------------------------
(* The inductive invariant.                                                *)

\* A reader has committed an event and not yet broadcast it.
Pends(g) == reader[g].pc \in {"appended", "marking", "queued"}
Pending(c) == \E g \in Gens : Pends(g) /\ reader[g].cursor = c

AtRisk(c) == log[c] \in atRisk

\* An event that no event committed after it overtakes on its way to the hub.
Firm(c) == KindAt(c) # "terminal" \/ ~AtRisk(c)

StoreInv ==
    /\ epoch <= faults + 1
    /\ Len(log) <= Len(source)
    /\ \A c \in DOMAIN log : log[c] \in DOMAIN source
    /\ \A c, d \in DOMAIN log : c < d => log[c] < log[d]
    /\ \A c \in DOMAIN log \ kept : c <= floor
    /\ \A p \in DOMAIN source : p \in atRisk \/ \E c \in DOMAIN log : log[c] = p

Presenting(g) == reader[g].pc \in {"appended", "resetting"}

ReaderInv ==
    /\ \A g \in Gens : Pends(g) => reader[g].cursor \in DOMAIN log
    /\ \A g, h \in Gens :
         Pends(g) /\ Pends(h) /\ reader[g].cursor = reader[h].cursor => g = h
    /\ \A g, h \in Gens : Presenting(g) /\ Presenting(h) => g = h
    /\ \A g \in Gens : reader[g].pc = "appended" => reader[g].cursor = Len(log)
    /\ \A g \in Gens : reader[g].pc = "marking" =>
         /\ KindAt(reader[g].cursor) = "terminal"
         /\ AtRisk(reader[g].cursor) \/ reader[g].cursor = Len(log)

HubInv ==
    /\ Once(hubQueue)
    /\ \A g \in Gens : g \in ToSet(hubQueue) <=> reader[g].pc \in {"queued", "resetting"}
    /\ MobileTask \in ToSet(hubQueue) <=> client.pc \in {"queued", "floor", "drain"}
    /\ client.pc = "floor" => Owns(MobileTask)

Ahead(g, h) == Before(g, h, hubQueue)

OrderInv ==
    /\ \A g, h \in Gens :
         /\ Ahead(g, h) /\ reader[g].pc = "queued" /\ reader[h].pc = "queued"
         /\ Firm(reader[h].cursor)
         => reader[g].cursor < reader[h].cursor
    /\ \A g, h \in Gens :
         reader[g].pc = "resetting" /\ Pends(h) /\ KindAt(reader[h].cursor) # "terminal"
         => reader[h].pc = "queued" /\ ~Ahead(g, h)
    /\ \A g \in Gens : Pends(g) /\ KindAt(reader[g].cursor) # "terminal" =>
         \A c \in DOMAIN log : reader[g].cursor < c /\ ~AtRisk(c) => Pending(c)

PhaseInv ==
    /\ client.pc = "down" => client = NoClient
    /\ client.pc = "queued" => client.phase = "new"
    /\ client.pc = "floor" => client.phase = "replaying"
    /\ client.pc \in {"replay", "drain"} => client.phase # "new"
    /\ client.pc = "registered" => client.phase \in {"reset", "live"}
    /\ client.pc \in {"queued", "floor"} => client.last = mobile.applied
    /\ \/ client.pc \in {"down", "queued", "floor"}
       \/ client.pc = "replay" /\ client.phase = "replaying"
       => sent = <<>> /\ client.queue = <<>>
    /\ client.pc = "queued" \/ client.phase = "live" => client.buffer = {}
    /\ client.buffer \subseteq DOMAIN log
    /\ client.high <= Len(log)
    /\ client.pc = "replay" /\ client.phase = "live" => client.high < client.last
    /\ client.last <= mobile.applied \/ client.last \in DOMAIN log

SentInv ==
    /\ \A i \in DOMAIN sent : sent[i] \in DOMAIN log /\ sent[i] <= client.last
    /\ Increasing(sent)
    /\ \A g \in Gens : Pends(g) /\ Firm(reader[g].cursor) =>
         \A b \in client.buffer : b < reader[g].cursor
    /\ client.phase = "reset" =>
         \A g \in Gens : Pends(g) /\ KindAt(reader[g].cursor) # "terminal" =>
           /\ \A i \in DOMAIN sent : sent[i] < reader[g].cursor
           /\ client.pc = "replay" => client.high < reader[g].cursor

IsEvent(f) == f.type = "event"
IsFinal(f, src) == f.type = "event" /\ src[f.pos] = "final"

FrameInv ==
    /\ \A i \in DOMAIN client.queue : client.queue[i].epoch = epoch
    /\ \A i \in DOMAIN client.queue : IsEvent(client.queue[i]) =>
         /\ client.queue[i].cursor \in DOMAIN log
         /\ client.queue[i].pos = log[client.queue[i].cursor]
         /\ \E k \in DOMAIN sent : sent[k] = client.queue[i].cursor
    /\ \A i, j \in DOMAIN client.queue :
         i < j /\ IsEvent(client.queue[i]) /\ IsEvent(client.queue[j])
         => client.queue[i].cursor < client.queue[j].cursor
    /\ client.pc \in {"replay", "drain", "registered"} =>
         \/ mobile.epoch \in {0, epoch}
         \/ client.queue # <<>> /\ client.queue[1].type = "reset"

\* From position i on, the queue holds no final that describes cursor c or less.
FinalsBeyond(q, i, c, src) ==
    \A j \in DOMAIN q : i < j /\ IsFinal(q[j], src) => c < q[j].cursor
NoFinals(q, i, src) == \A j \in DOMAIN q : i < j => ~IsFinal(q[j], src)

Sends(q, c) == \E i \in DOMAIN q : IsEvent(q[i]) /\ q[i].cursor = c

Skips(q, c, src) ==
    \E i \in DOMAIN q :
        /\ q[i].type = "reset"
        /\ \A j \in DOMAIN q : j < i /\ IsEvent(q[j]) => q[j].cursor < c
        /\ FinalsBeyond(q, i, c, src)

(* The mobile has the event at cursor c, or is being sent it, or has been  *)
(* or is being told to wait for a keyframe that will describe it.          *)
Covered(c, q, m, src) ==
    \/ c <= m.applied
    \/ Sends(q, c)
    \/ m.recovery /\ FinalsBeyond(q, 0, c, src)
    \/ Skips(q, c, src)

Owed(c) == ~AtRisk(c) /\ KindAt(c) # "page"

\* The hub replays, or has replayed and goes on with live events.
Serving == client.pc \in {"replay", "drain"} \/ (client.pc = "registered" /\ client.phase = "live")
Resetting == client.pc = "registered" /\ client.phase = "reset"

FloorInv ==
    /\ client.pc = "floor" =>
         \A c \in DOMAIN log \ kept : AtRisk(c) \/ c <= client.floor
    /\ client.pc = "replay" =>
         \A c \in DOMAIN log \ kept : AtRisk(c) \/ c <= client.last \/ client.high < c

CoverInv ==
    Serving => \A c \in DOMAIN log : Owed(c) /\ c <= client.last =>
        Covered(c, client.queue, mobile, source)

AheadInv ==
    Serving => \A c \in DOMAIN log : Owed(c) /\ client.last < c =>
        \/ Pending(c)
        \/ client.pc = "replay" /\ c <= client.high
        \/ c \in client.buffer

ResetInv ==
    /\ Resetting => \A c \in DOMAIN log : Owed(c) =>
         \/ Covered(c, client.queue, mobile, source)
         \/ Pending(c) /\ \A i \in DOMAIN sent : sent[i] < c
    /\ Resetting =>
         \/ mobile.recovery /\ NoFinals(client.queue, 0, source)
         \/ \E i \in DOMAIN client.queue :
              client.queue[i].type = "reset" /\ NoFinals(client.queue, i, source)
    /\ client.pc = "replay" /\ client.phase = "reset" =>
         \/ client.high <= client.last
         \/ /\ NoFinals(client.queue, 0, source)
            /\ mobile.recovery \/ (client.queue # <<>> /\ client.queue[1].type = "reset")
    /\ client.pc \in {"replay", "drain"} /\ client.phase = "reset" =>
         \A b \in client.buffer : AtRisk(b)

ReplicaInv ==
    /\ mobile.epoch <= epoch
    /\ mobile.epoch = 0 => mobile.applied = 0
    /\ mobile.epoch = epoch /\ ~mobile.recovery =>
         mobile.applied <= Len(log) /\ \A c \in 1..mobile.applied : log[c] <= mobile.revision
    /\ mobile.revision <= Len(source)
    /\ Holes \subseteq atRisk

IInv ==
    /\ TypeOK /\ StoreInv /\ ReaderInv /\ HubInv /\ OrderInv
    /\ PhaseInv /\ SentInv /\ FrameInv /\ FloorInv
    /\ CoverInv /\ AheadInv /\ ResetInv /\ ReplicaInv

-----------------------------------------------------------------------------
(* The mobile's queue of frames.                                           *)

FrameSet == EventFrames \cup ResetFrames

(* A frame is an event, with a cursor and a position, or a reset.          *)
LEMMA FrameTypes ==
    ASSUME NEW f \in FrameSet
    PROVE  /\ f.type \in {"event", "reset"}
           /\ IsEvent(f) => /\ f.cursor \in Nat /\ f.cursor \in Positions
                            /\ f.pos \in Nat /\ f.pos \in Positions
           /\ f.epoch \in 1..(MaxFaults + 1)
<1>1. CASE f \in EventFrames
  BY <1>1, RelayStreamAssumption DEF EventFrames, Positions
<1>2. CASE f \in ResetFrames
  BY <1>2 DEF ResetFrames, IsEvent
<1>3. QED
  BY <1>1, <1>2 DEF FrameSet

(* What is covered stays covered when later frames are queued.             *)
LEMMA CoveredExtended ==
    ASSUME NEW q \in Seq(FrameSet), NEW r \in Seq(FrameSet), NEW m, NEW src,
           NEW c \in Nat, Covered(c, q, m, src),
           \A j \in DOMAIN r : IsEvent(r[j]) => c < r[j].cursor
    PROVE  Covered(c, q \o r, m, src)
<1> DEFINE s == q \o r
<1>1. /\ Len(q) \in Nat /\ Len(r) \in Nat /\ s \in Seq(FrameSet)
      /\ DOMAIN q = 1..Len(q) /\ DOMAIN r = 1..Len(r)
  OBVIOUS
<1>2. DOMAIN s = 1..(Len(q) + Len(r))
  OBVIOUS
<1>3. \A j \in DOMAIN q : s[j] = q[j]
  OBVIOUS
<1>4. \A j \in DOMAIN s : j \notin DOMAIN q => j - Len(q) \in DOMAIN r /\ s[j] = r[j - Len(q)]
  OBVIOUS
<1> HIDE DEF s
<1>5. \A j \in DOMAIN q : j \in DOMAIN s
  BY <1>1, <1>2
<1>6. \A i \in Nat : FinalsBeyond(q, i, c, src) => FinalsBeyond(s, i, c, src)
  <2> SUFFICES ASSUME NEW i \in Nat, FinalsBeyond(q, i, c, src),
                      NEW j \in DOMAIN s, i < j, IsFinal(s[j], src)
               PROVE  c < s[j].cursor
      BY DEF FinalsBeyond
  <2>1. CASE j \in DOMAIN q
    BY <1>3, <2>1 DEF FinalsBeyond
  <2>2. CASE j \notin DOMAIN q
    <3>1. j - Len(q) \in DOMAIN r /\ s[j] = r[j - Len(q)]
      BY <1>4, <2>2
    <3>2. IsEvent(r[j - Len(q)])
      BY <3>1 DEF IsFinal, IsEvent
    <3>3. QED
      BY <3>1, <3>2
  <2>3. QED
    BY <2>1, <2>2
<1>7. CASE c <= m.applied
  BY <1>7 DEF Covered
<1>8. CASE Sends(q, c)
  <2>1. PICK i \in DOMAIN q : IsEvent(q[i]) /\ q[i].cursor = c
    BY <1>8 DEF Sends
  <2>2. Sends(s, c)
    BY <1>3, <1>5, <2>1 DEF Sends
  <2>3. QED
    BY <2>2 DEF Covered, s
<1>9. CASE m.recovery /\ FinalsBeyond(q, 0, c, src)
  BY <1>6, <1>9 DEF Covered, s
<1>10. CASE Skips(q, c, src)
  <2>1. PICK i \in DOMAIN q :
          /\ q[i].type = "reset"
          /\ \A j \in DOMAIN q : j < i /\ IsEvent(q[j]) => q[j].cursor < c
          /\ FinalsBeyond(q, i, c, src)
    BY <1>10 DEF Skips
  <2>2. i \in Nat /\ i \in DOMAIN s /\ s[i] = q[i]
    BY <1>1, <1>3, <1>5
  <2>3. ASSUME NEW j \in DOMAIN s, j < i, IsEvent(s[j])
        PROVE  s[j].cursor < c
    <3>1. j \in DOMAIN q
      BY <1>1, <1>2, <2>3
    <3>2. QED
      BY <1>3, <2>1, <2>3, <3>1
  <2>4. FinalsBeyond(s, i, c, src)
    BY <1>6, <2>1, <2>2
  <2>5. Skips(s, c, src)
    BY <2>1, <2>2, <2>3, <2>4 DEF Skips
  <2>6. QED
    BY <2>5 DEF Covered, s
<1>11. QED
  BY <1>7, <1>8, <1>9, <1>10 DEF Covered

(* What is covered stays covered when the source goes on.                  *)
LEMMA CoveredSource ==
    ASSUME NEW q, NEW m, NEW src, NEW new, NEW c, Covered(c, q, m, src),
           \A j \in DOMAIN q : IsFinal(q[j], new) => IsFinal(q[j], src)
    PROVE  Covered(c, q, m, new)
<1>1. \A i : FinalsBeyond(q, i, c, src) => FinalsBeyond(q, i, c, new)
  BY DEF FinalsBeyond
<1>2. Skips(q, c, src) => Skips(q, c, new)
  BY <1>1 DEF Skips
<1>3. QED
  BY <1>1, <1>2 DEF Covered

(* The replica takes the head of the queue.  It advances or it waits for a *)
(* keyframe, and only a final it applies ends the wait.                    *)
LEMMA CoveredTail ==
    ASSUME NEW q \in Seq(FrameSet), q # <<>>, NEW m, NEW n, NEW src,
           NEW c \in Nat, m.applied \in Nat, n.applied \in Nat,
           Covered(c, q, m, src),
           \A i, j \in DOMAIN q : i < j /\ IsEvent(q[i]) /\ IsEvent(q[j])
                => q[i].cursor < q[j].cursor,
           m.applied <= n.applied,
           m.recovery => \/ n.recovery
                         \/ IsFinal(Head(q), src) /\ Head(q).cursor <= n.applied,
           Head(q).type = "reset" => n.recovery,
           IsEvent(Head(q)) /\ Head(q).cursor = c => c <= n.applied \/ n.recovery
    PROVE  Covered(c, Tail(q), n, src)
<1> DEFINE t == Tail(q)
           f == Head(q)
<1>1. /\ Len(q) \in Nat /\ Len(q) > 0 /\ DOMAIN q = 1..Len(q)
      /\ t \in Seq(FrameSet) /\ DOMAIN t = 1..(Len(q) - 1)
      /\ \A j \in DOMAIN t : t[j] = q[j + 1]
      /\ f = q[1]
  OBVIOUS
<1>2. f \in FrameSet
  BY <1>1
<1>3. f.type \in {"event", "reset"} /\ (IsEvent(f) => f.cursor \in Nat)
  BY <1>2, FrameTypes
<1> HIDE DEF t, f
<1>4. \A j \in DOMAIN t : j + 1 \in DOMAIN q /\ j + 1 > 1
  BY <1>1
<1>5. \A i \in Nat : FinalsBeyond(q, i + 1, c, src) => FinalsBeyond(t, i, c, src)
  <2> SUFFICES ASSUME NEW i \in Nat, FinalsBeyond(q, i + 1, c, src),
                      NEW j \in DOMAIN t, i < j, IsFinal(t[j], src)
               PROVE  c < t[j].cursor
      BY DEF FinalsBeyond
  <2>1. j + 1 \in DOMAIN q /\ i + 1 < j + 1 /\ t[j] = q[j + 1]
    BY <1>1, <1>4
  <2>2. QED
    BY <2>1 DEF FinalsBeyond
<1>6. FinalsBeyond(q, 0, c, src) => FinalsBeyond(t, 0, c, src)
  <2>1. FinalsBeyond(q, 0, c, src) => FinalsBeyond(q, 1, c, src)
    BY <1>1 DEF FinalsBeyond
  <2>2. QED
    BY <1>5, <2>1
<1>7. CASE c <= m.applied
  BY <1>7 DEF Covered, t
<1>8. CASE Sends(q, c)
  <2>1. PICK i \in DOMAIN q : IsEvent(q[i]) /\ q[i].cursor = c
    BY <1>8 DEF Sends
  <2>2. CASE i = 1
    <3>1. c <= n.applied \/ n.recovery
      BY <1>1, <2>1, <2>2 DEF f
    <3>2. FinalsBeyond(q, 1, c, src)
      BY <1>1, <2>1, <2>2 DEF FinalsBeyond, IsFinal, IsEvent
    <3>3. FinalsBeyond(t, 0, c, src)
      BY <1>5, <3>2
    <3>4. QED
      BY <3>1, <3>3 DEF Covered, t
  <2>3. CASE i # 1
    <3>1. i - 1 \in DOMAIN t /\ t[i - 1] = q[i]
      BY <1>1, <2>3
    <3>2. Sends(t, c)
      BY <2>1, <3>1 DEF Sends
    <3>3. QED
      BY <3>2 DEF Covered, t
  <2>4. QED
    BY <2>2, <2>3
<1>9. CASE m.recovery /\ FinalsBeyond(q, 0, c, src)
  <2>1. CASE n.recovery
    BY <1>6, <1>9, <2>1 DEF Covered, t
  <2>2. CASE ~n.recovery
    <3>1. IsFinal(f, src) /\ f.cursor <= n.applied
      BY <1>9, <2>2 DEF f
    <3>2. c < f.cursor /\ f.cursor \in Nat
      BY <1>1, <1>3, <1>9, <3>1 DEF FinalsBeyond, IsFinal, IsEvent
    <3>3. c <= n.applied
      BY <3>1, <3>2
    <3>4. QED
      BY <3>3 DEF Covered, t
  <2>3. QED
    BY <2>1, <2>2
<1>10. CASE Skips(q, c, src)
  <2>1. PICK i \in DOMAIN q :
          /\ q[i].type = "reset"
          /\ \A j \in DOMAIN q : j < i /\ IsEvent(q[j]) => q[j].cursor < c
          /\ FinalsBeyond(q, i, c, src)
    BY <1>10 DEF Skips
  <2>2. CASE i = 1
    <3>1. n.recovery
      BY <1>1, <2>1, <2>2 DEF f
    <3>2. FinalsBeyond(t, 0, c, src)
      BY <1>5, <2>1, <2>2
    <3>3. QED
      BY <3>1, <3>2 DEF Covered, t
  <2>3. CASE i # 1
    <3>1. i - 1 \in Nat /\ i - 1 \in DOMAIN t /\ t[i - 1] = q[i] /\ (i - 1) + 1 = i
      BY <1>1, <2>3
    <3>2. FinalsBeyond(t, i - 1, c, src)
      BY <1>5, <2>1, <3>1
    <3>3. ASSUME NEW j \in DOMAIN t, j < i - 1, IsEvent(t[j])
          PROVE  t[j].cursor < c
      <4>1. j + 1 \in DOMAIN q /\ j + 1 < i /\ t[j] = q[j + 1]
        BY <1>1, <1>4, <3>1, <3>3
      <4>2. QED
        BY <2>1, <3>3, <4>1
    <3>4. Skips(t, c, src)
      BY <2>1, <3>1, <3>2, <3>3 DEF Skips
    <3>5. QED
      BY <3>4 DEF Covered, t
  <2>4. QED
    BY <2>2, <2>3
<1>11. QED
  BY <1>7, <1>8, <1>9, <1>10 DEF Covered

-----------------------------------------------------------------------------
(* Types, taken apart.                                                     *)

(* What the proofs use of the type invariant.                              *)
LEMMA Typed ==
    ASSUME TypeOK
    PROVE  /\ source \in Seq(Kinds) /\ Len(source) \in Nat /\ DOMAIN source = 1..Len(source)
           /\ log \in Seq(Positions) /\ Len(log) \in Nat /\ DOMAIN log = 1..Len(log)
           /\ \A c \in DOMAIN log : c \in Nat /\ c > 0 /\ log[c] \in Nat /\ log[c] \in Positions
           /\ \A g \in Gens : reader[g].cursor \in Nat
           /\ sent \in Seq(Positions) /\ Len(sent) \in Nat /\ DOMAIN sent = 1..Len(sent)
           /\ \A i \in DOMAIN sent : sent[i] \in Nat
           /\ client.queue \in Seq(FrameSet) /\ Len(client.queue) \in Nat
           /\ DOMAIN client.queue = 1..Len(client.queue)
           /\ client.last \in Nat /\ client.high \in Nat /\ client.floor \in Nat
           /\ client.buffer \subseteq Positions /\ \A b \in client.buffer : b \in Nat
           /\ mobile.applied \in Nat /\ mobile.revision \in Nat /\ mobile.epoch \in Nat
           /\ epoch \in Nat /\ epoch > 0
           /\ mobile.recovery \in BOOLEAN
<1> USE RelayStreamAssumption
<1>1. MaxSource \in Nat /\ MaxFaults \in Nat /\ Positions \subseteq Nat
  BY DEF Positions
<1>2. source \in Seq(Kinds) /\ log \in Seq(Positions) /\ sent \in Seq(Positions)
  BY DEF TypeOK
<1>3. /\ Len(source) \in Nat /\ DOMAIN source = 1..Len(source)
      /\ Len(log) \in Nat /\ DOMAIN log = 1..Len(log)
      /\ Len(sent) \in Nat /\ DOMAIN sent = 1..Len(sent)
  BY <1>2
<1>4. \A c \in DOMAIN log : c \in Nat /\ c > 0 /\ log[c] \in Nat /\ log[c] \in Positions
  <2>1. \A c \in DOMAIN log : log[c] \in Positions
    BY <1>2
  <2>2. \A c \in DOMAIN log : c \in Nat /\ c > 0
    BY <1>3
  <2>3. QED
    BY <1>1, <2>1, <2>2, Zenon
<1>5. \A i \in DOMAIN sent : sent[i] \in Nat
  <2>1. \A i \in DOMAIN sent : sent[i] \in Positions
    BY <1>2
  <2>2. QED
    BY <1>1, <2>1, Zenon
<1>6. \A g \in Gens : reader[g].cursor \in Nat
  BY <1>1 DEF TypeOK
<1>7. client.queue \in Seq(FrameSet)
  BY DEF TypeOK, FrameSet
<1>8. Len(client.queue) \in Nat /\ DOMAIN client.queue = 1..Len(client.queue)
  BY <1>7
<1>9. /\ client.last \in Nat /\ client.high \in Nat /\ client.floor \in Nat
      /\ client.buffer \subseteq Positions
  BY <1>1 DEF TypeOK
<1>10. /\ mobile.applied \in Nat /\ mobile.revision \in Nat /\ mobile.epoch \in Nat
       /\ mobile.recovery \in BOOLEAN
  BY <1>1 DEF TypeOK
<1>11. epoch \in Nat /\ epoch > 0
  BY <1>1 DEF TypeOK
<1>12. \A b \in client.buffer : b \in Nat
  BY <1>1, <1>9
<1>13. QED
  BY <1>1, <1>2, <1>3, <1>4, <1>5, <1>6, <1>7, <1>8, <1>9, <1>10, <1>11, <1>12, Zenon

(* An event on the mobile's queue is one of the log.                       *)
LEMMA FramesAreLogged ==
    ASSUME IInv
    PROVE  \A i \in DOMAIN client.queue : IsEvent(client.queue[i]) =>
             /\ client.queue[i].pos \in DOMAIN source
             /\ client.queue[i].pos = log[client.queue[i].cursor]
             /\ client.queue[i].cursor \in DOMAIN log
  BY DEF IInv, FrameInv, StoreInv

-----------------------------------------------------------------------------
(* A step that the mobile connection does not see: the source goes on,     *)
(* readers move, events are put at risk.                                   *)

Unseen ==
    /\ client' = client /\ mobile' = mobile /\ sent' = sent /\ log' = log
    /\ epoch' = epoch
    /\ DOMAIN source \subseteq DOMAIN source' /\ Len(source) <= Len(source')
    /\ \A p \in DOMAIN source : source'[p] = source[p]
    /\ atRisk \subseteq atRisk'
    /\ \A g \in Gens : Pends(g)' => Pends(g) /\ reader'[g].cursor = reader[g].cursor
    /\ \A g \in Gens : Pends(g) =>
         \/ Pends(g)' /\ reader'[g].cursor = reader[g].cursor
         \/ log[reader[g].cursor] \in atRisk'

(* Under such a step kinds stay, and what is firm, owed or pending          *)
(* afterwards was so before.                                               *)
LEMMA UnseenFacts ==
    ASSUME IInv, Unseen
    PROVE  /\ \A c \in DOMAIN log : KindAt(c)' = KindAt(c)
           /\ \A c \in DOMAIN log : AtRisk(c) => AtRisk(c)'
           /\ \A c \in DOMAIN log : Owed(c)' => Owed(c)
           /\ \A c \in DOMAIN log : Firm(c)' => Firm(c)
           /\ \A c \in DOMAIN log : Pending(c) => Pending(c)' \/ AtRisk(c)'
           /\ \A g \in Gens : Pends(g) => reader[g].cursor \in DOMAIN log
<1>1. \A c \in DOMAIN log : log[c] \in DOMAIN source
  BY DEF IInv, StoreInv
<1>2. \A c \in DOMAIN log : KindAt(c)' = KindAt(c)
  BY <1>1 DEF Unseen, KindAt
<1>3. \A c \in DOMAIN log : AtRisk(c) => AtRisk(c)'
  BY DEF Unseen, AtRisk
<1>4. \A g \in Gens : Pends(g) => reader[g].cursor \in DOMAIN log
  BY DEF IInv, ReaderInv
<1>5. ASSUME NEW c \in DOMAIN log, Pending(c)
      PROVE  Pending(c)' \/ AtRisk(c)'
  <2>1. PICK g \in Gens : Pends(g) /\ reader[g].cursor = c
    BY <1>5 DEF Pending
  <2>2. CASE Pends(g)' /\ reader'[g].cursor = reader[g].cursor
    BY <2>1, <2>2 DEF Pending
  <2>3. CASE log[reader[g].cursor] \in atRisk'
    BY <2>1, <2>3 DEF AtRisk, Unseen
  <2>4. QED
    BY <2>1, <2>2, <2>3 DEF Unseen
<1>6. \A c \in DOMAIN log : Owed(c)' => Owed(c)
  BY <1>2, <1>3 DEF Owed
<1>7. \A c \in DOMAIN log : Firm(c)' => Firm(c)
  BY <1>2, <1>3 DEF Firm
<1>8. QED
  BY <1>2, <1>3, <1>4, <1>5, <1>6, <1>7

(* What the invariant says of the connection survives it.                  *)
LEMMA UnseenStep ==
    ASSUME IInv, Unseen
    PROVE  /\ PhaseInv' /\ SentInv' /\ FrameInv'
           /\ CoverInv' /\ AheadInv' /\ ResetInv' /\ ReplicaInv'
           /\ \A g \in Gens : Pends(g)' /\ KindAt(reader[g].cursor)' # "terminal" =>
                \A c \in DOMAIN log' : reader'[g].cursor < c /\ ~AtRisk(c)' => Pending(c)'
<1>1. /\ \A c \in DOMAIN log : KindAt(c)' = KindAt(c)
      /\ \A c \in DOMAIN log : AtRisk(c) => AtRisk(c)'
      /\ \A c \in DOMAIN log : Owed(c)' => Owed(c)
      /\ \A c \in DOMAIN log : Firm(c)' => Firm(c)
      /\ \A c \in DOMAIN log : Pending(c) => Pending(c)' \/ AtRisk(c)'
      /\ \A g \in Gens : Pends(g) => reader[g].cursor \in DOMAIN log
  BY UnseenFacts
<1>2. /\ client' = client /\ mobile' = mobile /\ sent' = sent /\ log' = log
      /\ epoch' = epoch
  BY DEF Unseen
<1>3. \A g \in Gens : Pends(g)' => Pends(g) /\ reader'[g].cursor = reader[g].cursor
  BY DEF Unseen
<1>4. \A g \in Gens : Pends(g)' => KindAt(reader[g].cursor)' = KindAt(reader[g].cursor)
  <2> SUFFICES ASSUME NEW g \in Gens, Pends(g)'
               PROVE  KindAt(reader[g].cursor)' = KindAt(reader[g].cursor)
      OBVIOUS
  <2>1. PICK c \in DOMAIN log : c = reader[g].cursor
    BY <1>1, <1>3
  <2>2. KindAt(c)' = KindAt(c) /\ reader'[g].cursor = c
    BY <1>1, <1>3, <2>1
  <2>3. QED
    BY <2>1, <2>2 DEF KindAt
<1>5. \A g \in Gens : Pends(g)' /\ Firm(reader[g].cursor)' => Firm(reader[g].cursor)
  <2> SUFFICES ASSUME NEW g \in Gens, Pends(g)', Firm(reader[g].cursor)'
               PROVE  Firm(reader[g].cursor)
      OBVIOUS
  <2>1. PICK c \in DOMAIN log : c = reader[g].cursor
    BY <1>1, <1>3
  <2>2. (Firm(c)' => Firm(c)) /\ reader'[g].cursor = c
    BY <1>1, <1>3, <2>1
  <2>3. QED
    BY <2>1, <2>2 DEF Firm, KindAt, AtRisk
<1>6. \A j \in DOMAIN client.queue :
        IsFinal(client.queue[j], source') <=> IsFinal(client.queue[j], source)
  BY FramesAreLogged DEF Unseen, IsFinal, IsEvent
<1>7. PhaseInv'
  BY <1>2 DEF IInv, PhaseInv, NoClient
<1>8. SentInv'
  <2>1. /\ \A i \in DOMAIN sent' : sent'[i] \in DOMAIN log' /\ sent'[i] <= client'.last
        /\ Increasing(sent')
    BY <1>2 DEF IInv, SentInv
  <2>2. ASSUME NEW g \in Gens, Pends(g)', Firm(reader[g].cursor)',
               NEW b \in client'.buffer
        PROVE  b < reader'[g].cursor
    BY <1>2, <1>3, <1>5, <2>2 DEF IInv, SentInv
  <2>3. ASSUME client'.phase = "reset", NEW g \in Gens, Pends(g)',
               KindAt(reader[g].cursor)' # "terminal"
        PROVE  /\ \A i \in DOMAIN sent' : sent'[i] < reader'[g].cursor
               /\ client'.pc = "replay" => client'.high < reader'[g].cursor
    BY <1>2, <1>3, <1>4, <2>3 DEF IInv, SentInv
  <2>4. QED
    BY <2>1, <2>2, <2>3 DEF SentInv
<1>9. FrameInv'
  BY <1>2 DEF IInv, FrameInv
<1>10. \A c \in DOMAIN log :
         Covered(c, client.queue, mobile, source)
         => Covered(c, client'.queue, mobile', source')
  BY <1>2, <1>6, CoveredSource
<1>11. CoverInv'
  <2> SUFFICES ASSUME Serving', NEW c \in DOMAIN log', Owed(c)', c <= client'.last
               PROVE  Covered(c, client'.queue, mobile', source')
      BY DEF CoverInv
  <2>1. Serving
    BY <1>2 DEF Serving
  <2>2. c \in DOMAIN log /\ Owed(c) /\ c <= client.last
    BY <1>1, <1>2
  <2>3. QED
    BY <1>10, <2>1, <2>2 DEF IInv, CoverInv
<1>12. AheadInv'
  <2> SUFFICES ASSUME Serving', NEW c \in DOMAIN log', Owed(c)', client'.last < c
               PROVE  \/ Pending(c)'
                      \/ client'.pc = "replay" /\ c <= client'.high
                      \/ c \in client'.buffer
      BY DEF AheadInv
  <2>1. Serving
    BY <1>2 DEF Serving
  <2>2. c \in DOMAIN log /\ Owed(c) /\ client.last < c /\ ~AtRisk(c)'
    BY <1>1, <1>2 DEF Owed
  <2>3. \/ Pending(c)
        \/ client.pc = "replay" /\ c <= client.high
        \/ c \in client.buffer
    BY <2>1, <2>2 DEF IInv, AheadInv
  <2>4. QED
    BY <1>1, <1>2, <2>2, <2>3
<1>13. ResetInv'
  <2>1. ASSUME Resetting', NEW c \in DOMAIN log', Owed(c)'
        PROVE  \/ Covered(c, client'.queue, mobile', source')
               \/ Pending(c)' /\ \A i \in DOMAIN sent' : sent'[i] < c
    <3>1. Resetting
      BY <1>2, <2>1 DEF Resetting
    <3>2. c \in DOMAIN log /\ Owed(c) /\ ~AtRisk(c)'
      BY <1>1, <1>2, <2>1 DEF Owed
    <3>3. \/ Covered(c, client.queue, mobile, source)
          \/ Pending(c) /\ \A i \in DOMAIN sent : sent[i] < c
      BY <3>1, <3>2 DEF IInv, ResetInv
    <3>4. QED
      BY <1>1, <1>2, <1>10, <3>2, <3>3
  <2>2. \A i \in Nat : NoFinals(client.queue, i, source) <=> NoFinals(client.queue, i, source')
    BY <1>6 DEF NoFinals
  <2>3. \A i \in DOMAIN client.queue : i \in Nat
    BY Typed DEF IInv
  <2>4. Resetting' =>
         \/ mobile'.recovery /\ NoFinals(client'.queue, 0, source')
         \/ \E i \in DOMAIN client'.queue :
              client'.queue[i].type = "reset" /\ NoFinals(client'.queue, i, source')
    BY <1>2, <2>2, <2>3 DEF IInv, ResetInv, Resetting
  <2>5. client'.pc = "replay" /\ client'.phase = "reset" =>
         \/ client'.high <= client'.last
         \/ /\ NoFinals(client'.queue, 0, source')
            /\ mobile'.recovery \/ (client'.queue # <<>> /\ client'.queue[1].type = "reset")
    BY <1>2, <2>2 DEF IInv, ResetInv
  <2>6. client'.pc \in {"replay", "drain"} /\ client'.phase = "reset" =>
         \A b \in client'.buffer : AtRisk(b)'
    BY <1>1, <1>2 DEF IInv, ResetInv, PhaseInv
  <2>7. QED
    BY <2>1, <2>4, <2>5, <2>6 DEF ResetInv
<1>14. ReplicaInv'
  <2>1. mobile.revision <= Len(source')
    <3>1. \A a, b, c \in Nat : a <= b /\ b <= c => a <= c
      OBVIOUS
    <3>2. mobile.revision \in Nat /\ Len(source) \in Nat /\ Len(source') \in Nat
      BY Typed DEF IInv, Unseen
    <3>3. mobile.revision <= Len(source) /\ Len(source) <= Len(source')
      BY DEF IInv, ReplicaInv, Unseen
    <3>4. QED
      BY <3>1, <3>2, <3>3, Zenon
  <2>2. \A p \in 1..mobile.revision : p \in DOMAIN source
    BY Typed DEF IInv, ReplicaInv
  <2>3. Holes' = Holes
    BY <1>2, <2>2 DEF Holes, Unseen
  <2>4. Holes' \subseteq atRisk'
    BY <2>3 DEF IInv, ReplicaInv, Unseen
  <2>5. QED
    BY <1>2, <2>1, <2>4 DEF IInv, ReplicaInv
<1>15. ASSUME NEW g \in Gens, Pends(g)', KindAt(reader[g].cursor)' # "terminal",
              NEW c \in DOMAIN log', reader'[g].cursor < c, ~AtRisk(c)'
       PROVE  Pending(c)'
  <2>1. Pends(g) /\ KindAt(reader[g].cursor) # "terminal" /\ reader[g].cursor < c
    BY <1>3, <1>4, <1>15
  <2>2. c \in DOMAIN log /\ ~AtRisk(c)
    BY <1>1, <1>2, <1>15
  <2>3. Pending(c)
    BY <2>1, <2>2 DEF IInv, OrderInv
  <2>4. QED
    BY <1>1, <1>15, <2>2, <2>3
<1>16. QED
  BY <1>7, <1>8, <1>9, <1>11, <1>12, <1>13, <1>14, <1>15

-----------------------------------------------------------------------------
(* The steps that the mobile connection does not see.                      *)

(* The source's next event.                                                *)
LEMMA EmitsSource ==
    ASSUME TypeOK, NEW kind \in Kinds, Emits(kind)
    PROVE  /\ source' \in Seq(Kinds) /\ Len(source') = Len(source) + 1
           /\ Len(source') <= MaxSource /\ Len(source') \in Positions
           /\ DOMAIN source' = 1..(Len(source) + 1)
           /\ DOMAIN source \subseteq DOMAIN source'
           /\ \A p \in DOMAIN source : source'[p] = source[p]
           /\ source'[Len(source) + 1] = kind
           /\ (kind = "final") <=> (source # <<>> /\ Last(source) = "page")
<1>1. source \in Seq(Kinds) /\ Len(source) \in Nat
  BY Typed
<1>2. /\ Len(source) < MaxSource /\ source' = Append(source, kind)
      /\ (kind = "final") <=> (source # <<>> /\ Last(source) = "page")
  BY DEF Emits
<1>3. /\ source' \in Seq(Kinds) /\ Len(source') = Len(source) + 1
      /\ \A p \in 1..Len(source) : source'[p] = source[p]
      /\ source'[Len(source) + 1] = kind
  BY <1>1, <1>2
<1>4. DOMAIN source = 1..Len(source) /\ DOMAIN source' = 1..(Len(source) + 1)
  BY <1>1, <1>3
<1>5. QED
  BY <1>1, <1>2, <1>3, <1>4, RelayStreamAssumption DEF Positions

(* No behaviour has more databases than faults.                            *)
LEMMA FaultsGrow ==
    ASSUME IInv, epoch' = epoch, faults' \in {faults, faults + 1}
    PROVE  epoch' <= faults' + 1
<1>1. epoch \in Nat /\ faults \in Nat /\ epoch <= faults + 1
  BY RelayStreamAssumption DEF IInv, TypeOK, StoreInv
<1>2. \A a, b, c \in Nat : a <= b + 1 /\ c \in {b, b + 1} => a <= c + 1 /\ c \in Nat
  OBVIOUS
<1>3. faults' \in Nat
  BY <1>1
<1>4. epoch <= faults' + 1
  BY <1>1, <1>2, <1>3, Zenon
<1>5. QED
  BY <1>4

(* A task that is in front of another is in the queue, and so is the other.*)
LEMMA AheadIn ==
    ASSUME NEW a, NEW b, NEW q, Before(a, b, q)
    PROVE  a \in ToSet(q) /\ b \in ToSet(q)
  BY DEF Before, ToSet

(* While the database keeps its rows, so do the facts about the floor.     *)
LEMMA UnseenFloor ==
    ASSUME IInv, Unseen, kept' = kept
    PROVE  FloorInv'
  BY UnseenFacts DEF IInv, FloorInv, Unseen

(* While readers and queue stand still, so do the facts about them.        *)
LEMMA UnseenReaders ==
    ASSUME IInv, Unseen, reader' = reader, hubQueue' = hubQueue
    PROVE  ReaderInv' /\ HubInv' /\ OrderInv'
<1>1. /\ \A c \in DOMAIN log : KindAt(c)' = KindAt(c)
      /\ \A c \in DOMAIN log : AtRisk(c) => AtRisk(c)'
      /\ \A c \in DOMAIN log : Firm(c)' => Firm(c)
      /\ \A g \in Gens : Pends(g) => reader[g].cursor \in DOMAIN log
  BY UnseenFacts
<1>2. \A g \in Gens : Pends(g)' <=> Pends(g)
  BY DEF Pends
<1>3. client' = client /\ log' = log
  BY DEF Unseen
<1>4. \A g \in Gens : Pends(g) =>
        /\ KindAt(reader[g].cursor)' = KindAt(reader[g].cursor)
        /\ AtRisk(reader[g].cursor) => AtRisk(reader[g].cursor)'
        /\ Firm(reader[g].cursor)' => Firm(reader[g].cursor)
  <2> SUFFICES ASSUME NEW g \in Gens, Pends(g)
               PROVE  /\ KindAt(reader[g].cursor)' = KindAt(reader[g].cursor)
                      /\ AtRisk(reader[g].cursor) => AtRisk(reader[g].cursor)'
                      /\ Firm(reader[g].cursor)' => Firm(reader[g].cursor)
      OBVIOUS
  <2>1. PICK c \in DOMAIN log : c = reader[g].cursor
    BY <1>1
  <2>2. KindAt(c)' = KindAt(c) /\ (AtRisk(c) => AtRisk(c)') /\ (Firm(c)' => Firm(c))
    BY <1>1
  <2>3. reader'[g].cursor = c
    BY <2>1
  <2>4. QED
    BY <2>1, <2>2, <2>3 DEF KindAt, AtRisk, Firm
<1>5. ReaderInv'
  <2>1. \A g \in Gens : reader'[g].pc = "marking" =>
         /\ KindAt(reader[g].cursor)' = "terminal"
         /\ AtRisk(reader[g].cursor)' \/ reader'[g].cursor = Len(log')
    BY <1>3, <1>4 DEF IInv, ReaderInv, Pends
  <2>2. QED
    BY <1>2, <1>3, <2>1 DEF IInv, ReaderInv, Presenting
<1>6. HubInv'
  BY <1>3 DEF IInv, HubInv, Owns
<1>7. OrderInv'
  <2>1. \A g, h \in Gens : Ahead(g, h)' <=> Ahead(g, h)
    BY DEF Ahead
  <2>2. ASSUME NEW g \in Gens, NEW h \in Gens, Ahead(g, h)',
               reader'[g].pc = "queued", reader'[h].pc = "queued",
               Firm(reader[h].cursor)'
        PROVE  reader'[g].cursor < reader'[h].cursor
    <3>1. Pends(h)
      BY <2>2 DEF Pends
    <3>2. Firm(reader[h].cursor)
      BY <1>4, <2>2, <3>1
    <3>3. QED
      BY <2>1, <2>2, <3>2 DEF IInv, OrderInv
  <2>3. ASSUME NEW g \in Gens, NEW h \in Gens, reader'[g].pc = "resetting",
               Pends(h)', KindAt(reader[h].cursor)' # "terminal"
        PROVE  reader'[h].pc = "queued" /\ ~Ahead(g, h)'
    BY <1>2, <1>4, <2>1, <2>3 DEF IInv, OrderInv
  <2>4. \A g \in Gens : Pends(g)' /\ KindAt(reader[g].cursor)' # "terminal" =>
          \A c \in DOMAIN log' : reader'[g].cursor < c /\ ~AtRisk(c)' => Pending(c)'
    BY UnseenStep
  <2>5. QED
    BY <2>2, <2>3, <2>4 DEF OrderInv
<1>8. QED
  BY <1>5, <1>6, <1>7

(* An event that the Companion loses.                                      *)
LEMMA SourceLosesStep ==
    ASSUME IInv, NEW kind \in Kinds, SourceLoses(kind)
    PROVE  IInv'
<1> USE DEF store
<1>1. /\ source' \in Seq(Kinds) /\ Len(source') = Len(source) + 1
      /\ Len(source') <= MaxSource /\ Len(source') \in Positions
      /\ DOMAIN source' = 1..(Len(source) + 1)
      /\ DOMAIN source \subseteq DOMAIN source'
      /\ \A p \in DOMAIN source : source'[p] = source[p]
  BY EmitsSource DEF IInv, SourceLoses
<1>2. /\ Len(source) \in Nat /\ DOMAIN source = 1..Len(source) /\ Len(log) \in Nat
  BY Typed DEF IInv
<1>3. Unseen
  BY <1>1, <1>2 DEF Unseen, SourceLoses, Pends
<1>4. TypeOK'
  <2>1. /\ gap' = TRUE /\ atRisk' = atRisk \cup {Len(source')}
        /\ faults < MaxFaults /\ faults' = faults + 1
        /\ UNCHANGED <<store, macGen, reader, hubQueue, client, mobile, sent, conns>>
    BY DEF SourceLoses, Fault
  <2>2. atRisk' \subseteq Positions
    BY <1>1, <2>1 DEF IInv, TypeOK
  <2>3. faults' \in 0..MaxFaults
    BY <2>1, RelayStreamAssumption DEF IInv, TypeOK
  <2>4. QED
    BY <1>1, <2>1, <2>2, <2>3 DEF IInv, TypeOK
<1>5. StoreInv'
  <2>1. \A p \in DOMAIN source' : p \in DOMAIN source \/ p = Len(source')
    BY <1>1, <1>2
  <2>2. \A p \in DOMAIN source' : p \in atRisk' \/ \E c \in DOMAIN log' : log'[c] = p
    BY <2>1 DEF IInv, StoreInv, SourceLoses
  <2>3. QED
    BY <1>1, <1>2, <2>2, FaultsGrow DEF IInv, StoreInv, SourceLoses, Fault
<1>6. ReaderInv' /\ HubInv' /\ OrderInv'
  BY <1>3, UnseenReaders DEF SourceLoses
<1>7. FloorInv'
  BY <1>3, UnseenFloor DEF SourceLoses
<1>8. QED
  BY <1>3, <1>4, <1>5, <1>6, <1>7, UnseenStep DEF IInv

(* Rows that leave the database.                                           *)
LEMMA PruneRowsStep ==
    ASSUME IInv, PruneRows
    PROVE  IInv'
<1>1. PICK gone \in SUBSET kept \ {{}} :
        /\ kept' = kept \ gone
        /\ floor' = Max(gone \cup {floor})
        /\ atRisk' = IF ReplayPending THEN atRisk \cup {log[c] : c \in gone} ELSE atRisk
  BY DEF PruneRows
<1>2. /\ UNCHANGED <<source, epoch, log, macGen, reader, hubQueue, client, mobile,
                     gap, sent, conns>>
      /\ Fault("prune")
  BY DEF PruneRows
<1>3. /\ kept \subseteq DOMAIN log /\ DOMAIN log = 1..Len(log) /\ Len(log) \in Nat
      /\ floor \in 0..Len(log)
      /\ \A c \in DOMAIN log : c \in Nat /\ log[c] \in Positions
  BY Typed DEF IInv, TypeOK
<1>4. /\ floor' \in gone \cup {floor} /\ \A c \in gone \cup {floor} : c <= floor'
      /\ floor' \in 0..Len(log)
  <2>1. gone \cup {floor} \in SUBSET (0..Len(log)) /\ gone \cup {floor} # {}
    BY <1>1, <1>3
  <2>2. QED
    BY <1>1, <1>3, <2>1, MaxIsGreatest
<1>5. Unseen
  BY <1>1, <1>2, Typed DEF IInv, Unseen, Pends
<1>6. TypeOK'
  <2>1. atRisk' \subseteq Positions /\ kept' \subseteq DOMAIN log
    <3>1. {log[c] : c \in gone} \subseteq Positions
      BY <1>1, <1>3
    <3>2. atRisk \subseteq Positions
      BY DEF IInv, TypeOK
    <3>3. QED
      BY <1>1, <1>3, <3>1, <3>2
  <2>2. faults' \in 0..MaxFaults
    <3>1. faults \in 0..MaxFaults /\ MaxFaults \in Nat
      BY RelayStreamAssumption DEF IInv, TypeOK
    <3>2. faults < MaxFaults /\ faults' = faults + 1
      BY <1>2 DEF Fault
    <3>3. \A a, b \in Nat : a < b => a + 1 \in 0..b
      OBVIOUS
    <3>4. faults \in Nat
      BY <3>1
    <3>5. QED
      BY <3>1, <3>2, <3>3, <3>4, Zenon
  <2>3. QED
    BY <1>2, <1>4, <2>1, <2>2 DEF IInv, TypeOK
<1>7. StoreInv'
  <2>1. ASSUME NEW c \in DOMAIN log' \ kept'
        PROVE  c <= floor'
    <3>1. c \in DOMAIN log /\ c \in Nat /\ floor \in Nat /\ floor' \in Nat /\ floor <= floor'
      BY <1>2, <1>3, <1>4
    <3>2. CASE c \in gone
      BY <1>4, <3>2
    <3>3. CASE c \notin gone
      <4>1. c \in DOMAIN log \ kept
        BY <1>1, <2>1, <3>1, <3>3
      <4>2. c <= floor
        BY <4>1 DEF IInv, StoreInv
      <4>3. QED
        BY <3>1, <4>2
    <3>4. QED
      BY <3>2, <3>3
  <2>2. \A p \in DOMAIN source' : p \in atRisk' \/ \E c \in DOMAIN log' : log'[c] = p
    BY <1>1, <1>2 DEF IInv, StoreInv
  <2>3. QED
    BY <1>2, <2>1, <2>2, FaultsGrow DEF IInv, StoreInv, Fault
<1>8. ReaderInv' /\ HubInv' /\ OrderInv'
  BY <1>2, <1>5, UnseenReaders
<1>9. FloorInv'
  <2>1. client' = client /\ log' = log
    BY <1>2
  <2>2. ASSUME client.pc \in {"floor", "replay"}, NEW c \in DOMAIN log \ kept'
        PROVE  AtRisk(c)' \/ c \in DOMAIN log \ kept
    BY <1>1, <1>2, <2>2 DEF ReplayPending, AtRisk
  <2>3. \A c \in DOMAIN log : AtRisk(c) => AtRisk(c)'
    BY <1>5, UnseenFacts
  <2>4. QED
    BY <2>1, <2>2, <2>3 DEF IInv, FloorInv
<1>10. QED
  BY <1>5, <1>6, <1>7, <1>8, <1>9, UnseenStep DEF IInv

Busy(g) == Pends(g) \/ reader[g].pc = "resetting"

(* A Mac connection in place of another: the readers at work go on.        *)
LEMMA MacConnectsStep ==
    ASSUME IInv, NEW g \in Gens, MacConnects(g)
    PROVE  IInv'
<1> USE DEF store
<1>1. /\ UNCHANGED <<source, store, hubQueue, client, mobile, gap, atRisk, sent,
                     faults, conns>>
      /\ macGen' = g
      /\ reader' = [h \in Gens |-> IF h = g THEN Idle
                                   ELSE IF reader[h].pc = "idle" THEN Gone ELSE reader[h]]
      /\ reader[g].pc = "off"
  BY DEF MacConnects
<1>2. ASSUME NEW h \in Gens
      PROVE  /\ Busy(h)' <=> Busy(h)
             /\ Busy(h) => reader'[h] = reader[h]
  <2>1. reader'[h] = IF h = g THEN Idle ELSE IF reader[h].pc = "idle" THEN Gone ELSE reader[h]
    BY <1>1
  <2>2. QED
    BY <1>1, <2>1 DEF Busy, Pends, Idle, Gone
<1>3. \A h \in Gens : (Pends(h)' <=> Pends(h)) /\ (Presenting(h)' <=> Presenting(h))
  BY <1>2 DEF Busy, Pends, Presenting
<1>4. Unseen
  <2>1. \A h \in Gens : Pends(h) => reader'[h].cursor = reader[h].cursor
    BY <1>2 DEF Busy
  <2>2. QED
    BY <1>1, <1>3, <2>1, Typed DEF IInv, Unseen
<1>5. TypeOK'
  <2>1. \A h \in Gens : reader'[h] \in [pc : {"off", "idle", "appended", "marking", "queued",
                                  "resetting", "gone"}, cursor : 0..MaxSource]
    BY <1>1, RelayStreamAssumption DEF IInv, TypeOK, Idle, Gone
  <2>2. reader' \in [Gens -> [pc : {"off", "idle", "appended", "marking", "queued",
                                  "resetting", "gone"}, cursor : 0..MaxSource]]
    BY <1>1, <2>1
  <2>3. macGen' \in 0..MaxGen
    BY <1>1, RelayStreamAssumption DEF Gens
  <2>4. QED
    BY <1>1, <2>2, <2>3 DEF IInv, TypeOK
<1>6. StoreInv'
  BY <1>1 DEF IInv, StoreInv
<1>7. ReaderInv'
  <2>1. /\ \A h \in Gens : Pends(h)' => reader'[h].cursor \in DOMAIN log'
        /\ \A h, i \in Gens :
             Pends(h)' /\ Pends(i)' /\ reader'[h].cursor = reader'[i].cursor => h = i
        /\ \A h, i \in Gens : Presenting(h)' /\ Presenting(i)' => h = i
    BY <1>1, <1>2, <1>3 DEF IInv, ReaderInv, Busy
  <2>2. ASSUME NEW h \in Gens
        PROVE  /\ reader'[h].pc = "appended" => reader'[h].cursor = Len(log')
               /\ reader'[h].pc = "marking" =>
                    /\ KindAt(reader[h].cursor)' = "terminal"
                    /\ AtRisk(reader[h].cursor)' \/ reader'[h].cursor = Len(log')
    <3>1. CASE Busy(h)
      BY <1>1, <1>2, <3>1 DEF IInv, ReaderInv, KindAt, AtRisk
    <3>2. CASE ~Busy(h)
      BY <1>2, <3>2 DEF Busy, Pends
    <3>3. QED
      BY <3>1, <3>2
  <2>3. QED
    BY <2>1, <2>2 DEF ReaderInv
<1>8. HubInv'
  <2>1. \A h \in Gens : h \in ToSet(hubQueue') <=> reader'[h].pc \in {"queued", "resetting"}
    BY <1>1, <1>2 DEF IInv, HubInv, Busy, Pends
  <2>2. QED
    BY <1>1, <2>1 DEF IInv, HubInv, Owns
<1>9. OrderInv'
  <2>1. \A h, i \in Gens : Ahead(h, i)' <=> Ahead(h, i)
    BY <1>1 DEF Ahead
  <2>2. \A h \in Gens : Busy(h) =>
          /\ KindAt(reader[h].cursor)' = KindAt(reader[h].cursor)
          /\ Firm(reader[h].cursor)' <=> Firm(reader[h].cursor)
    BY <1>1, <1>2 DEF KindAt, Firm, AtRisk
  <2>3. ASSUME NEW h \in Gens, NEW i \in Gens, Ahead(h, i)',
               reader'[h].pc = "queued", reader'[i].pc = "queued",
               Firm(reader[i].cursor)'
        PROVE  reader'[h].cursor < reader'[i].cursor
    <3>1. Busy(h) /\ Busy(i)
      BY <1>2, <2>3 DEF Busy, Pends
    <3>2. reader'[h] = reader[h] /\ reader'[i] = reader[i]
      BY <1>2, <3>1
    <3>3. QED
      BY <2>1, <2>2, <2>3, <3>1, <3>2 DEF IInv, OrderInv
  <2>4. ASSUME NEW h \in Gens, NEW i \in Gens, reader'[h].pc = "resetting",
               Pends(i)', KindAt(reader[i].cursor)' # "terminal"
        PROVE  reader'[i].pc = "queued" /\ ~Ahead(h, i)'
    <3>1. Busy(h) /\ Busy(i)
      BY <1>2, <2>4 DEF Busy, Pends
    <3>2. reader'[h] = reader[h] /\ reader'[i] = reader[i]
      BY <1>2, <3>1
    <3>3. QED
      BY <1>3, <2>1, <2>2, <2>4, <3>1, <3>2 DEF IInv, OrderInv
  <2>5. QED
    BY <1>4, <2>3, <2>4, UnseenStep DEF OrderInv
<1>10. FloorInv'
  BY <1>1, <1>4, UnseenFloor
<1>11. QED
  BY <1>4, <1>5, <1>6, <1>7, <1>8, <1>9, <1>10, UnseenStep DEF IInv

-----------------------------------------------------------------------------
(* A reader moves from one await to the next.                              *)

\* Only reader g moves, and not away from what it has committed.
Moves(g, pc) ==
    /\ reader' = [reader EXCEPT ![g].pc = pc]
    /\ UNCHANGED <<source, store, macGen, client, mobile, atRisk, sent, faults, conns>>
    /\ gap' \in BOOLEAN

\* What a reader's move leaves as it was.
MovedFacts(g, pc) ==
    /\ \A h \in Gens : reader'[h].cursor = reader[h].cursor
    /\ \A h \in Gens : h # g => reader'[h].pc = reader[h].pc
    /\ reader'[g].pc = pc
    /\ \A c : KindAt(c)' = KindAt(c)
    /\ \A c : (AtRisk(c)' <=> AtRisk(c)) /\ (Firm(c)' <=> Firm(c))
    /\ log' = log

(* A reader that moves keeps its cursor, and every event its kind.         *)
LEMMA MovesFacts ==
    ASSUME IInv, NEW g \in Gens, NEW pc, Moves(g, pc)
    PROVE  MovedFacts(g, pc)
<1>1. \A h \in Gens : reader'[h] = [reader[h] EXCEPT !.pc = IF h = g THEN pc ELSE @]
  BY DEF IInv, TypeOK, Moves
<1>2. \A h \in Gens : reader[h] \in [pc : {"off", "idle", "appended", "marking", "queued",
                                  "resetting", "gone"}, cursor : 0..MaxSource]
  BY DEF IInv, TypeOK
<1>3. \A h \in Gens : /\ reader'[h].cursor = reader[h].cursor
                      /\ reader'[h].pc = IF h = g THEN pc ELSE reader[h].pc
  BY <1>1, <1>2
<1>4. \A c : KindAt(c)' = KindAt(c)
  BY DEF KindAt, Moves, store
<1>5. \A c : (AtRisk(c)' <=> AtRisk(c)) /\ (Firm(c)' <=> Firm(c))
  BY <1>4 DEF AtRisk, Firm, Moves, store
<1>6. log' = log
  BY DEF Moves, store
<1>7. QED
  BY <1>3, <1>4, <1>5, <1>6 DEF MovedFacts

(* The connection does not see a reader move while what it has committed   *)
(* is as pending as before.                                                *)
LEMMA MovesUnseen ==
    ASSUME IInv, NEW g \in Gens,
           NEW pc \in {"off", "idle", "appended", "marking", "queued", "resetting", "gone"},
           Moves(g, pc), hubQueue' \in Seq(Gens \cup {MobileTask}),
           Pends(g) <=> pc \in {"appended", "marking", "queued"}
    PROVE  /\ MovedFacts(g, pc) /\ Unseen /\ TypeOK' /\ StoreInv' /\ FloorInv'
           /\ \A h \in Gens : Pends(h)' <=> Pends(h)
<1> USE DEF store
<1>1. MovedFacts(g, pc)
  BY MovesFacts
<1>2. \A h \in Gens : Pends(h)' <=> Pends(h)
  BY <1>1 DEF MovedFacts, Pends
<1>3. Unseen
  BY <1>1, <1>2, Typed DEF IInv, MovedFacts, Moves, Unseen
<1>5. TypeOK'
  <2>1. \A h \in Gens : reader'[h] \in [pc : {"off", "idle", "appended", "marking", "queued",
                                  "resetting", "gone"}, cursor : 0..MaxSource]
    <3>1. \A h \in Gens : reader[h] \in [pc : {"off", "idle", "appended", "marking", "queued",
                                  "resetting", "gone"}, cursor : 0..MaxSource]
      BY DEF IInv, TypeOK
    <3>2. \A h \in Gens : reader'[h] = IF h = g THEN [reader[h] EXCEPT !.pc = pc] ELSE reader[h]
      BY DEF IInv, TypeOK, Moves
    <3>3. QED
      BY <3>1, <3>2
  <2>2. reader' \in [Gens -> [pc : {"off", "idle", "appended", "marking", "queued",
                                  "resetting", "gone"}, cursor : 0..MaxSource]]
    BY <2>1 DEF IInv, TypeOK, Moves
  <2>3. hubQueue' \in Seq(Gens \cup {MobileTask})
    OBVIOUS
  <2>4. QED
    BY <2>2, <2>3 DEF IInv, TypeOK, Moves
<1>6. StoreInv' /\ FloorInv'
  BY <1>3, UnseenFloor DEF IInv, StoreInv, Moves
<1>7. QED
  BY <1>1, <1>2, <1>3, <1>5, <1>6

(* A reader joins the queue of the hub lock.                               *)
LEMMA JoinsQueue ==
    ASSUME IInv, NEW g \in Gens, reader[g].pc \notin {"queued", "resetting"}
    PROVE  /\ Append(hubQueue, g) \in Seq(Gens \cup {MobileTask})
           /\ Once(Append(hubQueue, g))
           /\ ToSet(Append(hubQueue, g)) = ToSet(hubQueue) \cup {g}
           /\ \A a, b : Before(a, b, Append(hubQueue, g))
                => Ahead(a, b) \/ (a \in ToSet(hubQueue) /\ b = g)
           /\ g \notin ToSet(hubQueue)
           /\ hubQueue # <<>> => Head(Append(hubQueue, g)) = Head(hubQueue)
           /\ Append(hubQueue, g) # <<>>
<1>1. hubQueue \in Seq(Gens \cup {MobileTask}) /\ Once(hubQueue) /\ g \notin ToSet(hubQueue)
  BY DEF IInv, TypeOK, HubInv
<1>2. Append(hubQueue, g) # <<>>
  <2>1. g \in ToSet(Append(hubQueue, g))
    BY <1>1, AppendQueue
  <2>2. ToSet(<<>>) = {}
    BY DEF ToSet
  <2>3. QED
    BY <2>1, <2>2
<1>3. QED
  BY <1>1, <1>2, AppendQueue DEF Ahead

(* The hub's facts when a reader joins.                                    *)
LEMMA JoinsHub ==
    ASSUME IInv, NEW g \in Gens, reader[g].pc \notin {"queued", "resetting"},
           NEW pc \in {"queued", "resetting"}, MovedFacts(g, pc),
           hubQueue' = Append(hubQueue, g), client' = client
    PROVE  HubInv'
<1>1. /\ Once(hubQueue') /\ ToSet(hubQueue') = ToSet(hubQueue) \cup {g}
      /\ hubQueue # <<>> => Head(hubQueue') = Head(hubQueue)
      /\ hubQueue' # <<>>
  BY JoinsQueue
<1>2. \A h \in Gens : h \in ToSet(hubQueue') <=> reader'[h].pc \in {"queued", "resetting"}
  BY <1>1 DEF IInv, HubInv, MovedFacts
<1>3. MobileTask # g
  BY RelayStreamAssumption DEF Gens, MobileTask
<1>4. QED
  BY <1>1, <1>2, <1>3 DEF IInv, HubInv, Owns

(* A reader that has its event to broadcast asks for the hub lock.         *)
LEMMA QueuesStep ==
    ASSUME IInv, NEW g \in Gens, reader[g].pc \in {"appended", "marking"},
           reader[g].pc = "appended" => KindAt(reader[g].cursor) # "terminal",
           Moves(g, "queued"), hubQueue' = Append(hubQueue, g)
    PROVE  IInv'
<1>1. /\ hubQueue' \in Seq(Gens \cup {MobileTask})
      /\ ToSet(hubQueue') = ToSet(hubQueue) \cup {g}
      /\ \A a, b : Ahead(a, b)' => Ahead(a, b) \/ (a \in ToSet(hubQueue) /\ b = g)
      /\ g \notin ToSet(hubQueue)
  BY JoinsQueue DEF Ahead
<1>2. Pends(g)
  BY DEF Pends
<1>3. /\ MovedFacts(g, "queued") /\ Unseen /\ TypeOK' /\ StoreInv' /\ FloorInv'
      /\ \A h \in Gens : Pends(h)' <=> Pends(h)
  BY <1>1, <1>2, MovesUnseen
<1>4. \A h \in Gens : KindAt(reader[h].cursor)' = KindAt(reader[h].cursor)
                      /\ (Firm(reader[h].cursor)' <=> Firm(reader[h].cursor))
                      /\ (AtRisk(reader[h].cursor)' <=> AtRisk(reader[h].cursor))
  BY <1>3 DEF MovedFacts, KindAt, Firm, AtRisk, Unseen
<1>5. ReaderInv'
  BY <1>3, <1>4 DEF IInv, ReaderInv, MovedFacts, Presenting
<1>6. HubInv'
  BY <1>3, JoinsHub DEF Unseen
<1>7. OrderInv'
  <2>1. ASSUME NEW x \in Gens, NEW y \in Gens, Ahead(x, y)',
               reader'[x].pc = "queued", reader'[y].pc = "queued", Firm(reader[y].cursor)'
        PROVE  reader'[x].cursor < reader'[y].cursor
    <3>1. CASE Ahead(x, y)
      <4>1. x # g /\ y # g
        BY <1>1, <3>1, AheadIn DEF Ahead
      <4>2. QED
        BY <1>3, <1>4, <2>1, <3>1, <4>1 DEF IInv, OrderInv, MovedFacts
    <3>2. CASE x \in ToSet(hubQueue) /\ y = g
      <4>1. x # g /\ reader[x].pc = "queued"
        BY <1>1, <1>3, <2>1, <3>2 DEF MovedFacts
      <4>2. Firm(reader[g].cursor)
        BY <1>4, <2>1, <3>2
      <4>3. reader[g].cursor = Len(log)
        BY <4>2 DEF IInv, ReaderInv, Firm
      <4>4. reader[x].cursor \in DOMAIN log /\ reader[x].cursor # reader[g].cursor
        BY <1>2, <4>1 DEF IInv, ReaderInv, Pends
      <4>5. DOMAIN log = 1..Len(log) /\ Len(log) \in Nat
        BY Typed DEF IInv
      <4>6. reader[x].cursor < reader[g].cursor
        BY <4>3, <4>4, <4>5
      <4>7. QED
        BY <1>3, <3>2, <4>6 DEF MovedFacts
    <3>3. QED
      BY <1>1, <2>1, <3>1, <3>2
  <2>2. ASSUME NEW x \in Gens, NEW y \in Gens, reader'[x].pc = "resetting",
               Pends(y)', KindAt(reader[y].cursor)' # "terminal"
        PROVE  reader'[y].pc = "queued" /\ ~Ahead(x, y)'
    <3>1. x # g /\ reader[x].pc = "resetting" /\ Pends(y)
          /\ KindAt(reader[y].cursor) # "terminal"
      BY <1>3, <1>4, <2>2 DEF MovedFacts
    <3>2. reader[y].pc = "queued" /\ ~Ahead(x, y)
      BY <3>1 DEF IInv, OrderInv
    <3>3. y # g
      BY <3>2
    <3>4. QED
      BY <1>1, <1>3, <3>2, <3>3 DEF MovedFacts
  <2>3. QED
    BY <1>3, <2>1, <2>2, UnseenStep DEF OrderInv
<1>8. QED
  BY <1>3, <1>5, <1>6, <1>7, UnseenStep DEF IInv

(* A reader that has a terminal event first waits for mark_terminal.       *)
LEMMA MarksStep ==
    ASSUME IInv, NEW g \in Gens, reader[g].pc = "appended",
           KindAt(reader[g].cursor) = "terminal",
           Moves(g, "marking"), hubQueue' = hubQueue
    PROVE  IInv'
<1>1. hubQueue' \in Seq(Gens \cup {MobileTask})
  BY DEF IInv, TypeOK
<1>2. Pends(g)
  BY DEF Pends
<1>3. /\ MovedFacts(g, "marking") /\ Unseen /\ TypeOK' /\ StoreInv' /\ FloorInv'
      /\ \A h \in Gens : Pends(h)' <=> Pends(h)
  BY <1>1, <1>2, MovesUnseen
<1>4. \A h \in Gens : KindAt(reader[h].cursor)' = KindAt(reader[h].cursor)
                      /\ (Firm(reader[h].cursor)' <=> Firm(reader[h].cursor))
                      /\ (AtRisk(reader[h].cursor)' <=> AtRisk(reader[h].cursor))
  BY <1>3 DEF MovedFacts, KindAt, Firm, AtRisk, Unseen
<1>5. ReaderInv'
  BY <1>3, <1>4 DEF IInv, ReaderInv, MovedFacts, Presenting
<1>6. HubInv'
  BY <1>3 DEF IInv, HubInv, MovedFacts, Unseen, Owns
<1>7. OrderInv'
  <2>1. \A x, y \in Gens : Ahead(x, y)' <=> Ahead(x, y)
    BY DEF Ahead
  <2>2. ASSUME NEW x \in Gens, NEW y \in Gens, Ahead(x, y)',
               reader'[x].pc = "queued", reader'[y].pc = "queued", Firm(reader[y].cursor)'
        PROVE  reader'[x].cursor < reader'[y].cursor
    BY <1>3, <1>4, <2>1, <2>2 DEF IInv, OrderInv, MovedFacts
  <2>3. ASSUME NEW x \in Gens, NEW y \in Gens, reader'[x].pc = "resetting",
               Pends(y)', KindAt(reader[y].cursor)' # "terminal"
        PROVE  reader'[y].pc = "queued" /\ ~Ahead(x, y)'
    <3>1. x # g /\ reader[x].pc = "resetting" /\ Pends(y)
          /\ KindAt(reader[y].cursor) # "terminal"
      BY <1>3, <1>4, <2>3 DEF MovedFacts
    <3>2. reader[y].pc = "queued" /\ ~Ahead(x, y)
      BY <3>1 DEF IInv, OrderInv
    <3>3. QED
      BY <1>3, <2>1, <3>2 DEF MovedFacts
  <2>4. QED
    BY <1>3, <2>2, <2>3, UnseenStep DEF OrderInv
<1>8. QED
  BY <1>3, <1>5, <1>6, <1>7, UnseenStep DEF IInv

(* A source.gap has its reset wait for the hub lock, behind every event    *)
(* that is not terminal.                                                   *)
LEMMA SourceGapStep ==
    ASSUME IInv, NEW g \in Gens, PresenceFree, reader[g].pc = "idle",
           Moves(g, "resetting"), hubQueue' = Append(hubQueue, g)
    PROVE  IInv'
<1>1. /\ hubQueue' \in Seq(Gens \cup {MobileTask})
      /\ \A a, b : Ahead(a, b)' => Ahead(a, b) \/ (a \in ToSet(hubQueue) /\ b = g)
      /\ g \notin ToSet(hubQueue)
  BY JoinsQueue DEF Ahead
<1>2. ~Pends(g)
  BY DEF Pends
<1>3. /\ MovedFacts(g, "resetting") /\ Unseen /\ TypeOK' /\ StoreInv' /\ FloorInv'
      /\ \A h \in Gens : Pends(h)' <=> Pends(h)
  BY <1>1, <1>2, MovesUnseen
<1>4. \A h \in Gens : KindAt(reader[h].cursor)' = KindAt(reader[h].cursor)
                      /\ (Firm(reader[h].cursor)' <=> Firm(reader[h].cursor))
                      /\ (AtRisk(reader[h].cursor)' <=> AtRisk(reader[h].cursor))
  BY <1>3 DEF MovedFacts, KindAt, Firm, AtRisk, Unseen
<1>5. ReaderInv'
  BY <1>3, <1>4 DEF IInv, ReaderInv, MovedFacts, Presenting, PresenceFree
<1>6. HubInv'
  BY <1>3, JoinsHub DEF Unseen
<1>7. OrderInv'
  <2>1. ASSUME NEW x \in Gens, NEW y \in Gens, Ahead(x, y)',
               reader'[x].pc = "queued", reader'[y].pc = "queued", Firm(reader[y].cursor)'
        PROVE  reader'[x].cursor < reader'[y].cursor
    <3>1. x # g /\ y # g
      BY <1>3, <2>1 DEF MovedFacts
    <3>2. Ahead(x, y)
      BY <1>1, <2>1, <3>1
    <3>3. QED
      BY <1>3, <1>4, <2>1, <3>1, <3>2 DEF IInv, OrderInv, MovedFacts
  <2>2. ASSUME NEW x \in Gens, NEW y \in Gens, reader'[x].pc = "resetting",
               Pends(y)', KindAt(reader[y].cursor)' # "terminal"
        PROVE  reader'[y].pc = "queued" /\ ~Ahead(x, y)'
    <3>1. x = g
      BY <1>3, <2>2 DEF MovedFacts, PresenceFree
    <3>2. Pends(y) /\ KindAt(reader[y].cursor) # "terminal" /\ y # g
      BY <1>2, <1>3, <1>4, <2>2
    <3>3. reader[y].pc = "queued"
      BY <3>2 DEF Pends, PresenceFree, IInv, ReaderInv
    <3>4. ~Ahead(g, y)
      BY <1>1, AheadIn DEF Ahead
    <3>5. QED
      BY <1>1, <1>3, <3>1, <3>2, <3>3, <3>4 DEF MovedFacts
  <2>3. QED
    BY <1>3, <2>1, <2>2, UnseenStep DEF OrderInv
<1>8. QED
  BY <1>3, <1>5, <1>6, <1>7, UnseenStep DEF IInv

(* A reader that is cancelled where it waits: what it committed is at risk *)
(* and no longer pending.                                                  *)
LEMMA ReaderCancelledStep ==
    ASSUME IInv, NEW g \in Gens, ReaderCancelled(g)
    PROVE  IInv'
<1> USE DEF store
<1>1. /\ reader' = [reader EXCEPT ![g] = Gone]
      /\ hubQueue' = Withdrawn(g, hubQueue)
      /\ macGen' = IF macGen = g THEN 0 ELSE macGen
      /\ atRisk' = IF reader[g].pc = "resetting" THEN atRisk
                   ELSE atRisk \cup {log[reader[g].cursor]}
      /\ UNCHANGED <<source, store, client, mobile, gap, sent, conns>>
      /\ Fault("cut")
      /\ reader[g].pc \in {"appended", "marking", "queued", "resetting"}
  BY DEF ReaderCancelled
<1>2. /\ hubQueue' \in Seq(Gens \cup {MobileTask}) /\ Once(hubQueue')
      /\ ToSet(hubQueue') = ToSet(hubQueue) \ {g}
      /\ \A a, b : Ahead(a, b)' => Ahead(a, b)
      /\ hubQueue # <<>> /\ Head(hubQueue) # g
           => hubQueue' # <<>> /\ Head(hubQueue') = Head(hubQueue)
  <2>1. hubQueue \in Seq(Gens \cup {MobileTask}) /\ Once(hubQueue)
    BY DEF IInv, TypeOK, HubInv
  <2>2. QED
    BY <1>1, <2>1, WithdrawnQueue DEF Ahead
<1>3. /\ reader'[g] = Gone
      /\ \A h \in Gens : h # g => reader'[h] = reader[h]
  BY <1>1 DEF IInv, TypeOK
<1>4. ~Pends(g)' /\ ~Presenting(g)' /\ \A h \in Gens : h # g => (Pends(h)' <=> Pends(h))
  BY <1>3 DEF Pends, Presenting, Gone
<1>5. Unseen
  <2>1. Pends(g) => log[reader[g].cursor] \in atRisk'
    BY <1>1 DEF Pends
  <2>2. QED
    BY <1>1, <1>3, <1>4, <2>1, Typed DEF IInv, Unseen
<1>6. TypeOK'
  <2>1. atRisk' \subseteq Positions
    <3>1. Pends(g) => reader[g].cursor \in DOMAIN log
      BY DEF IInv, ReaderInv
    <3>2. Pends(g) => log[reader[g].cursor] \in Positions
      BY <3>1, Typed DEF IInv
    <3>3. QED
      BY <1>1, <3>2 DEF IInv, TypeOK, Pends
  <2>2. Gone \in [pc : {"off", "idle", "appended", "marking", "queued",
                                  "resetting", "gone"}, cursor : 0..MaxSource]
    BY RelayStreamAssumption DEF Gone
  <2>3. reader' \in [Gens -> [pc : {"off", "idle", "appended", "marking", "queued",
                                  "resetting", "gone"}, cursor : 0..MaxSource]]
    BY <1>1, <2>2 DEF IInv, TypeOK
  <2>4. macGen' \in 0..MaxGen
    BY <1>1, RelayStreamAssumption DEF IInv, TypeOK
  <2>5. faults' \in 0..MaxFaults
    BY <1>1, RelayStreamAssumption DEF IInv, TypeOK, Fault
  <2>6. QED
    BY <1>1, <1>2, <2>1, <2>3, <2>4, <2>5 DEF IInv, TypeOK
<1>7. StoreInv'
  BY <1>1, FaultsGrow DEF IInv, StoreInv, Fault
<1>8. /\ \A c \in DOMAIN log : KindAt(c)' = KindAt(c)
      /\ \A c \in DOMAIN log : AtRisk(c) => AtRisk(c)'
      /\ \A c \in DOMAIN log : Firm(c)' => Firm(c)
      /\ \A h \in Gens : Pends(h) => reader[h].cursor \in DOMAIN log
  BY <1>5, UnseenFacts
<1>9. ASSUME NEW h \in Gens, h # g, Pends(h)
      PROVE  /\ KindAt(reader[h].cursor)' = KindAt(reader[h].cursor)
             /\ AtRisk(reader[h].cursor) => AtRisk(reader[h].cursor)'
             /\ Firm(reader[h].cursor)' => Firm(reader[h].cursor)
  <2>1. PICK c \in DOMAIN log : c = reader[h].cursor
    BY <1>8, <1>9
  <2>2. KindAt(c)' = KindAt(c) /\ (AtRisk(c) => AtRisk(c)') /\ (Firm(c)' => Firm(c))
    BY <1>8
  <2>3. reader'[h].cursor = c
    BY <1>3, <1>9, <2>1
  <2>4. QED
    BY <2>1, <2>2, <2>3 DEF KindAt, AtRisk, Firm
<1>10. ReaderInv'
  <2>1. /\ \A h \in Gens : Pends(h)' => reader'[h].cursor \in DOMAIN log'
        /\ \A h, i \in Gens :
             Pends(h)' /\ Pends(i)' /\ reader'[h].cursor = reader'[i].cursor => h = i
    BY <1>1, <1>3, <1>4 DEF IInv, ReaderInv
  <2>2. \A h, i \in Gens : Presenting(h)' /\ Presenting(i)' => h = i
    BY <1>3, <1>4 DEF IInv, ReaderInv, Presenting
  <2>3. ASSUME NEW h \in Gens
        PROVE  /\ reader'[h].pc = "appended" => reader'[h].cursor = Len(log')
               /\ reader'[h].pc = "marking" =>
                    /\ KindAt(reader[h].cursor)' = "terminal"
                    /\ AtRisk(reader[h].cursor)' \/ reader'[h].cursor = Len(log')
    <3>1. CASE h = g
      BY <1>3, <3>1 DEF Gone
    <3>2. CASE h # g
      BY <1>1, <1>3, <1>9, <3>2 DEF IInv, ReaderInv, Pends
    <3>3. QED
      BY <3>1, <3>2
  <2>4. QED
    BY <2>1, <2>2, <2>3 DEF ReaderInv
<1>11. HubInv'
  <2>1. \A h \in Gens : h \in ToSet(hubQueue') <=> reader'[h].pc \in {"queued", "resetting"}
    BY <1>2, <1>3 DEF IInv, HubInv, Gone
  <2>2. MobileTask # g
    BY RelayStreamAssumption DEF Gens, MobileTask
  <2>3. QED
    BY <1>1, <1>2, <2>1, <2>2 DEF IInv, HubInv, Owns
<1>12. OrderInv'
  <2>1. ASSUME NEW x \in Gens, NEW y \in Gens, Ahead(x, y)',
               reader'[x].pc = "queued", reader'[y].pc = "queued", Firm(reader[y].cursor)'
        PROVE  reader'[x].cursor < reader'[y].cursor
    <3>1. x # g /\ y # g
      BY <1>3, <2>1 DEF Gone
    <3>2. Ahead(x, y) /\ reader[x].pc = "queued" /\ reader[y].pc = "queued"
      BY <1>2, <1>3, <2>1, <3>1
    <3>3. Firm(reader[y].cursor)
      BY <1>9, <2>1, <3>1, <3>2 DEF Pends
    <3>4. QED
      BY <1>3, <3>1, <3>2, <3>3 DEF IInv, OrderInv
  <2>2. ASSUME NEW x \in Gens, NEW y \in Gens, reader'[x].pc = "resetting",
               Pends(y)', KindAt(reader[y].cursor)' # "terminal"
        PROVE  reader'[y].pc = "queued" /\ ~Ahead(x, y)'
    <3>1. x # g /\ y # g
      BY <1>3, <1>4, <2>2 DEF Gone
    <3>2. Pends(y) /\ reader[x].pc = "resetting"
      BY <1>3, <1>4, <2>2, <3>1
    <3>3. KindAt(reader[y].cursor) # "terminal"
      BY <1>9, <2>2, <3>1, <3>2
    <3>4. QED
      BY <1>2, <1>3, <3>1, <3>2, <3>3 DEF IInv, OrderInv
  <2>3. QED
    BY <1>5, <2>1, <2>2, UnseenStep DEF OrderInv
<1>13. FloorInv'
  BY <1>1, <1>5, UnseenFloor
<1>14. QED
  BY <1>5, <1>6, <1>7, <1>10, <1>11, <1>12, <1>13, UnseenStep DEF IInv

(* An event of the current connection is committed: it is the newest, and  *)
(* it is pending.  What an obsolete connection is still marking is now     *)
(* overtaken.                                                              *)
LEMMA CommitEventStep ==
    ASSUME IInv, NEW g \in Gens, NEW kind \in Kinds, CommitEvent(g, kind)
    PROVE  IInv'
<1>0. PICK n \in Nat : n = Len(log) + 1
  BY Typed DEF IInv
<1>1. /\ source' \in Seq(Kinds) /\ Len(source') = Len(source) + 1
      /\ Len(source') <= MaxSource /\ Len(source') \in Positions
      /\ DOMAIN source' = 1..(Len(source) + 1)
      /\ DOMAIN source \subseteq DOMAIN source'
      /\ \A p \in DOMAIN source : source'[p] = source[p]
  BY EmitsSource DEF IInv, CommitEvent
<1>2. /\ Len(source) \in Nat /\ DOMAIN source = 1..Len(source)
      /\ Len(log) \in Nat /\ DOMAIN log = 1..Len(log) /\ log \in Seq(Positions)
      /\ \A c \in DOMAIN log : c \in Nat /\ log[c] \in Nat /\ log[c] \in Positions
  BY Typed DEF IInv
<1>3. /\ PresenceFree /\ reader[g].pc = "idle"
      /\ log' = Append(log, Len(source')) /\ kept' = kept \cup {Len(log')}
      /\ reader' = [reader EXCEPT ![g] = [pc |-> "appended", cursor |-> Len(log')]]
      /\ atRisk' = atRisk \cup BeingMarked
      /\ UNCHANGED <<epoch, floor, macGen, hubQueue, client, mobile, gap, sent,
                     faults, conns>>
  BY DEF CommitEvent
<1>4. /\ log' \in Seq(Positions) /\ Len(log') = n /\ n \in Nat
      /\ DOMAIN log' = 1..n /\ log'[n] = Len(source')
      /\ \A c \in DOMAIN log : log'[c] = log[c]
  BY <1>0, <1>1, <1>2, <1>3
<1>5. /\ n \in DOMAIN log' /\ n \notin DOMAIN log
      /\ \A c \in DOMAIN log : c \in DOMAIN log' /\ c < n
      /\ \A c \in DOMAIN log' : c \in DOMAIN log \/ c = n
  BY <1>0, <1>2, <1>4
<1>6. /\ reader'[g] = [pc |-> "appended", cursor |-> n]
      /\ \A h \in Gens : h # g => reader'[h] = reader[h]
  BY <1>3, <1>4 DEF IInv, TypeOK
<1>7. ~Pends(g) /\ Pends(g)' /\ \A h \in Gens : h # g => (Pends(h)' <=> Pends(h))
  BY <1>3, <1>6 DEF Pends
<1>8. \A h \in Gens : Pends(h) => h # g /\ reader[h].cursor \in DOMAIN log
  BY <1>7 DEF IInv, ReaderInv
<1>9. /\ \A c \in DOMAIN log : KindAt(c)' = KindAt(c)
      /\ \A c \in DOMAIN log : AtRisk(c) => AtRisk(c)'
      /\ \A c \in DOMAIN log : Owed(c)' => Owed(c)
      /\ \A c \in DOMAIN log : Firm(c)' => Firm(c)
      /\ \A c \in DOMAIN log : Pending(c) => Pending(c)'
      /\ Pending(n)'
  <2>1. \A c \in DOMAIN log : log[c] \in DOMAIN source
    BY DEF IInv, StoreInv
  <2>2. \A c \in DOMAIN log : KindAt(c)' = KindAt(c)
    BY <1>1, <1>4, <2>1 DEF KindAt
  <2>3. \A c \in DOMAIN log : AtRisk(c) => AtRisk(c)'
    BY <1>3, <1>4 DEF AtRisk
  <2>4. \A c \in DOMAIN log : Pending(c) => Pending(c)'
    BY <1>6, <1>7, <1>8 DEF Pending
  <2>5. Pending(n)'
    BY <1>6, <1>7 DEF Pending
  <2>6. \A c \in DOMAIN log : (Owed(c)' => Owed(c)) /\ (Firm(c)' => Firm(c))
    BY <2>2, <2>3 DEF Owed, Firm
  <2>7. QED
    BY <2>2, <2>3, <2>4, <2>5, <2>6
<1>10. ASSUME NEW h \in Gens, h # g, Pends(h)
       PROVE  /\ KindAt(reader[h].cursor)' = KindAt(reader[h].cursor)
              /\ AtRisk(reader[h].cursor) => AtRisk(reader[h].cursor)'
              /\ Firm(reader[h].cursor)' => Firm(reader[h].cursor)
              /\ reader'[h] = reader[h] /\ reader[h].cursor \in DOMAIN log
  <2>1. PICK c \in DOMAIN log : c = reader[h].cursor
    BY <1>8, <1>10
  <2>2. KindAt(c)' = KindAt(c) /\ (AtRisk(c) => AtRisk(c)') /\ (Firm(c)' => Firm(c))
    BY <1>9
  <2>3. reader'[h].cursor = c
    BY <1>6, <1>10, <2>1
  <2>4. QED
    BY <1>6, <1>10, <2>1, <2>2, <2>3 DEF KindAt, AtRisk, Firm
<1>11. TypeOK'
  <2>1. n \in 0..MaxSource
    BY <1>0, <1>1, <1>2, <1>4, RelayStreamAssumption DEF IInv, StoreInv
  <2>2. reader' \in [Gens -> [pc : {"off", "idle", "appended", "marking", "queued",
                                  "resetting", "gone"}, cursor : 0..MaxSource]]
    BY <1>3, <1>4, <2>1 DEF IInv, TypeOK
  <2>3. BeingMarked \subseteq Positions
    <3> SUFFICES ASSUME NEW h \in Gens, reader[h].pc = "marking"
                 PROVE  log[reader[h].cursor] \in Positions
        BY DEF BeingMarked
    <3>1. reader[h].cursor \in DOMAIN log
      BY <1>8 DEF Pends
    <3>2. QED
      BY <1>2, <3>1
  <2>4. kept' \subseteq DOMAIN log' /\ floor' \in 0..Len(log')
    <3>1. kept \subseteq DOMAIN log /\ floor \in 0..Len(log)
      BY DEF IInv, TypeOK
    <3>2. kept' \subseteq DOMAIN log'
      BY <1>3, <1>4, <1>5, <3>1
    <3>3. floor \in 0..n
      BY <1>0, <1>2, <3>1
    <3>4. QED
      BY <1>3, <1>4, <3>2, <3>3
  <2>5. QED
    BY <1>1, <1>3, <1>4, <2>2, <2>3, <2>4 DEF IInv, TypeOK
<1>12. StoreInv'
  <2>1. Len(log') <= Len(source')
    BY <1>0, <1>1, <1>2, <1>4 DEF IInv, StoreInv
  <2>2. \A c \in DOMAIN log' : log'[c] \in DOMAIN source'
    BY <1>1, <1>2, <1>4, <1>5 DEF IInv, StoreInv
  <2>3. ASSUME NEW c \in DOMAIN log', NEW d \in DOMAIN log', c < d
        PROVE  log'[c] < log'[d]
    <3>1. c \in DOMAIN log
      BY <1>2, <1>4, <1>5, <2>3
    <3>2. log[c] \in DOMAIN source /\ log'[c] = log[c]
      BY <1>4, <3>1 DEF IInv, StoreInv
    <3>3. CASE d \in DOMAIN log
      BY <1>4, <2>3, <3>1, <3>3 DEF IInv, StoreInv
    <3>4. CASE d = n
      BY <1>1, <1>2, <1>4, <3>2, <3>4
    <3>5. QED
      BY <1>5, <3>3, <3>4
  <2>4. \A c \in DOMAIN log' \ kept' : c <= floor'
    BY <1>3, <1>4, <1>5 DEF IInv, StoreInv
  <2>5. ASSUME NEW p \in DOMAIN source'
        PROVE  p \in atRisk' \/ \E c \in DOMAIN log' : log'[c] = p
    <3>1. CASE p \in DOMAIN source
      <4>1. p \in atRisk \/ \E c \in DOMAIN log : log[c] = p
        BY <3>1 DEF IInv, StoreInv
      <4>2. QED
        BY <1>3, <1>4, <1>5, <4>1
    <3>2. CASE p = Len(source')
      BY <1>4, <1>5, <3>2
    <3>3. QED
      BY <1>1, <1>2, <3>1, <3>2
  <2>6. QED
    BY <1>3, <2>1, <2>2, <2>3, <2>4, <2>5, FaultsGrow DEF StoreInv
<1>13. ReaderInv'
  <2>1. \A h \in Gens : Pends(h)' => reader'[h].cursor \in DOMAIN log'
    BY <1>5, <1>6, <1>7, <1>8
  <2>2. ASSUME NEW h \in Gens, NEW i \in Gens, Pends(h)', Pends(i)',
               reader'[h].cursor = reader'[i].cursor
        PROVE  h = i
    <3>1. CASE h # g /\ i # g
      BY <1>6, <1>7, <2>2, <3>1 DEF IInv, ReaderInv
    <3>2. CASE h = g
      BY <1>5, <1>6, <1>7, <1>8, <2>2, <3>2
    <3>3. CASE i = g
      BY <1>5, <1>6, <1>7, <1>8, <2>2, <3>3
    <3>4. QED
      BY <3>1, <3>2, <3>3
  <2>3. \A h, i \in Gens : Presenting(h)' /\ Presenting(i)' => h = i
    BY <1>3, <1>6 DEF Presenting, PresenceFree
  <2>4. ASSUME NEW h \in Gens
        PROVE  /\ reader'[h].pc = "appended" => reader'[h].cursor = Len(log')
               /\ reader'[h].pc = "marking" =>
                    /\ KindAt(reader[h].cursor)' = "terminal"
                    /\ AtRisk(reader[h].cursor)' \/ reader'[h].cursor = Len(log')
    <3>1. CASE h = g
      BY <1>4, <1>6, <3>1
    <3>2. CASE h # g
      <4>1. reader'[h] = reader[h] /\ reader[h].pc # "appended"
        BY <1>3, <1>6, <3>2 DEF PresenceFree
      <4>2. ASSUME reader[h].pc = "marking"
            PROVE  KindAt(reader[h].cursor)' = "terminal" /\ AtRisk(reader[h].cursor)'
        <5>1. Pends(h) /\ KindAt(reader[h].cursor) = "terminal"
          BY <4>2 DEF Pends, IInv, ReaderInv
        <5>2. log[reader[h].cursor] \in atRisk'
          BY <1>3, <4>2 DEF BeingMarked
        <5>3. QED
          BY <1>4, <1>10, <3>2, <4>1, <5>1, <5>2 DEF AtRisk
      <4>3. QED
        BY <4>1, <4>2
    <3>3. QED
      BY <3>1, <3>2
  <2>5. QED
    BY <2>1, <2>2, <2>3, <2>4 DEF ReaderInv
<1>14. HubInv'
  <2>1. \A h \in Gens : h \in ToSet(hubQueue') <=> reader'[h].pc \in {"queued", "resetting"}
    BY <1>3, <1>6 DEF IInv, HubInv
  <2>2. QED
    BY <1>3, <2>1 DEF IInv, HubInv, Owns
<1>15. OrderInv'
  <2>1. ASSUME NEW x \in Gens, NEW y \in Gens, Ahead(x, y)',
               reader'[x].pc = "queued", reader'[y].pc = "queued", Firm(reader[y].cursor)'
        PROVE  reader'[x].cursor < reader'[y].cursor
    <3>1. x # g /\ y # g
      BY <1>6, <2>1
    <3>2. Pends(x) /\ Pends(y)
      BY <1>6, <2>1, <3>1 DEF Pends
    <3>3. Ahead(x, y) /\ reader[x].pc = "queued" /\ reader[y].pc = "queued"
          /\ Firm(reader[y].cursor)
      BY <1>3, <1>10, <2>1, <3>1, <3>2 DEF Ahead
    <3>4. QED
      BY <1>10, <3>1, <3>2, <3>3 DEF IInv, OrderInv
  <2>2. \A x \in Gens : reader'[x].pc # "resetting"
    BY <1>3, <1>6 DEF PresenceFree
  <2>3. ASSUME NEW h \in Gens, Pends(h)', KindAt(reader[h].cursor)' # "terminal",
               NEW c \in DOMAIN log', reader'[h].cursor < c, ~AtRisk(c)'
        PROVE  Pending(c)'
    <3>1. CASE c = n
      BY <1>9, <3>1
    <3>2. CASE c \in DOMAIN log
      <4>1. h # g
        BY <1>2, <1>5, <1>6, <2>3, <3>2, <1>4
      <4>2. Pends(h) /\ KindAt(reader[h].cursor) # "terminal" /\ reader[h].cursor < c
        BY <1>7, <1>10, <2>3, <4>1
      <4>3. Pending(c)
        BY <1>9, <2>3, <3>2, <4>2 DEF IInv, OrderInv
      <4>4. QED
        BY <1>9, <3>2, <4>3
    <3>3. QED
      BY <1>5, <3>1, <3>2
  <2>4. QED
    BY <2>1, <2>2, <2>3 DEF OrderInv
<1>16. PhaseInv'
  <2>1. client.buffer \subseteq DOMAIN log' /\ client.high <= Len(log')
    <3>1. client.buffer \subseteq DOMAIN log /\ client.high <= Len(log)
      BY DEF IInv, PhaseInv
    <3>2. client.high \in Nat /\ Len(log') = n
      BY <1>4, Typed DEF IInv
    <3>3. client.high <= n
      BY <1>0, <1>2, <3>1, <3>2
    <3>4. QED
      BY <1>5, <3>1, <3>2, <3>3
  <2>2. client.last <= mobile.applied \/ client.last \in DOMAIN log'
    BY <1>5 DEF IInv, PhaseInv
  <2>3. QED
    BY <1>3, <2>1, <2>2 DEF IInv, PhaseInv, NoClient
<1>17. SentInv'
  <2>1. \A i \in DOMAIN sent : sent[i] \in DOMAIN log /\ sent[i] <= client.last /\ sent[i] < n
    BY <1>5 DEF IInv, SentInv
  <2>2. \A b \in client.buffer : b < n
    BY <1>5 DEF IInv, PhaseInv
  <2>3. client.high < n
    BY <1>0, <1>2, <1>4, Typed DEF IInv, PhaseInv
  <2>4. ASSUME NEW h \in Gens, Pends(h)', Firm(reader[h].cursor)', NEW b \in client'.buffer
        PROVE  b < reader'[h].cursor
    <3>1. CASE h = g
      BY <1>3, <1>6, <2>2, <2>4, <3>1
    <3>2. CASE h # g
      BY <1>3, <1>7, <1>10, <2>4, <3>2 DEF IInv, SentInv
    <3>3. QED
      BY <3>1, <3>2
  <2>5. ASSUME client'.phase = "reset", NEW h \in Gens, Pends(h)',
               KindAt(reader[h].cursor)' # "terminal"
        PROVE  /\ \A i \in DOMAIN sent' : sent'[i] < reader'[h].cursor
               /\ client'.pc = "replay" => client'.high < reader'[h].cursor
    <3>1. CASE h = g
      BY <1>3, <1>6, <2>1, <2>3, <3>1
    <3>2. CASE h # g
      BY <1>3, <1>7, <1>10, <2>5, <3>2 DEF IInv, SentInv
    <3>3. QED
      BY <3>1, <3>2
  <2>6. Increasing(sent')
    BY <1>3 DEF IInv, SentInv
  <2>7. QED
    BY <1>3, <1>5, <2>1, <2>4, <2>5, <2>6 DEF SentInv
<1>18. FrameInv'
  BY <1>3, <1>4, <1>5 DEF IInv, FrameInv
<1>19. FloorInv'
  <2>1. \A c \in DOMAIN log' \ kept' : c \in DOMAIN log \ kept
    BY <1>3, <1>4, <1>5
  <2>2. QED
    BY <1>3, <1>9, <2>1 DEF IInv, FloorInv
<1>20. \A j \in DOMAIN client.queue :
         IsFinal(client.queue[j], source') <=> IsFinal(client.queue[j], source)
  BY <1>1, FramesAreLogged DEF IsFinal, IsEvent
<1>21. \A c \in DOMAIN log :
         Covered(c, client.queue, mobile, source)
         => Covered(c, client'.queue, mobile', source')
  BY <1>3, <1>20, CoveredSource
<1>22. CoverInv'
  <2> SUFFICES ASSUME Serving', NEW c \in DOMAIN log', Owed(c)', c <= client'.last
               PROVE  Covered(c, client'.queue, mobile', source')
      BY DEF CoverInv
  <2>1. Serving
    BY <1>3 DEF Serving
  <2>2. CASE c \in DOMAIN log
    BY <1>3, <1>9, <1>21, <2>1, <2>2 DEF IInv, CoverInv
  <2>3. CASE c = n
    <3>1. ~(client.last \in DOMAIN log)
      BY <1>2, <1>3, <1>4, <1>5, <2>3
    <3>2. client.last <= mobile.applied
      BY <3>1 DEF IInv, PhaseInv
    <3>3. c <= mobile.applied
      BY <1>3, <1>4, <2>3, <3>2, Typed DEF IInv
    <3>4. QED
      BY <1>3, <3>3 DEF Covered
  <2>4. QED
    BY <1>5, <2>2, <2>3
<1>23. AheadInv'
  <2> SUFFICES ASSUME Serving', NEW c \in DOMAIN log', Owed(c)', client'.last < c
               PROVE  \/ Pending(c)'
                      \/ client'.pc = "replay" /\ c <= client'.high
                      \/ c \in client'.buffer
      BY DEF AheadInv
  <2>1. Serving
    BY <1>3 DEF Serving
  <2>2. CASE c \in DOMAIN log
    BY <1>3, <1>9, <2>1, <2>2 DEF IInv, AheadInv
  <2>3. CASE c = n
    BY <1>9, <2>3
  <2>4. QED
    BY <1>5, <2>2, <2>3
<1>24. ResetInv'
  <2>1. ASSUME Resetting', NEW c \in DOMAIN log', Owed(c)'
        PROVE  \/ Covered(c, client'.queue, mobile', source')
               \/ Pending(c)' /\ \A i \in DOMAIN sent' : sent'[i] < c
    <3>1. Resetting
      BY <1>3, <2>1 DEF Resetting
    <3>2. CASE c \in DOMAIN log
      <4>1. \/ Covered(c, client.queue, mobile, source)
            \/ Pending(c) /\ \A i \in DOMAIN sent : sent[i] < c
        BY <1>9, <2>1, <3>1, <3>2 DEF IInv, ResetInv
      <4>2. QED
        BY <1>3, <1>9, <1>21, <3>2, <4>1
    <3>3. CASE c = n
      <4>1. \A i \in DOMAIN sent : sent[i] < n
        BY <1>5 DEF IInv, SentInv
      <4>2. QED
        BY <1>3, <1>9, <3>3, <4>1
    <3>4. QED
      BY <1>5, <3>2, <3>3
  <2>2. \A i \in Nat : NoFinals(client.queue, i, source) <=> NoFinals(client.queue, i, source')
    BY <1>20 DEF NoFinals
  <2>3. \A i \in DOMAIN client.queue : i \in Nat
    BY Typed DEF IInv
  <2>4. Resetting' =>
         \/ mobile'.recovery /\ NoFinals(client'.queue, 0, source')
         \/ \E i \in DOMAIN client'.queue :
              client'.queue[i].type = "reset" /\ NoFinals(client'.queue, i, source')
    BY <1>3, <2>2, <2>3 DEF IInv, ResetInv, Resetting
  <2>5. client'.pc = "replay" /\ client'.phase = "reset" =>
         \/ client'.high <= client'.last
         \/ /\ NoFinals(client'.queue, 0, source')
            /\ mobile'.recovery \/ (client'.queue # <<>> /\ client'.queue[1].type = "reset")
    BY <1>3, <2>2 DEF IInv, ResetInv
  <2>6. client'.pc \in {"replay", "drain"} /\ client'.phase = "reset" =>
         \A b \in client'.buffer : AtRisk(b)'
    BY <1>3, <1>9 DEF IInv, ResetInv, PhaseInv
  <2>7. QED
    BY <2>1, <2>4, <2>5, <2>6 DEF ResetInv
<1>25. ReplicaInv'
  <2>1. mobile.revision <= Len(source')
    BY <1>1, <1>2, Typed DEF IInv, ReplicaInv
  <2>2. \A p \in 1..mobile.revision : p \in DOMAIN source
    BY <1>2, Typed DEF IInv, ReplicaInv
  <2>3. Holes' = Holes
    BY <1>1, <1>3, <2>2 DEF Holes
  <2>4. Holes' \subseteq atRisk'
    BY <1>3, <2>3 DEF IInv, ReplicaInv
  <2>5. mobile'.epoch = epoch' /\ ~mobile'.recovery =>
         mobile'.applied <= Len(log') /\ \A c \in 1..mobile'.applied : log'[c] <= mobile'.revision
    <3> SUFFICES ASSUME mobile.epoch = epoch, ~mobile.recovery
                 PROVE  mobile.applied <= n /\ \A c \in 1..mobile.applied : log'[c] <= mobile.revision
        BY <1>3, <1>4
    <3>1. mobile.applied <= Len(log) /\ \A c \in 1..mobile.applied : log[c] <= mobile.revision
      BY DEF IInv, ReplicaInv
    <3>2. \A c \in 1..mobile.applied : c \in DOMAIN log
      BY <1>2, <3>1, Typed DEF IInv
    <3>3. mobile.applied <= n
      BY <1>0, <1>2, <3>1, Typed DEF IInv
    <3>4. QED
      BY <1>4, <3>1, <3>2, <3>3
  <2>6. QED
    BY <1>3, <2>1, <2>4, <2>5 DEF IInv, ReplicaInv
<1>26. QED
  BY <1>11, <1>12, <1>13, <1>14, <1>15, <1>16, <1>17, <1>18, <1>19, <1>22, <1>23,
     <1>24, <1>25 DEF IInv

-----------------------------------------------------------------------------
(* The mobile connection comes and goes.                                   *)

(* A connection that is closed owes nothing.                               *)
LEMMA ClosedConnection ==
    ASSUME client' = NoClient, sent' = <<>>, log' \in Seq(Positions),
           mobile'.applied \in Nat
    PROVE  /\ PhaseInv' /\ SentInv' /\ FrameInv' /\ FloorInv'
           /\ CoverInv' /\ AheadInv' /\ ResetInv'
<1>1. /\ client'.pc = "down" /\ client'.phase = "new" /\ client'.buffer = {}
      /\ client'.queue = <<>> /\ client'.high = 0 /\ client'.last = 0
  BY DEF NoClient
<1>2. Len(log') \in Nat
  OBVIOUS
<1>3. PhaseInv'
  BY <1>1, <1>2 DEF PhaseInv
<1>4. SentInv'
  BY <1>1 DEF SentInv, Increasing
<1>5. FrameInv'
  BY <1>1 DEF FrameInv
<1>6. FloorInv' /\ CoverInv' /\ AheadInv' /\ ResetInv'
  BY <1>1 DEF FloorInv, CoverInv, AheadInv, ResetInv, Serving, Resetting
<1>7. QED
  BY <1>3, <1>4, <1>5, <1>6

(* The closed connection has the type of a connection.                     *)
LEMMA ClosedConnectionType ==
    /\ NoClient \in [pc : {"down", "queued", "floor", "replay", "drain", "registered"},
                     phase : {"new", "replaying", "reset", "live"},
                     floor : 0..MaxSource, high : 0..MaxSource, last : 0..MaxSource,
                     buffer : SUBSET Positions,
                     queue : Seq(EventFrames \cup ResetFrames)]
    /\ Len(NoClient.queue) <= QueueLimit
<1>1. 0 \in 0..MaxSource /\ <<>> \in Seq(EventFrames \cup ResetFrames)
  BY RelayStreamAssumption
<1>2. Len(<<>>) <= QueueLimit
  BY RelayStreamAssumption
<1>3. QED
  BY <1>1, <1>2 DEF NoClient

(* While the readers stand still and no task overtakes another, the facts  *)
(* about them hold.                                                        *)
LEMMA ReadersStand ==
    ASSUME IInv, reader' = reader, log' = log, source' = source, atRisk' = atRisk,
           \A g, h \in Gens : Ahead(g, h)' => Ahead(g, h)
    PROVE  ReaderInv' /\ OrderInv'
<1>1. \A c : /\ KindAt(c)' = KindAt(c) /\ (AtRisk(c)' <=> AtRisk(c))
             /\ (Firm(c)' <=> Firm(c)) /\ (Pending(c)' <=> Pending(c))
  BY DEF KindAt, AtRisk, Firm, Pending, Pends
<1>2. \A g \in Gens : /\ KindAt(reader[g].cursor)' = KindAt(reader[g].cursor)
                      /\ AtRisk(reader[g].cursor)' <=> AtRisk(reader[g].cursor)
                      /\ Firm(reader[g].cursor)' <=> Firm(reader[g].cursor)
                      /\ Pends(g)' <=> Pends(g)
  BY DEF KindAt, AtRisk, Firm, Pends
<1>3. ReaderInv'
  BY <1>2 DEF IInv, ReaderInv, Presenting
<1>4. OrderInv'
  BY <1>1, <1>2 DEF IInv, OrderInv
<1>5. QED
  BY <1>3, <1>4

(* The mobile connection closes.                                           *)
LEMMA MobileClosesStep ==
    ASSUME IInv, MobileCloses
    PROVE  IInv'
<1> USE DEF store
<1>1. /\ client' = NoClient /\ sent' = <<>> /\ hubQueue' = Withdrawn(MobileTask, hubQueue)
      /\ UNCHANGED <<source, store, macGen, reader, mobile, gap, atRisk, faults, conns>>
  BY DEF MobileCloses
<1>2. /\ hubQueue' \in Seq(Gens \cup {MobileTask}) /\ Once(hubQueue')
      /\ ToSet(hubQueue') = ToSet(hubQueue) \ {MobileTask}
      /\ \A g, h : Ahead(g, h)' => Ahead(g, h)
  <2>1. hubQueue \in Seq(Gens \cup {MobileTask}) /\ Once(hubQueue)
    BY DEF IInv, TypeOK, HubInv
  <2>2. /\ Withdrawn(MobileTask, hubQueue) \in Seq(Gens \cup {MobileTask})
        /\ Once(Withdrawn(MobileTask, hubQueue))
        /\ ToSet(Withdrawn(MobileTask, hubQueue)) = ToSet(hubQueue) \ {MobileTask}
        /\ \A a, b : Before(a, b, Withdrawn(MobileTask, hubQueue)) => Before(a, b, hubQueue)
    BY <2>1, WithdrawnQueue
  <2>3. QED
    BY <1>1, <2>2 DEF Ahead
<1>3. TypeOK'
  <2>1. <<>> \in Seq(Positions)
    OBVIOUS
  <2>2. QED
    BY <1>1, <1>2, <2>1, ClosedConnectionType DEF IInv, TypeOK
<1>4. StoreInv' /\ ReplicaInv'
  BY <1>1 DEF IInv, StoreInv, ReplicaInv, Holes
<1>5. ReaderInv' /\ OrderInv'
  BY <1>1, <1>2, ReadersStand
<1>6. HubInv'
  <2>1. client'.pc = "down"
    BY <1>1 DEF NoClient
  <2>2. \A g \in Gens : g # MobileTask
    BY RelayStreamAssumption DEF Gens, MobileTask
  <2>3. QED
    BY <1>1, <1>2, <2>1, <2>2 DEF IInv, HubInv
<1>7. /\ PhaseInv' /\ SentInv' /\ FrameInv' /\ FloorInv'
      /\ CoverInv' /\ AheadInv' /\ ResetInv'
  BY <1>1, Typed, ClosedConnection DEF IInv
<1>8. QED
  BY <1>3, <1>4, <1>5, <1>6, <1>7 DEF IInv

(* A mobile connects, and its registration waits for the hub lock.         *)
LEMMA MobileConnectsStep ==
    ASSUME IInv, MobileConnects
    PROVE  IInv'
<1> USE DEF store
<1>1. /\ client.pc = "down" /\ sent' = <<>>
      /\ client' = [NoClient EXCEPT !.pc = "queued", !.last = mobile.applied]
      /\ hubQueue' = Append(hubQueue, MobileTask)
      /\ UNCHANGED <<source, store, macGen, reader, mobile, gap, atRisk, faults>>
      /\ conns < MaxConns /\ conns' = conns + 1
  BY DEF MobileConnects
<1>2. \A g \in Gens : g # MobileTask
  BY RelayStreamAssumption DEF Gens, MobileTask
<1>3. /\ hubQueue' \in Seq(Gens \cup {MobileTask}) /\ Once(hubQueue')
      /\ ToSet(hubQueue') = ToSet(hubQueue) \cup {MobileTask}
      /\ \A g, h \in Gens : Ahead(g, h)' => Ahead(g, h)
  <2>1. MobileTask \notin ToSet(hubQueue)
    BY <1>1 DEF IInv, HubInv
  <2>2. hubQueue \in Seq(Gens \cup {MobileTask}) /\ Once(hubQueue)
    BY DEF IInv, TypeOK, HubInv
  <2>3. QED
    BY <1>1, <1>2, <2>1, <2>2, AppendQueue DEF Ahead
<1>4. /\ client'.pc = "queued" /\ client'.phase = "new" /\ client'.buffer = {}
      /\ client'.queue = <<>> /\ client'.high = 0 /\ client'.last = mobile.applied
  BY <1>1 DEF NoClient
<1>5. TypeOK'
  <2>1. <<>> \in Seq(Positions) /\ mobile.applied \in 0..MaxSource
    BY DEF IInv, TypeOK
  <2>2. conns' \in 0..MaxConns
    <3>1. \A n, m \in Nat : n \in 0..m /\ n < m => n + 1 \in 0..m
      OBVIOUS
    <3>2. conns \in 0..MaxConns /\ conns \in Nat /\ MaxConns \in Nat
      BY RelayStreamAssumption DEF IInv, TypeOK
    <3>3. QED
      BY <1>1, <3>1, <3>2, Zenon
  <2>3. client' \in [pc : {"down", "queued", "floor", "replay", "drain", "registered"},
                     phase : {"new", "replaying", "reset", "live"},
                     floor : 0..MaxSource, high : 0..MaxSource, last : 0..MaxSource,
                     buffer : SUBSET Positions,
                     queue : Seq(EventFrames \cup ResetFrames)]
    BY <1>1, <2>1, ClosedConnectionType
  <2>4. Len(client'.queue) <= QueueLimit
    BY <1>1, ClosedConnectionType DEF NoClient
  <2>5. QED
    BY <1>1, <1>3, <2>1, <2>2, <2>3, <2>4 DEF IInv, TypeOK
<1>6. StoreInv' /\ ReplicaInv'
  BY <1>1 DEF IInv, StoreInv, ReplicaInv, Holes
<1>7. ReaderInv' /\ OrderInv'
  BY <1>1, <1>3, ReadersStand
<1>8. HubInv'
  BY <1>1, <1>2, <1>3, <1>4 DEF IInv, HubInv
<1>9. PhaseInv'
  BY <1>1, <1>4, Typed DEF IInv, PhaseInv
<1>10. SentInv'
  BY <1>1, <1>4 DEF SentInv, Increasing
<1>11. FrameInv' /\ FloorInv'
  BY <1>4 DEF FrameInv, FloorInv
<1>12. CoverInv' /\ AheadInv' /\ ResetInv'
  BY <1>4 DEF CoverInv, AheadInv, ResetInv, Serving, Resetting
<1>13. QED
  BY <1>5, <1>6, <1>7, <1>8, <1>9, <1>10, <1>11, <1>12 DEF IInv

(* The relay starts on a new database.                                     *)
LEMMA NewStoreStep ==
    ASSUME IInv, NewStore
    PROVE  IInv'
<1>1. /\ epoch' = epoch + 1 /\ log' = <<>> /\ kept' = {} /\ floor' = 0 /\ macGen' = 0
      /\ reader' = [g \in Gens |-> IF reader[g].pc = "off" THEN NoReader ELSE Gone]
      /\ hubQueue' = <<>> /\ client' = NoClient /\ sent' = <<>>
      /\ atRisk' = DOMAIN source
      /\ UNCHANGED <<source, mobile, gap, conns>>
      /\ faults < MaxFaults /\ faults' = faults + 1
  BY DEF NewStore, Fault
<1>2. \A g \in Gens : reader'[g].pc \in {"off", "gone"} /\ reader'[g] \in {NoReader, Gone}
  BY <1>1 DEF NoReader, Gone
<1>3. \A g \in Gens : ~Pends(g)' /\ ~Presenting(g)'
  BY <1>2 DEF Pends, Presenting
<1>4. /\ epoch \in Nat /\ faults \in 0..MaxFaults /\ faults \in Nat /\ MaxFaults \in Nat
      /\ epoch <= faults + 1 /\ epoch \in 1..(MaxFaults + 1)
  BY RelayStreamAssumption DEF IInv, TypeOK, StoreInv
<1>5. /\ epoch' \in 1..(MaxFaults + 1) /\ faults' \in 0..MaxFaults /\ epoch' <= faults' + 1
  <2>1. \A e, f, m \in Nat : f < m /\ e <= f + 1
          => e + 1 \in 1..(m + 1) /\ f + 1 \in 0..m /\ e + 1 <= (f + 1) + 1
    OBVIOUS
  <2>2. QED
    BY <1>1, <1>4, <2>1, Zenon
<1>6. TypeOK'
  <2>1. /\ <<>> \in Seq(Positions) /\ <<>> \in Seq(Gens \cup {MobileTask}) /\ Len(<<>>) = 0
        /\ DOMAIN <<>> = {}
    OBVIOUS
  <2>2. reader' \in [Gens -> [pc : {"off", "idle", "appended", "marking", "queued",
                                  "resetting", "gone"}, cursor : 0..MaxSource]]
    BY <1>1, RelayStreamAssumption DEF NoReader, Gone
  <2>3. DOMAIN source \subseteq Positions
    <3>1. DOMAIN source = 1..Len(source) /\ Len(source) \in Nat /\ Len(source) <= MaxSource
      BY Typed DEF IInv, TypeOK
    <3>2. QED
      BY <3>1, RelayStreamAssumption DEF Positions
  <2>4. 0 \in 0..MaxGen
    BY RelayStreamAssumption
  <2>5. QED
    <3>1. /\ log' \in Seq(Positions) /\ kept' \subseteq DOMAIN log' /\ floor' \in 0..Len(log')
          /\ hubQueue' \in Seq(Gens \cup {MobileTask}) /\ sent' \in Seq(Positions)
      BY <1>1, <2>1
    <3>2. macGen' \in 0..MaxGen /\ atRisk' \subseteq Positions
      BY <1>1, <2>3, <2>4
    <3>3. /\ source' \in Seq(Kinds) /\ Len(source') <= MaxSource
          /\ mobile' = mobile /\ gap' = gap /\ conns' = conns
      BY <1>1 DEF IInv, TypeOK
    <3>4. QED
      BY <1>1, <1>5, <2>2, <3>1, <3>2, <3>3, ClosedConnectionType DEF IInv, TypeOK
<1>7. StoreInv'
  <2>1. Len(log') <= Len(source') /\ DOMAIN log' = {}
    BY <1>1, Typed DEF IInv
  <2>2. QED
    BY <1>1, <1>5, <2>1 DEF StoreInv
<1>8. ReaderInv'
  BY <1>2, <1>3 DEF ReaderInv
<1>9. HubInv'
  <2>1. ToSet(hubQueue') = {} /\ Once(hubQueue')
    BY <1>1 DEF ToSet, Once
  <2>2. client'.pc = "down"
    BY <1>1 DEF NoClient
  <2>3. QED
    BY <1>2, <2>1, <2>2 DEF HubInv
<1>10. OrderInv'
  <2>1. \A g, h \in Gens : ~Ahead(g, h)'
    BY <1>1 DEF Ahead, Before
  <2>2. QED
    BY <1>2, <1>3, <2>1 DEF OrderInv
<1>11. /\ PhaseInv' /\ SentInv' /\ FrameInv' /\ FloorInv'
       /\ CoverInv' /\ AheadInv' /\ ResetInv'
  BY <1>1, Typed, ClosedConnection DEF IInv
<1>12. ReplicaInv'
  <2>1. mobile.epoch < epoch'
    BY <1>1, Typed DEF IInv, ReplicaInv
  <2>2. Holes' \subseteq atRisk'
    BY <1>1, Typed DEF IInv, ReplicaInv, Holes
  <2>3. mobile.epoch <= epoch' /\ mobile.epoch # epoch'
    BY <1>1, <1>4, Typed DEF IInv, ReplicaInv
  <2>4. QED
    BY <1>1, <2>2, <2>3 DEF IInv, ReplicaInv
<1>13. QED
  BY <1>6, <1>7, <1>8, <1>9, <1>10, <1>11, <1>12 DEF IInv

-----------------------------------------------------------------------------
(* The registration of the mobile connection.                              *)

\* Only the hub's side of the connection changes.
ConnectionStep ==
    UNCHANGED <<source, store, macGen, reader, mobile, gap, atRisk, faults, conns>>

(* Such a step leaves the log, its kinds, its risks and its readers.       *)
LEMMA ConnectionFacts ==
    ASSUME IInv, ConnectionStep
    PROVE  /\ StoreInv' /\ ReplicaInv'
           /\ \A c : /\ KindAt(c)' = KindAt(c) /\ (AtRisk(c)' <=> AtRisk(c))
                     /\ (Owed(c)' <=> Owed(c)) /\ (Pending(c)' <=> Pending(c))
           /\ \A g \in Gens : /\ KindAt(reader[g].cursor)' = KindAt(reader[g].cursor)
                              /\ Firm(reader[g].cursor)' <=> Firm(reader[g].cursor)
                              /\ Pends(g)' <=> Pends(g)
           /\ epoch' = epoch /\ log' = log /\ kept' = kept /\ floor' = floor
           /\ source' = source /\ reader' = reader /\ mobile' = mobile
           /\ atRisk' = atRisk
  BY DEF IInv, ConnectionStep, store, StoreInv, ReplicaInv, Holes, KindAt, AtRisk, Owed,
         Pending, Pends, Firm

(* The bounds of cursors, and of the high water.                           *)
LEMMA CursorBounds ==
    ASSUME IInv
    PROVE  /\ Len(log) \in 0..MaxSource
           /\ DOMAIN log \subseteq Positions /\ DOMAIN log \subseteq 0..MaxSource
           /\ HighWater \in 0..Len(log) /\ HighWater \in 0..MaxSource
           /\ \A c \in kept : c <= HighWater
<1>1. /\ Len(log) \in Nat /\ DOMAIN log = 1..Len(log) /\ Len(source) \in Nat
      /\ Len(log) <= Len(source) /\ Len(source) <= MaxSource /\ MaxSource \in Nat
  BY Typed, RelayStreamAssumption DEF IInv, TypeOK, StoreInv
<1>2. Len(log) <= MaxSource
  BY <1>1
<1>3. Len(log) \in 0..MaxSource /\ DOMAIN log \subseteq 1..MaxSource
      /\ 0..Len(log) \subseteq 0..MaxSource /\ DOMAIN log \subseteq 0..MaxSource
  BY <1>1, <1>2
<1>4. kept \cup {0} \in SUBSET (0..Len(log)) /\ kept \cup {0} # {}
  <2>1. kept \subseteq DOMAIN log
    BY DEF IInv, TypeOK
  <2>2. QED
    BY <1>1, <2>1
<1>5. HighWater \in kept \cup {0} /\ \A c \in kept \cup {0} : c <= HighWater
  BY <1>1, <1>4, MaxIsGreatest DEF HighWater
<1>6. QED
  BY <1>3, <1>4, <1>5 DEF Positions

(* The registration has the lock and reads the floor.                      *)
LEMMA RegisterReadsFloorStep ==
    ASSUME IInv, RegisterReadsFloor
    PROVE  IInv'
<1>1. /\ Owns(MobileTask) /\ client.pc = "queued" /\ sent' = sent /\ hubQueue' = hubQueue
      /\ client' = [client EXCEPT !.pc = "floor", !.phase = "replaying", !.floor = floor]
      /\ ConnectionStep
  BY DEF RegisterReadsFloor, ConnectionStep
<1>2. /\ StoreInv' /\ ReplicaInv'
      /\ \A c : AtRisk(c)' <=> AtRisk(c)
      /\ \A g \in Gens : /\ KindAt(reader[g].cursor)' = KindAt(reader[g].cursor)
                         /\ Firm(reader[g].cursor)' <=> Firm(reader[g].cursor)
                         /\ Pends(g)' <=> Pends(g)
      /\ epoch' = epoch /\ log' = log /\ kept' = kept /\ floor' = floor
      /\ source' = source /\ reader' = reader /\ mobile' = mobile /\ atRisk' = atRisk
  BY <1>1, ConnectionFacts
<1>3. client \in [pc : {"down", "queued", "floor", "replay", "drain", "registered"},
                     phase : {"new", "replaying", "reset", "live"},
                     floor : 0..MaxSource, high : 0..MaxSource, last : 0..MaxSource,
                     buffer : SUBSET Positions,
                     queue : Seq(EventFrames \cup ResetFrames)]
  BY DEF IInv, TypeOK
<1>4. /\ client'.pc = "floor" /\ client'.phase = "replaying" /\ client'.floor = floor
      /\ client'.high = client.high /\ client'.last = client.last
      /\ client'.buffer = client.buffer /\ client'.queue = client.queue
  BY <1>1, <1>3
<1>5. /\ client.buffer = {} /\ client.last = mobile.applied
      /\ sent = <<>> /\ client.queue = <<>>
  BY <1>1 DEF IInv, PhaseInv
<1>6. TypeOK'
  <2>1. floor \in 0..MaxSource
    <3>1. \A f, l, m \in Nat : f \in 0..l /\ l \in 0..m => f \in 0..m
      OBVIOUS
    <3>2. floor \in 0..Len(log) /\ Len(log) \in 0..MaxSource
      BY CursorBounds DEF IInv, TypeOK
    <3>3. floor \in Nat /\ Len(log) \in Nat /\ MaxSource \in Nat
      BY <3>2, RelayStreamAssumption
    <3>4. QED
      BY <3>1, <3>2, <3>3, Zenon
  <2>2. client' \in [pc : {"down", "queued", "floor", "replay", "drain", "registered"},
                     phase : {"new", "replaying", "reset", "live"},
                     floor : 0..MaxSource, high : 0..MaxSource, last : 0..MaxSource,
                     buffer : SUBSET Positions,
                     queue : Seq(EventFrames \cup ResetFrames)]
    BY <1>1, <1>3, <2>1
  <2>3. QED
    BY <1>1, <1>2, <1>4, <2>2 DEF IInv, TypeOK, ConnectionStep
<1>7. ReaderInv' /\ OrderInv'
  BY <1>1, <1>2, ReadersStand DEF Ahead
<1>8. HubInv'
  BY <1>1, <1>2, <1>4 DEF IInv, HubInv, Owns
<1>9. PhaseInv'
  BY <1>1, <1>2, <1>4, <1>5 DEF IInv, PhaseInv
<1>10. SentInv'
  BY <1>1, <1>4, <1>5 DEF SentInv, Increasing
<1>11. FrameInv' /\ CoverInv' /\ AheadInv' /\ ResetInv'
  BY <1>4, <1>5 DEF FrameInv, CoverInv, AheadInv, ResetInv, Serving, Resetting
<1>12. FloorInv'
  BY <1>2, <1>4 DEF IInv, FloorInv, StoreInv
<1>13. QED
  BY <1>2, <1>6, <1>7, <1>8, <1>9, <1>10, <1>11, <1>12 DEF IInv

(* The owner of the hub lock releases it.                                  *)
LEMMA OwnerReleases ==
    ASSUME IInv, NEW task, Owns(task)
    PROVE  /\ Tail(hubQueue) \in Seq(Gens \cup {MobileTask}) /\ Once(Tail(hubQueue))
           /\ ToSet(Tail(hubQueue)) = ToSet(hubQueue) \ {task}
           /\ \A a, b : Before(a, b, Tail(hubQueue)) => Ahead(a, b)
           /\ \A a \in ToSet(Tail(hubQueue)) : Ahead(task, a)
           /\ task \in ToSet(hubQueue)
<1>1. /\ hubQueue \in Seq(Gens \cup {MobileTask}) /\ Once(hubQueue)
      /\ hubQueue # <<>> /\ task = Head(hubQueue)
  BY DEF IInv, TypeOK, HubInv, Owns
<1>2. Head(hubQueue) \in ToSet(hubQueue)
  <2>1. Head(hubQueue) = hubQueue[1] /\ 1 \in DOMAIN hubQueue
    BY <1>1
  <2>2. QED
    BY <2>1 DEF ToSet
<1>3. QED
  BY <1>1, <1>2, TailQueue DEF Ahead

(* The hub closes the connection on behalf of its registration.            *)
LEMMA HubClosesStep ==
    ASSUME IInv, ConnectionStep, client' = NoClient, sent' = <<>>,
           hubQueue' \in Seq(Gens \cup {MobileTask}), Once(hubQueue'),
           ToSet(hubQueue') = ToSet(hubQueue) \ {MobileTask},
           \A g, h \in Gens : Ahead(g, h)' => Ahead(g, h)
    PROVE  IInv'
<1>1. /\ StoreInv' /\ ReplicaInv'
      /\ epoch' = epoch /\ log' = log /\ kept' = kept /\ floor' = floor
      /\ source' = source /\ reader' = reader /\ mobile' = mobile /\ atRisk' = atRisk
  BY ConnectionFacts
<1>2. TypeOK'
  <2>1. <<>> \in Seq(Positions)
    OBVIOUS
  <2>2. QED
    BY <1>1, <2>1, ClosedConnectionType DEF IInv, TypeOK, ConnectionStep
<1>3. ReaderInv' /\ OrderInv'
  BY <1>1, ReadersStand
<1>4. HubInv'
  <2>1. client'.pc = "down"
    BY DEF NoClient
  <2>2. \A g \in Gens : g # MobileTask
    BY RelayStreamAssumption DEF Gens, MobileTask
  <2>3. QED
    BY <1>1, <2>1, <2>2 DEF IInv, HubInv
<1>5. /\ PhaseInv' /\ SentInv' /\ FrameInv' /\ FloorInv'
      /\ CoverInv' /\ AheadInv' /\ ResetInv'
  BY <1>1, Typed, ClosedConnection DEF IInv
<1>6. QED
  BY <1>1, <1>2, <1>3, <1>4, <1>5 DEF IInv

\* The values of the hub's record of a connection.
Connections == [pc : {"down", "queued", "floor", "replay", "drain", "registered"},
                phase : {"new", "replaying", "reset", "live"},
                floor : 0..MaxSource, high : 0..MaxSource, last : 0..MaxSource,
                buffer : SUBSET Positions, queue : Seq(FrameSet)]

(* The connection is of its type.                                          *)
LEMMA ConnectionType ==
    ASSUME TypeOK
    PROVE  client \in Connections /\ Len(client.queue) <= QueueLimit
  BY DEF TypeOK, Connections, FrameSet

(* The types after a step on the hub's side.                               *)
LEMMA ConnectionStepType ==
    ASSUME IInv, ConnectionStep, client' \in Connections,
           Len(client'.queue) <= QueueLimit, sent' \in Seq(Positions),
           hubQueue' \in Seq(Gens \cup {MobileTask})
    PROVE  TypeOK'
  BY DEF IInv, TypeOK, Connections, FrameSet, ConnectionStep, store

\* A reset frame of the present epoch.
LEMMA ResetFrameType ==
    ASSUME IInv
    PROVE  ResetFrame \in FrameSet /\ ResetFrame.type = "reset" /\ ResetFrame.epoch = epoch
  BY DEF IInv, TypeOK, ResetFrame, FrameSet, ResetFrames

(* A registration that cannot resume: the mobile is told to wait for a     *)
(* keyframe, which covers everything.                                      *)
LEMMA DecidesResetStep ==
    ASSUME IInv, ConnectionStep, Owns(MobileTask), client.pc = "floor",
           hubQueue' = Tail(hubQueue), sent' = sent,
           client' = [client EXCEPT !.pc = "registered", !.phase = "reset", !.floor = 0,
                                    !.queue = Append(client.queue, ResetFrame)]
    PROVE  IInv'
<1>1. /\ StoreInv' /\ ReplicaInv'
      /\ epoch' = epoch /\ log' = log /\ kept' = kept /\ floor' = floor
      /\ source' = source /\ reader' = reader /\ mobile' = mobile /\ atRisk' = atRisk
      /\ \A g \in Gens : /\ KindAt(reader[g].cursor)' = KindAt(reader[g].cursor)
                         /\ Firm(reader[g].cursor)' <=> Firm(reader[g].cursor)
                         /\ Pends(g)' <=> Pends(g)
  BY ConnectionFacts
<1>2. client \in Connections
  BY ConnectionType DEF IInv
<1>3. sent = <<>> /\ client.queue = <<>>
  BY DEF IInv, PhaseInv
<1>4. ResetFrame \in FrameSet /\ ResetFrame.type = "reset" /\ ResetFrame.epoch = epoch
  BY ResetFrameType
<1>5. /\ client'.queue = Append(client.queue, ResetFrame)
      /\ client'.pc = "registered" /\ client'.phase = "reset"
      /\ client'.high = client.high /\ client'.last = client.last
      /\ client'.buffer = client.buffer
  BY <1>2 DEF Connections
<1>6. /\ client'.queue \in Seq(FrameSet) /\ Len(client'.queue) = 1
      /\ DOMAIN client'.queue = 1..1 /\ client'.queue[1] = ResetFrame
  <2>1. <<>> \in Seq(FrameSet) /\ Len(<<>>) = 0
    OBVIOUS
  <2>2. QED
    BY <1>3, <1>4, <1>5, <2>1
<1>7. \A i : i \in DOMAIN client'.queue <=> i = 1
  BY <1>6
<1>8. TypeOK'
  <2>1. client' \in Connections
    <3>1. Append(client.queue, ResetFrame) \in Seq(FrameSet)
      BY <1>5, <1>6
    <3>2. 0 \in 0..MaxSource
      BY RelayStreamAssumption
    <3>3. QED
      BY <1>2, <3>1, <3>2 DEF Connections
  <2>2. Len(client'.queue) <= QueueLimit
    BY <1>6, RelayStreamAssumption
  <2>3. sent' \in Seq(Positions)
    BY DEF IInv, TypeOK
  <2>4. QED
    BY <2>1, <2>2, <2>3, OwnerReleases, ConnectionStepType
<1>9. ReaderInv' /\ OrderInv'
  BY <1>1, OwnerReleases, ReadersStand DEF Ahead
<1>10. HubInv'
  <2>1. \A g \in Gens : g # MobileTask
    BY RelayStreamAssumption DEF Gens, MobileTask
  <2>2. QED
    BY <1>1, <1>5, <2>1, OwnerReleases DEF IInv, HubInv
<1>11. PhaseInv'
  BY <1>1, <1>5 DEF IInv, PhaseInv
<1>12. SentInv'
  BY <1>1, <1>3, <1>5 DEF IInv, SentInv, Increasing
<1>13. FrameInv'
  <2>1. client'.queue # <<>>
    BY <1>6
  <2>2. QED
    BY <1>1, <1>4, <1>5, <1>6, <1>7, <2>1 DEF FrameInv, IsEvent
<1>14. FloorInv' /\ CoverInv' /\ AheadInv'
  BY <1>5 DEF FloorInv, CoverInv, AheadInv, Serving
<1>15. NoFinals(client'.queue, 1, source') /\ \A c : FinalsBeyond(client'.queue, 1, c, source')
  BY <1>6, <1>7 DEF NoFinals, FinalsBeyond
<1>16. \A c : Skips(client'.queue, c, source')
  BY <1>4, <1>6, <1>7, <1>15 DEF Skips
<1>17. ResetInv'
  BY <1>4, <1>5, <1>6, <1>7, <1>15, <1>16 DEF ResetInv, Covered
<1>18. QED
  BY <1>1, <1>8, <1>9, <1>10, <1>11, <1>12, <1>13, <1>14, <1>17 DEF IInv

(* A registration that resumes at or above the floor: every event above    *)
(* the mobile's cursor is among the rows up to the high water, or a fault  *)
(* took it.                                                                *)
LEMMA DecidesReplayStep ==
    ASSUME IInv, ConnectionStep, Owns(MobileTask), client.pc = "floor",
           mobile.epoch \in {0, epoch}, ~(client.last < client.floor),
           hubQueue' = Tail(hubQueue), sent' = sent,
           client' = [client EXCEPT !.pc = "replay", !.floor = 0, !.high = HighWater]
    PROVE  IInv'
<1>1. /\ StoreInv' /\ ReplicaInv'
      /\ epoch' = epoch /\ log' = log /\ kept' = kept /\ floor' = floor
      /\ source' = source /\ reader' = reader /\ mobile' = mobile /\ atRisk' = atRisk
      /\ \A c : /\ AtRisk(c)' <=> AtRisk(c)
                /\ (Owed(c)' <=> Owed(c)) /\ (Pending(c)' <=> Pending(c))
      /\ \A g \in Gens : /\ KindAt(reader[g].cursor)' = KindAt(reader[g].cursor)
                         /\ Firm(reader[g].cursor)' <=> Firm(reader[g].cursor)
                         /\ Pends(g)' <=> Pends(g)
  BY ConnectionFacts
<1>2. client \in Connections
  BY ConnectionType DEF IInv
<1>3. /\ sent = <<>> /\ client.queue = <<>> /\ client.phase = "replaying"
      /\ client.last = mobile.applied
  BY DEF IInv, PhaseInv
<1>4. /\ client'.queue = client.queue
      /\ client'.pc = "replay" /\ client'.phase = client.phase
      /\ client'.high = HighWater /\ client'.last = client.last
      /\ client'.buffer = client.buffer
  BY <1>2 DEF Connections
<1>5. /\ HighWater \in 0..Len(log) /\ HighWater \in 0..MaxSource
      /\ \A c \in kept : c <= HighWater
  BY CursorBounds
<1>6. TypeOK'
  <2>1. client' \in Connections
    <3>1. 0 \in 0..MaxSource
      BY RelayStreamAssumption
    <3>2. QED
      BY <1>2, <1>5, <3>1 DEF Connections
  <2>2. sent' \in Seq(Positions) /\ Len(client'.queue) <= QueueLimit
    BY <1>4 DEF IInv, TypeOK
  <2>3. QED
    BY <2>1, <2>2, OwnerReleases, ConnectionStepType
<1>7. ReaderInv' /\ OrderInv'
  BY <1>1, OwnerReleases, ReadersStand DEF Ahead
<1>8. HubInv'
  <2>1. \A g \in Gens : g # MobileTask
    BY RelayStreamAssumption DEF Gens, MobileTask
  <2>2. QED
    BY <1>1, <1>4, <2>1, OwnerReleases DEF IInv, HubInv
<1>9. PhaseInv'
  <2>1. HighWater <= Len(log)
    BY <1>5, Typed DEF IInv
  <2>2. QED
    BY <1>1, <1>3, <1>4, <2>1 DEF IInv, PhaseInv
<1>10. SentInv'
  BY <1>1, <1>3, <1>4 DEF IInv, SentInv, Increasing
<1>11. FrameInv'
  BY <1>1, <1>3, <1>4 DEF FrameInv
<1>12. ASSUME NEW c \in DOMAIN log \ kept
       PROVE  AtRisk(c) \/ c <= client.last
  <2>1. c \in Nat /\ client.floor \in Nat /\ client.last \in Nat
    BY Typed DEF IInv
  <2>2. AtRisk(c) \/ c <= client.floor
    BY <1>12 DEF IInv, FloorInv
  <2>3. QED
    BY <2>1, <2>2
<1>13. FloorInv'
  BY <1>1, <1>4, <1>12 DEF FloorInv
<1>14. CoverInv'
  BY <1>1, <1>3, <1>4 DEF CoverInv, Covered
<1>15. AheadInv'
  <2> SUFFICES ASSUME NEW c \in DOMAIN log, Owed(c), client.last < c
               PROVE  c <= HighWater
      BY <1>1, <1>4 DEF AheadInv
  <2>1. c \in Nat /\ client.last \in Nat
    BY Typed DEF IInv
  <2>2. c \in kept
    BY <1>12, <2>1 DEF Owed
  <2>3. QED
    BY <1>5, <2>2
<1>16. ResetInv'
  BY <1>3, <1>4 DEF ResetInv, Resetting
<1>17. QED
  BY <1>1, <1>6, <1>7, <1>8, <1>9, <1>10, <1>11, <1>13, <1>14, <1>15, <1>16 DEF IInv

(* The registration decides whether it can resume.                         *)
LEMMA RegisterDecidesStep ==
    ASSUME IInv, RegisterDecides
    PROVE  IInv'
<1>1. /\ Owns(MobileTask) /\ client.pc = "floor" /\ hubQueue' = Tail(hubQueue)
      /\ ConnectionStep
  BY DEF RegisterDecides, ConnectionStep
<1>2. mobile.epoch \in Nat /\ epoch \in Nat
  BY Typed DEF IInv
<1>3. CASE (mobile.epoch # 0 /\ mobile.epoch # epoch) \/ client.last < client.floor
  <2>1. EnqueueReset([client EXCEPT !.pc = "registered", !.phase = "reset", !.floor = 0])
    BY <1>3 DEF RegisterDecides
  <2>2. CASE Fits(<<ResetFrame>>)
    <3>1. client' = [client EXCEPT !.pc = "registered", !.phase = "reset", !.floor = 0,
                                    !.queue = Append(client.queue, ResetFrame)]
          /\ sent' = sent
      BY <2>1, <2>2, ConnectionType DEF EnqueueReset, IInv, Connections
    <3>2. QED
      BY <1>1, <3>1, DecidesResetStep
  <2>3. CASE ~Fits(<<ResetFrame>>)
    BY <1>1, <2>1, <2>3, OwnerReleases, HubClosesStep DEF EnqueueReset, Ahead
  <2>4. QED
    BY <2>2, <2>3
<1>4. CASE ~((mobile.epoch # 0 /\ mobile.epoch # epoch) \/ client.last < client.floor)
  <2>1. client' = [client EXCEPT !.pc = "replay", !.floor = 0, !.high = HighWater]
        /\ sent' = sent
    BY <1>4 DEF RegisterDecides
  <2>2. QED
    BY <1>1, <1>4, <2>1, DecidesReplayStep
<1>5. QED
  BY <1>3, <1>4

-----------------------------------------------------------------------------
(* Events are enqueued on the mobile connection.                           *)

\* Events of the log, in order, all newer than those sent before.
Sendable(cs) ==
    /\ cs \in Seq(DOMAIN log) /\ Increasing(cs)
    /\ \A i \in DOMAIN sent : \A j \in DOMAIN cs : sent[i] < cs[j]

\* They are at the end of the queue, and sent.
Enqueued(cs) ==
    client'.queue = client.queue \o FramesOf(cs) /\ sent' = sent \o cs

(* The frames of a sequence of cursors.                                    *)
LEMMA FramesOfType ==
    ASSUME IInv, NEW cs \in Seq(DOMAIN log)
    PROVE  /\ FramesOf(cs) \in Seq(FrameSet) /\ Len(FramesOf(cs)) = Len(cs)
           /\ DOMAIN FramesOf(cs) = DOMAIN cs /\ DOMAIN cs = 1..Len(cs)
           /\ \A j \in DOMAIN cs : /\ FramesOf(cs)[j].type = "event"
                                   /\ FramesOf(cs)[j].cursor = cs[j]
                                   /\ FramesOf(cs)[j].pos = log[cs[j]]
                                   /\ FramesOf(cs)[j].epoch = epoch
                                   /\ cs[j] \in DOMAIN log
<1>1. Len(cs) \in Nat /\ DOMAIN cs = 1..Len(cs) /\ \A j \in DOMAIN cs : cs[j] \in DOMAIN log
  OBVIOUS
<1>2. \A c \in DOMAIN log : EventFrame(c) \in FrameSet
  <2>1. \A c \in DOMAIN log : c \in Positions /\ log[c] \in Positions
    BY CursorBounds, Typed DEF IInv
  <2>2. epoch \in 1..(MaxFaults + 1)
    BY DEF IInv, TypeOK
  <2>3. QED
    BY <2>1, <2>2 DEF EventFrame, FrameSet, EventFrames
<1> DEFINE r == [j \in 1..Len(cs) |-> EventFrame(cs[j])]
<1>3. r = FramesOf(cs)
  BY <1>1 DEF FramesOf
<1>4. \A j \in 1..Len(cs) : r[j] = EventFrame(cs[j]) /\ r[j] \in FrameSet
  BY <1>1, <1>2
<1>5. r \in Seq(FrameSet) /\ Len(r) = Len(cs) /\ DOMAIN r = 1..Len(cs)
  BY <1>1, <1>4
<1> HIDE DEF r
<1>6. QED
  BY <1>1, <1>3, <1>4, <1>5 DEF EventFrame

(* Two sequences, one after the other.                                     *)
LEMMA Concatenated ==
    ASSUME NEW T, NEW a \in Seq(T), NEW b \in Seq(T)
    PROVE  /\ a \o b \in Seq(T) /\ Len(a \o b) = Len(a) + Len(b)
           /\ DOMAIN a = 1..Len(a) /\ DOMAIN b = 1..Len(b) /\ Len(a) \in Nat /\ Len(b) \in Nat
           /\ \A i \in DOMAIN a : i \in DOMAIN (a \o b) /\ (a \o b)[i] = a[i]
           /\ \A j \in DOMAIN b : Len(a) + j \in DOMAIN (a \o b) /\ (a \o b)[Len(a) + j] = b[j]
           /\ \A k \in DOMAIN (a \o b) :
                \/ k \in DOMAIN a /\ (a \o b)[k] = a[k]
                \/ /\ k - Len(a) \in DOMAIN b /\ (a \o b)[k] = b[k - Len(a)]
                   /\ k > Len(a)
<1>1. /\ DOMAIN a = 1..Len(a) /\ DOMAIN b = 1..Len(b) /\ Len(a) \in Nat /\ Len(b) \in Nat
      /\ a \o b \in Seq(T) /\ Len(a \o b) = Len(a) + Len(b)
  OBVIOUS
<1>2. DOMAIN (a \o b) = 1..(Len(a) + Len(b))
  BY <1>1
<1>3. \A i \in DOMAIN a : i \in DOMAIN (a \o b) /\ (a \o b)[i] = a[i]
  BY <1>1, <1>2
<1>4. ASSUME NEW k \in DOMAIN (a \o b), k \notin DOMAIN a
      PROVE  /\ k - Len(a) \in DOMAIN b /\ (a \o b)[k] = b[k - Len(a)]
             /\ k > Len(a)
  BY <1>1, <1>2, <1>4
<1>5. ASSUME NEW j \in DOMAIN b
      PROVE  Len(a) + j \in DOMAIN (a \o b) /\ (a \o b)[Len(a) + j] = b[j]
  <2>1. Len(a) + j \in 1..(Len(a) + Len(b)) /\ (Len(a) + j) - Len(a) = j
        /\ Len(a) + j \notin DOMAIN a
    BY <1>1
  <2>2. QED
    BY <1>2, <1>4, <2>1
<1>6. QED
  BY <1>1, <1>3, <1>4, <1>5, Zenon

(* Two increasing sequences, the first below the second.                   *)
LEMMA IncreasingConcatenated ==
    ASSUME NEW T \in SUBSET Nat, NEW a \in Seq(T), NEW b \in Seq(T),
           Increasing(a), Increasing(b),
           \A i \in DOMAIN a : \A j \in DOMAIN b : a[i] < b[j]
    PROVE  Increasing(a \o b)
<1> DEFINE s == a \o b
<1>1. /\ DOMAIN a = 1..Len(a) /\ DOMAIN b = 1..Len(b) /\ Len(a) \in Nat /\ Len(b) \in Nat
      /\ \A k \in DOMAIN s :
           \/ k \in DOMAIN a /\ s[k] = a[k]
           \/ k - Len(a) \in DOMAIN b /\ s[k] = b[k - Len(a)] /\ k > Len(a)
  BY Concatenated
<1>2. \A k \in DOMAIN s : k \in Nat
  BY Concatenated
<1> HIDE DEF s
<1>3. SUFFICES ASSUME NEW i \in DOMAIN s, NEW j \in DOMAIN s, i < j
               PROVE  s[i] < s[j]
  BY DEF Increasing, s
<1>4. CASE i \in DOMAIN a /\ j \in DOMAIN a
  BY <1>1, <1>2, <1>3, <1>4 DEF Increasing
<1>5. CASE i \in DOMAIN a /\ j \notin DOMAIN a
  <2>1. s[i] = a[i]
    BY <1>1, <1>5
  <2>2. QED
    BY <1>1, <1>5, <2>1
<1>6. CASE i \notin DOMAIN a
  <2>1. /\ i - Len(a) \in DOMAIN b /\ s[i] = b[i - Len(a)] /\ i > Len(a)
    BY <1>1, <1>6
  <2>2. j \notin DOMAIN a
    BY <1>1, <1>2, <1>3, <2>1
  <2>3. j - Len(a) \in DOMAIN b /\ s[j] = b[j - Len(a)]
    BY <1>1, <2>2
  <2>4. i - Len(a) < j - Len(a)
    BY <1>1, <1>2, <1>3
  <2>5. QED
    BY <2>1, <2>3, <2>4 DEF Increasing
<1>7. QED
  BY <1>4, <1>5, <1>6

\* The queue's frames are events sent in order, or resets.
QueueInOrder ==
    /\ \A i \in DOMAIN client.queue : client.queue[i].epoch = epoch
    /\ \A i \in DOMAIN client.queue : IsEvent(client.queue[i]) =>
         /\ client.queue[i].cursor \in DOMAIN log
         /\ client.queue[i].pos = log[client.queue[i].cursor]
         /\ \E k \in DOMAIN sent : sent[k] = client.queue[i].cursor
    /\ \A i, j \in DOMAIN client.queue :
         i < j /\ IsEvent(client.queue[i]) /\ IsEvent(client.queue[j])
         => client.queue[i].cursor < client.queue[j].cursor

(* What enqueueing events keeps and adds.                                  *)
LEMMA EnqueuedFacts ==
    ASSUME IInv, NEW cs, Sendable(cs), Enqueued(cs),
           log' = log, epoch' = epoch, source' = source, mobile' = mobile
    PROVE  /\ client'.queue \in Seq(FrameSet) /\ QueueInOrder'
           /\ sent' \in Seq(Positions) /\ Increasing(sent')
           /\ \A i \in DOMAIN sent' : \/ \E k \in DOMAIN sent : sent'[i] = sent[k]
                                      \/ \E j \in DOMAIN cs : sent'[i] = cs[j]
           /\ \A j \in DOMAIN cs : Sends(client'.queue, cs[j])
           /\ \A c \in Nat :
                Covered(c, client.queue, mobile, source) /\ (\A j \in DOMAIN cs : c < cs[j])
                => Covered(c, client'.queue, mobile', source')
           /\ client.queue # <<>> => client'.queue # <<>> /\ client'.queue[1] = client.queue[1]
           /\ Len(client'.queue) = Len(client.queue) + Len(cs)
<1> DEFINE q == client.queue
           r == FramesOf(cs)
           t == q \o r
<1>1. /\ r \in Seq(FrameSet) /\ Len(r) = Len(cs) /\ DOMAIN r = DOMAIN cs
      /\ DOMAIN cs = 1..Len(cs)
      /\ \A j \in DOMAIN cs : /\ r[j].type = "event" /\ r[j].cursor = cs[j]
                              /\ r[j].pos = log[cs[j]] /\ r[j].epoch = epoch
                              /\ cs[j] \in DOMAIN log
  BY FramesOfType DEF Sendable
<1>2. /\ q \in Seq(FrameSet) /\ DOMAIN q = 1..Len(q) /\ Len(q) \in Nat
      /\ sent \in Seq(Positions) /\ \A i \in DOMAIN sent : sent[i] \in Nat
      /\ DOMAIN log = 1..Len(log) /\ Len(log) \in Nat
  BY Typed DEF IInv
<1>3. client'.queue = t /\ sent' = sent \o cs
  BY DEF Enqueued
<1> HIDE DEF q, r
<1>4. /\ t \in Seq(FrameSet) /\ Len(t) = Len(q) + Len(r)
      /\ \A i \in DOMAIN q : i \in DOMAIN t /\ t[i] = q[i]
      /\ \A j \in DOMAIN r : Len(q) + j \in DOMAIN t /\ t[Len(q) + j] = r[j]
      /\ \A k \in DOMAIN t :
           \/ k \in DOMAIN q /\ t[k] = q[k]
           \/ /\ k - Len(q) \in DOMAIN r /\ t[k] = r[k - Len(q)]
              /\ k > Len(q)
  <2>1. q \in Seq(FrameSet)
    BY <1>2
  <2>2. r \in Seq(FrameSet)
    BY <1>1
  <2>3. QED
    BY <2>1, <2>2, Concatenated
<1> HIDE DEF t
<1>5. cs \in Seq(DOMAIN log) /\ Increasing(cs)
      /\ \A i \in DOMAIN sent : \A j \in DOMAIN cs : sent[i] < cs[j]
  BY DEF Sendable
<1>6. /\ sent \in Seq(DOMAIN log) /\ Increasing(sent)
  <2>1. \A i \in DOMAIN sent : sent[i] \in DOMAIN log
    BY DEF IInv, SentInv
  <2>2. QED
    BY <1>2, <2>1 DEF IInv, SentInv
<1>7. DOMAIN log \in SUBSET Nat /\ DOMAIN log \subseteq Positions
  BY <1>2, CursorBounds
<1>8. sent' \in Seq(DOMAIN log) /\ Increasing(sent')
  BY <1>3, <1>5, <1>6, <1>7, Concatenated, IncreasingConcatenated
<1>9. sent' \in Seq(Positions)
  BY <1>7, <1>8
<1>10. /\ \A i \in DOMAIN sent : i \in DOMAIN sent' /\ sent'[i] = sent[i]
       /\ \A j \in DOMAIN cs : Len(sent) + j \in DOMAIN sent' /\ sent'[Len(sent) + j] = cs[j]
       /\ \A k \in DOMAIN sent' :
            \/ k \in DOMAIN sent /\ sent'[k] = sent[k]
            \/ k - Len(sent) \in DOMAIN cs /\ sent'[k] = cs[k - Len(sent)]
  BY <1>3, <1>5, <1>6, Concatenated
<1>11. \A i \in DOMAIN sent' : \/ \E k \in DOMAIN sent : sent'[i] = sent[k]
                               \/ \E j \in DOMAIN cs : sent'[i] = cs[j]
  BY <1>10
<1>12. \A j \in DOMAIN cs : Sends(t, cs[j])
  <2> SUFFICES ASSUME NEW j \in DOMAIN cs
               PROVE  Sends(t, cs[j])
      OBVIOUS
  <2>1. PICK i : i = Len(q) + j
    OBVIOUS
  <2>2. i \in DOMAIN t /\ t[i] = r[j] /\ r[j].type = "event" /\ r[j].cursor = cs[j]
    BY <1>1, <1>4, <2>1
  <2>3. QED
    BY <2>2 DEF Sends, IsEvent
<1>13. QueueInOrder'
  <2>1. ASSUME NEW i \in DOMAIN t
        PROVE  /\ t[i].epoch = epoch
               /\ IsEvent(t[i]) => /\ t[i].cursor \in DOMAIN log
                                   /\ t[i].pos = log[t[i].cursor]
                                   /\ \E k \in DOMAIN sent' : sent'[k] = t[i].cursor
    <3>1. CASE i \in DOMAIN q /\ t[i] = q[i]
      <4>1. /\ q[i].epoch = epoch
            /\ IsEvent(q[i]) => /\ q[i].cursor \in DOMAIN log
                                /\ q[i].pos = log[q[i].cursor]
                                /\ \E k \in DOMAIN sent : sent[k] = q[i].cursor
        BY <3>1 DEF IInv, FrameInv, q
      <4>2. QED
        BY <1>10, <3>1, <4>1
    <3>2. CASE i - Len(q) \in DOMAIN r /\ t[i] = r[i - Len(q)]
      BY <1>1, <1>10, <3>2
    <3>3. QED
      BY <1>4, <3>1, <3>2
  <2>2. ASSUME NEW i \in DOMAIN t, NEW j \in DOMAIN t, i < j, IsEvent(t[i]), IsEvent(t[j])
        PROVE  t[i].cursor < t[j].cursor
    <3>1. i \in Nat /\ j \in Nat
      BY <1>4
    <3>2. CASE j \in DOMAIN q /\ t[j] = q[j]
      <4>1. i \in DOMAIN q /\ t[i] = q[i]
        BY <1>2, <1>4, <2>2, <3>1, <3>2
      <4>2. QED
        BY <2>2, <3>2, <4>1 DEF IInv, FrameInv, q
    <3>3. CASE j - Len(q) \in DOMAIN r /\ t[j] = r[j - Len(q)] /\ j > Len(q)
      <4>1. t[j].cursor = cs[j - Len(q)] /\ j - Len(q) \in DOMAIN cs
        BY <1>1, <3>3
      <4>2. CASE i \in DOMAIN q /\ t[i] = q[i]
        <5>1. PICK k \in DOMAIN sent : sent[k] = q[i].cursor
          BY <2>2, <4>2 DEF IInv, FrameInv, q
        <5>2. sent[k] < cs[j - Len(q)]
          BY <1>5, <4>1
        <5>3. QED
          BY <4>1, <4>2, <5>1, <5>2
      <4>3. CASE i - Len(q) \in DOMAIN r /\ t[i] = r[i - Len(q)]
        <5>1. t[i].cursor = cs[i - Len(q)] /\ i - Len(q) \in DOMAIN cs
          BY <1>1, <4>3
        <5>2. i - Len(q) < j - Len(q)
          BY <1>2, <2>2, <3>1
        <5>3. cs[i - Len(q)] < cs[j - Len(q)]
          BY <1>5, <4>1, <5>1, <5>2 DEF Increasing
        <5>4. QED
          BY <4>1, <5>1, <5>3
      <4>4. QED
        BY <1>4, <4>2, <4>3
    <3>4. QED
      BY <1>4, <3>2, <3>3
  <2>3. QED
    BY <1>3, <2>1, <2>2 DEF QueueInOrder
<1>14. ASSUME NEW c \in Nat, Covered(c, q, mobile, source), \A j \in DOMAIN cs : c < cs[j]
       PROVE  Covered(c, t, mobile, source)
  <2>1. \A j \in DOMAIN r : IsEvent(r[j]) => c < r[j].cursor
    BY <1>1, <1>14
  <2>2. QED
    BY <1>1, <1>2, <1>14, <2>1, CoveredExtended DEF t
<1>15. q # <<>> => t # <<>> /\ t[1] = q[1]
  <2>1. q # <<>> => 1 \in DOMAIN q
    BY <1>2
  <2>2. q # <<>> => 1 \in DOMAIN t /\ t[1] = q[1]
    BY <1>4, <2>1
  <2>3. QED
    BY <2>2
<1>16. QED
  BY <1>1, <1>3, <1>4, <1>8, <1>9, <1>11, <1>12, <1>13, <1>14, <1>15 DEF q

(* A set of cursors above the last one, in order, can be sent.             *)
LEMMA SelectionSendable ==
    ASSUME IInv, NEW S \in SUBSET (DOMAIN log), \A c \in S : client.last < c
    PROVE  /\ Sendable(InOrder(S)) /\ InOrder(S) \in Seq(DOMAIN log)
           /\ \A j \in DOMAIN InOrder(S) : InOrder(S)[j] \in S
           /\ \A c \in S : \E j \in DOMAIN InOrder(S) : InOrder(S)[j] = c
           /\ ToSet(InOrder(S)) = S
           /\ Len(InOrder(S)) \in Nat /\ DOMAIN InOrder(S) = 1..Len(InOrder(S))
<1> DEFINE s == InOrder(S)
<1>1. Len(log) \in Nat /\ S \in SUBSET (1..Len(log))
  BY Typed DEF IInv
<1>2. s \in Seq(S) /\ Increasing(s) /\ \A c \in S : \E j \in DOMAIN s : s[j] = c
  BY <1>1, InOrderSorts
<1> HIDE DEF s
<1>3. /\ \A j \in DOMAIN s : s[j] \in S
      /\ Len(s) \in Nat /\ DOMAIN s = 1..Len(s)
  BY <1>2
<1>4. s \in Seq(DOMAIN log)
  BY <1>2, <1>3
<1>5. ToSet(s) = S
  BY <1>2, <1>3 DEF ToSet
<1>6. ASSUME NEW i \in DOMAIN sent, NEW j \in DOMAIN s
      PROVE  sent[i] < s[j]
  <2>1. sent[i] <= client.last /\ client.last < s[j]
    BY <1>3 DEF IInv, SentInv
  <2>2. sent[i] \in Nat /\ client.last \in Nat /\ s[j] \in Nat
    BY <1>1, <1>3, Typed DEF IInv
  <2>3. QED
    BY <2>1, <2>2
<1>7. QED
  BY <1>2, <1>3, <1>4, <1>5, <1>6 DEF Sendable, s

(* The rows up to the high water are read and enqueued.                    *)
LEMMA ReplaysStep ==
    ASSUME IInv, ConnectionStep, client.pc = "replay", Fits(Replayed),
           client' = [client EXCEPT !.pc = "drain", !.high = 0,
                                    !.last = Max({client.last} \cup ToSet(Replayed)),
                                    !.queue = client.queue \o FramesOf(Replayed)],
           sent' = sent \o Replayed,
           hubQueue' = Append(hubQueue, MobileTask)
    PROVE  IInv'
<1> DEFINE S == {c \in kept : client.last < c /\ c <= client.high}
           cs == Replayed
           m == Max({client.last} \cup S)
<1>1. /\ StoreInv' /\ ReplicaInv'
      /\ \A c : /\ (AtRisk(c)' <=> AtRisk(c))
                /\ (Owed(c)' <=> Owed(c)) /\ (Pending(c)' <=> Pending(c))
      /\ \A g \in Gens : /\ KindAt(reader[g].cursor)' = KindAt(reader[g].cursor)
                         /\ Firm(reader[g].cursor)' <=> Firm(reader[g].cursor)
                         /\ Pends(g)' <=> Pends(g)
      /\ epoch' = epoch /\ log' = log /\ kept' = kept /\ floor' = floor
      /\ source' = source /\ reader' = reader /\ mobile' = mobile
      /\ atRisk' = atRisk
  BY ConnectionFacts
<1>2. /\ Len(log) \in Nat /\ DOMAIN log = 1..Len(log) /\ \A c \in DOMAIN log : c \in Nat
      /\ client.last \in Nat /\ client.high \in Nat /\ client.queue \in Seq(FrameSet)
      /\ Len(client.queue) \in Nat /\ mobile.applied \in Nat
  BY Typed DEF IInv
<1>3. S \in SUBSET (DOMAIN log) /\ \A c \in S : client.last < c /\ c <= client.high
  BY DEF IInv, TypeOK
<1>4. cs = InOrder(S)
  BY DEF Replayed
<1>5. /\ Sendable(cs) /\ cs \in Seq(DOMAIN log)
      /\ \A j \in DOMAIN cs : cs[j] \in S
      /\ \A c \in S : \E j \in DOMAIN cs : cs[j] = c
      /\ ToSet(cs) = S /\ Len(cs) \in Nat
  <2> HIDE DEF S, cs
  <2>1. QED
    BY <1>3, <1>4, SelectionSendable
<1>6. client \in Connections
  BY ConnectionType DEF IInv
<1>7. /\ client'.queue = client.queue \o FramesOf(cs)
      /\ client'.pc = "drain" /\ client'.phase = client.phase /\ client'.high = 0
      /\ client'.last = m /\ client'.buffer = client.buffer
  BY <1>5, <1>6 DEF Connections
<1>8. \A c \in kept : client.last < c /\ c <= client.high <=> c \in S
  OBVIOUS
<1>9. /\ m \in {client.last} \cup S /\ client.last <= m /\ \A c \in S : c <= m
      /\ m \in Nat /\ m \in 0..MaxSource
  <2> HIDE DEF S
  <2>1. client.last \in 0..MaxSource
    BY DEF IInv, TypeOK
  <2>2. {client.last} \cup S \in SUBSET (0..MaxSource) /\ MaxSource \in Nat
    BY <1>3, <2>1, CursorBounds, RelayStreamAssumption
  <2>3. m \in {client.last} \cup S /\ \A c \in {client.last} \cup S : c <= m
    BY <2>2, MaxIsGreatest
  <2> HIDE DEF m
  <2>4. m \in 0..MaxSource /\ 0..MaxSource \subseteq Nat
    BY <2>2, <2>3
  <2>5. QED
    BY <2>3, <2>4
<1> HIDE DEF S, cs, m
<1>10. Enqueued(cs)
  BY <1>7 DEF Enqueued, cs
<1>11. /\ client'.queue \in Seq(FrameSet) /\ QueueInOrder'
       /\ sent' \in Seq(Positions) /\ Increasing(sent')
       /\ \A i \in DOMAIN sent' : \/ \E k \in DOMAIN sent : sent'[i] = sent[k]
                                  \/ \E j \in DOMAIN cs : sent'[i] = cs[j]
       /\ \A j \in DOMAIN cs : Sends(client'.queue, cs[j])
       /\ \A c \in Nat :
            Covered(c, client.queue, mobile, source) /\ (\A j \in DOMAIN cs : c < cs[j])
            => Covered(c, client'.queue, mobile', source')
       /\ client.queue # <<>> => client'.queue # <<>> /\ client'.queue[1] = client.queue[1]
       /\ Len(client'.queue) = Len(client.queue) + Len(cs)
  BY <1>1, <1>5, <1>10, EnqueuedFacts
<1>12. TypeOK'
  <2>1. client' \in Connections
    <3>1. client' = [client EXCEPT !.pc = "drain", !.high = 0, !.last = m,
                                   !.queue = client'.queue]
      BY <1>5, <1>7 DEF cs, m
    <3>2. 0 \in 0..MaxSource
      BY RelayStreamAssumption
    <3>3. QED
      BY <1>6, <1>9, <1>11, <3>1, <3>2 DEF Connections
  <2>2. Len(client'.queue) <= QueueLimit
    BY <1>11 DEF Fits, cs
  <2>3. hubQueue' \in Seq(Gens \cup {MobileTask})
    BY DEF IInv, TypeOK
  <2>4. QED
    BY <1>11, <2>1, <2>2, <2>3, ConnectionStepType
<1>13. \A g \in Gens : g # MobileTask
  BY RelayStreamAssumption DEF Gens, MobileTask
<1>14. /\ hubQueue' \in Seq(Gens \cup {MobileTask}) /\ Once(hubQueue')
       /\ ToSet(hubQueue') = ToSet(hubQueue) \cup {MobileTask}
       /\ \A g, h \in Gens : Ahead(g, h)' => Ahead(g, h)
  <2>1. MobileTask \notin ToSet(hubQueue)
    BY DEF IInv, HubInv
  <2>2. hubQueue \in Seq(Gens \cup {MobileTask}) /\ Once(hubQueue)
    BY DEF IInv, TypeOK, HubInv
  <2>3. QED
    BY <1>13, <2>1, <2>2, AppendQueue DEF Ahead
<1>15. ReaderInv' /\ OrderInv'
  BY <1>1, <1>14, ReadersStand
<1>16. HubInv'
  BY <1>1, <1>7, <1>13, <1>14 DEF IInv, HubInv
<1>17. PhaseInv'
  <2>1. m <= mobile.applied \/ m \in DOMAIN log
    BY <1>3, <1>9 DEF IInv, PhaseInv
  <2>2. client.phase # "new" /\ client.buffer \subseteq DOMAIN log
        /\ (client.phase = "live" => client.buffer = {})
    BY DEF IInv, PhaseInv
  <2>3. QED
    BY <1>1, <1>2, <1>7, <2>1, <2>2 DEF PhaseInv
<1>18. SentInv'
  <2>1. ASSUME NEW i \in DOMAIN sent'
        PROVE  sent'[i] \in DOMAIN log /\ sent'[i] <= m
    <3>1. CASE \E k \in DOMAIN sent : sent'[i] = sent[k]
      <4>1. PICK k \in DOMAIN sent : sent'[i] = sent[k]
        BY <3>1
      <4>2. sent[k] \in DOMAIN log /\ sent[k] <= client.last /\ sent[k] \in Nat
        BY <1>2 DEF IInv, SentInv
      <4>3. QED
        BY <1>2, <1>9, <4>1, <4>2
    <3>2. CASE \E j \in DOMAIN cs : sent'[i] = cs[j]
      BY <1>3, <1>5, <1>9, <3>2
    <3>3. QED
      BY <1>11, <3>1, <3>2
  <2>2. ASSUME NEW g \in Gens, Pends(g), KindAt(reader[g].cursor) # "terminal",
               client.phase = "reset", NEW i \in DOMAIN sent'
        PROVE  sent'[i] < reader[g].cursor
    <3>1. /\ \A k \in DOMAIN sent : sent[k] < reader[g].cursor
          /\ client.high < reader[g].cursor
      BY <2>2 DEF IInv, SentInv
    <3>2. reader[g].cursor \in Nat
      BY Typed DEF IInv
    <3>3. \A j \in DOMAIN cs : cs[j] < reader[g].cursor
      <4>1. \A c \in S : c <= client.high /\ c \in Nat
        BY <1>2, <1>3
      <4>2. client.high \in Nat
        BY <1>2
      <4>3. \A c \in S : c < reader[g].cursor
        BY <3>1, <3>2, <4>1, <4>2
      <4>4. QED
        BY <1>5, <4>3
    <3>4. QED
      BY <1>11, <3>1, <3>3
  <2>3. \A g \in Gens : Pends(g)' /\ Firm(reader[g].cursor)' =>
          \A b \in client'.buffer : b < reader'[g].cursor
    BY <1>1, <1>7 DEF IInv, SentInv
  <2>4. QED
    BY <1>1, <1>7, <1>11, <2>1, <2>2, <2>3 DEF SentInv
<1>19. FrameInv'
  <2>1. \/ mobile.epoch \in {0, epoch}
        \/ client.queue # <<>> /\ client.queue[1].type = "reset"
    BY DEF IInv, FrameInv
  <2>2. \/ mobile'.epoch \in {0, epoch'}
        \/ client'.queue # <<>> /\ client'.queue[1].type = "reset"
    BY <1>1, <1>11, <2>1
  <2>3. QED
    BY <1>11, <2>2 DEF FrameInv, QueueInOrder
<1>20. FloorInv'
  BY <1>7 DEF FloorInv
<1>21. Serving
  BY DEF Serving
<1>22. ASSUME NEW c \in DOMAIN log, Owed(c), client.last < c, c <= client.high
       PROVE  c \in S
  <2>1. c \in kept
    <3> SUFFICES ASSUME c \notin kept
                 PROVE  FALSE
        OBVIOUS
    <3>1. AtRisk(c) \/ c <= client.last \/ client.high < c
      BY DEF IInv, FloorInv
    <3>2. QED
      BY <1>2, <1>22, <3>1 DEF Owed
  <2>2. QED
    BY <1>22, <2>1 DEF S
<1>23. CoverInv'
  <2> SUFFICES ASSUME NEW c \in DOMAIN log, Owed(c), c <= m
               PROVE  Covered(c, client'.queue, mobile', source')
      BY <1>1, <1>7 DEF CoverInv
  <2>1. CASE c <= client.last
    <3>1. Covered(c, client.queue, mobile, source)
      BY <1>21, <2>1 DEF IInv, CoverInv
    <3>2. \A j \in DOMAIN cs : c < cs[j]
      BY <1>2, <1>3, <1>5, <2>1
    <3>3. QED
      BY <1>2, <1>11, <3>1, <3>2
  <2>2. CASE client.last < c
    <3>1. m \in S
      BY <1>2, <1>9, <2>2
    <3>2. c <= client.high
      BY <1>2, <1>3, <3>1
    <3>3. c \in S
      BY <1>22, <2>2, <3>2
    <3>4. Sends(client'.queue, c)
      BY <1>5, <1>11, <3>3
    <3>5. QED
      BY <3>4 DEF Covered
  <2>3. QED
    BY <1>2, <2>1, <2>2
<1>24. AheadInv'
  <2> SUFFICES ASSUME NEW c \in DOMAIN log, Owed(c), m < c
               PROVE  Pending(c) \/ c \in client.buffer
      BY <1>1, <1>7 DEF AheadInv
  <2>1. client.last < c
    BY <1>2, <1>9
  <2>2. ~(c <= client.high)
    <3>1. c \notin S
      BY <1>2, <1>9
    <3>2. QED
      BY <1>22, <2>1, <3>1
  <2>3. QED
    BY <1>21, <2>1, <2>2 DEF IInv, AheadInv
<1>25. ResetInv'
  BY <1>1, <1>7 DEF IInv, ResetInv, Resetting
<1>26. QED
  BY <1>1, <1>12, <1>15, <1>16, <1>17, <1>18, <1>19, <1>20, <1>23, <1>24, <1>25 DEF IInv

(* The registration replays, or its connection is too slow.                *)
LEMMA RegisterReplaysStep ==
    ASSUME IInv, RegisterReplays
    PROVE  IInv'
<1>1. /\ client.pc = "replay" /\ ConnectionStep
      /\ Enqueue(Replayed, [client EXCEPT !.pc = "drain", !.high = 0,
                                          !.last = Max({@} \cup ToSet(Replayed))])
      /\ hubQueue' = IF Fits(Replayed) THEN Append(hubQueue, MobileTask) ELSE hubQueue
  BY DEF RegisterReplays, ConnectionStep
<1>2. CASE Fits(Replayed)
  <2>1. client' = [client EXCEPT !.pc = "drain", !.high = 0,
                                 !.last = Max({client.last} \cup ToSet(Replayed)),
                                 !.queue = client.queue \o FramesOf(Replayed)]
        /\ sent' = sent \o Replayed
    BY <1>1, <1>2, ConnectionType DEF Enqueue, IInv, Connections
  <2>2. QED
    BY <1>1, <1>2, <2>1, ReplaysStep
<1>3. CASE ~Fits(Replayed)
  <2>1. client' = NoClient /\ sent' = <<>> /\ hubQueue' = hubQueue
    BY <1>1, <1>3 DEF Enqueue
  <2>2. MobileTask \notin ToSet(hubQueue)
    BY <1>1 DEF IInv, HubInv
  <2>3. ToSet(hubQueue') = ToSet(hubQueue) \ {MobileTask} /\ Once(hubQueue')
        /\ hubQueue' \in Seq(Gens \cup {MobileTask})
        /\ \A g, h \in Gens : Ahead(g, h)' => Ahead(g, h)
    BY <2>1, <2>2 DEF IInv, HubInv, TypeOK, Ahead
  <2>4. QED
    BY <1>1, <2>1, <2>3, HubClosesStep
<1>4. QED
  BY <1>2, <1>3

(* The buffered events above the last one are enqueued, and the connection *)
(* goes live: an event that is still pending is newer than the buffer.     *)
LEMMA DrainsStep ==
    ASSUME IInv, ConnectionStep, client.pc = "drain", Owns(MobileTask), Fits(Drained),
           client' = [client EXCEPT !.pc = "registered", !.phase = "live", !.buffer = {},
                                    !.last = IF Drained = <<>> THEN client.last
                                             ELSE Last(Drained),
                                    !.queue = client.queue \o FramesOf(Drained)],
           sent' = sent \o Drained,
           hubQueue' = Tail(hubQueue)
    PROVE  IInv'
<1> DEFINE S == {c \in client.buffer : client.last < c}
           cs == Drained
           m == IF cs = <<>> THEN client.last ELSE Last(cs)
<1>1. /\ StoreInv' /\ ReplicaInv'
      /\ \A c : /\ (AtRisk(c)' <=> AtRisk(c))
                /\ (Owed(c)' <=> Owed(c)) /\ (Pending(c)' <=> Pending(c))
      /\ \A g \in Gens : /\ KindAt(reader[g].cursor)' = KindAt(reader[g].cursor)
                         /\ Firm(reader[g].cursor)' <=> Firm(reader[g].cursor)
                         /\ Pends(g)' <=> Pends(g)
      /\ epoch' = epoch /\ log' = log /\ kept' = kept /\ floor' = floor
      /\ source' = source /\ reader' = reader /\ mobile' = mobile
      /\ atRisk' = atRisk
  BY ConnectionFacts
<1>2. /\ Len(log) \in Nat /\ DOMAIN log = 1..Len(log) /\ \A c \in DOMAIN log : c \in Nat
      /\ client.last \in Nat /\ client.high \in Nat /\ client.queue \in Seq(FrameSet)
      /\ Len(client.queue) \in Nat /\ mobile.applied \in Nat
  BY Typed DEF IInv
<1>3. S \in SUBSET (DOMAIN log) /\ \A c \in S : client.last < c
  BY DEF IInv, PhaseInv
<1>4. cs = InOrder(S)
  BY DEF Drained
<1>5. /\ Sendable(cs) /\ cs \in Seq(DOMAIN log)
      /\ \A j \in DOMAIN cs : cs[j] \in S
      /\ \A c \in S : \E j \in DOMAIN cs : cs[j] = c
      /\ ToSet(cs) = S /\ Len(cs) \in Nat
  <2> HIDE DEF S, cs
  <2>1. QED
    BY <1>3, <1>4, SelectionSendable
<1>6. client \in Connections
  BY ConnectionType DEF IInv
<1>7. /\ client'.queue = client.queue \o FramesOf(cs)
      /\ client'.pc = "registered" /\ client'.phase = "live" /\ client'.high = client.high
      /\ client'.last = m /\ client'.buffer = {}
  BY <1>5, <1>6 DEF Connections
<1>8. \A c \in client.buffer : client.last < c <=> c \in S
  OBVIOUS
<1>9. /\ m \in {client.last} \cup S /\ client.last <= m /\ \A c \in S : c <= m
      /\ m \in Nat /\ m \in 0..MaxSource
  <2> HIDE DEF S, cs
  <2>1. client.last \in 0..MaxSource
    BY DEF IInv, TypeOK
  <2>2. CASE cs = <<>>
    <3>1. S = {}
      BY <1>5, <2>2
    <3>2. QED
      BY <1>2, <2>1, <2>2, <3>1
  <2>3. CASE cs # <<>>
    <3>1. DOMAIN cs = 1..Len(cs) /\ Len(cs) \in DOMAIN cs /\ m = cs[Len(cs)]
      BY <1>5, <2>3 DEF Last
    <3>2. m \in S
      BY <1>5, <3>1
    <3>3. m \in DOMAIN log /\ m \in Nat /\ client.last < m
      BY <1>2, <1>3, <3>2
    <3>4. ASSUME NEW c \in S
          PROVE  c <= m
      <4>1. PICK j \in DOMAIN cs : cs[j] = c
        BY <1>5
      <4>2. c \in Nat
        BY <1>2, <1>3
      <4>3. CASE j = Len(cs)
        BY <3>1, <3>3, <4>1, <4>3
      <4>4. CASE j < Len(cs)
        BY <1>5, <3>1, <3>3, <4>1, <4>2, <4>4 DEF Sendable, Increasing
      <4>5. QED
        BY <1>5, <3>1, <4>3, <4>4
    <3>5. m \in 0..MaxSource
      BY <3>3, CursorBounds
    <3>6. QED
      BY <1>2, <3>2, <3>3, <3>4, <3>5
  <2>4. QED
    BY <2>2, <2>3
<1> HIDE DEF S, cs, m
<1>10. Enqueued(cs)
  BY <1>7 DEF Enqueued, cs
<1>11. /\ client'.queue \in Seq(FrameSet) /\ QueueInOrder'
       /\ sent' \in Seq(Positions) /\ Increasing(sent')
       /\ \A i \in DOMAIN sent' : \/ \E k \in DOMAIN sent : sent'[i] = sent[k]
                                  \/ \E j \in DOMAIN cs : sent'[i] = cs[j]
       /\ \A j \in DOMAIN cs : Sends(client'.queue, cs[j])
       /\ \A c \in Nat :
            Covered(c, client.queue, mobile, source) /\ (\A j \in DOMAIN cs : c < cs[j])
            => Covered(c, client'.queue, mobile', source')
       /\ client.queue # <<>> => client'.queue # <<>> /\ client'.queue[1] = client.queue[1]
       /\ Len(client'.queue) = Len(client.queue) + Len(cs)
  BY <1>1, <1>5, <1>10, EnqueuedFacts
<1>12. TypeOK'
  <2>1. client' \in Connections
    <3>1. client' = [client EXCEPT !.pc = "registered", !.phase = "live", !.buffer = {},
                                   !.last = m, !.queue = client'.queue]
      BY <1>5, <1>7 DEF cs, m
    <3>2. QED
      BY <1>6, <1>9, <1>11, <3>1 DEF Connections
  <2>2. Len(client'.queue) <= QueueLimit
    BY <1>11 DEF Fits, cs
  <2>3. hubQueue' \in Seq(Gens \cup {MobileTask})
    BY OwnerReleases
  <2>4. QED
    BY <1>11, <2>1, <2>2, <2>3, ConnectionStepType
<1>13. \A g \in Gens : g # MobileTask
  BY RelayStreamAssumption DEF Gens, MobileTask
<1>14. /\ Once(hubQueue') /\ ToSet(hubQueue') = ToSet(hubQueue) \ {MobileTask}
       /\ \A g, h \in Gens : Ahead(g, h)' => Ahead(g, h)
  BY OwnerReleases DEF Ahead
<1>15. ReaderInv' /\ OrderInv'
  BY <1>1, <1>14, ReadersStand
<1>16. HubInv'
  BY <1>1, <1>7, <1>13, <1>14 DEF IInv, HubInv
<1>17. PhaseInv'
  <2>1. m <= mobile.applied \/ m \in DOMAIN log
    BY <1>3, <1>9 DEF IInv, PhaseInv
  <2>2. QED
    BY <1>1, <1>2, <1>7, <2>1 DEF IInv, PhaseInv
<1>18. SentInv'
  <2>1. ASSUME NEW i \in DOMAIN sent'
        PROVE  sent'[i] \in DOMAIN log /\ sent'[i] <= m
    <3>1. CASE \E k \in DOMAIN sent : sent'[i] = sent[k]
      <4>1. PICK k \in DOMAIN sent : sent'[i] = sent[k]
        BY <3>1
      <4>2. sent[k] \in DOMAIN log /\ sent[k] <= client.last /\ sent[k] \in Nat
        BY <1>2 DEF IInv, SentInv
      <4>3. QED
        BY <1>2, <1>9, <4>1, <4>2
    <3>2. CASE \E j \in DOMAIN cs : sent'[i] = cs[j]
      BY <1>3, <1>5, <1>9, <3>2
    <3>3. QED
      BY <1>11, <3>1, <3>2
  <2>2. QED
    BY <1>1, <1>7, <1>11, <2>1 DEF SentInv
<1>19. FrameInv'
  <2>1. \/ mobile.epoch \in {0, epoch}
        \/ client.queue # <<>> /\ client.queue[1].type = "reset"
    BY DEF IInv, FrameInv
  <2>2. \/ mobile'.epoch \in {0, epoch'}
        \/ client'.queue # <<>> /\ client'.queue[1].type = "reset"
    BY <1>1, <1>11, <2>1
  <2>3. QED
    BY <1>11, <2>2 DEF FrameInv, QueueInOrder
<1>20. FloorInv'
  BY <1>7 DEF FloorInv
<1>21. Serving
  BY DEF Serving
<1>22. ASSUME NEW c \in DOMAIN log, Owed(c), client.last < c, Pending(c)
       PROVE  m < c
  <2>1. PICK g \in Gens : Pends(g) /\ reader[g].cursor = c
    BY <1>22 DEF Pending
  <2>2. Firm(reader[g].cursor)
    BY <1>22, <2>1 DEF Owed, Firm, AtRisk, KindAt
  <2>3. \A b \in client.buffer : b < c
    BY <2>1, <2>2 DEF IInv, SentInv
  <2>4. QED
    BY <1>9, <1>22, <2>3 DEF S
<1>23. CoverInv'
  <2> SUFFICES ASSUME NEW c \in DOMAIN log, Owed(c), c <= m
               PROVE  Covered(c, client'.queue, mobile', source')
      BY <1>1, <1>7 DEF CoverInv
  <2>1. CASE c <= client.last
    <3>1. Covered(c, client.queue, mobile, source)
      BY <1>21, <2>1 DEF IInv, CoverInv
    <3>2. \A j \in DOMAIN cs : c < cs[j]
      BY <1>2, <1>3, <1>5, <2>1
    <3>3. QED
      BY <1>2, <1>11, <3>1, <3>2
  <2>2. CASE client.last < c
    <3>1. ~Pending(c)
      BY <1>2, <1>9, <1>22, <2>2
    <3>2. c \in client.buffer
      BY <1>21, <2>2, <3>1 DEF IInv, AheadInv
    <3>3. c \in S
      BY <1>8, <2>2, <3>2
    <3>4. Sends(client'.queue, c)
      BY <1>5, <1>11, <3>3
    <3>5. QED
      BY <3>4 DEF Covered
  <2>3. QED
    BY <1>2, <2>1, <2>2
<1>24. AheadInv'
  <2> SUFFICES ASSUME NEW c \in DOMAIN log, Owed(c), m < c
               PROVE  Pending(c)
      BY <1>1, <1>7 DEF AheadInv
  <2>1. client.last < c
    BY <1>2, <1>9
  <2>2. c \notin client.buffer
    BY <1>2, <1>8, <1>9, <2>1
  <2>3. QED
    BY <1>21, <2>1, <2>2 DEF IInv, AheadInv
<1>25. ResetInv'
  BY <1>7 DEF ResetInv, Resetting
<1>26. QED
  BY <1>1, <1>12, <1>15, <1>16, <1>17, <1>18, <1>19, <1>20, <1>23, <1>24, <1>25 DEF IInv

(* The registration ends, or its connection is too slow.                   *)
LEMMA RegisterDrainsStep ==
    ASSUME IInv, RegisterDrains
    PROVE  IInv'
<1>1. /\ client.pc = "drain" /\ Owns(MobileTask) /\ ConnectionStep
      /\ Enqueue(Drained, [client EXCEPT !.pc = "registered", !.phase = "live", !.buffer = {},
                              !.last = IF Drained = <<>> THEN @ ELSE Last(Drained)])
      /\ hubQueue' = Tail(hubQueue)
  BY DEF RegisterDrains, ConnectionStep
<1>2. CASE Fits(Drained)
  <2>1. client' = [client EXCEPT !.pc = "registered", !.phase = "live", !.buffer = {},
                                 !.last = IF Drained = <<>> THEN client.last
                                          ELSE Last(Drained),
                                 !.queue = client.queue \o FramesOf(Drained)]
        /\ sent' = sent \o Drained
    BY <1>1, <1>2, ConnectionType DEF Enqueue, IInv, Connections
  <2>2. QED
    BY <1>1, <1>2, <2>1, DrainsStep
<1>3. CASE ~Fits(Drained)
  BY <1>1, <1>3, OwnerReleases, HubClosesStep DEF Enqueue, Ahead
<1>4. QED
  BY <1>2, <1>3

-----------------------------------------------------------------------------
(* A reader has the hub lock: it broadcasts, or requires a reset.          *)

\* What the two have in common.
Released(g) ==
    /\ Owns(g) /\ reader[g].pc \in {"queued", "resetting"}
    /\ \E r \in {Idle, Gone} : reader' = [reader EXCEPT ![g] = r]
    /\ ReaderReleases /\ client'.pc \in {client.pc, "down"}
    /\ UNCHANGED <<source, store, macGen, mobile, gap, faults, conns>>
    /\ atRisk \subseteq atRisk'

(* The reader at the head of the queue has the oldest event of all those   *)
(* that nothing overtakes.                                                 *)
LEMMA HeadIsLeast ==
    ASSUME IInv, NEW g \in Gens, Owns(g), reader[g].pc = "queued",
           NEW h \in Gens, h # g, Pends(h), Firm(reader[h].cursor)
    PROVE  reader[g].cursor < reader[h].cursor
<1>1. /\ reader[g].cursor \in DOMAIN log /\ reader[h].cursor \in DOMAIN log
      /\ reader[g].cursor # reader[h].cursor
  BY DEF IInv, ReaderInv, Pends
<1>2. DOMAIN log = 1..Len(log) /\ Len(log) \in Nat
  BY Typed DEF IInv
<1>3. CASE reader[h].pc = "queued"
  <2>1. h \in ToSet(Tail(hubQueue))
    BY <1>3, OwnerReleases DEF IInv, HubInv
  <2>2. Ahead(g, h)
    BY <2>1, OwnerReleases
  <2>3. QED
    BY <1>3, <2>2 DEF IInv, OrderInv
<1>4. CASE reader[h].pc \in {"appended", "marking"}
  <2>1. reader[h].cursor = Len(log)
    BY <1>4 DEF IInv, ReaderInv, Firm
  <2>2. QED
    BY <1>1, <1>2, <2>1
<1>5. QED
  BY <1>3, <1>4 DEF Pends

(* A reset that has the lock has every event that is not terminal behind   *)
(* it in the log and none of them pending.                                 *)
LEMMA HeadResets ==
    ASSUME IInv, NEW g \in Gens, Owns(g), reader[g].pc = "resetting",
           NEW h \in Gens, Pends(h)
    PROVE  KindAt(reader[h].cursor) = "terminal"
<1> SUFFICES ASSUME KindAt(reader[h].cursor) # "terminal"
             PROVE  FALSE
    OBVIOUS
<1>1. reader[h].pc = "queued" /\ ~Ahead(g, h)
  BY DEF IInv, OrderInv
<1>2. h \in ToSet(Tail(hubQueue))
  BY <1>1, OwnerReleases DEF IInv, HubInv
<1>3. QED
  BY <1>1, <1>2, OwnerReleases

(* What the other readers keep.                                            *)
LEMMA ReleasedFacts ==
    ASSUME IInv, NEW g \in Gens, Released(g)
    PROVE  /\ client.pc # "floor"
           /\ ~Pends(g)' /\ reader'[g].pc \in {"idle", "gone"}
           /\ \A h \in Gens : h # g => reader'[h] = reader[h] /\ (Pends(h)' <=> Pends(h))
           /\ epoch' = epoch /\ log' = log /\ kept' = kept /\ floor' = floor
           /\ source' = source /\ mobile' = mobile
           /\ \A c : /\ KindAt(c)' = KindAt(c) /\ (AtRisk(c) => AtRisk(c)')
                     /\ (Owed(c)' => Owed(c)) /\ (Firm(c)' => Firm(c))
           /\ \A c : Pending(c) => Pending(c)' \/ (Pends(g) /\ c = reader[g].cursor)
           /\ \A h \in Gens : h # g =>
                /\ KindAt(reader[h].cursor)' = KindAt(reader[h].cursor)
                /\ Firm(reader[h].cursor)' => Firm(reader[h].cursor)
                /\ AtRisk(reader[h].cursor) => AtRisk(reader[h].cursor)'
<1> USE DEF store
<1>1. \A h \in Gens : h # MobileTask
  BY RelayStreamAssumption DEF Gens, MobileTask
<1>2. client.pc # "floor"
  BY <1>1 DEF IInv, HubInv, Released, Owns
<1>3. PICK r \in {Idle, Gone} : reader' = [reader EXCEPT ![g] = r]
  BY DEF Released
<1>4. reader'[g] = r /\ \A h \in Gens : h # g => reader'[h] = reader[h]
  BY <1>3 DEF IInv, TypeOK
<1>5. reader'[g].pc \in {"idle", "gone"}
  BY <1>4 DEF Idle, Gone
<1>6. ~Pends(g)' /\ \A h \in Gens : h # g => (Pends(h)' <=> Pends(h))
  BY <1>4, <1>5 DEF Pends
<1>7. /\ epoch' = epoch /\ log' = log /\ kept' = kept /\ floor' = floor
      /\ source' = source /\ mobile' = mobile /\ atRisk \subseteq atRisk'
  BY DEF Released
<1>8. \A c : KindAt(c)' = KindAt(c)
  BY <1>7 DEF KindAt
<1>9. \A c : AtRisk(c) => AtRisk(c)'
  BY <1>7 DEF AtRisk
<1>10. \A c : (Owed(c)' => Owed(c)) /\ (Firm(c)' => Firm(c))
  BY <1>8, <1>9 DEF Owed, Firm
<1>11. ASSUME NEW c, Pending(c)
       PROVE  Pending(c)' \/ (Pends(g) /\ c = reader[g].cursor)
  <2>1. PICK h \in Gens : Pends(h) /\ reader[h].cursor = c
    BY <1>11 DEF Pending
  <2>2. CASE h = g
    BY <2>1, <2>2
  <2>3. CASE h # g
    BY <1>4, <1>6, <2>1, <2>3 DEF Pending
  <2>4. QED
    BY <2>2, <2>3
<1>12. ASSUME NEW h \in Gens, h # g
       PROVE  /\ KindAt(reader[h].cursor)' = KindAt(reader[h].cursor)
              /\ Firm(reader[h].cursor)' => Firm(reader[h].cursor)
              /\ AtRisk(reader[h].cursor) => AtRisk(reader[h].cursor)'
  BY <1>4, <1>7, <1>12 DEF KindAt, Firm, AtRisk
<1>13. QED
  BY <1>2, <1>4, <1>5, <1>6, <1>7, <1>8, <1>9, <1>10, <1>11, <1>12

(* The lock goes to the next in the queue.                                 *)
LEMMA ReleasedStep ==
    ASSUME IInv, NEW g \in Gens, Released(g)
    PROVE  /\ StoreInv' /\ ReaderInv' /\ HubInv' /\ OrderInv' /\ ReplicaInv'
           /\ hubQueue' \in Seq(Gens \cup {MobileTask})
<1> USE DEF store
<1>1. /\ client.pc # "floor"
      /\ ~Pends(g)' /\ reader'[g].pc \in {"idle", "gone"}
      /\ \A h \in Gens : h # g => reader'[h] = reader[h] /\ (Pends(h)' <=> Pends(h))
      /\ epoch' = epoch /\ log' = log /\ kept' = kept /\ floor' = floor
      /\ source' = source /\ mobile' = mobile
      /\ \A c : /\ KindAt(c)' = KindAt(c) /\ (AtRisk(c) => AtRisk(c)')
                /\ (Firm(c)' => Firm(c))
      /\ \A c : Pending(c) => Pending(c)' \/ (Pends(g) /\ c = reader[g].cursor)
      /\ \A h \in Gens : h # g =>
           /\ KindAt(reader[h].cursor)' = KindAt(reader[h].cursor)
           /\ Firm(reader[h].cursor)' => Firm(reader[h].cursor)
           /\ AtRisk(reader[h].cursor) => AtRisk(reader[h].cursor)'
  BY ReleasedFacts
<1>2. /\ Tail(hubQueue) \in Seq(Gens \cup {MobileTask}) /\ Once(Tail(hubQueue))
      /\ ToSet(Tail(hubQueue)) = ToSet(hubQueue) \ {g}
      /\ \A a, b : Before(a, b, Tail(hubQueue)) => Ahead(a, b)
  BY OwnerReleases DEF Released
<1>3. /\ hubQueue' \in Seq(Gens \cup {MobileTask}) /\ Once(hubQueue')
      /\ ToSet(hubQueue') = IF client'.pc = "down" THEN ToSet(hubQueue) \ {g, MobileTask}
                            ELSE ToSet(hubQueue) \ {g}
      /\ \A a, b : Ahead(a, b)' => Ahead(a, b)
  <2>1. CASE client'.pc = "down"
    <3>1. hubQueue' = Withdrawn(MobileTask, Tail(hubQueue))
      BY <2>1 DEF Released, ReaderReleases
    <3>2. /\ hubQueue' \in Seq(Gens \cup {MobileTask}) /\ Once(hubQueue')
          /\ ToSet(hubQueue') = ToSet(Tail(hubQueue)) \ {MobileTask}
          /\ \A a, b : Before(a, b, hubQueue') => Before(a, b, Tail(hubQueue))
      BY <1>2, <3>1, WithdrawnQueue
    <3>3. QED
      BY <1>2, <2>1, <3>2 DEF Ahead
  <2>2. CASE client'.pc # "down"
    BY <1>2, <2>2 DEF Released, ReaderReleases, Ahead
  <2>3. QED
    BY <2>1, <2>2
<1>4. \A h \in Gens : h # MobileTask
  BY RelayStreamAssumption DEF Gens, MobileTask
<1>5. StoreInv'
  BY DEF IInv, StoreInv, Released
<1>6. ReplicaInv'
  BY DEF IInv, ReplicaInv, Holes, Released
<1>7. HubInv'
  <2>1. \A h \in Gens : h \in ToSet(hubQueue') <=> reader'[h].pc \in {"queued", "resetting"}
    BY <1>1, <1>3, <1>4 DEF IInv, HubInv
  <2>2. client'.pc = client.pc \/ client'.pc = "down"
    BY DEF Released
  <2>3. MobileTask \in ToSet(hubQueue') <=> client'.pc \in {"queued", "floor", "drain"}
    BY <1>3, <1>4, <2>2 DEF IInv, HubInv
  <2>4. client'.pc # "floor"
    BY <1>1, <2>2
  <2>5. QED
    BY <1>3, <2>1, <2>3, <2>4 DEF HubInv
<1>8. ReaderInv'
  <2>1. /\ \A h \in Gens : Pends(h)' => reader'[h].cursor \in DOMAIN log'
        /\ \A h, i \in Gens :
             Pends(h)' /\ Pends(i)' /\ reader'[h].cursor = reader'[i].cursor => h = i
    BY <1>1 DEF IInv, ReaderInv
  <2>2. \A h, i \in Gens : Presenting(h)' /\ Presenting(i)' => h = i
    BY <1>1 DEF IInv, ReaderInv, Presenting
  <2>3. ASSUME NEW h \in Gens
        PROVE  /\ reader'[h].pc = "appended" => reader'[h].cursor = Len(log')
               /\ reader'[h].pc = "marking" =>
                    /\ KindAt(reader[h].cursor)' = "terminal"
                    /\ AtRisk(reader[h].cursor)' \/ reader'[h].cursor = Len(log')
    <3>1. CASE h = g
      BY <1>1, <3>1
    <3>2. CASE h # g
      BY <1>1, <3>2 DEF IInv, ReaderInv
    <3>3. QED
      BY <3>1, <3>2
  <2>4. QED
    BY <2>1, <2>2, <2>3 DEF ReaderInv
<1>9. OrderInv'
  <2>1. ASSUME NEW x \in Gens, NEW y \in Gens, Ahead(x, y)',
               reader'[x].pc = "queued", reader'[y].pc = "queued", Firm(reader[y].cursor)'
        PROVE  reader'[x].cursor < reader'[y].cursor
    BY <1>1, <1>3, <2>1 DEF IInv, OrderInv
  <2>2. ASSUME NEW x \in Gens, NEW y \in Gens, reader'[x].pc = "resetting",
               Pends(y)', KindAt(reader[y].cursor)' # "terminal"
        PROVE  reader'[y].pc = "queued" /\ ~Ahead(x, y)'
    BY <1>1, <1>3, <2>2 DEF IInv, OrderInv
  <2>3. ASSUME NEW h \in Gens, Pends(h)', KindAt(reader[h].cursor)' # "terminal",
               NEW c \in DOMAIN log', reader'[h].cursor < c, ~AtRisk(c)'
        PROVE  Pending(c)'
    <3>1. h # g /\ Pends(h) /\ KindAt(reader[h].cursor) # "terminal"
          /\ reader[h].cursor < c /\ c \in DOMAIN log /\ ~AtRisk(c)
      BY <1>1, <2>3
    <3>2. Pending(c)
      BY <3>1 DEF IInv, OrderInv
    <3>3. CASE Pends(g) /\ c = reader[g].cursor
      <4>1. reader[g].pc = "queued" /\ Owns(g)
        BY <3>3 DEF Released, Pends
      <4>2. reader[g].cursor < reader[h].cursor
        BY <3>1, <4>1, HeadIsLeast DEF Firm
      <4>3. reader[h].cursor \in Nat /\ reader[g].cursor \in Nat
        BY Typed DEF IInv
      <4>4. QED
        BY <3>1, <3>3, <4>2, <4>3
    <3>4. QED
      BY <1>1, <3>2, <3>3
  <2>4. QED
    BY <2>1, <2>2, <2>3 DEF OrderInv
<1>10. QED
  BY <1>3, <1>5, <1>6, <1>7, <1>8, <1>9

(* The types after such a step.                                            *)
LEMMA ReleasedType ==
    ASSUME IInv, NEW g \in Gens, Released(g), client' \in Connections,
           Len(client'.queue) <= QueueLimit, sent' \in Seq(Positions),
           atRisk' \subseteq Positions
    PROVE  TypeOK'
<1>1. hubQueue' \in Seq(Gens \cup {MobileTask})
  BY ReleasedStep
<1>2. Idle \in [pc : {"off", "idle", "appended", "marking", "queued",
                                  "resetting", "gone"}, cursor : 0..MaxSource]
      /\ Gone \in [pc : {"off", "idle", "appended", "marking", "queued",
                                  "resetting", "gone"}, cursor : 0..MaxSource]
  BY RelayStreamAssumption DEF Idle, Gone
<1>3. reader' \in [Gens -> [pc : {"off", "idle", "appended", "marking", "queued",
                                  "resetting", "gone"}, cursor : 0..MaxSource]]
  BY <1>2 DEF IInv, TypeOK, Released
<1>4. QED
  BY <1>1, <1>3 DEF IInv, TypeOK, Connections, FrameSet, Released, store

(* A connection that is told to wait covers what its queue's finals do not *)
(* describe.                                                               *)
LEMMA WaitingCovers ==
    ASSUME NEW q \in Seq(FrameSet), NEW m, NEW src, NEW c, NoFinals(q, 0, src),
           m.recovery \/ (q # <<>> /\ q[1].type = "reset")
    PROVE  Covered(c, q, m, src)
<1>1. DOMAIN q = 1..Len(q) /\ Len(q) \in Nat
  OBVIOUS
<1>2. FinalsBeyond(q, 0, c, src)
  BY DEF NoFinals, FinalsBeyond
<1>3. CASE m.recovery
  BY <1>2, <1>3 DEF Covered
<1>4. CASE q # <<>> /\ q[1].type = "reset"
  <2>1. 1 \in DOMAIN q
    BY <1>1, <1>4
  <2>2. FinalsBeyond(q, 1, c, src)
    BY <1>1, <1>2 DEF FinalsBeyond
  <2>3. \A j \in DOMAIN q : ~(j < 1)
    BY <1>1
  <2>4. Skips(q, c, src)
    BY <1>4, <2>1, <2>2, <2>3 DEF Skips
  <2>5. QED
    BY <2>4 DEF Covered
<1>5. QED
  BY <1>3, <1>4

(* The mobile has, or is being sent, or is told to wait for, everything    *)
(* owed that was committed before the event now broadcast.                 *)
LEMMA BelowIsCovered ==
    ASSUME IInv, NEW g \in Gens, Owns(g), reader[g].pc = "queued",
           Serving \/ Resetting, client.phase \in {"reset", "live"},
           NEW c \in DOMAIN log, Owed(c), c < reader[g].cursor
    PROVE  Covered(c, client.queue, mobile, source)
<1>1. /\ c \in Nat /\ client.last \in Nat /\ client.high \in Nat
      /\ client.queue \in Seq(FrameSet) /\ reader[g].cursor \in Nat
  BY Typed DEF IInv
<1>2. ~Pending(c)
  <2> SUFFICES ASSUME NEW h \in Gens, Pends(h), reader[h].cursor = c
               PROVE  FALSE
      BY DEF Pending
  <2>1. Firm(reader[h].cursor)
    BY DEF Owed, Firm, AtRisk, KindAt
  <2>2. h # g
    BY <1>1
  <2>3. reader[g].cursor < c
    BY <2>1, <2>2, HeadIsLeast
  <2>4. QED
    BY <1>1, <2>3
<1>3. CASE Resetting
  BY <1>2, <1>3 DEF IInv, ResetInv
<1>4. CASE Serving /\ c <= client.last
  BY <1>4 DEF IInv, CoverInv
<1>5. CASE Serving /\ client.last < c
  <2>1. (client.pc = "replay" /\ c <= client.high) \/ c \in client.buffer
    BY <1>2, <1>5 DEF IInv, AheadInv
  <2>2. CASE client.phase = "live"
    <3>1. client.buffer = {} /\ (client.pc = "replay" => client.high < client.last)
      BY <2>2 DEF IInv, PhaseInv
    <3>2. QED
      BY <1>1, <1>5, <2>1, <3>1
  <2>3. CASE client.phase = "reset"
    <3>1. client.pc \in {"replay", "drain"}
      BY <1>5, <2>3 DEF Serving
    <3>2. c \notin client.buffer
      BY <2>3, <3>1 DEF IInv, ResetInv, Owed
    <3>3. client.pc = "replay" /\ ~(client.high <= client.last)
      BY <1>1, <1>5, <2>1, <3>2
    <3>4. /\ NoFinals(client.queue, 0, source)
          /\ mobile.recovery \/ (client.queue # <<>> /\ client.queue[1].type = "reset")
      BY <2>3, <3>3 DEF IInv, ResetInv
    <3>5. QED
      BY <1>1, <3>4, WaitingCovers
  <2>4. QED
    BY <2>2, <2>3
<1>6. QED
  BY <1>1, <1>3, <1>4, <1>5

(* Everything owed that was committed after it is still to be broadcast.   *)
LEMMA AboveIsPending ==
    ASSUME IInv, NEW g \in Gens, reader[g].pc = "queued",
           \/ client.phase = "reset" /\ KindAt(reader[g].cursor) # "terminal"
           \/ Serving /\ client.phase = "live" /\ client.last < reader[g].cursor,
           NEW c \in DOMAIN log, Owed(c), reader[g].cursor < c
    PROVE  Pending(c)
<1>1. /\ c \in Nat /\ client.last \in Nat /\ client.high \in Nat
      /\ reader[g].cursor \in Nat
  BY Typed DEF IInv
<1>2. CASE KindAt(reader[g].cursor) # "terminal"
  BY <1>2 DEF IInv, OrderInv, Owed, Pends
<1>3. CASE Serving /\ client.phase = "live" /\ client.last < reader[g].cursor
  <2>1. client.last < c
    BY <1>1, <1>3
  <2>2. \/ Pending(c)
        \/ client.pc = "replay" /\ c <= client.high
        \/ c \in client.buffer
    BY <1>3, <2>1 DEF IInv, AheadInv
  <2>3. client.buffer = {} /\ (client.pc = "replay" => client.high < client.last)
    BY <1>3 DEF IInv, PhaseInv
  <2>4. QED
    BY <1>1, <2>1, <2>2, <2>3
<1>4. QED
  BY <1>2, <1>3

(* The event is enqueued: a live connection takes it in order, one that    *)
(* was reset takes the keyframe.                                           *)
LEMMA BroadcastSends ==
    ASSUME IInv, NEW g \in Gens, Released(g), reader[g].pc = "queued",
           NEW b, b = reader[g].cursor, NEW cs, Sendable(cs),
           \A j : j \in DOMAIN cs <=> j = 1, cs[1] = b,
           NEW phase \in {"reset", "live"}, NEW buffer \in SUBSET client.buffer,
           Subscribed, Fits(cs),
           \/ /\ client.phase = "live" /\ phase = "live" /\ client.last < b
           \/ /\ client.phase = "reset" /\ KindAt(b) # "terminal" /\ phase = "live"
              /\ buffer = {}
           \/ client.phase = "reset" /\ KindAt(b) = "page" /\ phase = "reset",
           client' = [client EXCEPT !.phase = phase, !.last = b, !.buffer = buffer,
                                    !.queue = client.queue \o FramesOf(cs)],
           sent' = sent \o cs,
           atRisk' \subseteq atRisk \cup {log[b]}
    PROVE  IInv'
<1>1. /\ client.pc # "floor"
      /\ ~Pends(g)' /\ reader'[g].pc \in {"idle", "gone"}
      /\ \A h \in Gens : h # g => reader'[h] = reader[h] /\ (Pends(h)' <=> Pends(h))
      /\ epoch' = epoch /\ log' = log /\ kept' = kept /\ floor' = floor
      /\ source' = source /\ mobile' = mobile
      /\ \A c : /\ KindAt(c)' = KindAt(c) /\ (AtRisk(c) => AtRisk(c)')
                /\ (Owed(c)' => Owed(c)) /\ (Firm(c)' => Firm(c))
      /\ \A c : Pending(c) => Pending(c)' \/ (Pends(g) /\ c = reader[g].cursor)
      /\ \A h \in Gens : h # g =>
           /\ KindAt(reader[h].cursor)' = KindAt(reader[h].cursor)
           /\ Firm(reader[h].cursor)' => Firm(reader[h].cursor)
  BY ReleasedFacts
<1>2. /\ StoreInv' /\ ReaderInv' /\ HubInv' /\ OrderInv' /\ ReplicaInv'
  BY ReleasedStep
<1>3. /\ DOMAIN log = 1..Len(log) /\ Len(log) \in Nat /\ \A c \in DOMAIN log : c \in Nat
      /\ client.last \in Nat /\ client.high \in Nat /\ \A i \in DOMAIN sent : sent[i] \in Nat
      /\ client.queue \in Seq(FrameSet) /\ mobile.applied \in Nat
  BY Typed DEF IInv
<1>4. Owns(g) /\ Pends(g) /\ b \in DOMAIN log /\ b \in Nat /\ reader[g].cursor = b
  BY <1>3 DEF Released, Pends, IInv, ReaderInv
<1>5. client \in Connections
  BY ConnectionType DEF IInv
<1>6. /\ client'.queue = client.queue \o FramesOf(cs)
      /\ client'.pc = client.pc /\ client'.phase = phase /\ client'.high = client.high
      /\ client'.last = b /\ client'.buffer = buffer
  BY <1>5 DEF Connections
<1>7. Serving \/ Resetting
  BY <1>1, <1>5 DEF Serving, Resetting, Subscribed, Connections
<1>8. Enqueued(cs)
  BY <1>6 DEF Enqueued
<1>9. /\ client'.queue \in Seq(FrameSet) /\ QueueInOrder'
      /\ sent' \in Seq(Positions) /\ Increasing(sent')
      /\ \A i \in DOMAIN sent' : \/ \E k \in DOMAIN sent : sent'[i] = sent[k]
                                 \/ \E j \in DOMAIN cs : sent'[i] = cs[j]
      /\ \A j \in DOMAIN cs : Sends(client'.queue, cs[j])
      /\ \A c \in Nat :
           Covered(c, client.queue, mobile, source) /\ (\A j \in DOMAIN cs : c < cs[j])
           => Covered(c, client'.queue, mobile', source')
      /\ client.queue # <<>> => client'.queue # <<>> /\ client'.queue[1] = client.queue[1]
      /\ Len(client'.queue) = Len(client.queue) + Len(cs)
  BY <1>1, <1>8, EnqueuedFacts
<1>10. \A i \in DOMAIN sent' : sent'[i] \in DOMAIN log /\ sent'[i] <= b
  <2> SUFFICES ASSUME NEW i \in DOMAIN sent'
               PROVE  sent'[i] \in DOMAIN log /\ sent'[i] <= b
      OBVIOUS
  <2>1. CASE \E k \in DOMAIN sent : sent'[i] = sent[k]
    <3>1. PICK k \in DOMAIN sent : sent'[i] = sent[k]
      BY <2>1
    <3>2. sent[k] \in DOMAIN log /\ sent[k] < b /\ sent[k] \in Nat
      BY <1>3, <1>4 DEF IInv, SentInv, Sendable
    <3>3. QED
      BY <1>4, <3>1, <3>2
  <2>2. CASE sent'[i] = b
    BY <1>4, <2>2
  <2>3. QED
    BY <1>9, <2>1, <2>2
<1>11. client.pc = "replay" => client.high < b
  <2>1. CASE client.phase = "reset" /\ KindAt(b) # "terminal"
    BY <1>4, <2>1 DEF IInv, SentInv
  <2>2. CASE client.phase = "live" /\ client.last < b
    BY <1>3, <1>4, <2>2 DEF IInv, PhaseInv
  <2>3. QED
    BY <2>1, <2>2
<1>12. ASSUME NEW c \in DOMAIN log, Owed(c), c <= b
       PROVE  Covered(c, client'.queue, mobile', source')
  <2>1. CASE c = b
    <3>1. Sends(client'.queue, c)
      BY <1>9, <2>1
    <3>2. QED
      BY <3>1 DEF Covered
  <2>2. CASE c < b
    <3>1. Covered(c, client.queue, mobile, source)
      BY <1>4, <1>7, <1>12, <2>2, BelowIsCovered
    <3>2. QED
      BY <1>3, <1>9, <2>2, <3>1
  <2>3. QED
    BY <1>3, <1>4, <1>12, <2>1, <2>2
<1>13. ASSUME NEW c \in DOMAIN log, Owed(c), b < c
       PROVE  Pending(c)'
  <2>1. \/ client.phase = "reset" /\ KindAt(reader[g].cursor) # "terminal"
        \/ Serving /\ client.phase = "live" /\ client.last < reader[g].cursor
    BY <1>4, <1>7 DEF Resetting
  <2>2. Pending(c)
    BY <1>4, <1>13, <2>1, AboveIsPending
  <2>3. c # reader[g].cursor
    BY <1>3, <1>4, <1>13
  <2>4. QED
    BY <1>1, <2>2, <2>3
<1>14. TypeOK'
  <2>1. client' \in Connections
    <3>1. b \in 0..MaxSource /\ buffer \in SUBSET Positions
      BY <1>4, <1>5, CursorBounds DEF Connections
    <3>2. client' = [client EXCEPT !.phase = phase, !.last = b, !.buffer = buffer,
                                   !.queue = client'.queue]
      BY <1>6
    <3>3. QED
      BY <1>5, <1>9, <3>1, <3>2 DEF Connections
  <2>2. Len(client'.queue) <= QueueLimit
    BY <1>9 DEF Fits
  <2>3. atRisk' \subseteq Positions
    <3>1. log[b] \in Positions
      BY <1>4, Typed DEF IInv
    <3>2. QED
      BY <3>1 DEF IInv, TypeOK
  <2>4. QED
    BY <1>9, <2>1, <2>2, <2>3, ReleasedType
<1>15. PhaseInv'
  <2>1. buffer \subseteq DOMAIN log /\ (phase = "live" => buffer = {})
    BY DEF IInv, PhaseInv
  <2>2. client.pc \notin {"down", "queued", "floor"} /\ client.phase # "replaying"
    BY <1>1 DEF Subscribed
  <2>3. QED
    BY <1>1, <1>4, <1>6, <1>11, <2>1, <2>2 DEF IInv, PhaseInv
<1>16. SentInv'
  <2>1. ASSUME NEW h \in Gens, Pends(h)', Firm(reader[h].cursor)', NEW x \in buffer
        PROVE  x < reader'[h].cursor
    <3>1. h # g /\ Pends(h) /\ Firm(reader[h].cursor) /\ x \in client.buffer
      BY <1>1, <2>1
    <3>2. QED
      BY <1>1, <3>1 DEF IInv, SentInv
  <2>2. ASSUME phase = "reset", NEW h \in Gens, Pends(h)',
               KindAt(reader[h].cursor)' # "terminal"
        PROVE  /\ \A i \in DOMAIN sent' : sent'[i] < reader'[h].cursor
               /\ client'.pc = "replay" => client'.high < reader'[h].cursor
    <3>1. h # g /\ Pends(h) /\ KindAt(reader[h].cursor) # "terminal"
          /\ reader'[h].cursor = reader[h].cursor
      BY <1>1, <2>2
    <3>2. b < reader[h].cursor /\ reader[h].cursor \in Nat
      BY <1>4, <3>1, HeadIsLeast, Typed DEF Firm, IInv
    <3>3. ASSUME NEW i \in DOMAIN sent'
          PROVE  sent'[i] < reader'[h].cursor
      <4>1. sent'[i] \in DOMAIN log /\ sent'[i] <= b
        BY <1>10
      <4>2. sent'[i] \in Nat
        BY <1>3, <4>1
      <4>3. QED
        BY <1>4, <3>1, <3>2, <4>1, <4>2
    <3>4. ASSUME client'.pc = "replay"
          PROVE  client'.high < reader'[h].cursor
      <4>1. client.high < b /\ client.high \in Nat
        BY <1>3, <1>6, <1>11, <3>4
      <4>2. QED
        BY <1>4, <1>6, <3>1, <3>2, <4>1
    <3>5. QED
      BY <3>3, <3>4
  <2>3. QED
    BY <1>1, <1>6, <1>9, <1>10, <2>1, <2>2 DEF SentInv
<1>17. FrameInv'
  <2>1. client.pc \in {"replay", "drain", "registered"} =>
          \/ mobile'.epoch \in {0, epoch'}
          \/ client'.queue # <<>> /\ client'.queue[1].type = "reset"
    BY <1>1, <1>9 DEF IInv, FrameInv
  <2>2. QED
    BY <1>6, <1>9, <2>1 DEF FrameInv, QueueInOrder
<1>18. FloorInv'
  <2>1. ASSUME client.pc = "replay", NEW c \in DOMAIN log \ kept
        PROVE  AtRisk(c) \/ c <= b \/ client.high < c
    <3>1. AtRisk(c) \/ c <= client.last \/ client.high < c
      BY <2>1 DEF IInv, FloorInv
    <3>2. client.high < b /\ c \in Nat
      BY <1>3, <1>11, <2>1
    <3>3. QED
      BY <1>3, <1>4, <3>1, <3>2
  <2>2. QED
    BY <1>1, <1>6, <2>1 DEF FloorInv
<1>19. CoverInv'
  BY <1>1, <1>6, <1>12 DEF CoverInv
<1>20. AheadInv'
  BY <1>1, <1>6, <1>13 DEF AheadInv
<1>21. ResetInv'
  <2>1. CASE phase = "live"
    BY <1>6, <2>1 DEF ResetInv, Resetting
  <2>2. CASE phase = "reset"
    <3>1. client.phase = "reset" /\ KindAt(b) = "page"
      BY <2>2
    <3>2. ASSUME NEW c \in DOMAIN log, Owed(c)
          PROVE  \/ Covered(c, client'.queue, mobile', source')
                 \/ Pending(c)' /\ \A i \in DOMAIN sent' : sent'[i] < c
      <4>1. CASE c <= b
        BY <1>12, <3>2, <4>1
      <4>2. CASE b < c
        BY <1>3, <1>4, <1>10, <1>13, <3>2, <4>2
      <4>3. QED
        BY <1>3, <1>4, <4>1, <4>2
    <3>3. \A i \in Nat : NoFinals(client.queue, i, source) => NoFinals(client'.queue, i, source)
      <4> SUFFICES ASSUME NEW i \in Nat, NoFinals(client.queue, i, source),
                          NEW k \in DOMAIN client'.queue, i < k,
                          IsFinal(client'.queue[k], source)
                   PROVE  FALSE
          BY DEF NoFinals
      <4>1. /\ FramesOf(cs) \in Seq(FrameSet) /\ DOMAIN FramesOf(cs) = DOMAIN cs
            /\ \A j \in DOMAIN cs : FramesOf(cs)[j].pos = log[cs[j]]
        BY FramesOfType DEF Sendable
      <4>2. \/ k \in DOMAIN client.queue /\ client'.queue[k] = client.queue[k]
            \/ /\ k - Len(client.queue) \in DOMAIN FramesOf(cs)
               /\ client'.queue[k] = FramesOf(cs)[k - Len(client.queue)]
        <5>1. client.queue \in Seq(FrameSet)
          BY <1>3
        <5>2. FramesOf(cs) \in Seq(FrameSet)
          BY <4>1
        <5>3. client'.queue = client.queue \o FramesOf(cs)
          BY <1>6
        <5>4. QED
          BY <5>1, <5>2, <5>3, Concatenated
      <4>3. CASE k \in DOMAIN client.queue /\ client'.queue[k] = client.queue[k]
        BY <4>3 DEF NoFinals
      <4>4. CASE /\ k - Len(client.queue) \in DOMAIN FramesOf(cs)
                 /\ client'.queue[k] = FramesOf(cs)[k - Len(client.queue)]
        <5>1. client'.queue[k].pos = log[b]
          BY <4>1, <4>4
        <5>2. QED
          BY <3>1, <5>1 DEF IsFinal, KindAt
      <4>5. QED
        BY <4>2, <4>3, <4>4
    <3>4. Resetting' =>
           \/ mobile'.recovery /\ NoFinals(client'.queue, 0, source')
           \/ \E i \in DOMAIN client'.queue :
                client'.queue[i].type = "reset" /\ NoFinals(client'.queue, i, source')
      <4> SUFFICES ASSUME Resetting
                   PROVE  \/ mobile.recovery /\ NoFinals(client'.queue, 0, source)
                          \/ \E i \in DOMAIN client'.queue :
                               client'.queue[i].type = "reset" /\ NoFinals(client'.queue, i, source)
          BY <1>1, <1>6, <3>1 DEF Resetting
      <4>1. CASE mobile.recovery /\ NoFinals(client.queue, 0, source)
        BY <3>3, <4>1
      <4>2. CASE \E i \in DOMAIN client.queue :
                   client.queue[i].type = "reset" /\ NoFinals(client.queue, i, source)
        <5>1. PICK i \in DOMAIN client.queue :
                client.queue[i].type = "reset" /\ NoFinals(client.queue, i, source)
          BY <4>2
        <5>2. FramesOf(cs) \in Seq(FrameSet)
          BY FramesOfType DEF Sendable
        <5>3. i \in DOMAIN client'.queue /\ client'.queue[i] = client.queue[i]
          BY <1>3, <1>6, <5>2, Concatenated
        <5>4. i \in Nat
          BY <1>3
        <5>5. QED
          BY <3>3, <5>1, <5>3, <5>4
      <4>3. QED
        BY <4>1, <4>2 DEF IInv, ResetInv
    <3>5. client.pc = "replay" => client.high <= b
      BY <1>3, <1>4, <1>11
    <3>6. client.pc \in {"replay", "drain"} => \A x \in buffer : AtRisk(x)'
      BY <1>1, <3>1 DEF IInv, ResetInv
    <3>7. QED
      BY <1>1, <1>6, <3>2, <3>4, <3>5, <3>6 DEF ResetInv
  <2>3. QED
    BY <2>1, <2>2
<1>22. QED
  BY <1>2, <1>14, <1>15, <1>16, <1>17, <1>18, <1>19, <1>20, <1>21 DEF IInv

(* What a release of the lock keeps of a connection whose queue it leaves. *)
LEMMA ReleasedKeeps ==
    ASSUME IInv, NEW g \in Gens, Released(g), client'.pc = client.pc,
           client'.phase = client.phase, client'.high = client.high,
           client'.last = client.last, client'.queue = client.queue, sent' = sent
    PROVE  FrameInv' /\ FloorInv' /\ CoverInv'
<1>1. /\ epoch' = epoch /\ log' = log /\ kept' = kept /\ source' = source /\ mobile' = mobile
      /\ \A c : (AtRisk(c) => AtRisk(c)') /\ (Owed(c)' => Owed(c))
      /\ client.pc # "floor"
  BY ReleasedFacts
<1>2. FrameInv'
  BY <1>1 DEF IInv, FrameInv
<1>3. FloorInv'
  BY <1>1 DEF IInv, FloorInv
<1>4. CoverInv'
  BY <1>1 DEF IInv, CoverInv, Serving
<1>5. QED
  BY <1>2, <1>3, <1>4

(* The event goes into the connection's buffer.                            *)
LEMMA BroadcastBuffers ==
    ASSUME IInv, NEW g \in Gens, Released(g), reader[g].pc = "queued",
           NEW b, b = reader[g].cursor, Subscribed, client.phase \in {"replaying", "reset"},
           client' = [client EXCEPT !.buffer = client.buffer \cup {b}], sent' = sent,
           atRisk' = IF ResetOvertakesReplay THEN atRisk \cup {log[b]} ELSE atRisk
    PROVE  IInv'
<1>1. /\ client.pc # "floor"
      /\ ~Pends(g)' /\ reader'[g].pc \in {"idle", "gone"}
      /\ \A h \in Gens : h # g => reader'[h] = reader[h] /\ (Pends(h)' <=> Pends(h))
      /\ epoch' = epoch /\ log' = log /\ kept' = kept /\ floor' = floor
      /\ source' = source /\ mobile' = mobile
      /\ \A c : /\ KindAt(c)' = KindAt(c) /\ (AtRisk(c) => AtRisk(c)')
                /\ (Owed(c)' => Owed(c)) /\ (Firm(c)' => Firm(c))
      /\ \A c : Pending(c) => Pending(c)' \/ (Pends(g) /\ c = reader[g].cursor)
      /\ \A h \in Gens : h # g =>
           /\ KindAt(reader[h].cursor)' = KindAt(reader[h].cursor)
           /\ Firm(reader[h].cursor)' => Firm(reader[h].cursor)
  BY ReleasedFacts
<1>2. /\ StoreInv' /\ ReaderInv' /\ HubInv' /\ OrderInv' /\ ReplicaInv'
  BY ReleasedStep
<1>3. /\ \A c \in DOMAIN log : c \in Nat
      /\ client.queue \in Seq(FrameSet) /\ DOMAIN client.queue = 1..Len(client.queue)
      /\ \A i \in DOMAIN sent : sent[i] \in Nat
  BY Typed DEF IInv
<1>4. Owns(g) /\ Pends(g) /\ b \in DOMAIN log /\ b \in Nat /\ log[b] \in Positions
  BY Typed DEF Released, Pends, IInv, ReaderInv
<1>5. client \in Connections
  BY ConnectionType DEF IInv
<1>6. /\ client'.queue = client.queue
      /\ client'.pc = client.pc /\ client'.phase = client.phase /\ client'.high = client.high
      /\ client'.last = client.last /\ client'.buffer = client.buffer \cup {b}
  BY <1>5 DEF Connections
<1>7. TypeOK'
  <2>1. b \in Positions
    BY <1>4, CursorBounds
  <2>2. client' \in Connections
    BY <1>5, <2>1 DEF Connections
  <2>3. Len(client'.queue) <= QueueLimit /\ sent' \in Seq(Positions)
    BY <1>6 DEF IInv, TypeOK
  <2>4. atRisk' \subseteq Positions
    BY <1>4 DEF IInv, TypeOK
  <2>5. QED
    BY <2>2, <2>3, <2>4, ReleasedType
<1>8. PhaseInv'
  <2>1. client.buffer \cup {b} \subseteq DOMAIN log
    BY <1>4 DEF IInv, PhaseInv
  <2>2. client.pc \notin {"down", "queued", "floor"} /\ client.phase # "live"
    BY <1>1 DEF Subscribed
  <2>3. QED
    BY <1>1, <1>6, <2>1, <2>2 DEF IInv, PhaseInv
<1>9. SentInv'
  <2>1. ASSUME NEW h \in Gens, Pends(h)', Firm(reader[h].cursor)',
               NEW x \in client.buffer \cup {b}
        PROVE  x < reader'[h].cursor
    <3>1. h # g /\ Pends(h) /\ Firm(reader[h].cursor) /\ reader'[h] = reader[h]
      BY <1>1, <2>1
    <3>2. CASE x = b
      BY <1>4, <3>1, <3>2, HeadIsLeast
    <3>3. CASE x \in client.buffer
      BY <3>1, <3>3 DEF IInv, SentInv
    <3>4. QED
      BY <3>2, <3>3
  <2>2. ASSUME client.phase = "reset", NEW h \in Gens, Pends(h)',
               KindAt(reader[h].cursor)' # "terminal"
        PROVE  /\ \A i \in DOMAIN sent : sent[i] < reader'[h].cursor
               /\ client.pc = "replay" => client.high < reader'[h].cursor
    BY <1>1, <2>2 DEF IInv, SentInv
  <2>3. QED
    BY <1>1, <1>6, <2>1, <2>2 DEF IInv, SentInv
<1>10. FrameInv' /\ FloorInv' /\ CoverInv'
  BY <1>6, ReleasedKeeps
<1>11. AheadInv'
  <2> SUFFICES ASSUME Serving', NEW c \in DOMAIN log', Owed(c)', client'.last < c
               PROVE  \/ Pending(c)'
                      \/ client'.pc = "replay" /\ c <= client'.high
                      \/ c \in client'.buffer
      BY DEF AheadInv
  <2>1. Serving /\ c \in DOMAIN log /\ Owed(c) /\ client.last < c
    BY <1>1, <1>6 DEF Serving
  <2>2. \/ Pending(c)
        \/ client.pc = "replay" /\ c <= client.high
        \/ c \in client.buffer
    BY <2>1 DEF IInv, AheadInv
  <2>3. QED
    BY <1>1, <1>6, <2>2
<1>12. ResetInv'
  <2>1. ASSUME Resetting, NEW c \in DOMAIN log, Owed(c)
        PROVE  \/ Covered(c, client.queue, mobile, source)
               \/ Pending(c)' /\ \A i \in DOMAIN sent : sent[i] < c
    <3>1. \/ Covered(c, client.queue, mobile, source)
          \/ Pending(c) /\ \A i \in DOMAIN sent : sent[i] < c
      BY <2>1 DEF IInv, ResetInv
    <3>2. CASE c = b /\ \A i \in DOMAIN sent : sent[i] < c
      <4>1. ASSUME NEW j \in DOMAIN client.queue, IsEvent(client.queue[j])
            PROVE  client.queue[j].cursor < c
        BY <3>2, <4>1 DEF IInv, FrameInv
      <4>2. CASE mobile.recovery /\ NoFinals(client.queue, 0, source)
        BY <1>3, <4>2, WaitingCovers
      <4>3. CASE \E i \in DOMAIN client.queue :
                   client.queue[i].type = "reset" /\ NoFinals(client.queue, i, source)
        <5>1. PICK i \in DOMAIN client.queue :
                client.queue[i].type = "reset" /\ NoFinals(client.queue, i, source)
          BY <4>3
        <5>2. FinalsBeyond(client.queue, i, c, source)
          BY <5>1 DEF NoFinals, FinalsBeyond
        <5>3. Skips(client.queue, c, source)
          BY <4>1, <5>1, <5>2 DEF Skips
        <5>4. QED
          BY <5>3 DEF Covered
      <4>4. QED
        BY <2>1, <4>2, <4>3 DEF IInv, ResetInv
    <3>3. QED
      BY <1>1, <3>1, <3>2
  <2>2. client.pc \in {"replay", "drain"} /\ client.phase = "reset" =>
          \A x \in client.buffer \cup {b} : AtRisk(x)'
    <3> SUFFICES ASSUME client.pc \in {"replay", "drain"}, client.phase = "reset",
                        NEW x \in client.buffer \cup {b}
                 PROVE  AtRisk(x)'
        OBVIOUS
    <3>1. CASE x \in client.buffer
      BY <1>1, <3>1 DEF IInv, ResetInv
    <3>2. CASE x = b
      <4>1. log[x] \in atRisk'
        BY <3>2 DEF ResetOvertakesReplay
      <4>2. QED
        BY <1>1, <3>2, <4>1 DEF AtRisk
    <3>3. QED
      BY <3>1, <3>2
  <2>3. Resetting' <=> Resetting
    BY <1>6 DEF Resetting
  <2>4. QED
    BY <1>1, <1>6, <2>1, <2>2, <2>3 DEF IInv, ResetInv
<1>13. QED
  BY <1>2, <1>7, <1>8, <1>9, <1>10, <1>11, <1>12 DEF IInv

(* The event is not for the connection, which is not registered yet or has *)
(* sent it already.                                                        *)
LEMMA BroadcastPasses ==
    ASSUME IInv, NEW g \in Gens, Released(g), reader[g].pc = "queued",
           ~Subscribed \/ (client.phase = "live" /\ ~(client.last < reader[g].cursor)),
           client' = client, sent' = sent, atRisk' \subseteq Positions
    PROVE  IInv'
<1>1. /\ client.pc # "floor"
      /\ ~Pends(g)' /\ reader'[g].pc \in {"idle", "gone"}
      /\ \A h \in Gens : h # g => reader'[h] = reader[h] /\ (Pends(h)' <=> Pends(h))
      /\ epoch' = epoch /\ log' = log /\ kept' = kept /\ floor' = floor
      /\ source' = source /\ mobile' = mobile
      /\ \A c : /\ KindAt(c)' = KindAt(c) /\ (AtRisk(c) => AtRisk(c)')
                /\ (Owed(c)' => Owed(c)) /\ (Firm(c)' => Firm(c))
      /\ \A c : Pending(c) => Pending(c)' \/ (Pends(g) /\ c = reader[g].cursor)
      /\ \A h \in Gens : h # g =>
           /\ KindAt(reader[h].cursor)' = KindAt(reader[h].cursor)
           /\ Firm(reader[h].cursor)' => Firm(reader[h].cursor)
  BY ReleasedFacts
<1>2. /\ StoreInv' /\ ReaderInv' /\ HubInv' /\ OrderInv' /\ ReplicaInv'
  BY ReleasedStep
<1>3. TypeOK'
  BY ConnectionType, ReleasedType DEF IInv, TypeOK
<1>4. PhaseInv'
  BY <1>1 DEF IInv, PhaseInv, NoClient
<1>5. SentInv'
  <2>1. ASSUME NEW h \in Gens, Pends(h)'
        PROVE  /\ Pends(h) /\ reader'[h] = reader[h]
               /\ Firm(reader[h].cursor)' => Firm(reader[h].cursor)
               /\ KindAt(reader[h].cursor)' = KindAt(reader[h].cursor)
    BY <1>1, <2>1
  <2>2. QED
    BY <1>1, <2>1 DEF IInv, SentInv
<1>6. FrameInv' /\ FloorInv' /\ CoverInv'
  BY ReleasedKeeps
<1>7. AheadInv'
  <2> SUFFICES ASSUME Serving', NEW c \in DOMAIN log', Owed(c)', client'.last < c
               PROVE  \/ Pending(c)'
                      \/ client'.pc = "replay" /\ c <= client'.high
                      \/ c \in client'.buffer
      BY DEF AheadInv
  <2>1. Serving /\ c \in DOMAIN log /\ Owed(c) /\ client.last < c
    BY <1>1 DEF Serving
  <2>2. \/ Pending(c)
        \/ client.pc = "replay" /\ c <= client.high
        \/ c \in client.buffer
    BY <2>1 DEF IInv, AheadInv
  <2>3. c # reader[g].cursor
    BY <2>1 DEF Serving, Subscribed
  <2>4. QED
    BY <1>1, <2>2, <2>3
<1>8. ResetInv'
  <2>1. client.pc \in {"replay", "drain", "registered"} => client.phase = "live"
    BY DEF Subscribed
  <2>2. QED
    BY <2>1 DEF ResetInv, Resetting
<1>9. QED
  BY <1>2, <1>3, <1>4, <1>5, <1>6, <1>7, <1>8 DEF IInv

(* The connection cannot take another frame and is closed.                 *)
LEMMA ReaderCloses ==
    ASSUME IInv, NEW g \in Gens, Released(g), client' = NoClient, sent' = <<>>,
           atRisk' \subseteq Positions
    PROVE  IInv'
<1>1. log' = log /\ mobile' = mobile
  BY ReleasedFacts
<1>2. /\ StoreInv' /\ ReaderInv' /\ HubInv' /\ OrderInv' /\ ReplicaInv'
  BY ReleasedStep
<1>3. /\ PhaseInv' /\ SentInv' /\ FrameInv' /\ FloorInv'
      /\ CoverInv' /\ AheadInv' /\ ResetInv'
  BY <1>1, Typed, ClosedConnection DEF IInv
<1>4. TypeOK'
  <2>1. <<>> \in Seq(Positions) /\ NoClient \in Connections
        /\ Len(NoClient.queue) <= QueueLimit
    BY ClosedConnectionType DEF Connections, FrameSet
  <2>2. QED
    BY <2>1, ReleasedType
<1>5. QED
  BY <1>2, <1>3, <1>4 DEF IInv

(* One event, newer than those sent, can be sent; nothing follows it.      *)
LEMMA OneSendable ==
    ASSUME IInv, NEW b \in DOMAIN log, \A i \in DOMAIN sent : sent[i] < b,
           NEW s \in Seq({}), NEW cs, cs \in {<<b>>, <<b>> \o s}
    PROVE  Sendable(cs) /\ (\A j : j \in DOMAIN cs <=> j = 1) /\ cs[1] = b
<1>1. Len(s) = 0
  <2>1. Len(s) \in Nat /\ \A j \in 1..Len(s) : s[j] \in {}
    OBVIOUS
  <2>2. QED
    BY <2>1
<1>2. <<b>> \in Seq(DOMAIN log) /\ Len(<<b>>) = 1 /\ <<b>>[1] = b
  OBVIOUS
<1>3. s \in Seq(DOMAIN log)
  <2>1. \A j \in 1..Len(s) : s[j] \in DOMAIN log
    BY <1>1
  <2>2. QED
    BY <2>1
<1>4. cs \in Seq(DOMAIN log) /\ Len(cs) = 1 /\ cs[1] = b
  <2>1. CASE cs = <<b>>
    BY <1>2, <2>1
  <2>2. CASE cs = <<b>> \o s
    <3>1. 1 \in DOMAIN <<b>>
      BY <1>2
    <3>2. /\ cs \in Seq(DOMAIN log) /\ Len(cs) = Len(<<b>>) + Len(s)
          /\ cs[1] = <<b>>[1]
      BY <1>2, <1>3, <2>2, <3>1, Concatenated
    <3>3. QED
      BY <1>1, <1>2, <3>2
  <2>3. QED
    BY <2>1, <2>2
<1>5. \A j : j \in DOMAIN cs <=> j = 1
  BY <1>4
<1>6. QED
  BY <1>4, <1>5 DEF Sendable, Increasing

(* A reader broadcasts the event it committed.                             *)
LEMMA BroadcastCommittedStep ==
    ASSUME IInv, NEW g \in Gens, BroadcastCommitted(g)
    PROVE  IInv'
<1>1. PICK b : b = reader[g].cursor
  OBVIOUS
<1>2. /\ Owns(g) /\ reader[g].pc = "queued" /\ Publish(b) /\ ReaderReleases
      /\ reader' = [reader EXCEPT ![g] = IF macGen = g THEN Idle ELSE Gone]
      /\ atRisk' = IF ResetOvertakesReplay THEN atRisk \cup {log[b]} ELSE atRisk
      /\ UNCHANGED <<source, store, macGen, mobile, gap, faults, conns>>
  BY <1>1 DEF BroadcastCommitted
<1>3. Pends(g) /\ b \in DOMAIN log /\ b \in Nat /\ log[b] \in Positions
  BY <1>1, <1>2, Typed DEF Pends, IInv, ReaderInv
<1>4. atRisk' \subseteq Positions /\ atRisk \subseteq atRisk' /\ atRisk' \subseteq atRisk \cup {log[b]}
  BY <1>2, <1>3 DEF IInv, TypeOK
<1>5. client'.pc \in {client.pc, "down"} => Released(g)
  BY <1>2, <1>4 DEF Released
<1>6. /\ client \in Connections /\ NoClient.pc = "down"
      /\ client.last \in Nat /\ \A i \in DOMAIN sent : sent[i] \in Nat
  BY ConnectionType, Typed DEF IInv, NoClient
<1>7. ASSUME client' = client, sent' = sent,
             ~Subscribed \/ (client.phase = "live" /\ ~(client.last < b))
      PROVE  IInv'
  BY <1>1, <1>2, <1>4, <1>5, <1>7, BroadcastPasses
<1>8. ASSUME client' = [client EXCEPT !.buffer = client.buffer \cup {b}], sent' = sent,
             Subscribed, client.phase \in {"replaying", "reset"}
      PROVE  IInv'
  <2>1. Released(g)
    BY <1>5, <1>6, <1>8 DEF Connections
  <2>2. QED
    BY <1>1, <1>2, <1>8, <2>1, BroadcastBuffers
<1>9. CASE ~Subscribed
  BY <1>2, <1>7, <1>9 DEF Publish
<1>10. CASE Subscribed /\ client.phase = "replaying"
  BY <1>2, <1>8, <1>10 DEF Publish
<1>11. ASSUME NEW cs, NEW phase \in {"reset", "live"}, NEW buffer \in SUBSET client.buffer,
              Sendable(cs), \A j : j \in DOMAIN cs <=> j = 1, cs[1] = b, Subscribed,
              \/ /\ client.phase = "live" /\ phase = "live" /\ client.last < b
              \/ /\ client.phase = "reset" /\ KindAt(b) # "terminal" /\ phase = "live"
                 /\ buffer = {}
              \/ client.phase = "reset" /\ KindAt(b) = "page" /\ phase = "reset",
              NEW changed, changed = [client EXCEPT !.phase = phase, !.last = b,
                                                    !.buffer = buffer],
              Enqueue(cs, changed)
       PROVE  IInv'
  <2>1. CASE Fits(cs)
    <3>1. client' = [changed EXCEPT !.queue = changed.queue \o FramesOf(cs)]
          /\ sent' = sent \o cs
      BY <1>11, <2>1 DEF Enqueue
    <3>2. client' = [client EXCEPT !.phase = phase, !.last = b, !.buffer = buffer,
                                   !.queue = client.queue \o FramesOf(cs)]
      BY <1>6, <1>11, <3>1 DEF Connections
    <3>3. Released(g)
      BY <1>5, <1>6, <3>2 DEF Connections
    <3>4. atRisk' \subseteq atRisk \cup {log[b]}
      BY <1>4
    <3>5. /\ reader[g].pc = "queued" /\ b = reader[g].cursor /\ sent' = sent \o cs
      BY <1>1, <1>2, <3>1
    <3>6. /\ Sendable(cs) /\ (\A j : j \in DOMAIN cs <=> j = 1) /\ cs[1] = b /\ Subscribed
          /\ \/ /\ client.phase = "live" /\ phase = "live" /\ client.last < b
             \/ /\ client.phase = "reset" /\ KindAt(b) # "terminal" /\ phase = "live"
                /\ buffer = {}
             \/ client.phase = "reset" /\ KindAt(b) = "page" /\ phase = "reset"
      BY <1>11
    <3>7. QED
      BY <2>1, <3>2, <3>3, <3>4, <3>5, <3>6, BroadcastSends
  <2>2. CASE ~Fits(cs)
    <3>1. client' = NoClient /\ sent' = <<>>
      BY <1>11, <2>2 DEF Enqueue
    <3>2. QED
      BY <1>4, <1>5, <1>6, <3>1, ReaderCloses
  <2>3. QED
    BY <2>1, <2>2
<1>12. ASSUME client.phase = "reset", KindAt(b) \in KeyframeKinds
       PROVE  \A i \in DOMAIN sent : sent[i] < b
  BY <1>1, <1>3, <1>12 DEF IInv, SentInv, KeyframeKinds
<1>13. CASE Subscribed /\ client.phase = "reset" /\ KindAt(b) = "final"
  <2> DEFINE s == InOrder({x \in client.buffer : b < x})
  <2>1. Enqueue(<<b>> \o s, [client EXCEPT !.phase = "live", !.last = b, !.buffer = {}])
    BY <1>2, <1>13 DEF Publish, KeyframeKinds
  <2>2. {x \in client.buffer : b < x} = {}
    <3>1. \A x \in client.buffer : x < b /\ x \in Nat
      BY <1>1, <1>3, <1>13, Typed DEF IInv, SentInv, Firm
    <3>2. QED
      BY <1>3, <3>1
  <2>3. s \in Seq({})
    BY <2>2, InOrderSorts
  <2> HIDE DEF s
  <2>4. /\ Sendable(<<b>> \o s) /\ (\A j : j \in DOMAIN (<<b>> \o s) <=> j = 1)
        /\ (<<b>> \o s)[1] = b
    BY <1>3, <1>12, <1>13, <2>3, OneSendable DEF KeyframeKinds
  <2>5. KindAt(b) # "terminal" /\ {} \in SUBSET client.buffer
    BY <1>13
  <2>6. QED
    BY <1>11, <1>13, <2>1, <2>4, <2>5
<1>14. CASE Subscribed /\ client.phase = "reset" /\ KindAt(b) = "page"
  <2>1. Enqueue(<<b>>, [client EXCEPT !.last = b])
    BY <1>2, <1>14 DEF Publish, KeyframeKinds
  <2>2. [client EXCEPT !.last = b]
          = [client EXCEPT !.phase = "reset", !.last = b, !.buffer = client.buffer]
    BY <1>6, <1>14 DEF Connections
  <2>3. <<>> \in Seq({})
    OBVIOUS
  <2>4. Sendable(<<b>>) /\ (\A j : j \in DOMAIN <<b>> <=> j = 1) /\ <<b>>[1] = b
    BY <1>3, <1>12, <1>14, <2>3, OneSendable DEF KeyframeKinds
  <2>5. QED
    BY <1>11, <1>14, <2>1, <2>2, <2>4
<1>15. CASE Subscribed /\ client.phase = "reset" /\ KindAt(b) \notin KeyframeKinds
  BY <1>2, <1>8, <1>15 DEF Publish, KeyframeKinds
<1>16. CASE Subscribed /\ client.phase = "live"
  <2>1. CASE client.last < b
    <3>1. Enqueue(<<b>>, [client EXCEPT !.last = b])
      BY <1>2, <1>16, <2>1 DEF Publish
    <3>2. [client EXCEPT !.last = b]
            = [client EXCEPT !.phase = "live", !.last = b, !.buffer = client.buffer]
      BY <1>6, <1>16 DEF Connections
    <3>3. <<>> \in Seq({})
      OBVIOUS
    <3>4. \A i \in DOMAIN sent : sent[i] < b
      BY <1>3, <1>6, <2>1 DEF IInv, SentInv
    <3>5. Sendable(<<b>>) /\ (\A j : j \in DOMAIN <<b>> <=> j = 1) /\ <<b>>[1] = b
      BY <1>3, <3>3, <3>4, OneSendable
    <3>6. QED
      BY <1>11, <1>16, <2>1, <3>1, <3>2, <3>5
  <2>2. CASE ~(client.last < b)
    BY <1>2, <1>7, <1>16, <2>2 DEF Publish
  <2>3. QED
    BY <2>1, <2>2
<1>17. Subscribed => client.phase \in {"replaying", "reset", "live"}
  BY <1>6 DEF Subscribed, Connections, IInv, PhaseInv
<1>18. QED
  BY <1>9, <1>10, <1>13, <1>14, <1>15, <1>16, <1>17 DEF KeyframeKinds

(* A reset at the end of the queue: what was covered stays covered, and    *)
(* nothing follows the reset.                                              *)
LEMMA AppendedReset ==
    ASSUME IInv, NEW n, n = Len(client.queue),
           NEW q, q = Append(client.queue, ResetFrame)
    PROVE  /\ q \in Seq(FrameSet) /\ Len(q) = n + 1
           /\ DOMAIN q = 1..(n + 1)
           /\ DOMAIN client.queue = 1..n /\ n \in Nat
           /\ \A i \in DOMAIN client.queue : i \in DOMAIN q /\ q[i] = client.queue[i]
           /\ q[n + 1] = ResetFrame
           /\ q[n + 1].type = "reset"
           /\ q[n + 1].epoch = epoch
           /\ \A i \in DOMAIN q : i \in DOMAIN client.queue \/ i = n + 1
           /\ \A i \in DOMAIN q : IsEvent(q[i]) => i \in DOMAIN client.queue
           /\ \A c \in Nat : Covered(c, client.queue, mobile, source)
                => Covered(c, q, mobile, source)
           /\ \A i \in Nat : NoFinals(client.queue, i, source) => NoFinals(q, i, source)
           /\ NoFinals(q, n + 1, source)
           /\ \A c : FinalsBeyond(q, n + 1, c, source)
           /\ q # <<>>
<1>1. ResetFrame \in FrameSet /\ ResetFrame.type = "reset" /\ ResetFrame.epoch = epoch
  BY ResetFrameType
<1>2. client.queue \in Seq(FrameSet) /\ n \in Nat /\ DOMAIN client.queue = 1..n
  BY Typed DEF IInv
<1>3. /\ q \in Seq(FrameSet) /\ Len(q) = n + 1 /\ DOMAIN q = 1..(n + 1)
      /\ q[n + 1] = ResetFrame /\ \A i \in 1..n : q[i] = client.queue[i]
  BY <1>1, <1>2
<1>4. \A i \in DOMAIN client.queue : i \in DOMAIN q /\ q[i] = client.queue[i]
  BY <1>2, <1>3
<1>5. \A i \in DOMAIN q : i \in DOMAIN client.queue \/ i = n + 1
  BY <1>2, <1>3
<1>6. \A i \in DOMAIN q : IsEvent(q[i]) => i \in DOMAIN client.queue
  BY <1>1, <1>3, <1>5 DEF IsEvent
<1>7. ASSUME NEW c \in Nat, Covered(c, client.queue, mobile, source)
      PROVE  Covered(c, q, mobile, source)
  <2>1. <<ResetFrame>> \in Seq(FrameSet)
    BY <1>1
  <2>2. \A j \in DOMAIN <<ResetFrame>> :
          IsEvent(<<ResetFrame>>[j]) => c < <<ResetFrame>>[j].cursor
    BY <1>1 DEF IsEvent
  <2>3. Covered(c, client.queue \o <<ResetFrame>>, mobile, source)
    BY <1>2, <1>7, <2>1, <2>2, CoveredExtended
  <2>4. client.queue \o <<ResetFrame>> = q
    BY <1>1, <1>2
  <2>5. QED
    BY <2>3, <2>4
<1>8. ASSUME NEW i \in Nat, NoFinals(client.queue, i, source)
      PROVE  NoFinals(q, i, source)
  BY <1>4, <1>6, <1>8 DEF NoFinals, IsFinal, IsEvent
<1>9. \A j \in DOMAIN q : ~(n + 1 < j)
  BY <1>2, <1>3
<1>10. NoFinals(q, n + 1, source) /\ \A c : FinalsBeyond(q, n + 1, c, source)
  BY <1>9 DEF NoFinals, FinalsBeyond
<1>11. q # <<>>
  BY <1>2, <1>3
<1>12. QED
  BY <1>1, <1>2, <1>3, <1>4, <1>5, <1>6, <1>7, <1>8, <1>10, <1>11

(* The reset is queued for the connection and its buffer is emptied.       *)
LEMMA ResetQueued ==
    ASSUME IInv, NEW g \in Gens, Released(g), reader[g].pc = "resetting", Subscribed,
           Fits(<<ResetFrame>>),
           client' = [client EXCEPT !.phase = "reset", !.buffer = {},
                                    !.queue = Append(client.queue, ResetFrame)],
           sent' = sent,
           atRisk' = IF client.pc \in {"replay", "drain"}
                     THEN atRisk \cup {log[c] : c \in client.buffer} ELSE atRisk
    PROVE  IInv'
<1>1. /\ client.pc # "floor"
      /\ ~Pends(g)' /\ reader'[g].pc \in {"idle", "gone"}
      /\ \A h \in Gens : h # g => reader'[h] = reader[h] /\ (Pends(h)' <=> Pends(h))
      /\ epoch' = epoch /\ log' = log /\ kept' = kept /\ floor' = floor
      /\ source' = source /\ mobile' = mobile
      /\ \A c : /\ KindAt(c)' = KindAt(c) /\ (AtRisk(c) => AtRisk(c)')
                /\ (Owed(c)' => Owed(c)) /\ (Firm(c)' => Firm(c))
      /\ \A c : Pending(c) => Pending(c)' \/ (Pends(g) /\ c = reader[g].cursor)
      /\ \A h \in Gens : h # g =>
           /\ KindAt(reader[h].cursor)' = KindAt(reader[h].cursor)
           /\ Firm(reader[h].cursor)' => Firm(reader[h].cursor)
  BY ReleasedFacts
<1>2. /\ StoreInv' /\ ReaderInv' /\ HubInv' /\ OrderInv' /\ ReplicaInv'
  BY ReleasedStep
<1>3. /\ \A c \in DOMAIN log : c \in Nat /\ log[c] \in Positions
      /\ \A i \in DOMAIN sent : sent[i] \in Nat
      /\ client.last \in Nat /\ client.high \in Nat /\ client.queue \in Seq(FrameSet)
  BY Typed DEF IInv
<1>4. client \in Connections
  BY ConnectionType DEF IInv
<1>5. /\ client'.queue = Append(client.queue, ResetFrame)
      /\ client'.pc = client.pc /\ client'.phase = "reset" /\ client'.high = client.high
      /\ client'.last = client.last /\ client'.buffer = {}
  BY <1>4 DEF Connections
<1>6. client.pc \in {"replay", "drain", "registered"}
  BY <1>1, <1>4 DEF Subscribed, Connections
<1>7. PICK n \in Nat : n = Len(client.queue)
  BY Typed DEF IInv
<1>8. /\ client'.queue \in Seq(FrameSet) /\ Len(client'.queue) = n + 1
      /\ DOMAIN client'.queue = 1..(n + 1) /\ DOMAIN client.queue = 1..n
      /\ \A i \in DOMAIN client.queue : i \in DOMAIN client'.queue
                                        /\ client'.queue[i] = client.queue[i]
      /\ client'.queue[n + 1] = ResetFrame /\ client'.queue[n + 1].type = "reset"
      /\ client'.queue[n + 1].epoch = epoch
      /\ \A i \in DOMAIN client'.queue : i \in DOMAIN client.queue \/ i = n + 1
      /\ \A i \in DOMAIN client'.queue : IsEvent(client'.queue[i]) => i \in DOMAIN client.queue
      /\ \A c \in Nat : Covered(c, client.queue, mobile, source)
           => Covered(c, client'.queue, mobile, source)
      /\ \A i \in Nat : NoFinals(client.queue, i, source)
           => NoFinals(client'.queue, i, source)
      /\ NoFinals(client'.queue, n + 1, source)
      /\ \A c : FinalsBeyond(client'.queue, n + 1, c, source)
      /\ client'.queue # <<>>
  <2>1. PICK q : q = client'.queue
    OBVIOUS
  <2>2. n = Len(client.queue) /\ q = Append(client.queue, ResetFrame)
    BY <1>5, <1>7, <2>1
  <2>3. /\ q \in Seq(FrameSet) /\ Len(q) = n + 1
        /\ DOMAIN q = 1..(n + 1) /\ DOMAIN client.queue = 1..n
        /\ \A i \in DOMAIN client.queue : i \in DOMAIN q /\ q[i] = client.queue[i]
        /\ q[n + 1] = ResetFrame /\ q[n + 1].type = "reset"
        /\ q[n + 1].epoch = epoch
        /\ \A i \in DOMAIN q : i \in DOMAIN client.queue \/ i = n + 1
        /\ \A i \in DOMAIN q : IsEvent(q[i]) => i \in DOMAIN client.queue
        /\ \A c \in Nat : Covered(c, client.queue, mobile, source)
             => Covered(c, q, mobile, source)
        /\ \A i \in Nat : NoFinals(client.queue, i, source) => NoFinals(q, i, source)
        /\ NoFinals(q, n + 1, source)
        /\ \A c : FinalsBeyond(q, n + 1, c, source)
        /\ q # <<>>
    BY <2>2, AppendedReset
  <2>4. QED
    BY <2>1, <2>3
<1>9. n + 1 \in DOMAIN client'.queue
  BY <1>7, <1>8
<1>10. TypeOK'
  <2>1. client' \in Connections
    BY <1>4, <1>5, <1>8 DEF Connections
  <2>2. Len(client'.queue) <= QueueLimit
    BY <1>7, <1>8 DEF Fits
  <2>3. client.buffer \subseteq DOMAIN log /\ atRisk \subseteq Positions
    BY DEF IInv, PhaseInv, TypeOK
  <2>4. atRisk' \subseteq Positions
    BY <1>3, <2>3
  <2>5. sent' \in Seq(Positions)
    BY DEF IInv, TypeOK
  <2>6. QED
    BY <2>1, <2>2, <2>4, <2>5, ReleasedType
<1>11. PhaseInv'
  BY <1>1, <1>5, <1>6 DEF IInv, PhaseInv
<1>12. SentInv'
  <2>1. \A h \in Gens : Pends(h)' => KindAt(reader[h].cursor)' = "terminal"
    BY <1>1, HeadResets DEF Released
  <2>2. QED
    BY <1>1, <1>5, <2>1 DEF IInv, SentInv
<1>13. FrameInv'
  <2>1. \A i \in DOMAIN client'.queue : client'.queue[i].epoch = epoch
    BY <1>8 DEF IInv, FrameInv
  <2>2. ASSUME NEW i \in DOMAIN client'.queue, IsEvent(client'.queue[i])
        PROVE  /\ client'.queue[i].cursor \in DOMAIN log
               /\ client'.queue[i].pos = log[client'.queue[i].cursor]
               /\ \E k \in DOMAIN sent : sent[k] = client'.queue[i].cursor
    BY <1>8, <2>2 DEF IInv, FrameInv
  <2>3. ASSUME NEW i \in DOMAIN client'.queue, NEW j \in DOMAIN client'.queue, i < j,
               IsEvent(client'.queue[i]), IsEvent(client'.queue[j])
        PROVE  client'.queue[i].cursor < client'.queue[j].cursor
    <3>1. /\ i \in DOMAIN client.queue /\ j \in DOMAIN client.queue
          /\ client'.queue[i] = client.queue[i] /\ client'.queue[j] = client.queue[j]
      BY <1>8, <2>3
    <3>2. QED
      BY <2>3, <3>1 DEF IInv, FrameInv
  <2>4. \/ mobile.epoch \in {0, epoch}
        \/ client'.queue # <<>> /\ client'.queue[1].type = "reset"
    <3>1. CASE client.queue # <<>> /\ client.queue[1].type = "reset"
      <4>1. 1 \in DOMAIN client.queue
        BY <1>3, <3>1
      <4>2. QED
        BY <1>8, <3>1, <4>1
    <3>2. QED
      BY <1>6, <3>1 DEF IInv, FrameInv
  <2>5. QED
    BY <1>1, <2>1, <2>2, <2>3, <2>4 DEF FrameInv
<1>14. FloorInv'
  BY <1>1, <1>5 DEF IInv, FloorInv
<1>15. CoverInv'
  BY <1>1, <1>3, <1>5, <1>8 DEF IInv, CoverInv, Serving
<1>16. AheadInv'
  <2> SUFFICES ASSUME Serving', NEW c \in DOMAIN log', Owed(c)', client'.last < c
               PROVE  \/ Pending(c)'
                      \/ client'.pc = "replay" /\ c <= client'.high
                      \/ c \in client'.buffer
      BY DEF AheadInv
  <2>1. client.pc \in {"replay", "drain"}
    BY <1>5 DEF Serving
  <2>2. c \in DOMAIN log /\ Owed(c) /\ client.last < c /\ ~AtRisk(c)'
    BY <1>1, <1>5 DEF Owed
  <2>3. c \notin client.buffer
    <3> SUFFICES ASSUME c \in client.buffer
                 PROVE  FALSE
        OBVIOUS
    <3>1. log[c] \in atRisk'
      BY <2>1
    <3>2. QED
      BY <1>1, <2>2, <3>1 DEF AtRisk
  <2>4. Pending(c) \/ (client.pc = "replay" /\ c <= client.high)
    BY <2>1, <2>2, <2>3 DEF IInv, AheadInv, Serving
  <2>5. ~Pends(g)
    BY DEF Pends
  <2>6. QED
    BY <1>1, <1>5, <2>4, <2>5
<1>17. ResetInv'
  <2>1. ASSUME client.pc = "registered", NEW c \in DOMAIN log, Owed(c)
        PROVE  Covered(c, client'.queue, mobile, source)
    <3>1. CASE \A j \in DOMAIN client.queue :
                 IsEvent(client.queue[j]) => client.queue[j].cursor < c
      <4>1. \A j \in DOMAIN client'.queue :
              IsEvent(client'.queue[j]) => client'.queue[j].cursor < c
        BY <1>8, <3>1
      <4>2. Skips(client'.queue, c, source)
        BY <1>8, <1>9, <4>1 DEF Skips
      <4>3. QED
        BY <4>2 DEF Covered
    <3>2. ASSUME NEW j \in DOMAIN client.queue, IsEvent(client.queue[j]),
                 ~(client.queue[j].cursor < c)
          PROVE  Covered(c, client'.queue, mobile, source)
      <4>1. PICK k \in DOMAIN sent : sent[k] = client.queue[j].cursor
        BY <3>2 DEF IInv, FrameInv
      <4>2. sent[k] \in Nat /\ sent[k] <= client.last
        BY <1>3 DEF IInv, SentInv
      <4>3. ~(sent[k] < c) /\ c \in Nat
        BY <1>3, <3>2, <4>1
      <4>4. c <= client.last
        BY <1>3, <4>2, <4>3
      <4>5. CASE client.phase = "live"
        <5>1. Serving
          BY <2>1, <4>5 DEF Serving
        <5>2. Covered(c, client.queue, mobile, source)
          BY <2>1, <4>4, <5>1 DEF IInv, CoverInv
        <5>3. QED
          BY <1>8, <4>3, <5>2
      <4>6. CASE client.phase = "reset"
        <5>1. Covered(c, client.queue, mobile, source)
          BY <2>1, <4>3, <4>6 DEF IInv, ResetInv, Resetting
        <5>2. QED
          BY <1>8, <4>3, <5>1
      <4>7. client.phase \in {"reset", "live"}
        BY <2>1 DEF IInv, PhaseInv
      <4>8. QED
        BY <4>5, <4>6, <4>7
    <3>3. QED
      BY <3>1, <3>2
  <2>2. \E i \in DOMAIN client'.queue :
          client'.queue[i].type = "reset" /\ NoFinals(client'.queue, i, source)
    BY <1>8, <1>9
  <2>3. ASSUME client.pc = "replay"
        PROVE  \/ client.high <= client.last
               \/ /\ NoFinals(client'.queue, 0, source)
                  /\ mobile.recovery \/ (client'.queue # <<>> /\ client'.queue[1].type = "reset")
    <3>1. CASE client.phase = "replaying"
      <4>1. client.queue = <<>>
        BY <2>3, <3>1 DEF IInv, PhaseInv
      <4>2. n = 0
        BY <1>7, <4>1
      <4>3. 1 \in DOMAIN client'.queue /\ client'.queue[1].type = "reset"
        BY <1>8, <4>2
      <4>4. \A j \in DOMAIN client'.queue : client'.queue[j].type = "reset"
        BY <1>8, <4>2
      <4>5. NoFinals(client'.queue, 0, source)
        BY <4>4 DEF NoFinals, IsFinal
      <4>6. QED
        BY <1>8, <4>3, <4>5
    <3>2. CASE client.phase = "live"
      <4>1. client.high < client.last
        BY <2>3, <3>2 DEF IInv, PhaseInv
      <4>2. QED
        BY <1>3, <4>1
    <3>3. CASE client.phase = "reset"
      <4>1. CASE client.high <= client.last
        BY <4>1
      <4>2. CASE /\ NoFinals(client.queue, 0, source)
                 /\ mobile.recovery \/ (client.queue # <<>> /\ client.queue[1].type = "reset")
        <5>1. NoFinals(client'.queue, 0, source)
          BY <1>8, <4>2
        <5>2. CASE client.queue # <<>> /\ client.queue[1].type = "reset"
          <6>1. 1 \in DOMAIN client.queue
            BY <1>3, <5>2
          <6>2. QED
            BY <1>8, <5>1, <5>2, <6>1
        <5>3. QED
          BY <4>2, <5>1, <5>2
      <4>3. QED
        BY <2>3, <3>3, <4>1, <4>2 DEF IInv, ResetInv
    <3>4. client.phase \in {"replaying", "live", "reset"}
      BY <1>4, <2>3 DEF IInv, PhaseInv, Connections
    <3>5. QED
      BY <3>1, <3>2, <3>3, <3>4
  <2>4. QED
    BY <1>1, <1>5, <2>1, <2>2, <2>3 DEF ResetInv, Resetting
<1>18. QED
  BY <1>2, <1>10, <1>11, <1>12, <1>13, <1>14, <1>15, <1>16, <1>17 DEF IInv

(* A connection that is not registered yet is not reset.                   *)
LEMMA ResetPasses ==
    ASSUME IInv, NEW g \in Gens, Released(g), reader[g].pc = "resetting", ~Subscribed,
           client' = client, sent' = sent, atRisk' = atRisk
    PROVE  IInv'
<1>1. /\ client.pc # "floor" /\ ~Pends(g)'
      /\ \A h \in Gens : h # g => reader'[h] = reader[h] /\ (Pends(h)' <=> Pends(h))
      /\ epoch' = epoch /\ log' = log /\ kept' = kept /\ source' = source /\ mobile' = mobile
  BY ReleasedFacts
<1>2. /\ StoreInv' /\ ReaderInv' /\ HubInv' /\ OrderInv' /\ ReplicaInv'
  BY ReleasedStep
<1>3. TypeOK'
  BY ConnectionType, ReleasedType DEF IInv, TypeOK
<1>4. Unseen
  <2>1. ~Pends(g)
    BY DEF Pends
  <2>2. \A h \in Gens : /\ Pends(h)' => Pends(h) /\ reader'[h].cursor = reader[h].cursor
                        /\ Pends(h) => Pends(h)' /\ reader'[h].cursor = reader[h].cursor
    BY <1>1, <2>1
  <2>3. QED
    BY <1>1, <2>2, Typed DEF IInv, Unseen
<1>5. FloorInv'
  BY <1>1, <1>4, UnseenFloor
<1>6. QED
  BY <1>2, <1>3, <1>4, <1>5, UnseenStep DEF IInv

(* A reader requires a reset.                                              *)
LEMMA RequireResetStep ==
    ASSUME IInv, NEW g \in Gens, RequireReset(g)
    PROVE  IInv'
<1>1. /\ Owns(g) /\ reader[g].pc = "resetting" /\ ReaderReleases
      /\ atRisk' = IF client.pc \in {"replay", "drain"}
                   THEN atRisk \cup {log[c] : c \in client.buffer} ELSE atRisk
      /\ IF Subscribed
         THEN EnqueueReset([client EXCEPT !.phase = "reset", !.buffer = {}])
         ELSE UNCHANGED <<client, sent>>
      /\ reader' = [reader EXCEPT ![g] = Idle]
      /\ UNCHANGED <<source, store, macGen, mobile, gap, faults, conns>>
  BY DEF RequireReset
<1>2. client \in Connections /\ NoClient.pc = "down"
  BY ConnectionType DEF IInv, NoClient
<1>3. client'.pc \in {client.pc, "down"} => Released(g)
  <2>1. atRisk \subseteq atRisk'
    BY <1>1
  <2>2. QED
    BY <1>1, <2>1 DEF Released
<1>4. CASE ~Subscribed
  <2>1. client' = client /\ sent' = sent /\ atRisk' = atRisk
    BY <1>1, <1>4 DEF Subscribed
  <2>2. QED
    BY <1>1, <1>3, <1>4, <2>1, ResetPasses
<1>5. CASE Subscribed /\ Fits(<<ResetFrame>>)
  <2>1. /\ client' = [client EXCEPT !.phase = "reset", !.buffer = {},
                                    !.queue = Append(client.queue, ResetFrame)]
        /\ sent' = sent
    BY <1>1, <1>2, <1>5 DEF EnqueueReset, Connections
  <2>2. Released(g)
    BY <1>2, <1>3, <2>1 DEF Connections
  <2>3. QED
    BY <1>1, <1>5, <2>1, <2>2, ResetQueued
<1>6. CASE Subscribed /\ ~Fits(<<ResetFrame>>)
  <2>1. client' = NoClient /\ sent' = <<>>
    BY <1>1, <1>6 DEF EnqueueReset
  <2>2. client.buffer \subseteq DOMAIN log /\ atRisk \subseteq Positions
    BY DEF IInv, PhaseInv, TypeOK
  <2>3. \A c \in DOMAIN log : log[c] \in Positions
    BY Typed DEF IInv
  <2>4. atRisk' \subseteq Positions
    BY <1>1, <2>2, <2>3
  <2>5. QED
    BY <1>2, <1>3, <2>1, <2>4, ReaderCloses
<1>7. QED
  BY <1>4, <1>5, <1>6

-----------------------------------------------------------------------------
(* The replica takes a frame.                                              *)

Replicas == [epoch : 0..(MaxFaults + 1), applied : 0..MaxSource, recovery : BOOLEAN,
             staged : SUBSET Positions, revision : 0..MaxSource, have : SUBSET Positions]

\* It goes on as it was, but for what it has staged, and may begin to wait.
Stays(m, n) ==
    /\ n.applied = m.applied /\ n.revision = m.revision /\ n.have = m.have
    /\ m.recovery => n.recovery

\* It applies the final of a staged keyframe.
TakesFinal(n, f) ==
    /\ IsFinal(f, source)
    /\ n.applied = f.cursor /\ n.revision = f.pos /\ n.have = 1..f.pos

\* It applies another event, or passes over a stale one.
TakesEvent(m, n, f) ==
    /\ IsEvent(f) /\ source[f.pos] \notin KeyframeKinds /\ ~m.recovery
    /\ n.applied = f.cursor
    /\ \/ f.pos < m.revision /\ n.revision = m.revision /\ n.have = m.have
       \/ /\ f.pos >= m.revision /\ n.revision = f.pos /\ n.have = m.have \cup {f.pos}
          /\ source[f.pos] = "terminal" \/ f.pos = m.revision + 1

\* What it may do with an event it does not take.
Dismisses(m, n, f) ==
    \/ n.recovery
    \/ IsEvent(f) /\ (f.cursor <= m.applied \/ source[f.pos] = "page")

(* Whatever the frame, the replica is of its epoch afterwards and has done  *)
(* one of three things.                                                    *)
LEMMA AppliedCases ==
    ASSUME NEW m \in Replicas, NEW f \in FrameSet, m.epoch \in {0, f.epoch} \/ f.type = "reset",
           IsEvent(f) => source[f.pos] \in Kinds,
           NEW n, n = Applied(m, f)
    PROVE  /\ n \in Replicas /\ n.epoch = f.epoch
           /\ \/ Stays(m, n) /\ Dismisses(m, n, f)
              \/ TakesFinal(n, f) /\ m.applied < f.cursor
              \/ TakesEvent(m, n, f) /\ m.applied < f.cursor
<1>1. /\ f.type \in {"event", "reset"} /\ f.epoch \in 0..(MaxFaults + 1)
      /\ IsEvent(f) => /\ f.cursor \in Positions /\ f.cursor \in Nat
                       /\ f.pos \in Positions /\ f.pos \in Nat
  BY FrameTypes, RelayStreamAssumption
<1>2. m.applied \in Nat /\ m.revision \in Nat
  BY RelayStreamAssumption DEF Replicas
<1>3. CASE f.type = "reset"
  <2>1. n = [m EXCEPT !.recovery = TRUE, !.epoch = f.epoch]
    BY <1>3 DEF Applied, NeedsReset, Replicas
  <2>2. n \in Replicas /\ n.epoch = f.epoch /\ n.recovery
        /\ n.applied = m.applied /\ n.revision = m.revision /\ n.have = m.have
    BY <1>1, <2>1 DEF Replicas
  <2>3. QED
    BY <2>2 DEF Stays, Dismisses
<1>4. CASE f.type = "event"
  <2>1. PICK known : known = [m EXCEPT !.epoch = f.epoch]
    OBVIOUS
  <2>2. /\ known \in Replicas /\ known.epoch = f.epoch /\ known.applied = m.applied
        /\ known.recovery = m.recovery /\ known.revision = m.revision
        /\ known.have = m.have /\ known.staged = m.staged
    BY <1>1, <2>1 DEF Replicas
  <2>3. n = IF f.cursor <= m.applied THEN known
            ELSE IF m.recovery /\ source[f.pos] \notin KeyframeKinds THEN known
            ELSE AppliedEvent(known, f)
    BY <1>4, <2>1 DEF Applied
  <2>4. IsEvent(f) /\ source[f.pos] \in Kinds /\ f.cursor \in Positions /\ f.cursor \in Nat
        /\ f.pos \in Positions /\ f.pos \in Nat
    BY <1>1, <1>4 DEF IsEvent
  <2>5. CASE f.cursor <= m.applied
    BY <2>2, <2>3, <2>4, <2>5 DEF Stays, Dismisses
  <2>6. CASE m.recovery /\ source[f.pos] \notin KeyframeKinds
    BY <2>2, <2>3, <2>4, <2>6 DEF Stays, Dismisses
  <2>7. ASSUME n = AppliedEvent(known, f), ~(f.cursor <= m.applied),
               ~(m.recovery /\ source[f.pos] \notin KeyframeKinds)
        PROVE  /\ n \in Replicas /\ n.epoch = f.epoch
               /\ \/ Stays(m, n) /\ Dismisses(m, n, f)
                  \/ TakesFinal(n, f) /\ m.applied < f.cursor
                  \/ TakesEvent(m, n, f) /\ m.applied < f.cursor
    <3>1. m.applied < f.cursor
      BY <1>2, <2>4, <2>7
    <3>2. ASSUME n = NeedsReset(known)
          PROVE  n \in Replicas /\ n.epoch = f.epoch /\ Stays(m, n) /\ Dismisses(m, n, f)
      <4>1. /\ n \in Replicas /\ n.epoch = f.epoch /\ n.recovery
            /\ n.applied = m.applied /\ n.revision = m.revision /\ n.have = m.have
        BY <2>2, <3>2 DEF NeedsReset, Replicas
      <4>2. QED
        BY <4>1 DEF Stays, Dismisses
    <3>3. CASE source[f.pos] = "page"
      <4>1. n = [known EXCEPT !.staged = known.staged \cup {f.pos}]
        BY <2>7, <3>3 DEF AppliedEvent, KeyframeKinds
      <4>2. /\ n \in Replicas /\ n.epoch = f.epoch /\ n.recovery = m.recovery
            /\ n.applied = m.applied /\ n.revision = m.revision /\ n.have = m.have
        BY <2>2, <2>4, <4>1 DEF Replicas
      <4>3. QED
        BY <2>4, <3>3, <4>2 DEF Stays, Dismisses
    <3>4. CASE source[f.pos] = "final"
      <4>1. CASE f.pos - 1 \in known.staged
        <5>1. n = [known EXCEPT !.applied = f.cursor, !.recovery = FALSE,
                                !.staged = known.staged \ {f.pos - 1},
                                !.revision = f.pos, !.have = 1..f.pos]
          <6>1. AppliedEvent(known, f)
                  = [[known EXCEPT !.applied = f.cursor]
                       EXCEPT !.recovery = FALSE, !.staged = known.staged \ {f.pos - 1},
                              !.revision = f.pos, !.have = 1..f.pos]
            BY <2>2, <3>4, <4>1 DEF AppliedEvent, KeyframeKinds, Replicas
          <6>2. QED
            BY <2>2, <2>7, <6>1 DEF Replicas
        <5>2. f.cursor \in 0..MaxSource /\ f.pos \in 0..MaxSource /\ 1..f.pos \subseteq Positions
          BY <2>4, RelayStreamAssumption DEF Positions
        <5>3. /\ n \in Replicas /\ n.epoch = f.epoch
              /\ n.applied = f.cursor /\ n.revision = f.pos /\ n.have = 1..f.pos
          <6>1. known.staged \ {f.pos - 1} \subseteq Positions
            BY <2>2 DEF Replicas
          <6>2. /\ n.epoch = known.epoch
                /\ n.applied = f.cursor /\ n.revision = f.pos /\ n.have = 1..f.pos
            BY <2>2, <5>1 DEF Replicas
          <6>3. n \in Replicas
            BY <2>2, <5>1, <5>2, <6>1 DEF Replicas
          <6>4. QED
            BY <2>2, <6>2, <6>3
        <5>4. QED
          BY <2>4, <3>1, <3>4, <5>3 DEF TakesFinal, IsFinal, IsEvent
      <4>2. CASE f.pos - 1 \notin known.staged
        BY <2>7, <3>2, <3>4, <4>2 DEF AppliedEvent, KeyframeKinds
      <4>3. QED
        BY <4>1, <4>2
    <3>5. CASE source[f.pos] \in {"text", "terminal"}
      <4>1. source[f.pos] \notin KeyframeKinds /\ ~m.recovery
        BY <2>7, <3>5 DEF KeyframeKinds
      <4>2. f.cursor \in 0..MaxSource /\ f.pos \in 0..MaxSource
        BY <2>4, RelayStreamAssumption DEF Positions
      <4>3. CASE f.pos < m.revision
        <5>0. ~(f.pos >= m.revision) /\ f.pos # m.revision + 1
          BY <1>2, <2>4, <4>3
        <5>1. n = [known EXCEPT !.applied = f.cursor]
          BY <2>2, <2>7, <3>5, <4>1, <4>3, <5>0 DEF AppliedEvent, KeyframeKinds
        <5>2. /\ n \in Replicas /\ n.epoch = f.epoch
              /\ n.applied = f.cursor /\ n.revision = m.revision /\ n.have = m.have
          BY <2>2, <4>2, <5>1 DEF Replicas
        <5>3. QED
          BY <2>4, <3>1, <4>1, <4>3, <5>2 DEF TakesEvent
      <4>4. CASE /\ ~(f.pos < m.revision)
                 /\ source[f.pos] = "terminal" \/ f.pos = m.revision + 1
        <5>1. f.pos >= m.revision
          BY <1>2, <2>4, <4>4
        <5>2. n = [known EXCEPT !.applied = f.cursor, !.revision = f.pos,
                                !.have = known.have \cup {f.pos}]
          BY <2>2, <2>7, <3>5, <4>1, <4>4, <5>1 DEF AppliedEvent, KeyframeKinds, Replicas
        <5>3. /\ n \in Replicas /\ n.epoch = f.epoch
              /\ n.applied = f.cursor /\ n.revision = f.pos /\ n.have = m.have \cup {f.pos}
          <6>1. known.have \cup {f.pos} \subseteq Positions
            BY <2>2, <2>4 DEF Replicas
          <6>2. QED
            BY <2>2, <4>2, <5>2, <6>1 DEF Replicas
        <5>4. QED
          BY <2>4, <3>1, <4>1, <4>4, <5>1, <5>3 DEF TakesEvent
      <4>5. CASE /\ ~(f.pos < m.revision)
                 /\ source[f.pos] = "text" /\ f.pos # m.revision + 1
        <5>1. f.pos >= m.revision
          BY <1>2, <2>4, <4>5
        <5>2. n = NeedsReset(known)
          BY <2>2, <2>7, <4>1, <4>5, <5>1 DEF AppliedEvent, KeyframeKinds
        <5>3. QED
          BY <3>2, <5>2
      <4>6. QED
        BY <3>5, <4>3, <4>4, <4>5
    <3>6. QED
      BY <2>4, <3>3, <3>4, <3>5 DEF Kinds
  <2>8. QED
    BY <2>3, <2>5, <2>6, <2>7
<1>5. QED
  BY <1>1, <1>3, <1>4

\* The mobile takes the frame at the head of its queue.
Receives(f) ==
    /\ client.queue # <<>> /\ f = client.queue[1] /\ Head(client.queue) = f
    /\ mobile' = Applied(mobile, f)
    /\ client' = [client EXCEPT !.queue = Tail(client.queue)]
    /\ UNCHANGED <<source, store, macGen, reader, hubQueue, gap, atRisk, sent,
                   faults, conns>>

(* What a frame does to the replica, and that the connection is one that   *)
(* the hub serves or resets.                                               *)
LEMMA ReceivesFacts ==
    ASSUME IInv, NEW f, Receives(f)
    PROVE  /\ mobile' \in Replicas /\ mobile'.epoch = epoch
           /\ \/ Stays(mobile, mobile') /\ Dismisses(mobile, mobile', f)
              \/ TakesFinal(mobile', f) /\ mobile.applied < f.cursor
              \/ TakesEvent(mobile, mobile', f) /\ mobile.applied < f.cursor
           /\ mobile.applied <= mobile'.applied /\ mobile'.applied \in Nat
           /\ f \in FrameSet
           /\ Serving \/ Resetting
           /\ client.pc \in {"replay", "drain", "registered"}
           /\ IsEvent(f) => mobile.epoch \in {0, epoch}
           /\ IsEvent(f) => /\ f.cursor \in DOMAIN log /\ f.pos = log[f.cursor]
                            /\ f.pos \in DOMAIN source
                            /\ \E k \in DOMAIN sent : sent[k] = f.cursor
<1>1. /\ client.queue \in Seq(FrameSet) /\ DOMAIN client.queue = 1..Len(client.queue)
      /\ mobile.applied \in Nat /\ mobile \in Replicas
  BY Typed DEF IInv, TypeOK, Replicas
<1>2. 1 \in DOMAIN client.queue /\ f = client.queue[1] /\ client.queue # <<>>
  BY <1>1 DEF Receives
<1>3. f \in FrameSet /\ f.epoch = epoch /\ f.type \in {"event", "reset"}
  BY <1>1, <1>2, FrameTypes DEF IInv, FrameInv
<1>4. IsEvent(f) => /\ f.cursor \in DOMAIN log /\ f.pos = log[f.cursor]
                    /\ f.pos \in DOMAIN source
                    /\ \E k \in DOMAIN sent : sent[k] = f.cursor
  BY <1>2, FramesAreLogged DEF IInv, FrameInv
<1>5. client.pc \in {"replay", "drain", "registered"}
  BY <1>2, ConnectionType DEF IInv, PhaseInv, Connections
<1>6. Serving \/ Resetting
  BY <1>5 DEF Serving, Resetting, IInv, PhaseInv
<1>7. IsEvent(f) => mobile.epoch \in {0, epoch}
  BY <1>2, <1>5 DEF IInv, FrameInv, IsEvent
<1>8. IsEvent(f) => source[f.pos] \in Kinds
  BY <1>4, Typed DEF IInv
<1>9. /\ mobile' \in Replicas /\ mobile'.epoch = epoch
      /\ \/ Stays(mobile, mobile') /\ Dismisses(mobile, mobile', f)
         \/ TakesFinal(mobile', f) /\ mobile.applied < f.cursor
         \/ TakesEvent(mobile, mobile', f) /\ mobile.applied < f.cursor
  <2>1. PICK n : n = Applied(mobile, f)
    OBVIOUS
  <2>2. mobile.epoch \in {0, f.epoch} \/ f.type = "reset"
    BY <1>3, <1>7 DEF IsEvent
  <2>3. /\ n \in Replicas /\ n.epoch = f.epoch
        /\ \/ Stays(mobile, n) /\ Dismisses(mobile, n, f)
           \/ TakesFinal(n, f) /\ mobile.applied < f.cursor
           \/ TakesEvent(mobile, n, f) /\ mobile.applied < f.cursor
    BY <1>1, <1>3, <1>8, <2>1, <2>2, AppliedCases
  <2>4. mobile' = n
    BY <2>1 DEF Receives
  <2>5. QED
    BY <1>3, <2>3, <2>4
<1>10. mobile'.applied \in Nat
  BY <1>9, RelayStreamAssumption DEF Replicas
<1>11. mobile.applied <= mobile'.applied
  <2>1. mobile'.applied = mobile.applied
        \/ (mobile'.applied = f.cursor /\ mobile.applied < f.cursor)
    BY <1>9 DEF Stays, TakesFinal, TakesEvent
  <2>2. QED
    BY <1>1, <1>10, <2>1
<1>12. QED
  BY <1>3, <1>4, <1>5, <1>6, <1>7, <1>9, <1>10, <1>11

(* An event before the one at the head of the queue, neither at risk nor a *)
(* page, is one that the mobile has applied.                               *)
LEMMA BeforeHeadIsApplied ==
    ASSUME IInv, NEW f, Receives(f), IsEvent(f), ~mobile.recovery,
           NEW c \in DOMAIN log, Owed(c), c < f.cursor
    PROVE  c <= mobile.applied
<1>1. /\ Serving \/ Resetting
      /\ f.cursor \in DOMAIN log /\ \E k \in DOMAIN sent : sent[k] = f.cursor
  BY ReceivesFacts
<1>2. PICK k \in DOMAIN sent : sent[k] = f.cursor
  BY <1>1
<1>3. sent[k] \in Nat /\ sent[k] <= client.last /\ client.last \in Nat
      /\ c \in Nat /\ f.cursor \in Nat
  BY <1>1, Typed DEF IInv, SentInv
<1>4. c <= client.last /\ ~(sent[k] < c)
  BY <1>2, <1>3
<1>5. Covered(c, client.queue, mobile, source)
  <2>1. CASE Serving
    BY <1>4, <2>1 DEF IInv, CoverInv
  <2>2. CASE Resetting
    BY <1>4, <2>2 DEF IInv, ResetInv
  <2>3. QED
    BY <1>1, <2>1, <2>2
<1>6. /\ client.queue \in Seq(FrameSet) /\ DOMAIN client.queue = 1..Len(client.queue)
      /\ Len(client.queue) \in Nat
  BY Typed DEF IInv
<1>7. 1 \in DOMAIN client.queue /\ f = client.queue[1]
  BY <1>6 DEF Receives
<1>8. ~Sends(client.queue, c)
  <2> SUFFICES ASSUME NEW i \in DOMAIN client.queue, IsEvent(client.queue[i]),
                      client.queue[i].cursor = c
               PROVE  FALSE
      BY DEF Sends
  <2>1. i # 1
    BY <1>3, <1>7
  <2>2. 1 < i
    BY <1>6, <2>1
  <2>3. f.cursor < c
    BY <1>7, <2>2 DEF IInv, FrameInv
  <2>4. QED
    BY <1>3, <2>3
<1>9. ~Skips(client.queue, c, source)
  <2> SUFFICES ASSUME NEW i \in DOMAIN client.queue, client.queue[i].type = "reset",
                      \A j \in DOMAIN client.queue :
                        j < i /\ IsEvent(client.queue[j]) => client.queue[j].cursor < c
               PROVE  FALSE
      BY DEF Skips
  <2>1. i # 1
    BY <1>7 DEF IsEvent
  <2>2. 1 < i
    BY <1>6, <2>1
  <2>3. f.cursor < c
    BY <1>7, <2>2
  <2>4. QED
    BY <1>3, <2>3
<1>10. QED
  BY <1>5, <1>8, <1>9 DEF Covered

(* The replica keeps only the holes that faults leave.                     *)
LEMMA ReceivesReplica ==
    ASSUME IInv, NEW f, Receives(f)
    PROVE  ReplicaInv'
<1>1. /\ mobile' \in Replicas /\ mobile'.epoch = epoch
      /\ \/ Stays(mobile, mobile') /\ Dismisses(mobile, mobile', f)
         \/ TakesFinal(mobile', f) /\ mobile.applied < f.cursor
         \/ TakesEvent(mobile, mobile', f) /\ mobile.applied < f.cursor
      /\ f \in FrameSet
      /\ IsEvent(f) => mobile.epoch \in {0, epoch}
      /\ IsEvent(f) => /\ f.cursor \in DOMAIN log /\ f.pos = log[f.cursor]
                       /\ f.pos \in DOMAIN source
  BY ReceivesFacts
<1>2. source' = source /\ log' = log /\ atRisk' = atRisk /\ epoch' = epoch
  BY DEF Receives, store
<1>3. /\ epoch \in Nat /\ epoch > 0 /\ Len(log) \in Nat /\ DOMAIN log = 1..Len(log)
      /\ mobile.applied \in Nat /\ mobile.revision \in Nat
      /\ DOMAIN source = 1..Len(source) /\ Len(source) \in Nat
      /\ \A c \in DOMAIN log : c \in Nat /\ c > 0 /\ log[c] \in Nat
  BY Typed DEF IInv
<1>4. ASSUME IsEvent(f), NEW c \in 1..f.cursor
      PROVE  c \in DOMAIN log /\ log[c] <= f.pos
  <2>1. f.cursor \in DOMAIN log /\ f.pos = log[f.cursor] /\ c \in DOMAIN log
    BY <1>1, <1>3, <1>4
  <2>2. c < f.cursor => log[c] < log[f.cursor]
    BY <2>1 DEF IInv, StoreInv
  <2>3. QED
    BY <1>3, <2>1, <2>2
<1>5. CASE Stays(mobile, mobile')
  <2>1. /\ mobile'.applied = mobile.applied /\ mobile'.revision = mobile.revision
        /\ mobile'.have = mobile.have /\ (mobile.recovery => mobile'.recovery)
    BY <1>5 DEF Stays
  <2>2. Holes' = Holes
    BY <1>2, <2>1 DEF Holes
  <2>3. ASSUME ~mobile'.recovery
        PROVE  mobile.applied <= Len(log) /\ \A c \in 1..mobile.applied : log[c] <= mobile.revision
    <3>1. IsEvent(f) \/ mobile'.recovery
      <4>1. TakesFinal(mobile', f) \/ TakesEvent(mobile, mobile', f)
            \/ Dismisses(mobile, mobile', f)
        BY <1>1
      <4>2. QED
        BY <4>1 DEF TakesFinal, TakesEvent, Dismisses, IsFinal, IsEvent
    <3>2. mobile.epoch \in {0, epoch} /\ ~mobile.recovery
      BY <1>1, <2>1, <2>3, <3>1
    <3>3. CASE mobile.epoch = 0
      <4>1. mobile.applied = 0
        BY <3>3 DEF IInv, ReplicaInv
      <4>2. QED
        BY <1>3, <4>1
    <3>4. CASE mobile.epoch = epoch
      BY <3>2, <3>4 DEF IInv, ReplicaInv
    <3>5. QED
      BY <3>2, <3>3, <3>4
  <2>4. mobile'.epoch <= epoch' /\ mobile'.epoch # 0
    BY <1>1, <1>2, <1>3
  <2>5. QED
    BY <1>1, <1>2, <2>1, <2>2, <2>3, <2>4 DEF IInv, ReplicaInv
<1>6. mobile'.epoch <= epoch' /\ mobile'.epoch # 0
  BY <1>1, <1>2, <1>3
<1>7. CASE TakesFinal(mobile', f)
  <2>1. /\ IsEvent(f) /\ mobile'.applied = f.cursor /\ mobile'.revision = f.pos
        /\ mobile'.have = 1..f.pos
    BY <1>7 DEF TakesFinal, IsFinal, IsEvent
  <2>2. Holes' = {}
    BY <2>1 DEF Holes
  <2>3. f.cursor <= Len(log) /\ f.pos <= Len(source)
    BY <1>1, <1>3, <2>1
  <2>4. QED
    BY <1>2, <1>4, <1>6, <2>1, <2>2, <2>3 DEF ReplicaInv
<1>8. CASE TakesEvent(mobile, mobile', f)
  <2>1. /\ IsEvent(f) /\ ~mobile.recovery /\ mobile'.applied = f.cursor
        /\ \/ /\ f.pos < mobile.revision /\ mobile'.revision = mobile.revision
              /\ mobile'.have = mobile.have
           \/ /\ f.pos >= mobile.revision /\ mobile'.revision = f.pos
              /\ mobile'.have = mobile.have \cup {f.pos}
              /\ source[f.pos] = "terminal" \/ f.pos = mobile.revision + 1
    BY <1>8 DEF TakesEvent
  <2>2. /\ f.cursor \in DOMAIN log /\ f.cursor <= Len(log) /\ f.pos <= Len(source)
        /\ f.pos \in Nat /\ f.pos = log[f.cursor] /\ f.cursor \in Nat
    BY <1>1, <1>3, <2>1
  <2>3. f.pos <= mobile'.revision /\ mobile'.revision <= Len(source)
    <3>1. mobile.revision <= Len(source)
      BY DEF IInv, ReplicaInv
    <3>2. QED
      BY <1>3, <2>1, <2>2, <3>1
  <2>4. mobile'.revision \in Nat
    BY <1>3, <2>1, <2>2
  <2>5. \A c \in 1..mobile'.applied : log[c] <= mobile'.revision
    <3> SUFFICES ASSUME NEW c \in 1..f.cursor
                 PROVE  log[c] <= mobile'.revision
        BY <2>1
    <3>1. c \in DOMAIN log /\ log[c] <= f.pos
      BY <1>4, <2>1
    <3>2. log[c] \in Nat
      BY <1>3, <3>1
    <3>3. QED
      BY <2>2, <2>3, <2>4, <3>1, <3>2
  <2>6. ASSUME NEW p \in 1..mobile'.revision, p \notin mobile'.have,
               source[p] \notin KeyframeKinds
        PROVE  p \in atRisk
    <3>1. CASE p <= mobile.revision
      <4>1. p \notin mobile.have
        BY <2>1, <2>6
      <4>2. p \in Holes
        BY <1>3, <2>6, <3>1, <4>1 DEF Holes
      <4>3. QED
        BY <4>2 DEF IInv, ReplicaInv
    <3>2. CASE ~(p <= mobile.revision)
      <4>1. mobile'.revision = f.pos /\ p # f.pos
            /\ (source[f.pos] = "terminal" \/ f.pos = mobile.revision + 1)
        BY <1>3, <2>1, <2>6, <3>2
      <4>2. p < f.pos /\ p \in Nat /\ p \in DOMAIN source
        BY <1>3, <2>2, <2>6, <4>1
      <4> SUFFICES ASSUME p \notin atRisk
                   PROVE  FALSE
          OBVIOUS
      <4>3. PICK c \in DOMAIN log : log[c] = p
        BY <4>2 DEF IInv, StoreInv
      <4>4. c < f.cursor
        <5>1. f.cursor < c => log[f.cursor] < log[c]
          BY <2>2 DEF IInv, StoreInv
        <5>2. c # f.cursor
          BY <2>2, <4>1, <4>3
        <5>3. c \in Nat
          BY <1>3
        <5>4. QED
          BY <2>2, <4>2, <4>3, <5>1, <5>2, <5>3
      <4>5. Owed(c)
        BY <2>6, <4>3 DEF Owed, AtRisk, KindAt, KeyframeKinds
      <4>6. c <= mobile.applied
        BY <2>1, <4>4, <4>5, BeforeHeadIsApplied
      <4>7. mobile.epoch = epoch
        <5>1. mobile.epoch # 0
          <6> SUFFICES ASSUME mobile.epoch = 0
                       PROVE  FALSE
              OBVIOUS
          <6>1. mobile.applied = 0
            BY DEF IInv, ReplicaInv
          <6>2. QED
            BY <1>3, <4>6, <6>1
        <5>2. QED
          BY <1>1, <2>1, <5>1
      <4>8. log[c] <= mobile.revision
        <5>1. c \in 1..mobile.applied
          BY <1>3, <4>6
        <5>2. QED
          BY <2>1, <4>7, <5>1 DEF IInv, ReplicaInv
      <4>9. QED
        BY <3>2, <4>3, <4>8
    <3>3. QED
      BY <3>1, <3>2
  <2>7. Holes' \subseteq atRisk'
    BY <1>2, <2>6 DEF Holes
  <2>8. QED
    BY <1>2, <1>6, <2>1, <2>2, <2>3, <2>5, <2>7 DEF ReplicaInv
<1>9. QED
  BY <1>1, <1>5, <1>7, <1>8

(* What the mobile was covered for it is covered for by what it becomes    *)
(* and the rest of the queue.                                              *)
LEMMA ReceivesCovers ==
    ASSUME IInv, NEW f, Receives(f)
    PROVE  /\ \A c \in DOMAIN log : Owed(c) /\ Covered(c, client.queue, mobile, source)
                => Covered(c, Tail(client.queue), mobile', source)
           /\ NoFinals(client.queue, 0, source) => NoFinals(Tail(client.queue), 0, source)
           /\ NoFinals(client.queue, 0, source) /\ mobile.recovery => mobile'.recovery
           /\ f.type = "reset" => mobile'.recovery
           /\ \A i \in DOMAIN client.queue : i # 1 =>
                /\ i - 1 \in DOMAIN Tail(client.queue)
                /\ Tail(client.queue)[i - 1] = client.queue[i]
                /\ NoFinals(client.queue, i, source)
                     => NoFinals(Tail(client.queue), i - 1, source)
           /\ NoFinals(client.queue, 1, source) => NoFinals(Tail(client.queue), 0, source)
<1> DEFINE q == client.queue
           t == Tail(client.queue)
<1>1. /\ \/ Stays(mobile, mobile') /\ Dismisses(mobile, mobile', f)
         \/ TakesFinal(mobile', f) /\ mobile.applied < f.cursor
         \/ TakesEvent(mobile, mobile', f) /\ mobile.applied < f.cursor
      /\ mobile.applied <= mobile'.applied /\ mobile'.applied \in Nat
      /\ f \in FrameSet
      /\ IsEvent(f) => f.cursor \in DOMAIN log /\ f.pos = log[f.cursor]
  BY ReceivesFacts
<1>2. /\ q \in Seq(FrameSet) /\ q # <<>> /\ f = q[1] /\ Head(q) = f
      /\ mobile.applied \in Nat /\ \A c \in DOMAIN log : c \in Nat
  BY Typed DEF IInv, Receives
<1>3. /\ Len(q) \in Nat /\ DOMAIN q = 1..Len(q) /\ DOMAIN t = 1..(Len(q) - 1)
      /\ \A j \in DOMAIN t : t[j] = q[j + 1] /\ j + 1 \in DOMAIN q
  BY <1>2
<1>4. 1 \in DOMAIN q
  BY <1>2, <1>3
<1>5. mobile.recovery => \/ mobile'.recovery
                         \/ IsFinal(f, source) /\ f.cursor <= mobile'.applied
  BY <1>1, <1>2 DEF Stays, TakesFinal, TakesEvent, IsFinal
<1>6. f.type = "reset" => mobile'.recovery
  BY <1>1 DEF Dismisses, TakesFinal, TakesEvent, IsFinal, IsEvent
<1>7. ASSUME NEW c \in DOMAIN log, Owed(c), IsEvent(f), f.cursor = c
      PROVE  c <= mobile'.applied \/ mobile'.recovery
  <2>1. source[f.pos] # "page"
    BY <1>1, <1>7 DEF Owed, KindAt
  <2>2. f.cursor \in Nat
    BY <1>1, <1>2, <1>7
  <2>3. CASE Stays(mobile, mobile') /\ Dismisses(mobile, mobile', f)
    BY <1>7, <2>1, <2>3 DEF Stays, Dismisses
  <2>4. CASE TakesFinal(mobile', f) \/ TakesEvent(mobile, mobile', f)
    BY <1>7, <2>2, <2>4 DEF TakesFinal, TakesEvent
  <2>5. QED
    BY <1>1, <2>3, <2>4
<1>8. \A i, j \in DOMAIN q : i < j /\ IsEvent(q[i]) /\ IsEvent(q[j]) => q[i].cursor < q[j].cursor
  BY DEF IInv, FrameInv
<1>9. ASSUME NEW c \in DOMAIN log, Owed(c), Covered(c, q, mobile, source)
      PROVE  Covered(c, t, mobile', source)
  <2>1. PICK m : m = mobile
    OBVIOUS
  <2>2. PICK n : n = mobile'
    OBVIOUS
  <2>3. /\ c \in Nat /\ m.applied \in Nat /\ n.applied \in Nat
        /\ Covered(c, q, m, source) /\ m.applied <= n.applied
        /\ m.recovery => \/ n.recovery
                         \/ IsFinal(Head(q), source) /\ Head(q).cursor <= n.applied
        /\ Head(q).type = "reset" => n.recovery
        /\ IsEvent(Head(q)) /\ Head(q).cursor = c => c <= n.applied \/ n.recovery
    BY <1>1, <1>2, <1>5, <1>6, <1>7, <1>9, <2>1, <2>2
  <2>4. Covered(c, t, n, source)
    BY <1>2, <1>8, <2>3, CoveredTail
  <2>5. QED
    BY <2>2, <2>4
<1> HIDE DEF q, t
<1>10. ASSUME NoFinals(q, 0, source) \/ NoFinals(q, 1, source)
       PROVE  NoFinals(t, 0, source)
  BY <1>3, <1>10 DEF NoFinals
<1>11. ASSUME NoFinals(q, 0, source), mobile.recovery
       PROVE  mobile'.recovery
  BY <1>2, <1>4, <1>5, <1>11 DEF NoFinals
<1>12. ASSUME NEW i \in DOMAIN q, i # 1
       PROVE  /\ i - 1 \in DOMAIN t /\ t[i - 1] = q[i]
              /\ NoFinals(q, i, source) => NoFinals(t, i - 1, source)
  <2>1. i - 1 \in DOMAIN t /\ t[i - 1] = q[(i - 1) + 1] /\ (i - 1) + 1 = i
    BY <1>3, <1>12
  <2>2. ASSUME NEW j \in DOMAIN t, i - 1 < j
        PROVE  j + 1 \in DOMAIN q /\ i < j + 1 /\ t[j] = q[j + 1]
    BY <1>3, <1>12, <2>2
  <2>3. QED
    BY <2>1, <2>2 DEF NoFinals
<1>13. QED
  BY <1>6, <1>9, <1>10, <1>11, <1>12 DEF q, t

(* The mobile takes a frame.                                               *)
LEMMA MobileReceivesStep ==
    ASSUME IInv, MobileReceives
    PROVE  IInv'
<1> USE DEF store
<1>1. PICK f : f = Head(client.queue)
  OBVIOUS
<1>2. Receives(f)
  <2>1. client.queue \in Seq(FrameSet) /\ client.queue # <<>>
    BY Typed DEF IInv, MobileReceives
  <2>2. f = client.queue[1]
    BY <1>1, <2>1
  <2>3. QED
    BY <1>1, <2>1, <2>2 DEF MobileReceives, Receives
<1>3. /\ source' = source /\ epoch' = epoch /\ log' = log /\ kept' = kept /\ floor' = floor
      /\ macGen' = macGen /\ reader' = reader /\ hubQueue' = hubQueue /\ gap' = gap
      /\ atRisk' = atRisk /\ sent' = sent /\ faults' = faults /\ conns' = conns
  BY <1>2 DEF Receives
<1>4. client \in Connections /\ client.queue # <<>>
  BY <1>2, ConnectionType DEF IInv, Receives
<1>5. /\ client'.queue = Tail(client.queue) /\ client'.pc = client.pc
      /\ client'.phase = client.phase /\ client'.floor = client.floor
      /\ client'.high = client.high /\ client'.last = client.last
      /\ client'.buffer = client.buffer
  BY <1>2, <1>4 DEF Receives, Connections
<1>6. /\ mobile' \in Replicas /\ mobile'.epoch = epoch
      /\ mobile.applied <= mobile'.applied /\ mobile'.applied \in Nat
      /\ client.pc \in {"replay", "drain", "registered"}
  BY <1>2, ReceivesFacts
<1>7. /\ mobile.applied \in Nat /\ client.last \in Nat
      /\ client.queue \in Seq(FrameSet) /\ DOMAIN client.queue = 1..Len(client.queue)
      /\ Len(client.queue) \in Nat
  BY Typed DEF IInv
<1>8. /\ \A c : /\ KindAt(c)' = KindAt(c) /\ (AtRisk(c)' <=> AtRisk(c))
                /\ (Owed(c)' <=> Owed(c)) /\ (Pending(c)' <=> Pending(c))
      /\ \A g \in Gens : /\ KindAt(reader[g].cursor)' = KindAt(reader[g].cursor)
                         /\ Firm(reader[g].cursor)' <=> Firm(reader[g].cursor)
                         /\ Pends(g)' <=> Pends(g)
  BY <1>3 DEF KindAt, AtRisk, Owed, Pending, Pends, Firm
<1>9. TypeOK'
  <2>1. Tail(client.queue) \in Seq(FrameSet) /\ Len(Tail(client.queue)) <= Len(client.queue)
    BY <1>4, <1>7
  <2>2. client' \in Connections
    BY <1>2, <1>4, <2>1 DEF Receives, Connections
  <2>3. Len(client.queue) <= QueueLimit /\ Len(Tail(client.queue)) \in Nat
    BY <1>4, <1>7 DEF IInv, TypeOK
  <2>4. Len(client'.queue) <= QueueLimit
    BY <1>5, <1>7, <2>1, <2>3, RelayStreamAssumption
  <2>5. QED
    BY <1>3, <1>6, <2>2, <2>4 DEF IInv, TypeOK, Connections, Replicas, FrameSet
<1>10. StoreInv'
  BY <1>3 DEF IInv, StoreInv
<1>11. ReaderInv' /\ OrderInv'
  BY <1>3, ReadersStand DEF Ahead
<1>12. HubInv'
  BY <1>3, <1>5 DEF IInv, HubInv, Owns
<1>13. PhaseInv'
  <2>1. client.last <= mobile'.applied \/ client.last \in DOMAIN log
    <3>1. client.last <= mobile.applied \/ client.last \in DOMAIN log
      BY DEF IInv, PhaseInv
    <3>2. QED
      BY <1>6, <1>7, <3>1
  <2>2. ~(client.pc = "replay" /\ client.phase = "replaying")
    BY <1>4 DEF IInv, PhaseInv
  <2>3. QED
    BY <1>3, <1>5, <1>6, <2>1, <2>2 DEF IInv, PhaseInv
<1>14. SentInv'
  BY <1>3, <1>5, <1>8 DEF IInv, SentInv
<1>15. FrameInv'
  <2>1. \A j \in DOMAIN client'.queue :
          j + 1 \in DOMAIN client.queue /\ client'.queue[j] = client.queue[j + 1] /\ j \in Nat
    BY <1>4, <1>5, <1>7
  <2>2. \A i, j \in DOMAIN client'.queue : i < j => i + 1 < j + 1
    BY <2>1
  <2>3. QED
    BY <1>3, <1>6, <2>1, <2>2 DEF IInv, FrameInv
<1>16. FloorInv'
  BY <1>3, <1>5, <1>6, <1>8 DEF IInv, FloorInv
<1>17. CoverInv'
  BY <1>2, <1>3, <1>5, <1>8, ReceivesCovers DEF IInv, CoverInv, Serving
<1>18. AheadInv'
  BY <1>3, <1>5, <1>8 DEF IInv, AheadInv, Serving
<1>19. ResetInv'
  <2>1. ASSUME Resetting, NEW c \in DOMAIN log, Owed(c)
        PROVE  \/ Covered(c, client'.queue, mobile', source)
               \/ Pending(c) /\ \A i \in DOMAIN sent : sent[i] < c
    BY <1>2, <1>5, <2>1, ReceivesCovers DEF IInv, ResetInv
  <2>2. ASSUME Resetting
        PROVE  \/ mobile'.recovery /\ NoFinals(client'.queue, 0, source)
               \/ \E i \in DOMAIN client'.queue :
                    client'.queue[i].type = "reset" /\ NoFinals(client'.queue, i, source)
    <3>1. CASE mobile.recovery /\ NoFinals(client.queue, 0, source)
      BY <1>2, <1>5, <3>1, ReceivesCovers
    <3>2. ASSUME NEW i \in DOMAIN client.queue, client.queue[i].type = "reset",
                 NoFinals(client.queue, i, source)
          PROVE  \/ mobile'.recovery /\ NoFinals(client'.queue, 0, source)
                 \/ \E k \in DOMAIN client'.queue :
                      client'.queue[k].type = "reset" /\ NoFinals(client'.queue, k, source)
      <4>1. CASE i = 1
        BY <1>2, <1>5, <3>2, <4>1, ReceivesCovers DEF Receives
      <4>2. CASE i # 1
        BY <1>2, <1>5, <3>2, <4>2, ReceivesCovers
      <4>3. QED
        BY <4>1, <4>2
    <3>3. QED
      BY <2>2, <3>1, <3>2 DEF IInv, ResetInv
  <2>3. ASSUME client.pc = "replay", client.phase = "reset"
        PROVE  \/ client.high <= client.last
               \/ /\ NoFinals(client'.queue, 0, source)
                  /\ mobile'.recovery \/ (client'.queue # <<>> /\ client'.queue[1].type = "reset")
    BY <1>2, <1>5, <2>3, ReceivesCovers DEF IInv, ResetInv, Receives
  <2>4. client.pc \in {"replay", "drain"} /\ client.phase = "reset" =>
          \A b \in client.buffer : AtRisk(b)
    BY DEF IInv, ResetInv
  <2>5. QED
    BY <1>3, <1>5, <1>8, <2>1, <2>2, <2>3, <2>4 DEF ResetInv, Resetting
<1>20. ReplicaInv'
  BY <1>2, ReceivesReplica
<1>21. QED
  BY <1>9, <1>10, <1>11, <1>12, <1>13, <1>14, <1>15, <1>16, <1>17, <1>18, <1>19, <1>20 DEF IInv

-----------------------------------------------------------------------------
(* Every step keeps the invariant.                                         *)

(* A committed event is on its way to the hub.                             *)
LEMMA AppendReturnsStep ==
    ASSUME IInv, NEW g \in Gens, AppendReturns(g)
    PROVE  IInv'
<1>1. gap' \in BOOLEAN
  BY DEF AppendReturns, IInv, TypeOK
<1>2. CASE KindAt(reader[g].cursor) = "terminal"
  <2>1. Moves(g, "marking") /\ hubQueue' = hubQueue /\ reader[g].pc = "appended"
    BY <1>1, <1>2 DEF AppendReturns, Moves
  <2>2. QED
    BY <1>2, <2>1, MarksStep
<1>3. CASE KindAt(reader[g].cursor) # "terminal"
  <2>1. Moves(g, "queued") /\ hubQueue' = Append(hubQueue, g) /\ reader[g].pc = "appended"
    BY <1>1, <1>3 DEF AppendReturns, Moves
  <2>2. QED
    BY <1>3, <2>1, QueuesStep
<1>4. QED
  BY <1>2, <1>3

(* A terminal event, marked, is on its way to the hub.                     *)
LEMMA MarkTerminalReturnsStep ==
    ASSUME IInv, NEW g \in Gens, MarkTerminalReturns(g)
    PROVE  IInv'
<1>1. Moves(g, "queued") /\ hubQueue' = Append(hubQueue, g) /\ reader[g].pc = "marking"
  BY DEF MarkTerminalReturns, Moves, IInv, TypeOK
<1>2. QED
  BY <1>1, QueuesStep

(* A gap is announced.                                                     *)
LEMMA GapStep ==
    ASSUME IInv, NEW g \in Gens, SourceGap(g)
    PROVE  IInv'
<1>1. /\ PresenceFree /\ reader[g].pc = "idle" /\ Moves(g, "resetting")
      /\ hubQueue' = Append(hubQueue, g)
  BY DEF SourceGap, Moves
<1>2. QED
  BY <1>1, SourceGapStep

(* Nothing changes.                                                        *)
LEMMA StutterStep ==
    ASSUME IInv, UNCHANGED vars
    PROVE  IInv'
<1>1. /\ source' = source /\ epoch' = epoch /\ log' = log /\ kept' = kept /\ floor' = floor
      /\ macGen' = macGen /\ reader' = reader /\ hubQueue' = hubQueue /\ client' = client
      /\ mobile' = mobile /\ gap' = gap /\ atRisk' = atRisk /\ sent' = sent
      /\ faults' = faults /\ conns' = conns
  BY DEF vars
<1>2. /\ \A c : /\ KindAt(c)' = KindAt(c) /\ (AtRisk(c)' <=> AtRisk(c))
                /\ (Owed(c)' <=> Owed(c)) /\ (Pending(c)' <=> Pending(c))
      /\ \A g \in Gens : /\ KindAt(reader[g].cursor)' = KindAt(reader[g].cursor)
                         /\ AtRisk(reader[g].cursor)' <=> AtRisk(reader[g].cursor)
                         /\ Firm(reader[g].cursor)' <=> Firm(reader[g].cursor)
                         /\ Pends(g)' <=> Pends(g)
  BY <1>1 DEF KindAt, AtRisk, Owed, Pending, Pends, Firm
<1>3. TypeOK' /\ StoreInv' /\ HubInv'
  BY <1>1 DEF IInv, TypeOK, StoreInv, HubInv, Owns
<1>4. ReaderInv' /\ OrderInv'
  BY <1>1, ReadersStand DEF Ahead
<1>5. Unseen
  BY <1>1, <1>2, Typed DEF IInv, Unseen
<1>6. FloorInv'
  BY <1>1, <1>5, UnseenFloor
<1>7. QED
  BY <1>3, <1>4, <1>5, <1>6, UnseenStep DEF IInv

(* The invariant is kept by every step.                                    *)
LEMMA NextKeepsInvariant ==
    ASSUME IInv, [Next]_vars
    PROVE  IInv'
<1>1. CASE \E kind \in Kinds : SourceLoses(kind)
  BY <1>1, SourceLosesStep
<1>2. ASSUME NEW g \in Gens, MacStep(g)
      PROVE  IInv'
  <2>1. CASE \E kind \in Kinds : CommitEvent(g, kind)
    BY <2>1, CommitEventStep
  <2>2. CASE MacConnects(g)
    BY <2>2, MacConnectsStep
  <2>3. CASE SourceGap(g)
    BY <2>3, GapStep
  <2>4. CASE ReaderCancelled(g)
    BY <2>4, ReaderCancelledStep
  <2>5. QED
    BY <1>2, <2>1, <2>2, <2>3, <2>4 DEF MacStep
<1>3. ASSUME NEW g \in Gens, ReaderTask(g)
      PROVE  IInv'
  <2>1. CASE AppendReturns(g)
    BY <2>1, AppendReturnsStep
  <2>2. CASE MarkTerminalReturns(g)
    BY <2>2, MarkTerminalReturnsStep
  <2>3. CASE BroadcastCommitted(g)
    BY <2>3, BroadcastCommittedStep
  <2>4. CASE RequireReset(g)
    BY <2>4, RequireResetStep
  <2>5. QED
    BY <1>3, <2>1, <2>2, <2>3, <2>4 DEF ReaderTask
<1>4. CASE RegistrationTask
  <2>1. CASE RegisterReadsFloor
    BY <2>1, RegisterReadsFloorStep
  <2>2. CASE RegisterDecides
    BY <2>2, RegisterDecidesStep
  <2>3. CASE RegisterReplays
    BY <2>3, RegisterReplaysStep
  <2>4. CASE RegisterDrains
    BY <2>4, RegisterDrainsStep
  <2>5. QED
    BY <1>4, <2>1, <2>2, <2>3, <2>4 DEF RegistrationTask
<1>5. CASE PruneRows
  BY <1>5, PruneRowsStep
<1>6. CASE NewStore
  BY <1>6, NewStoreStep
<1>7. CASE MobileConnects
  BY <1>7, MobileConnectsStep
<1>8. CASE MobileCloses
  BY <1>8, MobileClosesStep
<1>9. CASE MobileReceives
  BY <1>9, MobileReceivesStep
<1>10. CASE UNCHANGED vars
  BY <1>10, StutterStep
<1>11. QED
  BY <1>1, <1>2, <1>3, <1>4, <1>5, <1>6, <1>7, <1>8, <1>9, <1>10 DEF Next

(* The invariant holds at first.                                           *)
LEMMA InitInvariant ==
    ASSUME Init
    PROVE  IInv
<1>1. /\ source = <<>> /\ epoch = 1 /\ log = <<>> /\ kept = {} /\ floor = 0
      /\ macGen = 0 /\ reader = [g \in Gens |-> NoReader]
      /\ hubQueue = <<>> /\ client = NoClient
      /\ mobile = [epoch |-> 0, applied |-> 0, recovery |-> FALSE, staged |-> {},
                   revision |-> 0, have |-> {}]
      /\ gap = FALSE /\ atRisk = {} /\ sent = <<>> /\ faults = 0 /\ conns = 0
  BY DEF Init
<1>2. \A g \in Gens : reader[g].pc = "off" /\ ~Pends(g)
  BY <1>1 DEF NoReader, Pends
<1>3. \A i : i \notin DOMAIN <<>>
  OBVIOUS
<1>4. ToSet(hubQueue) = {}
  BY <1>1 DEF ToSet
<1>5. /\ client.pc = "down" /\ client.phase = "new" /\ client.buffer = {}
      /\ client.queue = <<>> /\ client.high = 0 /\ client.last = 0
  BY <1>1 DEF NoClient
<1>6. TypeOK
  <2>1. /\ client \in Connections /\ Len(client.queue) <= QueueLimit
    BY <1>1, ClosedConnectionType DEF Connections, FrameSet
  <2>2. NoReader \in [pc : {"off", "idle", "appended", "marking", "queued",
                                  "resetting", "gone"}, cursor : 0..MaxSource]
    BY RelayStreamAssumption DEF NoReader
  <2>3. reader \in [Gens -> [pc : {"off", "idle", "appended", "marking", "queued",
                                  "resetting", "gone"}, cursor : 0..MaxSource]]
    BY <1>1, <2>2
  <2>4. mobile \in [epoch : 0..(MaxFaults + 1), applied : 0..MaxSource,
                   recovery : BOOLEAN, staged : SUBSET Positions,
                   revision : 0..MaxSource, have : SUBSET Positions]
    BY <1>1, RelayStreamAssumption
  <2>5. /\ source \in Seq(Kinds) /\ log \in Seq(Positions)
        /\ hubQueue \in Seq(Gens \cup {MobileTask}) /\ sent \in Seq(Positions)
        /\ Len(source) = 0 /\ Len(log) = 0
    BY <1>1
  <2>6. Len(source) <= MaxSource /\ floor \in 0..Len(log) /\ macGen \in 0..MaxGen
    BY <1>1, <2>5, RelayStreamAssumption
  <2>7. epoch \in 1..(MaxFaults + 1)
    BY <1>1, RelayStreamAssumption
  <2>8. faults \in 0..MaxFaults /\ conns \in 0..MaxConns
    BY <1>1, RelayStreamAssumption
  <2>9. kept \subseteq DOMAIN log /\ gap \in BOOLEAN /\ atRisk \subseteq Positions
    BY <1>1
  <2>10. QED
    BY <2>1, <2>3, <2>4, <2>5, <2>6, <2>7, <2>8, <2>9 DEF TypeOK, Connections, FrameSet
<1>7. StoreInv
  BY <1>1 DEF StoreInv
<1>8. ReaderInv
  BY <1>2 DEF ReaderInv, Presenting
<1>9. HubInv
  <2>1. Once(hubQueue)
    BY <1>1, <1>3 DEF Once
  <2>2. QED
    BY <1>2, <1>4, <1>5, <2>1 DEF HubInv
<1>10. OrderInv
  BY <1>2 DEF OrderInv
<1>11. PhaseInv
  BY <1>1, <1>5 DEF PhaseInv
<1>12. SentInv
  BY <1>1, <1>2, <1>3, <1>5 DEF SentInv, Increasing
<1>13. FrameInv
  BY <1>3, <1>5 DEF FrameInv
<1>14. FloorInv /\ CoverInv /\ AheadInv /\ ResetInv
  BY <1>5 DEF FloorInv, CoverInv, AheadInv, ResetInv, Serving, Resetting
<1>15. ReplicaInv
  BY <1>1 DEF ReplicaInv, Holes
<1>16. QED
  BY <1>6, <1>7, <1>8, <1>9, <1>10, <1>11, <1>12, <1>13, <1>14, <1>15 DEF IInv

(* The three invariants follow from it.                                    *)
LEMMA InvariantImplies ==
    ASSUME IInv
    PROVE  OnlyFaultsLeaveHoles /\ CursorSentOnce /\ LiveClientIsCurrent
<1> USE DEF IInv
<1>1. OnlyFaultsLeaveHoles
  BY DEF OnlyFaultsLeaveHoles, ReplicaInv
<1>2. CursorSentOnce
  <2>1. sent \in [1..Len(sent) -> Nat] /\ Len(sent) \in Nat /\ DOMAIN sent = 1..Len(sent)
    BY Typed
  <2>2. \A i, j \in 1..Len(sent) : sent[i] = sent[j] => i = j
    BY <2>1, IncreasingIsInjective DEF SentInv
  <2>3. QED
    BY <2>1, <2>2 DEF CursorSentOnce, IsInjective
<1>3. LiveClientIsCurrent
  <2> SUFFICES ASSUME client.pc = "registered", client.phase = "live",
                      client.queue = <<>>, ~mobile.recovery,
                      \A g \in Gens : reader[g].pc \notin {"appended", "marking", "queued"},
                      NEW c \in kept, c > mobile.applied \/ mobile.epoch # epoch,
                      ~AtRisk(c), KindAt(c) # "page"
               PROVE  FALSE
      BY DEF LiveClientIsCurrent, AtRisk
  <2>1. c \in DOMAIN log
    BY DEF TypeOK
  <2>2. Serving /\ Owed(c)
    BY DEF Serving, Owed
  <2>3. ~Pending(c)
    BY DEF Pending, Pends
  <2>4. client.buffer = {}
    BY DEF PhaseInv
  <2>5. ~(client.last < c)
    BY <2>1, <2>2, <2>3, <2>4 DEF AheadInv
  <2>6. c \in Nat /\ client.last \in Nat /\ mobile.applied \in Nat /\ c > 0
    BY <2>1, Typed
  <2>7. Covered(c, client.queue, mobile, source)
    BY <2>1, <2>2, <2>5, <2>6 DEF CoverInv
  <2>8. c <= mobile.applied
    BY <2>7 DEF Covered, Sends, Skips
  <2>9. mobile.epoch \in {0, epoch}
    BY DEF FrameInv
  <2>10. QED
    BY <2>6, <2>8, <2>9 DEF ReplicaInv
<1>4. QED
  BY <1>1, <1>2, <1>3

(* The invariant holds throughout.                                         *)
THEOREM StreamInvariant == Spec => []IInv
<1>1. Init => IInv
  BY InitInvariant
<1>2. IInv /\ [Next]_vars => IInv'
  BY NextKeepsInvariant
<1>3. QED
  BY <1>1, <1>2, PTL DEF Spec

(* Source, store, readers, hub, connection and replica stay within their   *)
(* types: the queue of a connection never passes its limit, and floor,     *)
(* high water and cursors stay within the log.                             *)
THEOREM StreamIsTyped == Spec => []TypeOK
<1>1. IInv => TypeOK
  BY DEF IInv
<1>2. QED
  BY <1>1, StreamInvariant, PTL

(* Whatever the interleaving of commits, registrations, replays, resets,   *)
(* broadcasts and reconnections, a replica that is not waiting for a       *)
(* keyframe lacks only what one of the known faults took.                  *)
THEOREM NoUnexplainedHoles == Spec => []OnlyFaultsLeaveHoles
<1>1. IInv => OnlyFaultsLeaveHoles
  BY InvariantImplies
<1>2. QED
  BY <1>1, StreamInvariant, PTL

(* A connection is sent no cursor twice.                                   *)
THEOREM NothingSentTwice == Spec => []CursorSentOnce
<1>1. IInv => CursorSentOnce
  BY InvariantImplies
<1>2. QED
  BY <1>1, StreamInvariant, PTL

(* A live replica that has read its queue is up to date.                   *)
THEOREM LiveReplicaIsCurrent == Spec => []LiveClientIsCurrent
<1>1. IInv => LiveClientIsCurrent
  BY InvariantImplies
<1>2. QED
  BY <1>1, StreamInvariant, PTL

-----------------------------------------------------------------------------
(* A replica that waits takes the keyframe it is sent, as long as nothing  *)
(* replaces the database.  What could prevent it is a keyframe at or below *)
(* the cursor the replica has applied, which it passes over as a           *)
(* duplicate.  The hub sends what it broadcasts to a connection in reset   *)
(* whatever was sent before, so the order of events on their way matters.  *)

\* A committed event that is not terminal is on its way to the hub.
Lasting(g) == Pends(g) /\ KindAt(reader[g].cursor) # "terminal"

\* It will be broadcast after the registration that waits for the lock.
Follows(g) == reader[g].pc = "appended" \/ Ahead(MobileTask, g)

\* The replica has applied no page, and has no page of the final it applied.
AppliedInv ==
    /\ mobile.applied <= Len(log)
    /\ mobile.applied > 0 =>
         /\ KindAt(mobile.applied) # "page"
         /\ KindAt(mobile.applied) = "final"
              => log[mobile.applied] - 1 \notin mobile.staged

\* Nothing on its way to the replica is older than what it has applied.
NewsInv ==
    /\ client.pc # "down" => mobile.applied <= client.last
    /\ \A i \in DOMAIN client.queue :
         IsEvent(client.queue[i]) => mobile.applied <= client.queue[i].cursor
    /\ client.phase = "reset" =>
         \A g \in Gens : Lasting(g) => mobile.applied <= reader[g].cursor
    /\ client.pc \in {"queued", "floor"} =>
         \A g \in Gens : Lasting(g) /\ Follows(g) => mobile.applied <= reader[g].cursor

SteadyInv == AppliedInv /\ NewsInv

(* A step that only moves readers on, or commits an event newer than all   *)
(* others.                                                                 *)
LEMMA SteadyStays ==
    ASSUME IInv, SteadyInv, client' = client, mobile' = mobile,
           Len(log') \in Nat, Len(log) <= Len(log'),
           \A c \in DOMAIN log : log'[c] = log[c] /\ KindAt(c)' = KindAt(c),
           \A g \in Gens : Lasting(g)' =>
             \/ /\ Lasting(g) /\ reader'[g].cursor = reader[g].cursor
                /\ Follows(g)' => Follows(g)
             \/ reader'[g].cursor = Len(log')
    PROVE  SteadyInv'
<1>1. /\ Len(log) \in Nat /\ DOMAIN log = 1..Len(log) /\ mobile.applied \in Nat
  BY Typed DEF IInv
<1>2. mobile.applied <= Len(log) /\ mobile.applied <= Len(log')
  BY <1>1 DEF SteadyInv, AppliedInv
<1>3. AppliedInv'
  <2>1. mobile.applied > 0 => mobile.applied \in DOMAIN log
    BY <1>1, <1>2
  <2>2. mobile.applied > 0 => KindAt(mobile.applied)' = KindAt(mobile.applied)
                              /\ log'[mobile.applied] = log[mobile.applied]
    BY <2>1 DEF KindAt
  <2>3. QED
    BY <1>2, <2>2 DEF SteadyInv, AppliedInv
<1>4. \A g \in Gens : Lasting(g)' /\ client.phase = "reset"
        => mobile.applied <= reader'[g].cursor
  BY <1>2 DEF SteadyInv, NewsInv
<1>5. \A g \in Gens : Lasting(g)' /\ Follows(g)' /\ client.pc \in {"queued", "floor"}
        => mobile.applied <= reader'[g].cursor
  BY <1>2 DEF SteadyInv, NewsInv
<1>6. QED
  BY <1>3, <1>4, <1>5 DEF SteadyInv, NewsInv

(* While the log and the kinds of its events stay, a reader that still has *)
(* an event on its way had it before.                                      *)
LEMMA LastingWas ==
    ASSUME IInv, NEW g \in Gens, log' = log, Pends(g),
           reader'[g].cursor = reader[g].cursor, Lasting(g)',
           \A p \in DOMAIN source : source'[p] = source[p]
    PROVE  Lasting(g)
<1>1. reader[g].cursor \in DOMAIN log /\ log[reader[g].cursor] \in DOMAIN source
  BY DEF IInv, ReaderInv, StoreInv
<1>2. KindAt(reader[g].cursor)' = KindAt(reader[g].cursor)
  BY <1>1 DEF KindAt
<1>3. QED
  BY <1>2 DEF Lasting

(* Kinds stay while the log stays and the source only goes on.             *)
LEMMA KindsStay ==
    ASSUME IInv, log' = log, \A p \in DOMAIN source : source'[p] = source[p]
    PROVE  \A c \in DOMAIN log : log'[c] = log[c] /\ KindAt(c)' = KindAt(c)
  BY DEF IInv, StoreInv, KindAt

(* The source loses an event, rows are pruned, or nothing happens.         *)
LEMMA SteadyElsewhere ==
    ASSUME IInv, SteadyInv, UNCHANGED <<log, reader, hubQueue, client, mobile>>,
           \A p \in DOMAIN source : source'[p] = source[p]
    PROVE  SteadyInv'
<1>1. Len(log') \in Nat /\ Len(log) <= Len(log')
  BY Typed DEF IInv
<1>2. ASSUME NEW g \in Gens, Lasting(g)'
      PROVE  Lasting(g) /\ reader'[g].cursor = reader[g].cursor /\ (Follows(g)' => Follows(g))
  <2>1. Pends(g)
    BY <1>2 DEF Lasting, Pends
  <2>2. QED
    BY <1>2, <2>1, LastingWas DEF Follows, Ahead
<1>3. QED
  BY <1>1, <1>2, KindsStay, SteadyStays

(* A Mac connection is registered, and another one may be closed.          *)
LEMMA SteadyMacConnects ==
    ASSUME IInv, SteadyInv, NEW g \in Gens, MacConnects(g)
    PROVE  SteadyInv'
<1>1. /\ UNCHANGED <<log, source, hubQueue, client, mobile>>
      /\ reader' = [h \in Gens |-> IF h = g THEN Idle
                                   ELSE IF reader[h].pc = "idle" THEN Gone ELSE reader[h]]
  BY DEF MacConnects, store
<1>2. Len(log') \in Nat /\ Len(log) <= Len(log')
  BY <1>1, Typed DEF IInv
<1>3. ASSUME NEW h \in Gens, Lasting(h)'
      PROVE  Lasting(h) /\ reader'[h].cursor = reader[h].cursor /\ (Follows(h)' => Follows(h))
  <2>1. reader'[h] = reader[h]
    BY <1>1, <1>3 DEF Lasting, Pends, Idle, Gone
  <2>2. Pends(h)
    BY <1>3, <2>1 DEF Lasting, Pends
  <2>3. QED
    BY <1>1, <1>3, <2>1, <2>2, LastingWas DEF Follows, Ahead
<1>4. QED
  BY <1>1, <1>2, <1>3, KindsStay, SteadyStays

(* A reader is cancelled.                                                  *)
LEMMA SteadyCancelled ==
    ASSUME IInv, SteadyInv, NEW g \in Gens, ReaderCancelled(g)
    PROVE  SteadyInv'
<1>1. /\ UNCHANGED <<log, source, client, mobile>>
      /\ reader' = [reader EXCEPT ![g] = Gone]
      /\ hubQueue' = Withdrawn(g, hubQueue)
  BY DEF ReaderCancelled, store
<1>2. Len(log') \in Nat /\ Len(log) <= Len(log')
  BY <1>1, Typed DEF IInv
<1>3. \A a, b : Ahead(a, b)' => Ahead(a, b)
  BY <1>1, WithdrawnQueue DEF IInv, TypeOK, HubInv, Ahead
<1>4. ASSUME NEW h \in Gens, Lasting(h)'
      PROVE  Lasting(h) /\ reader'[h].cursor = reader[h].cursor /\ (Follows(h)' => Follows(h))
  <2>1. reader'[h] = reader[h]
    BY <1>1, <1>4 DEF Lasting, Pends, Gone, IInv, TypeOK
  <2>2. Pends(h)
    BY <1>4, <2>1 DEF Lasting, Pends
  <2>3. QED
    BY <1>1, <1>3, <1>4, <2>1, <2>2, LastingWas DEF Follows
<1>5. QED
  BY <1>1, <1>2, <1>4, KindsStay, SteadyStays

(* A reader moves on.  One that joins the hub's queue with an event that   *)
(* is not terminal came from a commit, and followed already.               *)
LEMMA SteadyMoves ==
    ASSUME IInv, SteadyInv, NEW g \in Gens,
           NEW pc \in {"marking", "queued", "resetting"}, Moves(g, pc),
           \/ hubQueue' = hubQueue /\ reader[g].pc = "appended"
           \/ /\ hubQueue' = Append(hubQueue, g)
              /\ \/ reader[g].pc \in {"appended", "marking"} /\ pc = "queued"
                 \/ reader[g].pc = "idle" /\ pc = "resetting"
    PROVE  SteadyInv'
<1>1. UNCHANGED <<log, source, client, mobile>> /\ MovedFacts(g, pc)
  BY MovesFacts DEF Moves, store
<1>2. Len(log') \in Nat /\ Len(log) <= Len(log')
  BY <1>1, Typed DEF IInv
<1>3. \A a, b : Ahead(a, b)' => Ahead(a, b) \/ b = g
  <2>1. CASE hubQueue' = hubQueue
    BY <2>1 DEF Ahead
  <2>2. CASE hubQueue' = Append(hubQueue, g) /\ reader[g].pc \in {"appended", "marking", "idle"}
    BY <2>2, JoinsQueue DEF Ahead
  <2>3. QED
    BY <2>1, <2>2
<1>4. ASSUME NEW h \in Gens, Lasting(h)'
      PROVE  Lasting(h) /\ reader'[h].cursor = reader[h].cursor /\ (Follows(h)' => Follows(h))
  <2>1. reader'[h].cursor = reader[h].cursor
    BY <1>1 DEF MovedFacts
  <2>2. Pends(h)
    BY <1>1, <1>4 DEF Lasting, Pends, MovedFacts
  <2>3. Lasting(h)
    BY <1>1, <1>4, <2>1, <2>2, LastingWas
  <2>4. CASE h # g
    BY <1>1, <1>3, <2>1, <2>3, <2>4 DEF Follows, MovedFacts
  <2>5. CASE h = g
    <3>1. reader[g].pc # "marking"
      BY <2>3, <2>5 DEF Lasting, IInv, ReaderInv
    <3>2. reader[g].pc = "appended"
      BY <2>2, <2>5, <3>1 DEF Pends
    <3>3. QED
      BY <2>1, <2>3, <2>5, <3>2 DEF Follows
  <2>6. QED
    BY <2>4, <2>5
<1>5. QED
  BY <1>1, <1>2, <1>4, KindsStay, SteadyStays

(* An event is committed.                                                  *)
LEMMA SteadyCommits ==
    ASSUME IInv, SteadyInv, NEW g \in Gens, NEW kind \in Kinds, CommitEvent(g, kind)
    PROVE  SteadyInv'
<1>1. /\ log' = Append(log, Len(source')) /\ UNCHANGED <<hubQueue, client, mobile>>
      /\ reader' = [reader EXCEPT ![g] = [pc |-> "appended", cursor |-> Len(log')]]
      /\ Emits(kind)
  BY DEF CommitEvent
<1>2. /\ Len(log) \in Nat /\ DOMAIN log = 1..Len(log)
      /\ \A p \in DOMAIN source : source'[p] = source[p]
      /\ log \in Seq(Positions) /\ Len(source') \in Positions
  BY <1>1, Typed, EmitsSource DEF IInv
<1>3. /\ Len(log') = Len(log) + 1 /\ \A c \in DOMAIN log : log'[c] = log[c]
  BY <1>1, <1>2
<1>4. \A c \in DOMAIN log : log'[c] = log[c] /\ KindAt(c)' = KindAt(c)
  BY <1>2, <1>3 DEF KindAt, IInv, StoreInv
<1>5. ASSUME NEW h \in Gens, h # g, Lasting(h)'
      PROVE  Lasting(h) /\ reader'[h].cursor = reader[h].cursor /\ (Follows(h)' => Follows(h))
  <2>1. reader'[h] = reader[h]
    BY <1>1, <1>5 DEF IInv, TypeOK
  <2>2. Pends(h)
    BY <1>5, <2>1 DEF Lasting, Pends
  <2>3. KindAt(reader[h].cursor)' = KindAt(reader[h].cursor)
    <3>1. reader[h].cursor \in DOMAIN log /\ log[reader[h].cursor] \in DOMAIN source
      BY <2>2 DEF IInv, ReaderInv, StoreInv
    <3>2. QED
      BY <1>2, <1>3, <2>1, <3>1 DEF KindAt
  <2>4. QED
    BY <1>1, <1>5, <2>1, <2>2, <2>3 DEF Lasting, Follows, Ahead
<1>6. reader'[g].cursor = Len(log')
  BY <1>1 DEF IInv, TypeOK
<1>7. QED
  BY <1>1, <1>2, <1>3, <1>4, <1>5, <1>6, SteadyStays

-----------------------------------------------------------------------------
(* While only the hub's side of the connection changes, or a reader is     *)
(* done, the replica's part of the invariant stays, and so does what it    *)
(* says of the events on their way.                                        *)
LEMMA HubSideFacts ==
    ASSUME IInv, SteadyInv, UNCHANGED <<log, source, mobile>>,
           \/ reader' = reader
           \/ \E g \in Gens : \E r \in {Idle, Gone} : reader' = [reader EXCEPT ![g] = r]
    PROVE  /\ AppliedInv'
           /\ \A h \in Gens : Lasting(h)' => Lasting(h) /\ reader'[h] = reader[h]
<1>1. AppliedInv'
  BY DEF SteadyInv, AppliedInv, KindAt
<1>2. ASSUME NEW h \in Gens, Lasting(h)'
      PROVE  Lasting(h) /\ reader'[h] = reader[h]
  <2>1. reader'[h] = reader[h]
    <3>1. CASE reader' = reader
      BY <3>1
    <3>2. ASSUME NEW g \in Gens, NEW r \in {Idle, Gone}, reader' = [reader EXCEPT ![g] = r]
          PROVE  reader'[h] = reader[h]
      <4>1. reader'[h] = IF h = g THEN r ELSE reader[h]
        BY <3>2 DEF IInv, TypeOK
      <4>2. h # g
        BY <1>2, <3>2, <4>1 DEF Lasting, Pends, Idle, Gone
      <4>3. QED
        BY <4>1, <4>2
    <3>3. QED
      BY <3>1, <3>2
  <2>2. Lasting(h)
    BY <1>2, <2>1 DEF Lasting, Pends, KindAt
  <2>3. QED
    BY <2>1, <2>2
<1>3. QED
  BY <1>1, <1>2

(* A connection that is closed has nothing on its way.                     *)
LEMMA SteadyCloses ==
    ASSUME IInv, SteadyInv, client' = NoClient, UNCHANGED <<log, source, mobile>>
    PROVE  SteadyInv'
<1>1. AppliedInv'
  BY DEF SteadyInv, AppliedInv, KindAt
<1>2. client'.pc = "down" /\ client'.phase = "new" /\ client'.queue = <<>>
  BY DEF NoClient
<1>3. \A i : i \notin DOMAIN client'.queue
  BY <1>2
<1>4. QED
  BY <1>1, <1>2, <1>3 DEF SteadyInv, NewsInv

(* The mobile connects from the cursor it has applied.                     *)
LEMMA SteadyConnects ==
    ASSUME IInv, SteadyInv, MobileConnects
    PROVE  SteadyInv'
<1>1. /\ client.pc = "down" /\ client' = [NoClient EXCEPT !.pc = "queued", !.last = mobile.applied]
      /\ hubQueue' = Append(hubQueue, MobileTask)
      /\ UNCHANGED <<log, source, mobile, reader>>
  BY DEF MobileConnects, store
<1>2. /\ client'.pc = "queued" /\ client'.phase = "new" /\ client'.queue = <<>>
      /\ client'.last = mobile.applied
  BY <1>1 DEF NoClient
<1>3. /\ AppliedInv'
      /\ \A h \in Gens : Lasting(h)' => Lasting(h) /\ reader'[h] = reader[h]
  BY <1>1, HubSideFacts
<1>4. MobileTask \notin ToSet(hubQueue) /\ MobileTask \notin Gens
  BY <1>1, RelayStreamAssumption DEF IInv, HubInv, Gens, MobileTask
<1>5. \A a, b : Ahead(a, b)' => Ahead(a, b) \/ b = MobileTask
  <2>1. hubQueue \in Seq(Gens \cup {MobileTask}) /\ Once(hubQueue)
    BY DEF IInv, TypeOK, HubInv
  <2>2. \A a, b : Before(a, b, Append(hubQueue, MobileTask))
          => Before(a, b, hubQueue) \/ (a \in ToSet(hubQueue) /\ b = MobileTask)
    BY <1>4, <2>1, AppendQueue
  <2>3. QED
    BY <1>1, <2>2 DEF Ahead
<1>6. ASSUME NEW g \in Gens, Lasting(g)', Follows(g)'
      PROVE  mobile.applied <= reader'[g].cursor
  <2>1. Lasting(g) /\ reader'[g] = reader[g]
    BY <1>3, <1>6
  <2>2. ~Ahead(MobileTask, g)'
    BY <1>4, <1>5, AheadIn DEF Ahead
  <2>3. reader[g].pc = "appended"
    BY <1>6, <2>1, <2>2 DEF Follows
  <2>4. reader[g].cursor = Len(log)
    BY <2>3 DEF IInv, ReaderInv
  <2>5. QED
    BY <2>1, <2>4 DEF SteadyInv, AppliedInv
<1>7. mobile.applied \in Nat /\ \A i : i \notin DOMAIN <<>>
  BY Typed DEF IInv
<1>8. QED
  BY <1>1, <1>2, <1>3, <1>6, <1>7 DEF SteadyInv, NewsInv

(* The floor is read.                                                      *)
LEMMA SteadyReadsFloor ==
    ASSUME IInv, SteadyInv, RegisterReadsFloor
    PROVE  SteadyInv'
<1>1. /\ client.pc = "queued"
      /\ client' = [client EXCEPT !.pc = "floor", !.phase = "replaying", !.floor = floor]
      /\ UNCHANGED <<log, source, mobile, reader, hubQueue>>
  BY DEF RegisterReadsFloor, store
<1>2. /\ client'.pc = "floor" /\ client'.phase = "replaying" /\ client'.queue = client.queue
      /\ client'.last = client.last
  BY <1>1, ConnectionType DEF IInv, Connections
<1>3. /\ AppliedInv'
      /\ \A h \in Gens : Lasting(h)' => Lasting(h) /\ reader'[h] = reader[h]
  BY <1>1, HubSideFacts
<1>4. \A g \in Gens : Lasting(g)' /\ Follows(g)' => mobile.applied <= reader'[g].cursor
  BY <1>1, <1>3 DEF SteadyInv, NewsInv, Follows, Ahead
<1>5. QED
  BY <1>1, <1>2, <1>3, <1>4 DEF SteadyInv, NewsInv

(* Events that are not older than what the replica has applied are sent.   *)
LEMMA SentIsNews ==
    ASSUME IInv, SteadyInv, NEW cs \in Seq(DOMAIN log), UNCHANGED <<log, source, mobile>>,
           \A j \in DOMAIN cs : mobile.applied <= cs[j],
           client'.queue = client.queue \o FramesOf(cs)
    PROVE  \A i \in DOMAIN client'.queue :
             IsEvent(client'.queue[i]) => mobile.applied <= client'.queue[i].cursor
<1> DEFINE q == client.queue
           r == FramesOf(cs)
<1>1. /\ r \in Seq(FrameSet) /\ DOMAIN r = DOMAIN cs
      /\ \A j \in DOMAIN cs : r[j].cursor = cs[j]
  BY FramesOfType
<1>2. q \in Seq(FrameSet)
  BY Typed DEF IInv
<1> HIDE DEF q, r
<1>3. \A k \in DOMAIN (q \o r) :
        \/ k \in DOMAIN q /\ (q \o r)[k] = q[k]
        \/ k - Len(q) \in DOMAIN r /\ (q \o r)[k] = r[k - Len(q)]
  BY <1>1, <1>2, Concatenated
<1>4. \A k \in DOMAIN q : IsEvent(q[k]) => mobile.applied <= q[k].cursor
  BY DEF q, SteadyInv, NewsInv
<1>5. \A k \in DOMAIN (q \o r) : IsEvent((q \o r)[k]) => mobile.applied <= (q \o r)[k].cursor
  BY <1>1, <1>3, <1>4
<1>6. QED
  BY <1>5 DEF q, r

(* A reset is no news by itself.                                           *)
LEMMA ResetIsNoNews ==
    ASSUME IInv, SteadyInv, client'.queue = Append(client.queue, ResetFrame), mobile' = mobile
    PROVE  \A i \in DOMAIN client'.queue :
             IsEvent(client'.queue[i]) => mobile.applied <= client'.queue[i].cursor
<1>1. PICK q : q = Append(client.queue, ResetFrame)
  OBVIOUS
<1>2. /\ \A i \in DOMAIN client.queue : q[i] = client.queue[i]
      /\ \A i \in DOMAIN q : IsEvent(q[i]) => i \in DOMAIN client.queue
  BY <1>1, AppendedReset
<1>3. QED
  BY <1>1, <1>2 DEF SteadyInv, NewsInv

(* The registration decides.  All events on their way that come later than *)
(* the lock's owner follow it.                                             *)
LEMMA SteadyDecides ==
    ASSUME IInv, SteadyInv, RegisterDecides
    PROVE  SteadyInv'
<1>1. /\ client.pc = "floor" /\ Owns(MobileTask)
      /\ UNCHANGED <<log, source, mobile, reader>>
      /\ IF (mobile.epoch # 0 /\ mobile.epoch # epoch) \/ client.last < client.floor
         THEN EnqueueReset([client EXCEPT !.pc = "registered", !.phase = "reset",
                                          !.floor = 0])
         ELSE client' = [client EXCEPT !.pc = "replay", !.floor = 0, !.high = HighWater]
  BY DEF RegisterDecides, store
<1>2. /\ AppliedInv'
      /\ \A h \in Gens : Lasting(h)' => Lasting(h) /\ reader'[h] = reader[h]
  BY <1>1, HubSideFacts
<1>3. ASSUME NEW g \in Gens, Lasting(g)
      PROVE  mobile.applied <= reader[g].cursor
  <2>1. reader[g].pc \in {"appended", "queued"}
    BY <1>3 DEF Lasting, Pends, IInv, ReaderInv
  <2>2. CASE reader[g].pc = "queued"
    <3>1. g \in ToSet(hubQueue) /\ g # MobileTask
      BY <2>2, RelayStreamAssumption DEF IInv, HubInv, Gens, MobileTask
    <3>2. Ahead(MobileTask, g)
      BY <1>1, <3>1, OwnerReleases
    <3>3. QED
      BY <1>1, <1>3, <3>2 DEF SteadyInv, NewsInv, Follows
  <2>3. CASE reader[g].pc = "appended"
    BY <1>1, <1>3, <2>3 DEF SteadyInv, NewsInv, Follows
  <2>4. QED
    BY <2>1, <2>2, <2>3
<1>4. client \in Connections /\ client.phase = "replaying"
  BY <1>1, ConnectionType DEF IInv, PhaseInv
<1>5. CASE client' = NoClient
  BY <1>1, <1>5, SteadyCloses
<1>6. CASE client' = [client EXCEPT !.pc = "replay", !.floor = 0, !.high = HighWater]
  <2>1. /\ client'.pc = "replay" /\ client'.phase = "replaying" /\ client'.queue = client.queue
        /\ client'.last = client.last
    BY <1>4, <1>6 DEF Connections
  <2>2. QED
    BY <1>1, <1>2, <2>1 DEF SteadyInv, NewsInv
<1>7. CASE client' = [[client EXCEPT !.pc = "registered", !.phase = "reset", !.floor = 0]
                        EXCEPT !.queue = Append(@, ResetFrame)]
  <2>1. /\ client'.pc = "registered" /\ client'.phase = "reset"
        /\ client'.queue = Append(client.queue, ResetFrame)
        /\ client'.last = client.last
    BY <1>4, <1>7 DEF Connections
  <2>2. \A i \in DOMAIN client'.queue :
             IsEvent(client'.queue[i]) => mobile.applied <= client'.queue[i].cursor
    BY <1>1, <2>1, ResetIsNoNews
  <2>3. \A g \in Gens : Lasting(g)' => mobile.applied <= reader'[g].cursor
    BY <1>2, <1>3
  <2>4. QED
    BY <1>1, <1>2, <2>1, <2>2, <2>3 DEF SteadyInv, NewsInv
<1>8. QED
  BY <1>1, <1>5, <1>6, <1>7 DEF EnqueueReset

(* Events newer than the last cursor are sent, and the last cursor grows.  *)
LEMMA SteadySends ==
    ASSUME IInv, SteadyInv, UNCHANGED <<log, source, mobile>>,
           AppliedInv', client.pc # "down",
           NEW S \in SUBSET (DOMAIN log), \A c \in S : client.last < c,
           client'.queue = client.queue \o FramesOf(InOrder(S)),
           client'.last \in Nat, client.last <= client'.last,
           client'.pc \in {"drain", "registered"},
           client'.phase = "reset" => client.phase = "reset",
           \A h \in Gens : Lasting(h)' => Lasting(h) /\ reader'[h] = reader[h]
    PROVE  SteadyInv'
<1>1. mobile.applied <= client.last /\ mobile.applied \in Nat /\ client.last \in Nat
      /\ \A c \in DOMAIN log : c \in Nat
  BY Typed DEF SteadyInv, NewsInv, IInv
<1>2. /\ InOrder(S) \in Seq(DOMAIN log)
      /\ \A j \in DOMAIN InOrder(S) : InOrder(S)[j] \in S
  BY SelectionSendable
<1>3. \A j \in DOMAIN InOrder(S) : mobile.applied <= InOrder(S)[j]
  <2>1. \A c \in S : mobile.applied <= c
    BY <1>1
  <2>2. QED
    BY <1>2, <2>1
<1>4. \A i \in DOMAIN client'.queue :
             IsEvent(client'.queue[i]) => mobile.applied <= client'.queue[i].cursor
  BY <1>2, <1>3, SentIsNews
<1>5. mobile.applied <= client'.last
  BY <1>1
<1>6. client'.phase = "reset" =>
        \A g \in Gens : Lasting(g)' => mobile.applied <= reader'[g].cursor
  BY DEF SteadyInv, NewsInv
<1>7. QED
  BY <1>4, <1>5, <1>6 DEF SteadyInv, NewsInv

(* A replay sends what is newer than the last cursor.                      *)
LEMMA SteadyReplays ==
    ASSUME IInv, SteadyInv, RegisterReplays
    PROVE  SteadyInv'
<1> DEFINE S == {c \in kept : client.last < c /\ c <= client.high}
           m == Max({client.last} \cup ToSet(Replayed))
<1>1. /\ client.pc = "replay" /\ UNCHANGED <<log, source, mobile, reader>>
      /\ Enqueue(Replayed, [client EXCEPT !.pc = "drain", !.high = 0,
                                          !.last = Max({@} \cup ToSet(Replayed))])
  BY DEF RegisterReplays, store
<1>2. /\ AppliedInv'
      /\ \A h \in Gens : Lasting(h)' => Lasting(h) /\ reader'[h] = reader[h]
  BY <1>1, HubSideFacts
<1>3. client \in Connections
  BY ConnectionType DEF IInv
<1>4. S \in SUBSET (DOMAIN log) /\ \A c \in S : client.last < c
  BY DEF IInv, TypeOK
<1>5. Replayed = InOrder(S)
  BY DEF Replayed
<1>6. m \in Nat /\ client.last <= m
  <2> HIDE DEF S
  <2>1. ToSet(Replayed) = S
    BY <1>4, <1>5, SelectionSendable
  <2>2. client.last \in 0..MaxSource
    BY DEF IInv, TypeOK
  <2>3. {client.last} \cup S \in SUBSET (0..MaxSource) /\ MaxSource \in Nat
    BY <1>4, <2>2, CursorBounds, RelayStreamAssumption
  <2>4. m \in {client.last} \cup S /\ \A c \in {client.last} \cup S : c <= m
    BY <2>1, <2>3, MaxIsGreatest
  <2> HIDE DEF m
  <2>5. QED
    BY <2>2, <2>3, <2>4
<1> HIDE DEF S, m
<1>7. CASE client' = NoClient
  BY <1>1, <1>7, SteadyCloses
<1>8. CASE client' = [[client EXCEPT !.pc = "drain", !.high = 0, !.last = m]
                        EXCEPT !.queue = @ \o FramesOf(Replayed)]
  <2>1. /\ client'.pc = "drain" /\ client'.phase = client.phase
        /\ client'.queue = client.queue \o FramesOf(Replayed)
        /\ client'.last = m
    BY <1>3, <1>8 DEF Connections
  <2>2. QED
    BY <1>1, <1>2, <1>4, <1>5, <1>6, <2>1, SteadySends
<1>9. QED
  BY <1>1, <1>7, <1>8 DEF Enqueue, m

(* A drain sends what is newer than the last cursor.                       *)
LEMMA SteadyDrains ==
    ASSUME IInv, SteadyInv, RegisterDrains
    PROVE  SteadyInv'
<1> DEFINE S == {c \in client.buffer : client.last < c}
           m == IF Drained = <<>> THEN client.last ELSE Last(Drained)
<1>1. /\ client.pc = "drain" /\ UNCHANGED <<log, source, mobile, reader>>
      /\ Enqueue(Drained, [client EXCEPT !.pc = "registered", !.phase = "live", !.buffer = {},
                              !.last = IF Drained = <<>> THEN @ ELSE Last(Drained)])
  BY DEF RegisterDrains, store
<1>2. /\ AppliedInv'
      /\ \A h \in Gens : Lasting(h)' => Lasting(h) /\ reader'[h] = reader[h]
  BY <1>1, HubSideFacts
<1>3. client \in Connections
  BY ConnectionType DEF IInv
<1>4. /\ S \in SUBSET (DOMAIN log) /\ \A c \in S : client.last < c
      /\ client.last \in Nat /\ \A c \in DOMAIN log : c \in Nat
  BY Typed DEF IInv, PhaseInv
<1>5. Drained = InOrder(S)
  BY DEF Drained
<1>6. m \in Nat /\ client.last <= m
  <2> HIDE DEF S
  <2>1. /\ Drained \in Seq(DOMAIN log) /\ \A j \in DOMAIN Drained : Drained[j] \in S
        /\ Len(Drained) \in Nat /\ DOMAIN Drained = 1..Len(Drained)
    BY <1>4, <1>5, SelectionSendable
  <2>2. CASE Drained = <<>>
    BY <1>4, <2>2
  <2>3. CASE Drained # <<>>
    <3>1. Len(Drained) \in DOMAIN Drained /\ m = Drained[Len(Drained)]
      BY <2>1, <2>3 DEF Last
    <3>2. m \in S
      BY <2>1, <3>1
    <3> HIDE DEF m
    <3>3. QED
      BY <1>4, <3>2
  <2>4. QED
    BY <2>2, <2>3
<1> HIDE DEF S, m
<1>7. CASE client' = NoClient
  BY <1>1, <1>7, SteadyCloses
<1>8. CASE client' = [[client EXCEPT !.pc = "registered", !.phase = "live", !.buffer = {},
                                     !.last = m]
                        EXCEPT !.queue = @ \o FramesOf(Drained)]
  <2>1. /\ client'.pc = "registered" /\ client'.phase = "live"
        /\ client'.queue = client.queue \o FramesOf(Drained)
        /\ client'.last = m
    BY <1>3, <1>8 DEF Connections
  <2>2. QED
    BY <1>1, <1>2, <1>4, <1>5, <1>6, <2>1, SteadySends
<1>9. QED
  BY <1>1, <1>7, <1>8 DEF Enqueue, m

(* A reset is required: no event that is not terminal is on its way, since *)
(* the reader that requires it held the presence lock all the while.       *)
LEMMA SteadyRequiresReset ==
    ASSUME IInv, SteadyInv, NEW g \in Gens, RequireReset(g)
    PROVE  SteadyInv'
<1>1. /\ Owns(g) /\ reader[g].pc = "resetting" /\ ReaderReleases
      /\ IF Subscribed
         THEN EnqueueReset([client EXCEPT !.phase = "reset", !.buffer = {}])
         ELSE client' = client
      /\ reader' = [reader EXCEPT ![g] = Idle]
      /\ UNCHANGED <<log, source, mobile>>
  BY DEF RequireReset, store
<1>2. /\ AppliedInv'
      /\ \A h \in Gens : Lasting(h)' => Lasting(h) /\ reader'[h] = reader[h]
  BY <1>1, HubSideFacts
<1>3. \A h \in Gens : ~Lasting(h)
  BY <1>1, HeadResets DEF Lasting
<1>4. \A h \in Gens : ~Lasting(h)'
  BY <1>2, <1>3
<1>5. client \in Connections
  BY ConnectionType DEF IInv
<1>6. CASE client' = NoClient
  BY <1>1, <1>6, SteadyCloses
<1>7. CASE client' = client
  BY <1>1, <1>2, <1>4, <1>7 DEF SteadyInv, NewsInv
<1>8. CASE client' = [[client EXCEPT !.phase = "reset", !.buffer = {}]
                        EXCEPT !.queue = Append(@, ResetFrame)]
  <2>1. /\ client'.pc = client.pc
        /\ client'.queue = Append(client.queue, ResetFrame)
        /\ client'.last = client.last
    BY <1>5, <1>8 DEF Connections
  <2>2. \A i \in DOMAIN client'.queue :
             IsEvent(client'.queue[i]) => mobile.applied <= client'.queue[i].cursor
    BY <1>1, <2>1, ResetIsNoNews
  <2>3. QED
    BY <1>1, <1>2, <1>4, <2>1, <2>2 DEF SteadyInv, NewsInv
<1>9. QED
  BY <1>1, <1>6, <1>7, <1>8 DEF EnqueueReset

(* An event is broadcast.                                                  *)
LEMMA SteadyBroadcasts ==
    ASSUME IInv, SteadyInv, NEW g \in Gens, BroadcastCommitted(g)
    PROVE  SteadyInv'
<1>1. PICK b : b = reader[g].cursor
  OBVIOUS
<1>2. /\ Owns(g) /\ reader[g].pc = "queued" /\ Publish(b) /\ ReaderReleases
      /\ \E r \in {Idle, Gone} : reader' = [reader EXCEPT ![g] = r]
      /\ UNCHANGED <<log, source, mobile>>
  BY <1>1 DEF BroadcastCommitted, store
<1>3. /\ AppliedInv'
      /\ \A h \in Gens : Lasting(h)' => Lasting(h) /\ reader'[h] = reader[h]
  BY <1>2, HubSideFacts
<1>4. Pends(g) /\ b \in DOMAIN log /\ b \in Nat /\ mobile.applied \in Nat /\ client.last \in Nat
  BY <1>1, <1>2, Typed DEF Pends, IInv, ReaderInv
<1>5. client \in Connections
  BY ConnectionType DEF IInv
<1>6. CASE client' = NoClient
  BY <1>2, <1>6, SteadyCloses
<1>7. ASSUME client'.pc = client.pc, client'.phase = client.phase,
             client'.queue = client.queue, client'.last = client.last
      PROVE  SteadyInv'
  <2>1. ASSUME client.pc \in {"queued", "floor"}, NEW h \in Gens, Lasting(h)', Follows(h)'
        PROVE  mobile.applied <= reader'[h].cursor
    <3>1. hubQueue' = Tail(hubQueue)
      BY <1>2, <1>7, <2>1 DEF ReaderReleases
    <3>2. Ahead(MobileTask, h)' => Ahead(MobileTask, h)
      BY <1>2, <3>1, OwnerReleases DEF Ahead
    <3>3. Lasting(h) /\ reader'[h] = reader[h]
      BY <1>3, <2>1
    <3>4. Follows(h)
      BY <2>1, <3>2, <3>3 DEF Follows
    <3>5. QED
      BY <2>1, <3>3, <3>4 DEF SteadyInv, NewsInv
  <2>2. client.phase = "reset" =>
          \A h \in Gens : Lasting(h)' => mobile.applied <= reader'[h].cursor
    BY <1>3 DEF SteadyInv, NewsInv
  <2>3. /\ client.pc # "down" => mobile.applied <= client.last
        /\ \A i \in DOMAIN client.queue :
             IsEvent(client.queue[i]) => mobile.applied <= client.queue[i].cursor
    BY DEF SteadyInv, NewsInv
  <2>4. mobile' = mobile
    BY <1>2
  <2>5. QED
    BY <1>3, <1>7, <2>1, <2>2, <2>3, <2>4 DEF SteadyInv, NewsInv
<1>8. ASSUME NEW buffer, client' = [client EXCEPT !.buffer = buffer]
      PROVE  SteadyInv'
  <2>1. /\ client'.pc = client.pc /\ client'.phase = client.phase
        /\ client'.queue = client.queue /\ client'.last = client.last
    BY <1>5, <1>8 DEF Connections
  <2>2. QED
    BY <1>7, <2>1
<1>9. ASSUME NEW cs \in Seq(DOMAIN log), \A j \in DOMAIN cs : mobile.applied <= cs[j],
             Subscribed, client.phase \in {"reset", "live"}, mobile.applied <= b,
             client'.pc = client.pc, client'.phase = "reset" => client.phase = "reset",
             client'.last = b, client'.queue = client.queue \o FramesOf(cs)
      PROVE  SteadyInv'
  <2>1. client.pc \notin {"queued", "floor"}
    BY <1>9 DEF IInv, PhaseInv
  <2>2. \A i \in DOMAIN client'.queue :
             IsEvent(client'.queue[i]) => mobile.applied <= client'.queue[i].cursor
    BY <1>2, <1>9, SentIsNews
  <2>3. client.phase = "reset" =>
          \A h \in Gens : Lasting(h)' => mobile.applied <= reader'[h].cursor
    BY <1>3 DEF SteadyInv, NewsInv
  <2>4. QED
    BY <1>2, <1>3, <1>9, <2>1, <2>2, <2>3 DEF SteadyInv, NewsInv
<1>10. /\ <<b>> \in Seq(DOMAIN log)
       /\ \A j \in DOMAIN <<b>> : <<b>>[j] = b
  BY <1>4
<1>11. client.phase = "reset" /\ KindAt(b) # "terminal" => mobile.applied <= b
  BY <1>1, <1>4 DEF SteadyInv, NewsInv, Lasting
<1>12. CASE Subscribed /\ client.phase = "reset" /\ KindAt(b) = "final"
  <2> DEFINE S == {x \in client.buffer : b < x}
             cs == <<b>> \o InOrder(S)
  <2>1. mobile.applied <= b
    BY <1>11, <1>12
  <2>2. S \in SUBSET (DOMAIN log) /\ \A x \in S : b < x /\ x \in Nat
    BY Typed DEF IInv, PhaseInv
  <2>3. Enqueue(cs, [client EXCEPT !.phase = "live", !.last = b, !.buffer = {}])
    BY <1>2, <1>12 DEF Publish, KeyframeKinds
  <2> HIDE DEF S
  <2>4. /\ InOrder(S) \in Seq(DOMAIN log) /\ \A j \in DOMAIN InOrder(S) : InOrder(S)[j] \in S
    <3>1. Len(log) \in Nat /\ DOMAIN log = 1..Len(log)
      BY Typed DEF IInv
    <3>2. InOrder(S) \in Seq(S)
      BY <2>2, <3>1, InOrderSorts
    <3>3. QED
      BY <2>2, <3>2
  <2>5. cs \in Seq(DOMAIN log) /\ \A j \in DOMAIN cs : mobile.applied <= cs[j]
    <3> DEFINE a == <<b>>
               r == InOrder(S)
    <3>1. \A k \in DOMAIN (a \o r) :
            \/ k \in DOMAIN a /\ (a \o r)[k] = a[k]
            \/ k - Len(a) \in DOMAIN r /\ (a \o r)[k] = r[k - Len(a)]
      <4>1. a \in Seq(DOMAIN log) /\ r \in Seq(DOMAIN log)
        BY <1>10, <2>4
      <4> HIDE DEF a, r
      <4>2. QED
        BY <4>1, Concatenated
    <3>2. \A j \in DOMAIN r : mobile.applied <= r[j]
      BY <1>4, <2>1, <2>2, <2>4
    <3>3. \A j \in DOMAIN a : mobile.applied <= a[j]
      BY <1>10, <2>1
    <3>4. a \o r \in Seq(DOMAIN log)
      BY <1>10, <2>4
    <3> HIDE DEF a, r
    <3>5. \A k \in DOMAIN (a \o r) : mobile.applied <= (a \o r)[k]
      BY <3>1, <3>2, <3>3
    <3>6. QED
      BY <3>4, <3>5 DEF a, r
  <2> HIDE DEF cs
  <2>6. CASE client' = [[client EXCEPT !.phase = "live", !.last = b, !.buffer = {}]
                          EXCEPT !.queue = @ \o FramesOf(cs)]
    <3>1. /\ client'.pc = client.pc /\ client'.phase = "live" /\ client'.last = b
          /\ client'.queue = client.queue \o FramesOf(cs)
      BY <1>5, <2>6 DEF Connections
    <3>2. QED
      BY <1>9, <1>12, <2>1, <2>5, <3>1
  <2>7. QED
    BY <1>6, <2>3, <2>6 DEF Enqueue
<1>13. ASSUME Enqueue(<<b>>, [client EXCEPT !.last = b]), mobile.applied <= b,
              Subscribed, client.phase \in {"reset", "live"}
       PROVE  SteadyInv'
  <2>1. CASE client' = [[client EXCEPT !.last = b] EXCEPT !.queue = @ \o FramesOf(<<b>>)]
    <3>1. /\ client'.pc = client.pc /\ client'.phase = client.phase /\ client'.last = b
          /\ client'.queue = client.queue \o FramesOf(<<b>>)
      BY <1>5, <2>1 DEF Connections
    <3>2. QED
      BY <1>9, <1>10, <1>13, <3>1
  <2>2. QED
    BY <1>6, <1>13, <2>1 DEF Enqueue
<1>14. CASE Subscribed /\ client.phase = "reset" /\ KindAt(b) = "page"
  BY <1>2, <1>11, <1>13, <1>14 DEF Publish, KeyframeKinds
<1>15. CASE Subscribed /\ client.phase = "reset" /\ KindAt(b) \notin KeyframeKinds
  BY <1>2, <1>8, <1>15 DEF Publish, KeyframeKinds
<1>16. CASE Subscribed /\ client.phase = "live"
  <2>1. CASE client.last < b
    <3>1. mobile.applied <= b
      BY <1>4, <1>16, <2>1 DEF SteadyInv, NewsInv, Subscribed
    <3>2. QED
      BY <1>2, <1>13, <1>16, <2>1, <3>1 DEF Publish
  <2>2. CASE ~(client.last < b)
    BY <1>2, <1>7, <1>16, <2>2 DEF Publish
  <2>3. QED
    BY <2>1, <2>2
<1>17. CASE Subscribed /\ client.phase = "replaying"
  BY <1>2, <1>8, <1>17 DEF Publish
<1>18. CASE ~Subscribed
  BY <1>2, <1>7, <1>18 DEF Publish
<1>19. Subscribed => client.phase \in {"replaying", "reset", "live"}
  BY <1>5 DEF Subscribed, Connections, IInv, PhaseInv
<1>20. QED
  BY <1>12, <1>14, <1>15, <1>16, <1>17, <1>18, <1>19 DEF KeyframeKinds

-----------------------------------------------------------------------------
(* What a frame adds to the staged pages, and that a keyframe newer than   *)
(* the cursor the replica has applied is taken.                            *)
LEMMA AppliedStages ==
    ASSUME NEW m \in Replicas, NEW f \in FrameSet, m.epoch \in {0, f.epoch} \/ f.type = "reset",
           IsEvent(f) => source[f.pos] \in Kinds,
           NEW n, n = Applied(m, f)
    PROVE  /\ \A p \in n.staged :
                \/ p \in m.staged
                \/ p = f.pos /\ IsEvent(f) /\ source[f.pos] = "page" /\ m.applied < f.cursor
           /\ IsFinal(f, source) /\ n.applied # m.applied => f.pos - 1 \notin n.staged
           /\ IsEvent(f) /\ source[f.pos] = "page" /\ m.applied < f.cursor
                => f.pos \in n.staged
           /\ IsFinal(f, source) /\ m.applied < f.cursor /\ f.pos - 1 \in m.staged
                => ~n.recovery
           /\ IsEvent(f) /\ source[f.pos] = "page" => n.applied = m.applied
<1>1. /\ f.type \in {"event", "reset"}
      /\ IsEvent(f) => f.cursor \in Nat /\ f.pos \in Nat
  BY FrameTypes
<1>2. m.applied \in Nat /\ m.revision \in Nat
  BY RelayStreamAssumption DEF Replicas
<1>3. CASE f.type = "reset"
  <2>1. n = [m EXCEPT !.recovery = TRUE, !.epoch = f.epoch]
    BY <1>3 DEF Applied, NeedsReset, Replicas
  <2>2. n.staged = m.staged
    BY <2>1 DEF Replicas
  <2>3. QED
    BY <1>3, <2>2 DEF IsEvent, IsFinal
<1>4. CASE f.type = "event"
  <2>1. PICK known : known = [m EXCEPT !.epoch = f.epoch]
    OBVIOUS
  <2>2. /\ known.applied = m.applied /\ known.recovery = m.recovery
        /\ known.revision = m.revision /\ known.staged = m.staged
    BY <2>1 DEF Replicas
  <2>3. n = IF f.cursor <= m.applied THEN known
            ELSE IF m.recovery /\ source[f.pos] \notin KeyframeKinds THEN known
            ELSE AppliedEvent(known, f)
    BY <1>4, <2>1 DEF Applied
  <2>4. IsEvent(f) /\ f.cursor \in Nat /\ f.pos \in Nat
    BY <1>1, <1>4 DEF IsEvent
  <2>5. CASE n = known /\ f.cursor <= m.applied
    BY <1>2, <2>2, <2>4, <2>5
  <2>6. CASE n = known /\ source[f.pos] \notin KeyframeKinds
    BY <2>2, <2>4, <2>6 DEF KeyframeKinds, IsFinal
  <2>7. CASE /\ n = AppliedEvent(known, f) /\ ~(f.cursor <= m.applied)
             /\ source[f.pos] = "page"
    <3>1. n = [known EXCEPT !.staged = known.staged \cup {f.pos}]
      BY <2>7 DEF AppliedEvent, KeyframeKinds
    <3>2. n.staged = m.staged \cup {f.pos} /\ n.applied = m.applied
      BY <2>1, <2>2, <3>1 DEF Replicas
    <3>3. m.applied < f.cursor
      BY <1>2, <2>4, <2>7
    <3>4. QED
      BY <2>4, <2>7, <3>2, <3>3 DEF IsFinal
  <2>8. CASE /\ n = AppliedEvent(known, f) /\ ~(f.cursor <= m.applied)
             /\ source[f.pos] = "final"
    <3>1. CASE f.pos - 1 \in known.staged
      <4>1. n = [[known EXCEPT !.applied = f.cursor]
                   EXCEPT !.recovery = FALSE, !.staged = known.staged \ {f.pos - 1},
                          !.revision = f.pos, !.have = 1..f.pos]
        BY <2>1, <2>8, <3>1 DEF AppliedEvent, KeyframeKinds, Replicas
      <4>2. n.staged = m.staged \ {f.pos - 1} /\ ~n.recovery
        BY <2>1, <2>2, <4>1 DEF Replicas
      <4>3. QED
        BY <2>8, <4>2
    <3>2. CASE f.pos - 1 \notin known.staged
      <4>1. n = NeedsReset(known)
        BY <2>8, <3>2 DEF AppliedEvent, KeyframeKinds
      <4>2. n.staged = m.staged /\ n.applied = m.applied
        BY <2>1, <2>2, <4>1 DEF NeedsReset, Replicas
      <4>3. QED
        BY <2>2, <2>8, <3>2, <4>2
    <3>3. QED
      BY <3>1, <3>2
  <2>9. CASE n = AppliedEvent(known, f) /\ source[f.pos] \notin KeyframeKinds
    <3>1. n.staged = known.staged
      <4>1. source[f.pos] \in {"text", "terminal"} /\ known.revision \in Nat
        BY <1>2, <2>2, <2>4, <2>9 DEF KeyframeKinds, Kinds
      <4>2. known \in [staged : {known.staged}, applied : {known.applied},
                       have : {known.have}, recovery : {known.recovery},
                       revision : {known.revision}, epoch : {known.epoch}]
        BY <2>1 DEF Replicas
      <4>3. CASE f.pos < known.revision
        <5>1. ~(f.pos >= known.revision) /\ f.pos # known.revision + 1
          BY <2>4, <4>1, <4>3
        <5>2. n = [known EXCEPT !.applied = f.cursor]
          BY <2>9, <4>1, <4>3, <5>1 DEF AppliedEvent, KeyframeKinds
        <5>3. QED
          BY <4>2, <5>2
      <4>4. CASE /\ ~(f.pos < known.revision)
                 /\ source[f.pos] = "terminal" \/ f.pos = known.revision + 1
        <5>1. f.pos >= known.revision
          BY <2>4, <4>1, <4>4
        <5>2. n = [[known EXCEPT !.applied = f.cursor]
                     EXCEPT !.revision = f.pos, !.have = @ \cup {f.pos}]
          BY <2>9, <4>1, <4>4, <5>1 DEF AppliedEvent, KeyframeKinds
        <5>3. QED
          BY <4>2, <5>2
      <4>5. CASE /\ ~(f.pos < known.revision)
                 /\ source[f.pos] = "text" /\ f.pos # known.revision + 1
        <5>1. f.pos >= known.revision
          BY <2>4, <4>1, <4>5
        <5>2. n = NeedsReset(known)
          BY <2>9, <4>1, <4>5, <5>1 DEF AppliedEvent, KeyframeKinds
        <5>3. QED
          BY <4>2, <5>2 DEF NeedsReset
      <4>6. QED
        BY <4>1, <4>3, <4>4, <4>5
    <3>2. QED
      BY <2>2, <2>9, <3>1 DEF KeyframeKinds, IsFinal
  <2>10. QED
    BY <2>3, <2>5, <2>6, <2>7, <2>8, <2>9 DEF KeyframeKinds
<1>5. QED
  BY <1>1, <1>3, <1>4

(* The replica takes a frame.                                              *)
LEMMA SteadyReceives ==
    ASSUME IInv, SteadyInv, MobileReceives
    PROVE  SteadyInv'
<1>1. PICK f : f = client.queue[1]
  OBVIOUS
<1>2. /\ client.queue \in Seq(FrameSet) /\ client.queue # <<>>
      /\ DOMAIN client.queue = 1..Len(client.queue) /\ Len(client.queue) \in Nat
      /\ mobile.applied \in Nat /\ client.last \in Nat
      /\ \A c \in DOMAIN log : c \in Nat /\ log[c] \in Nat
      /\ Len(log) \in Nat /\ DOMAIN log = 1..Len(log)
  BY Typed DEF IInv, MobileReceives
<1>3. Receives(f) /\ mobile' = Applied(mobile, f)
  BY <1>1, <1>2 DEF Receives, MobileReceives
<1>4. /\ UNCHANGED <<log, source, reader, hubQueue>>
      /\ client' = [client EXCEPT !.queue = Tail(client.queue)]
  BY <1>3 DEF Receives, store
<1>5. /\ client'.queue = Tail(client.queue) /\ client'.pc = client.pc
      /\ client'.phase = client.phase /\ client'.last = client.last
  BY <1>4, ConnectionType DEF IInv, Connections
<1>6. /\ \/ Stays(mobile, mobile') /\ Dismisses(mobile, mobile', f)
         \/ TakesFinal(mobile', f) /\ mobile.applied < f.cursor
         \/ TakesEvent(mobile, mobile', f) /\ mobile.applied < f.cursor
      /\ mobile'.applied \in Nat /\ f \in FrameSet
      /\ client.pc \in {"replay", "drain", "registered"}
      /\ IsEvent(f) => mobile.epoch \in {0, epoch}
      /\ IsEvent(f) => /\ f.cursor \in DOMAIN log /\ f.pos = log[f.cursor]
                       /\ \E k \in DOMAIN sent : sent[k] = f.cursor
  BY <1>3, ReceivesFacts
<1>7. /\ \A p \in mobile'.staged :
           \/ p \in mobile.staged
           \/ p = f.pos /\ IsEvent(f) /\ source[f.pos] = "page" /\ mobile.applied < f.cursor
      /\ IsFinal(f, source) /\ mobile'.applied # mobile.applied
           => f.pos - 1 \notin mobile'.staged
  <2>1. mobile \in Replicas
    BY DEF IInv, TypeOK, Replicas
  <2>2. f.type \in {"event", "reset"} /\ f.epoch = epoch
    BY <1>1, <1>2, <1>6, FrameTypes DEF IInv, FrameInv
  <2>3. mobile.epoch \in {0, f.epoch} \/ f.type = "reset"
    BY <1>6, <2>2 DEF IsEvent
  <2>4. IsEvent(f) => source[f.pos] \in Kinds
    BY <1>3, ReceivesFacts, Typed DEF IInv
  <2>5. QED
    BY <1>3, <1>6, <2>1, <2>3, <2>4, AppliedStages
<1>8. \/ mobile'.applied = mobile.applied
      \/ /\ mobile'.applied = f.cursor /\ IsEvent(f) /\ mobile.applied < f.cursor
         /\ \/ IsFinal(f, source)
            \/ source[f.pos] \notin KeyframeKinds
  BY <1>6 DEF Stays, TakesFinal, TakesEvent, IsFinal, IsEvent
<1>9. \A c \in DOMAIN log : log'[c] = log[c] /\ KindAt(c)' = KindAt(c)
  BY <1>4 DEF KindAt
<1>10. AppliedInv'
  <2>1. CASE mobile'.applied = mobile.applied
    <3>1. SUFFICES ASSUME mobile.applied > 0
                   PROVE  /\ KindAt(mobile.applied)' # "page"
                          /\ KindAt(mobile.applied)' = "final"
                               => log[mobile.applied] - 1 \notin mobile'.staged
      BY <1>4, <2>1 DEF AppliedInv, SteadyInv, KindAt
    <3>2. mobile.applied \in DOMAIN log
      BY <1>2, <3>1 DEF SteadyInv, AppliedInv
    <3>3. KindAt(mobile.applied)' = KindAt(mobile.applied)
      BY <1>4, <2>1 DEF KindAt
    <3>4. ASSUME KindAt(mobile.applied) = "final",
                 log[mobile.applied] - 1 \in mobile'.staged
          PROVE  FALSE
      <4>1. log[mobile.applied] - 1 \notin mobile.staged
        BY <3>1, <3>4 DEF SteadyInv, AppliedInv
      <4>2. log[mobile.applied] - 1 = f.pos /\ IsEvent(f) /\ mobile.applied < f.cursor
        BY <1>7, <3>4, <4>1
      <4>3. f.cursor \in DOMAIN log /\ f.pos = log[f.cursor]
        BY <1>6, <4>2
      <4>4. log[mobile.applied] < log[f.cursor]
        BY <3>2, <4>2, <4>3 DEF IInv, StoreInv
      <4>5. QED
        BY <1>2, <3>2, <4>2, <4>3, <4>4
    <3>5. QED
      BY <3>1, <3>3, <3>4 DEF SteadyInv, AppliedInv
  <2>2. CASE /\ mobile'.applied = f.cursor /\ IsEvent(f) /\ mobile.applied < f.cursor
             /\ \/ IsFinal(f, source)
                \/ source[f.pos] \notin KeyframeKinds
    <3>1. f.cursor \in DOMAIN log /\ f.pos = log[f.cursor] /\ f.cursor <= Len(log)
      BY <1>2, <1>6, <2>2
    <3>2. KindAt(mobile.applied)' = source[f.pos]
      BY <1>4, <2>2, <3>1 DEF KindAt
    <3>3. source[f.pos] # "page"
      BY <2>2 DEF KeyframeKinds, IsFinal
    <3>4. source[f.pos] = "final" => f.pos - 1 \notin mobile'.staged
      BY <1>2, <1>7, <2>2, <3>1 DEF KeyframeKinds
    <3>5. QED
      BY <1>4, <2>2, <3>1, <3>2, <3>3, <3>4 DEF AppliedInv
  <2>3. QED
    BY <1>8, <2>1, <2>2
<1>11. mobile'.applied <= client.last
  <2>1. mobile.applied <= client.last
    BY <1>6 DEF SteadyInv, NewsInv
  <2>2. IsEvent(f) => f.cursor <= client.last
    BY <1>6 DEF IInv, SentInv
  <2>3. QED
    BY <1>8, <2>1, <2>2
<1>12. ASSUME NEW i \in DOMAIN client'.queue, IsEvent(client'.queue[i])
       PROVE  mobile'.applied <= client'.queue[i].cursor
  <2>1. /\ i + 1 \in DOMAIN client.queue /\ client'.queue[i] = client.queue[i + 1]
        /\ 1 \in DOMAIN client.queue /\ 1 < i + 1 /\ i \in Nat
    BY <1>2, <1>5, <1>12
  <2>2. mobile.applied <= client.queue[i + 1].cursor /\ client.queue[i + 1].cursor \in Nat
    BY <1>2, <1>12, <2>1, FramesAreLogged DEF SteadyInv, NewsInv
  <2>3. IsEvent(f) => f.cursor < client.queue[i + 1].cursor /\ f.cursor \in Nat
    BY <1>1, <1>2, <1>6, <1>12, <2>1 DEF IInv, FrameInv
  <2>4. QED
    BY <1>8, <2>1, <2>2, <2>3
<1>13. ASSUME client.phase = "reset", NEW g \in Gens, Lasting(g)'
       PROVE  mobile'.applied <= reader'[g].cursor
  <2>1. Lasting(g) /\ reader'[g] = reader[g] /\ reader[g].cursor \in Nat
    BY <1>2, <1>4, <1>13 DEF Lasting, Pends, KindAt, IInv, ReaderInv
  <2>2. mobile.applied <= reader[g].cursor
    BY <1>13, <2>1 DEF SteadyInv, NewsInv
  <2>3. IsEvent(f) => f.cursor < reader[g].cursor /\ f.cursor \in Nat
    BY <1>2, <1>6, <1>13, <2>1 DEF IInv, SentInv, Lasting
  <2>4. QED
    BY <1>8, <2>1, <2>2, <2>3
<1>14. QED
  BY <1>5, <1>6, <1>10, <1>11, <1>12, <1>13 DEF SteadyInv, NewsInv

(* Every step but the replacement of the database keeps these facts.       *)
LEMMA NextKeepsSteady ==
    ASSUME "newstore" \notin Faults, IInv, SteadyInv, [Next]_vars
    PROVE  SteadyInv'
<1>1. ASSUME NEW kind \in Kinds, SourceLoses(kind)
      PROVE  SteadyInv'
  <2>1. /\ UNCHANGED <<log, reader, hubQueue, client, mobile>>
        /\ \A p \in DOMAIN source : source'[p] = source[p]
    BY <1>1, EmitsSource DEF SourceLoses, store, IInv
  <2>2. QED
    BY <2>1, SteadyElsewhere
<1>2. ASSUME NEW g \in Gens, MacStep(g)
      PROVE  SteadyInv'
  <2>1. CASE \E kind \in Kinds : CommitEvent(g, kind)
    BY <2>1, SteadyCommits
  <2>2. CASE MacConnects(g)
    BY <2>2, SteadyMacConnects
  <2>3. CASE SourceGap(g)
    <3>1. /\ Moves(g, "resetting") /\ reader[g].pc = "idle"
          /\ hubQueue' = Append(hubQueue, g)
      BY <2>3 DEF SourceGap, Moves
    <3>2. QED
      BY <3>1, SteadyMoves
  <2>4. CASE ReaderCancelled(g)
    BY <2>4, SteadyCancelled
  <2>5. QED
    BY <1>2, <2>1, <2>2, <2>3, <2>4 DEF MacStep
<1>3. ASSUME NEW g \in Gens, ReaderTask(g)
      PROVE  SteadyInv'
  <2>1. CASE AppendReturns(g)
    <3>1. gap' \in BOOLEAN /\ reader[g].pc = "appended"
      BY <2>1 DEF AppendReturns, IInv, TypeOK
    <3>2. CASE KindAt(reader[g].cursor) = "terminal"
      <4>1. Moves(g, "marking") /\ hubQueue' = hubQueue
        BY <2>1, <3>1, <3>2 DEF AppendReturns, Moves
      <4>2. QED
        BY <3>1, <4>1, SteadyMoves
    <3>3. CASE KindAt(reader[g].cursor) # "terminal"
      <4>1. Moves(g, "queued") /\ hubQueue' = Append(hubQueue, g)
        BY <2>1, <3>1, <3>3 DEF AppendReturns, Moves
      <4>2. QED
        BY <3>1, <4>1, SteadyMoves
    <3>4. QED
      BY <3>2, <3>3
  <2>2. CASE MarkTerminalReturns(g)
    <3>1. Moves(g, "queued") /\ hubQueue' = Append(hubQueue, g) /\ reader[g].pc = "marking"
      BY <2>2 DEF MarkTerminalReturns, Moves, IInv, TypeOK
    <3>2. QED
      BY <3>1, SteadyMoves
  <2>3. CASE BroadcastCommitted(g)
    BY <2>3, SteadyBroadcasts
  <2>4. CASE RequireReset(g)
    BY <2>4, SteadyRequiresReset
  <2>5. QED
    BY <1>3, <2>1, <2>2, <2>3, <2>4 DEF ReaderTask
<1>4. CASE RegistrationTask
  BY <1>4, SteadyReadsFloor, SteadyDecides, SteadyReplays, SteadyDrains DEF RegistrationTask
<1>5. CASE PruneRows
  <2>1. UNCHANGED <<log, source, reader, hubQueue, client, mobile>>
    BY <1>5 DEF PruneRows
  <2>2. QED
    BY <2>1, SteadyElsewhere
<1>6. CASE NewStore
  BY <1>6 DEF NewStore, Fault
<1>7. CASE MobileConnects
  BY <1>7, SteadyConnects
<1>8. CASE MobileCloses
  BY <1>8, SteadyCloses DEF MobileCloses, store
<1>9. CASE MobileReceives
  BY <1>9, SteadyReceives
<1>10. CASE UNCHANGED vars
  <2>1. UNCHANGED <<log, source, reader, hubQueue, client, mobile>>
    BY <1>10 DEF vars
  <2>2. QED
    BY <2>1, SteadyElsewhere
<1>11. QED
  BY <1>1, <1>2, <1>3, <1>4, <1>5, <1>6, <1>7, <1>8, <1>9, <1>10 DEF Next

(* They hold at first.                                                     *)
LEMMA InitSteady ==
    ASSUME Init
    PROVE  SteadyInv
<1>1. /\ log = <<>> /\ client = NoClient /\ mobile.applied = 0
      /\ reader = [g \in Gens |-> NoReader]
  BY DEF Init
<1>2. client.pc = "down" /\ client.phase = "new" /\ client.queue = <<>>
  BY <1>1 DEF NoClient
<1>3. AppliedInv
  BY <1>1 DEF AppliedInv
<1>4. QED
  BY <1>2, <1>3 DEF SteadyInv, NewsInv

-----------------------------------------------------------------------------
(* The replica is the only one that takes from its queue.                  *)

(* A sequence is not its own tail, nor one with more at its end.           *)
LEMMA TailIsShorter ==
    ASSUME NEW S, NEW q \in Seq(S), NEW r \in Seq(S), q # <<>>
    PROVE  Tail(q) # q /\ Tail(q) # q \o r
<1>1. Len(Tail(q)) = Len(q) - 1 /\ Len(q) \in Nat /\ Len(r) \in Nat
      /\ Len(q \o r) = Len(q) + Len(r)
  OBVIOUS
<1>2. PICK t, u : t = Tail(q) /\ u = q \o r
  OBVIOUS
<1>3. Len(t) = Len(q) - 1 /\ Len(u) = Len(q) + Len(r)
  BY <1>1, <1>2
<1>4. t # q /\ t # u
  BY <1>1, <1>3
<1>5. QED
  BY <1>2, <1>4

\* The connection's queue is one shorter, and nothing else of it changes.
Taken ==
    /\ client.queue # <<>>
    /\ client' = [client EXCEPT !.queue = Tail(client.queue)]

(* What such a step leaves as it was.                                      *)
LEMMA TakenFacts ==
    ASSUME IInv, Taken
    PROVE  /\ client'.pc = client.pc /\ client'.phase = client.phase
           /\ client'.queue = Tail(client.queue)
           /\ client' # client /\ client' # NoClient
           /\ client'.queue # client.queue
           /\ \A r \in Seq(FrameSet) : client'.queue # client.queue \o r
<1>1. client \in Connections /\ client.queue \in Seq(FrameSet)
  BY ConnectionType, Typed DEF IInv
<1>2. /\ client'.pc = client.pc /\ client'.phase = client.phase
      /\ client'.queue = Tail(client.queue)
  BY <1>1 DEF Taken, Connections
<1>3. client.pc # "down"
  BY <1>1 DEF Taken, IInv, PhaseInv
<1>4. client' # NoClient
  BY <1>2, <1>3 DEF NoClient
<1>5. /\ client'.queue # client.queue
      /\ \A r \in Seq(FrameSet) : client'.queue # client.queue \o r
  BY <1>1, <1>2, TailIsShorter DEF Taken
<1>6. QED
  BY <1>2, <1>4, <1>5

(* A broadcast takes nothing from the queue.                               *)
LEMMA PublishTakesNothing ==
    ASSUME IInv, NEW b \in DOMAIN log, Publish(b)
    PROVE  ~Taken
<1> SUFFICES ASSUME Taken
             PROVE  FALSE
  OBVIOUS
<1>1. client \in Connections
  BY ConnectionType DEF IInv
<1>2. CASE client' = client
  BY <1>2, TakenFacts
<1>3. ASSUME NEW buffer, client' = [client EXCEPT !.buffer = buffer]
      PROVE  FALSE
  <2>1. client'.queue = client.queue
    BY <1>1, <1>3 DEF Connections
  <2>2. QED
    BY <2>1, TakenFacts
<1>4. CASE Subscribed /\ client.phase = "reset" /\ KindAt(b) = "final"
  <2> DEFINE cs == <<b>> \o InOrder({x \in client.buffer : b < x})
  <2>1. Enqueue(cs, [client EXCEPT !.phase = "live", !.last = b, !.buffer = {}])
    BY <1>4 DEF Publish, KeyframeKinds
  <2> HIDE DEF cs
  <2>2. CASE client' = [[client EXCEPT !.phase = "live", !.last = b, !.buffer = {}]
                          EXCEPT !.queue = @ \o FramesOf(cs)]
    <3>1. client'.phase = "live"
      BY <1>1, <2>2 DEF Connections
    <3>2. QED
      BY <1>4, <3>1, TakenFacts
  <2>3. QED
    BY <2>1, <2>2, TakenFacts DEF Enqueue
<1>5. ASSUME Enqueue(<<b>>, [client EXCEPT !.last = b])
      PROVE  FALSE
  <2>1. CASE client' = [[client EXCEPT !.last = b] EXCEPT !.queue = @ \o FramesOf(<<b>>)]
    <3>1. client'.queue = client.queue \o FramesOf(<<b>>)
      BY <1>1, <2>1 DEF Connections
    <3>2. <<b>> \in Seq(DOMAIN log)
      OBVIOUS
    <3>3. FramesOf(<<b>>) \in Seq(FrameSet)
      BY <3>2, FramesOfType
    <3>4. QED
      BY <3>1, <3>3, TakenFacts
  <2>2. QED
    BY <1>5, <2>1, TakenFacts DEF Enqueue
<1>6. CASE Subscribed /\ client.phase = "reset" /\ KindAt(b) = "page"
  BY <1>5, <1>6 DEF Publish, KeyframeKinds
<1>7. CASE Subscribed /\ client.phase = "reset" /\ KindAt(b) \notin KeyframeKinds
  BY <1>3, <1>7 DEF Publish, KeyframeKinds
<1>8. CASE Subscribed /\ client.phase = "live"
  BY <1>2, <1>5, <1>8 DEF Publish
<1>9. CASE Subscribed /\ client.phase = "replaying"
  BY <1>3, <1>9 DEF Publish
<1>10. CASE ~Subscribed
  BY <1>2, <1>10 DEF Publish
<1>11. Subscribed => client.phase \in {"replaying", "reset", "live"}
  BY <1>1 DEF Subscribed, Connections, IInv, PhaseInv
<1>12. QED
  BY <1>4, <1>6, <1>7, <1>8, <1>9, <1>10, <1>11 DEF KeyframeKinds

(* Nor does a reset.                                                       *)
LEMMA ResetTakesNothing ==
    ASSUME IInv, NEW g \in Gens, RequireReset(g)
    PROVE  ~Taken
<1> SUFFICES ASSUME Taken
             PROVE  FALSE
  OBVIOUS
<1>1. client \in Connections
  BY ConnectionType DEF IInv
<1>2. CASE client' = [[client EXCEPT !.phase = "reset", !.buffer = {}]
                        EXCEPT !.queue = Append(@, ResetFrame)]
  <2>1. client'.queue = Append(client.queue, ResetFrame)
    BY <1>1, <1>2 DEF Connections
  <2>2. Len(client'.queue) = Len(client.queue) + 1 /\ Len(client.queue) \in Nat
    BY <1>1, <2>1 DEF Connections
  <2>3. Len(Tail(client.queue)) = Len(client.queue) - 1
    BY <1>1 DEF Connections, Taken
  <2>4. client'.queue = Tail(client.queue)
    BY TakenFacts
  <2>5. QED
    BY <2>2, <2>3, <2>4
<1>3. QED
  BY <1>2, TakenFacts DEF RequireReset, EnqueueReset

(* Nor does a registration: each of its steps changes its program counter. *)
LEMMA RegistrationTakesNothing ==
    ASSUME IInv, RegistrationTask
    PROVE  ~Taken
<1> SUFFICES ASSUME Taken
             PROVE  FALSE
  OBVIOUS
<1>1. client \in Connections
  BY ConnectionType DEF IInv
<1>2. CASE RegisterReadsFloor
  <2>1. client'.pc = "floor" /\ client.pc = "queued"
    BY <1>1, <1>2 DEF RegisterReadsFloor, Connections
  <2>2. QED
    BY <2>1, TakenFacts
<1>3. CASE RegisterDecides
  <2>1. client.pc = "floor" /\ (client' = NoClient \/ client'.pc \in {"registered", "replay"})
    BY <1>1, <1>3 DEF RegisterDecides, EnqueueReset, Connections
  <2>2. QED
    BY <2>1, TakenFacts
<1>4. CASE RegisterReplays
  <2>1. client.pc = "replay" /\ (client' = NoClient \/ client'.pc = "drain")
    BY <1>1, <1>4 DEF RegisterReplays, Enqueue, Connections
  <2>2. QED
    BY <2>1, TakenFacts
<1>5. CASE RegisterDrains
  <2>1. client.pc = "drain" /\ (client' = NoClient \/ client'.pc = "registered")
    BY <1>1, <1>5 DEF RegisterDrains, Enqueue, Connections
  <2>2. QED
    BY <2>1, TakenFacts
<1>6. QED
  BY <1>2, <1>3, <1>4, <1>5 DEF RegistrationTask

(* Only a step of the replica takes from its queue.                        *)
LEMMA OnlyReplicaTakes ==
    ASSUME IInv, [Next]_vars, Taken
    PROVE  MobileReceives
<1>1. client' # client /\ client' # NoClient /\ client'.pc = client.pc
  BY TakenFacts
<1>2. ASSUME NEW g \in Gens, MacStep(g)
      PROVE  FALSE
  BY <1>1, <1>2 DEF MacStep, CommitEvent, MacConnects, SourceGap, ReaderCancelled
<1>3. ASSUME NEW g \in Gens, ReaderTask(g)
      PROVE  FALSE
  <2>1. CASE BroadcastCommitted(g)
    <3>1. reader[g].cursor \in DOMAIN log
      BY <2>1 DEF BroadcastCommitted, IInv, ReaderInv, Pends
    <3>2. QED
      BY <2>1, <3>1, PublishTakesNothing DEF BroadcastCommitted
  <2>2. CASE RequireReset(g)
    BY <2>2, ResetTakesNothing
  <2>3. CASE AppendReturns(g) \/ MarkTerminalReturns(g)
    BY <1>1, <2>3 DEF AppendReturns, MarkTerminalReturns
  <2>4. QED
    BY <1>3, <2>1, <2>2, <2>3 DEF ReaderTask
<1>4. ASSUME NEW kind \in Kinds, SourceLoses(kind)
      PROVE  FALSE
  BY <1>1, <1>4 DEF SourceLoses
<1>5. ~PruneRows /\ ~NewStore /\ ~MobileCloses /\ ~UNCHANGED vars
  BY <1>1 DEF PruneRows, NewStore, MobileCloses, vars
<1>6. ~MobileConnects
  <2> SUFFICES ASSUME MobileConnects
               PROVE  FALSE
    OBVIOUS
  <2>1. client.pc = "down" /\ client'.pc = "queued"
    BY DEF MobileConnects, NoClient
  <2>2. QED
    BY <1>1, <2>1
<1>7. QED
  BY <1>2, <1>3, <1>4, <1>5, <1>6, RegistrationTakesNothing DEF Next

-----------------------------------------------------------------------------
(* A waiting replica that is sent a keyframe of its epoch, page and final, *)
(* stops to wait, in whatever order the frames were sent.                  *)
LEMMA KeyframeTaken ==
    ASSUME IInv, SteadyInv, [Next]_vars, client.queue # <<>>, mobile.recovery,
           NEW f, f = Head(client.queue), Delivers(f), f.type = "event",
           f.epoch = mobile.epoch
    PROVE  /\ source[f.pos] = "page" => f.pos \in mobile'.staged
           /\ source[f.pos] = "final" /\ f.pos - 1 \in mobile.staged
                => ~mobile'.recovery
<1>1. /\ client.queue \in Seq(FrameSet) /\ DOMAIN client.queue = 1..Len(client.queue)
      /\ mobile.applied \in Nat
  BY Typed DEF IInv
<1>2. f = client.queue[1] /\ 1 \in DOMAIN client.queue /\ IsEvent(f)
  BY <1>1 DEF IsEvent
<1>3. MobileReceives
  BY OnlyReplicaTakes DEF Taken, Delivers
<1>4. Receives(f) /\ mobile' = Applied(mobile, f)
  BY <1>2, <1>3 DEF Receives, MobileReceives
<1>5. /\ f \in FrameSet /\ f.cursor \in DOMAIN log /\ f.cursor \in Nat
      /\ f.pos = log[f.cursor] /\ f.pos \in DOMAIN source
  BY <1>2, <1>4, ReceivesFacts, Typed DEF IInv
<1>6. source[f.pos] \in Kinds
  BY <1>5, Typed DEF IInv
<1>7. mobile \in Replicas
  BY DEF IInv, TypeOK, Replicas
<1>8. ASSUME \/ source[f.pos] = "page"
             \/ source[f.pos] = "final" /\ f.pos - 1 \in mobile.staged
      PROVE  mobile.applied < f.cursor
  <2>1. mobile.applied <= f.cursor
    BY <1>2 DEF SteadyInv, NewsInv
  <2>2. CASE mobile.applied = f.cursor
    <3>1. mobile.applied > 0
      BY <1>5, <2>2, Typed DEF IInv
    <3>2. KindAt(mobile.applied) = source[f.pos] /\ log[mobile.applied] = f.pos
      BY <1>5, <2>2 DEF KindAt
    <3>3. QED
      BY <1>8, <3>1, <3>2 DEF SteadyInv, AppliedInv
  <2>3. QED
    BY <1>1, <1>5, <2>1, <2>2
<1>9. PICK n : n = Applied(mobile, f)
  OBVIOUS
<1>10. /\ IsEvent(f) /\ source[f.pos] = "page" /\ mobile.applied < f.cursor
            => f.pos \in n.staged
       /\ IsFinal(f, source) /\ mobile.applied < f.cursor /\ f.pos - 1 \in mobile.staged
            => ~n.recovery
  BY <1>5, <1>6, <1>7, <1>9, AppliedStages
<1>11. QED
  BY <1>2, <1>4, <1>8, <1>9, <1>10 DEF IsFinal, IsEvent

(* As long as nothing replaces the database, a replica that waits for a    *)
(* keyframe stages the page and applies the final that completes it,       *)
(* whatever was broadcast, replayed, drained or reset before: no keyframe  *)
(* reaches it at or below the cursor it has applied.                       *)
THEOREM KeyframesAreTaken ==
    ASSUME "newstore" \notin Faults
    PROVE  Spec => RecoveryTakesKeyframe
<1>1. Init => IInv /\ SteadyInv
  BY InitInvariant, InitSteady
<1>2. IInv /\ SteadyInv /\ [Next]_vars => (IInv /\ SteadyInv)'
  BY NextKeepsInvariant, NextKeepsSteady
<1>3. IInv /\ SteadyInv /\ [Next]_vars
        => [ mobile.recovery /\ client.queue # <<>>
             => LET f == Head(client.queue)
                IN  Delivers(f) /\ f.type = "event" /\ f.epoch = mobile.epoch
                    => /\ source[f.pos] = "page" => f.pos \in mobile'.staged
                       /\ source[f.pos] = "final" /\ f.pos - 1 \in mobile.staged
                             => ~mobile'.recovery ]_vars
  BY KeyframeTaken
<1>4. QED
  BY <1>1, <1>2, <1>3, PTL DEF Spec, RecoveryTakesKeyframe
=============================================================================
