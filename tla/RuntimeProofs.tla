---- MODULE RuntimeProofs ----
(***************************************************************************)
(* Two promises of the runtime's data.  Checked arithmetic is exact, for   *)
(* every width of an Entier; and the tables of dictionaries, sets and      *)
(* fields answer what the last calls left, for every hash function.        *)
(***************************************************************************)
EXTENDS Numerics, KeyedTables, FiniteSetTheorems, WellFoundedInduction, TLAPS

-----------------------------------------------------------------------------
(* Arithmetic.                                                             *)
\* Sums and differences are exact.
THEOREM SumsAreExact ==
    \A a, b \in Entier :
        /\ Add(a, b) = Exact(a + b) /\ Ajouter(a, b) = Exact(a + b)
        /\ Subtract(a, b) = Exact(a - b) /\ Soustraire(a, b) = Exact(a - b) /\ Entre(b, a) = Exact(a - b)
        /\ Negate(a) = Exact(-a)
BY MaxEntierIsANumber
   DEF Entier, MinEntier, Exact, Just, Nothing, Add, Ajouter, Subtract, Soustraire, Entre, Negate

\* The integers a / b of C++ lie between the multiples of b around a.
LEMMA QuotientBounds ==
    ASSUME NEW a \in Nat, NEW b \in Nat, b > 0
    PROVE  /\ a \div b \in Nat
           /\ b * (a \div b) <= a
           /\ a < b * (a \div b) + b
           /\ a % b = a - b * (a \div b)
OBVIOUS

\* A factor within the quotient of a limit is one whose product stays within it.
LEMMA ProductBound ==
    ASSUME NEW a \in Nat, NEW b \in Nat, NEW m \in Nat, b > 0
    PROVE  a <= m \div b <=> a * b <= m
<1> DEFINE q == m \div b
<1>1. q \in Nat /\ b * q <= m /\ m < b * q + b
  BY QuotientBounds
<1>2. ASSUME a <= q PROVE a * b <= m
  <2>1. a * b <= q * b
    BY <1>1, <1>2
  <2> QED BY <1>1, <2>1
<1>3. ASSUME a > q PROVE a * b > m
  <2>1. a >= q + 1
    BY <1>1, <1>3
  <2>2. a * b >= (q + 1) * b
    BY <1>1, <2>1
  <2>3. (q + 1) * b = b * q + b
    BY <1>1
  <2> QED BY <1>1, <2>2, <2>3
<1> QED BY <1>1, <1>2, <1>3

\* A quotient towards zero of the limits bounds the factors whose product stays in range.
LEMMA PositiveLimit ==
    ASSUME NEW a \in Nat, NEW b \in Nat, b > 0
    PROVE  a > Quotient(MaxEntier, b) <=> a * b > MaxEntier
<1>1. Quotient(MaxEntier, b) = MaxEntier \div b
  BY MaxEntierIsANumber DEF Quotient, Abs
<1>2. MaxEntier \div b \in Nat /\ a * b \in Nat
  BY MaxEntierIsANumber, QuotientBounds
<1> QED BY <1>1, <1>2, ProductBound, MaxEntierIsANumber

\* The same at the other end, where the limit is one further from 0.
LEMMA NegativeLimit ==
    ASSUME NEW a \in Nat, NEW b \in Nat, b > 0
    PROVE  -a < Quotient(MinEntier, b) <=> a * b > MaxEntier + 1
<1>1. Quotient(MinEntier, b) = -((MaxEntier + 1) \div b)
  BY MaxEntierIsANumber DEF Quotient, Abs, MinEntier
<1>2. MaxEntier + 1 \in Nat /\ (MaxEntier + 1) \div b \in Nat /\ a * b \in Nat
  BY MaxEntierIsANumber, QuotientBounds
<1>3. a <= (MaxEntier + 1) \div b <=> a * b <= MaxEntier + 1
  BY <1>2, ProductBound
<1> QED BY <1>1, <1>2, <1>3

\* Products are exact.
THEOREM ProductsAreExact ==
    \A a, b \in Entier :
        /\ Multiply(a, b) = Exact(a * b)
        /\ b > 0 => DurationOf(a, b) = Exact(a * b)
<1> SUFFICES ASSUME NEW a \in Entier, NEW b \in Entier
             PROVE  /\ Multiply(a, b) = Exact(a * b)
                    /\ b > 0 => DurationOf(a, b) = Exact(a * b)
  OBVIOUS
<1> USE MaxEntierIsANumber
<1>0. a \in Int /\ b \in Int /\ MaxEntier \in Nat /\ MinEntier = -MaxEntier - 1
  BY DEF Entier, MinEntier
<1>1. CASE a > 0 /\ b > 0
  <2>1. a > Quotient(MaxEntier, b) <=> a * b > MaxEntier
    BY <1>0, <1>1, PositiveLimit
  <2>2. a * b \in Nat
    BY <1>0, <1>1
  <2> QED BY <1>0, <1>1, <2>1, <2>2 DEF Multiply, DurationOf, Exact, Entier
<1>2. CASE a > 0 /\ b < 0
  <2> DEFINE c == -b
  <2>1. c \in Nat /\ c > 0 /\ b = -c /\ a \in Nat
    BY <1>0, <1>2
  <2> HIDE DEF c
  <2>2. -c < Quotient(MinEntier, a) <=> c * a > MaxEntier + 1
    BY <1>2, <2>1, NegativeLimit
  <2>3. c * a \in Nat /\ a * b = -(c * a)
    BY <2>1
  <2> QED BY <1>0, <1>2, <2>1, <2>2, <2>3 DEF Multiply, Exact, Entier
<1>3. CASE a < 0 /\ b > 0
  <2> DEFINE c == -a
  <2>1. c \in Nat /\ c > 0 /\ a = -c /\ b \in Nat
    BY <1>0, <1>3
  <2> HIDE DEF c
  <2>2. -c < Quotient(MinEntier, b) <=> c * b > MaxEntier + 1
    BY <1>3, <2>1, NegativeLimit
  <2>3. c * b \in Nat /\ a * b = -(c * b)
    BY <2>1
  <2> QED BY <1>0, <1>3, <2>1, <2>2, <2>3 DEF Multiply, DurationOf, Exact, Entier
<1>4. CASE a < 0 /\ b < 0
  <2>1. Quotient(MaxEntier, b) = -(MaxEntier \div (-b))
    BY <1>0, <1>4 DEF Quotient, Abs
  <2>2. MaxEntier \div (-b) \in Nat
    BY <1>0, <1>4, QuotientBounds
  <2>3. -a <= MaxEntier \div (-b) <=> (-a) * (-b) <= MaxEntier
    BY <1>0, <1>4, ProductBound
  <2>4. (-a) * (-b) \in Nat /\ a * b = (-a) * (-b)
    BY <1>0, <1>4
  <2>5. a < Quotient(MaxEntier, b) <=> a * b > MaxEntier
    BY <1>0, <1>4, <2>1, <2>2, <2>3, <2>4
  <2> QED BY <1>0, <1>4, <2>4, <2>5 DEF Multiply, Exact, Entier
<1>5. CASE a = 0 \/ b = 0
  <2>1. a * b = 0
    BY <1>0, <1>5
  <2> QED BY <1>0, <1>5, <2>1 DEF Multiply, DurationOf, Exact, Entier
<1> QED BY <1>0, <1>1, <1>2, <1>3, <1>4, <1>5

\* A quotient is exact, only the least Entier over -1 leaves the range, and the remainder
\* is what the quotient leaves of the dividend.
THEOREM QuotientsAreExact ==
    \A a, b \in Entier :
        /\ b = 0 => Divide(a, b) = Nothing /\ Remainder(a, b) = Nothing
        /\ b # 0 => /\ Divide(a, b) = Exact(Quotient(a, b))
                    /\ Remainder(a, b) = Just(a - b * Quotient(a, b))
                    /\ Abs(Rest(a, b)) < Abs(b)
<1> SUFFICES ASSUME NEW a \in Entier, NEW b \in Entier, b # 0
             PROVE  /\ Divide(a, b) = Exact(Quotient(a, b))
                    /\ Remainder(a, b) = Just(a - b * Quotient(a, b))
                    /\ Abs(Rest(a, b)) < Abs(b)
  BY DEF Divide, Remainder
<1> DEFINE q == Abs(a) \div Abs(b)
           r == Abs(a) % Abs(b)
<1>0. a \in Int /\ b \in Int /\ MaxEntier \in Nat \ {0} /\ MinEntier = -MaxEntier - 1
  BY MaxEntierIsANumber DEF Entier, MinEntier
<1>1. Abs(a) \in Nat /\ Abs(b) \in Nat /\ Abs(b) > 0
  BY <1>0 DEF Abs
<1>2. q \in Nat /\ Abs(b) * q <= Abs(a) /\ Abs(a) < Abs(b) * q + Abs(b) /\ r = Abs(a) - Abs(b) * q
  BY <1>1, QuotientBounds
<1>3. r \in Nat /\ r < Abs(b)
  BY <1>1, <1>2
<1>4. q <= Abs(a)
  <2>1. Abs(b) * q >= 1 * q
    BY <1>1, <1>2
  <2> QED BY <1>1, <1>2, <2>1
<1> HIDE DEF q, r
<1>5. Quotient(a, b) = (IF (a < 0) = (b < 0) THEN q ELSE -q)
  BY DEF Quotient, q
<1>6. Rest(a, b) = (IF a < 0 THEN -r ELSE r)
  BY DEF Rest, r
<1>7. Rest(a, b) = a - b * Quotient(a, b)
  <2>1. CASE a < 0 /\ b < 0
    BY <1>0, <1>2, <1>5, <1>6, <2>1 DEF Abs
  <2>2. CASE a < 0 /\ ~(b < 0)
    BY <1>0, <1>2, <1>5, <1>6, <2>2 DEF Abs
  <2>3. CASE ~(a < 0) /\ b < 0
    BY <1>0, <1>2, <1>5, <1>6, <2>3 DEF Abs
  <2>4. CASE ~(a < 0) /\ ~(b < 0)
    BY <1>0, <1>2, <1>5, <1>6, <2>4 DEF Abs
  <2> QED BY <2>1, <2>2, <2>3, <2>4
<1>8. Abs(Rest(a, b)) < Abs(b)
  BY <1>0, <1>1, <1>3, <1>6 DEF Abs
<1>9. CASE a = MinEntier /\ b = -1
  <2>1. Abs(a) = MaxEntier + 1 /\ Abs(b) = 1
    <3>1. a < 0 /\ -a = MaxEntier + 1
      BY <1>0, <1>9
    <3>2. b < 0
      BY <1>9
    <3>3. -b = 1
      <4>1. b + 1 = 0
        BY <1>9
      <4>2. \A x \in Int : x + 1 = 0 => -x = 1
        OBVIOUS
      <4> QED BY <1>0, <4>1, <4>2
    <3> QED BY <3>1, <3>2, <3>3 DEF Abs
  <2>2. q = MaxEntier + 1
    BY <1>0, <1>2, <2>1
  <2>3. Quotient(a, b) = MaxEntier + 1
    BY <1>0, <1>5, <1>9, <2>2
  <2>4. a - b * Quotient(a, b) = 0
    BY <1>0, <1>9, <2>3
  <2> QED BY <1>0, <1>8, <1>9, <2>3, <2>4 DEF Divide, Remainder, Exact, Entier
<1>10. CASE ~(a = MinEntier /\ b = -1)
  <2>1. Quotient(a, b) \in Entier
    <3>1. CASE q <= MaxEntier
      BY <1>0, <1>2, <1>5, <3>1 DEF Entier
    <3>2. CASE q > MaxEntier
      <4>1. Abs(a) <= MaxEntier + 1
        BY <1>0 DEF Abs, Entier
      <4>2. q = MaxEntier + 1 /\ Abs(a) = MaxEntier + 1
        BY <1>0, <1>1, <1>2, <1>4, <3>2, <4>1
      <4>3. a = MinEntier
        BY <1>0, <4>2 DEF Abs, Entier
      <4>4. Abs(b) = 1
        <5>1. CASE Abs(b) >= 2
          <6>1. Abs(b) * q >= 2 * q
            BY <1>1, <1>2, <5>1
          <6> QED BY <1>0, <1>1, <1>2, <4>2, <6>1
        <5> QED BY <1>1, <5>1
      <4>5. b = 1
        BY <1>0, <1>10, <4>3, <4>4 DEF Abs
      <4> QED BY <1>0, <1>5, <4>2, <4>3, <4>5 DEF Entier
    <3> QED BY <1>0, <1>2, <3>1, <3>2
  <2> QED BY <1>7, <1>8, <1>10, <2>1 DEF Divide, Remainder, Exact
<1> QED BY <1>9, <1>10

\* The arithmetic of the interpreter and of its clocks is exact at every width.
THEOREM ExactArithmetic ==
    \A a, b \in Entier :
        /\ Add(a, b) = Exact(a + b) /\ Ajouter(a, b) = Exact(a + b)
        /\ Subtract(a, b) = Exact(a - b) /\ Soustraire(a, b) = Exact(a - b) /\ Entre(b, a) = Exact(a - b)
        /\ Negate(a) = Exact(-a)
        /\ Multiply(a, b) = Exact(a * b)
        /\ b > 0 => DurationOf(a, b) = Exact(a * b)
        /\ b = 0 => Divide(a, b) = Nothing /\ Remainder(a, b) = Nothing
        /\ b # 0 => /\ Divide(a, b) = Exact(Quotient(a, b))
                    /\ Remainder(a, b) = Just(a - b * Quotient(a, b))
                    /\ Abs(Rest(a, b)) < Abs(b)
BY SumsAreExact, ProductsAreExact, QuotientsAreExact

-----------------------------------------------------------------------------
(* Numbers.                                                                *)
\* Every nonempty set of numbers has a least one.
LEMMA HasLeast ==
    ASSUME NEW T, T \subseteq Nat, T # {}
    PROVE  \E x \in T : \A y \in T : x <= y
PROOF
  <1> PICK m \in T : m \in Nat
    OBVIOUS
  <1> DEFINE U == {x \in T : x <= m}
             F == {1 .. x : x \in U}
  <1>1. IsFiniteSet(1 .. m) /\ m \in Nat
    BY FS_Interval, m \in Int, 1 \in Int
  <1>2. F \subseteq FiniteSubsetsOf(1 .. m)
    <2>1. \A x \in U : 1 .. x \subseteq 1 .. m
      BY <1>1
    <2>2. F \subseteq SUBSET (1 .. m)
      BY <2>1
    <2> QED
      BY <1>1, <2>2, FS_Subset DEF FiniteSubsetsOf
  <1>3. IsWellFoundedOn(StrictSubsetOrdering(1 .. m), FiniteSubsetsOf(1 .. m))
    BY FS_StrictSubsetOrderingWellFounded
  <1>4. F # {}
    <2>1. m \in U
      BY <1>1
    <2> QED BY <2>1
  <1> HIDE DEF F
  <1>5. PICK s \in F : \A t \in F : ~(<<t, s>> \in StrictSubsetOrdering(1 .. m))
    BY <1>2, <1>3, <1>4, WFMin
  <1>6. PICK x \in U : s = 1 .. x
    BY DEF F
  <1>7. ASSUME NEW y \in T, y < x
        PROVE  FALSE
    <2>1. y \in U
      BY <1>1, <1>6, <1>7
    <2>2. 1 .. y \in F
      BY <2>1 DEF F
    <2>3. 1 .. y \subseteq 1 .. x /\ x \in 1 .. x /\ x \notin 1 .. y /\ 1 .. x \subseteq 1 .. m
      BY <1>1, <1>6, <1>7
    <2>4. <<1 .. y, s>> \in StrictSubsetOrdering(1 .. m)
      BY <1>6, <2>3 DEF StrictSubsetOrdering
    <2> QED
      BY <1>5, <2>2, <2>4
  <1> QED
    BY <1>7

\* What Min chooses.
LEMMA MinIsLeast ==
    ASSUME NEW T, T \subseteq Nat, T # {}
    PROVE  Min(T) \in T /\ \A y \in T : Min(T) <= y
BY HasLeast DEF Min

\* A number is a remainder when it is one round of the divisor away.
LEMMA RemainderIs ==
    ASSUME NEW c \in Nat, c > 0, NEW h \in Nat
    PROVE  /\ h % c \in 0 .. (c - 1)
           /\ \A d \in 0 .. (c - 1) : (h + d) % c = IF (h % c) + d < c THEN (h % c) + d ELSE (h % c) + d - c
PROOF
  <1>1. \A a \in Nat : a \div c \in Nat /\ a % c \in 0 .. (c - 1) /\ a = c * (a \div c) + (a % c)
    BY QuotientBounds
  <1>2. ASSUME NEW q1 \in Nat, NEW q2 \in Nat, NEW r1 \in 0 .. (c - 1), NEW r2 \in 0 .. (c - 1),
               c * q1 + r1 = c * q2 + r2
        PROVE  r1 = r2
    <2>1. ~(q1 < q2)
      <3> SUFFICES ASSUME q1 < q2 PROVE FALSE
        OBVIOUS
      <3>1. PICK k \in Nat : q2 = q1 + 1 + k
        <4>1. q2 - q1 - 1 \in Nat
          OBVIOUS
        <4> QED BY <4>1
      <3>2. c * q2 = c * q1 + c + c * k /\ c * k \in Nat /\ c * q1 \in Nat
        BY <3>1
      <3> QED BY <1>2, <3>2
    <2>2. ~(q2 < q1)
      <3> SUFFICES ASSUME q2 < q1 PROVE FALSE
        OBVIOUS
      <3>1. PICK k \in Nat : q1 = q2 + 1 + k
        <4>1. q1 - q2 - 1 \in Nat
          OBVIOUS
        <4> QED BY <4>1
      <3>2. c * q1 = c * q2 + c + c * k /\ c * k \in Nat /\ c * q2 \in Nat
        BY <3>1
      <3> QED BY <1>2, <3>2
    <2>3. q1 = q2
      BY <2>1, <2>2
    <2>4. c * q1 \in Nat
      OBVIOUS
    <2> QED BY <1>2, <2>3, <2>4
  <1>3. ASSUME NEW d \in 0 .. (c - 1)
        PROVE  (h + d) % c = IF (h % c) + d < c THEN (h % c) + d ELSE (h % c) + d - c
    <2> DEFINE q == h \div c
               r == h % c
               p == (h + d) \div c
               s == (h + d) % c
    <2>1. q \in Nat /\ r \in 0 .. (c - 1) /\ h = c * q + r
      BY <1>1
    <2>2. h + d \in Nat
      OBVIOUS
    <2>3. p \in Nat /\ s \in 0 .. (c - 1) /\ h + d = c * p + s
      BY <1>1, <2>2
    <2> HIDE DEF q, r, p, s
    <2>4. CASE r + d < c
      <3>1. c * q + (r + d) = c * p + s
        BY <2>1, <2>3
      <3>2. r + d \in 0 .. (c - 1)
        BY <2>1, <2>4
      <3>3. r + d = s
        BY <1>2, <2>1, <2>3, <3>1, <3>2
      <3> QED BY <2>4, <3>3 DEF r, s
    <2>5. CASE ~(r + d < c)
      <3>1. c * (q + 1) = c * q + c /\ c * q \in Nat
        BY <2>1
      <3>2. r + d - c \in 0 .. (c - 1) /\ q + 1 \in Nat
        BY <2>1, <2>5
      <3>3. c * (q + 1) + (r + d - c) = c * p + s
        BY <2>1, <2>3, <3>1
      <3>4. r + d - c = s
        BY <1>2, <2>3, <3>2, <3>3
      <3> QED BY <2>5, <3>4 DEF r, s
    <2> QED BY <2>4, <2>5
  <1> QED BY <1>1, <1>3

\* The slots of a hash are all the slots, each once.
LEMMA SlotsGoRound ==
    ASSUME NEW c \in Nat, c > 0, NEW h \in Nat
    PROVE  /\ \A d \in 0 .. (c - 1) : Slot(h, d, c) \in 1 .. c
           /\ \A d, e \in 0 .. (c - 1) : Slot(h, d, c) = Slot(h, e, c) => d = e
           /\ \A s \in 1 .. c : \E d \in 0 .. (c - 1) : Slot(h, d, c) = s
PROOF
  <1> DEFINE r == h % c
  <1>1. r \in 0 .. (c - 1)
    BY RemainderIs
  <1>2. \A d \in 0 .. (c - 1) : Slot(h, d, c) = IF r + d < c THEN r + d + 1 ELSE r + d - c + 1
    BY RemainderIs DEF Slot
  <1> HIDE DEF r
  <1>3. ASSUME NEW s \in 1 .. c
        PROVE  \E d \in 0 .. (c - 1) : Slot(h, d, c) = s
    <2>1. CASE s > r
      <3>1. s - 1 - r \in 0 .. (c - 1)
        BY <1>1, <2>1
      <3>2. Slot(h, s - 1 - r, c) = s
        BY <1>1, <1>2, <3>1
      <3> QED BY <3>1, <3>2
    <2>2. CASE ~(s > r)
      <3>1. s - 1 - r + c \in 0 .. (c - 1)
        BY <1>1, <2>2
      <3>2. Slot(h, s - 1 - r + c, c) = s
        BY <1>1, <1>2, <3>1, <2>2
      <3> QED BY <3>1, <3>2
    <2> QED BY <1>1, <2>1, <2>2
  <1> QED BY <1>1, <1>2, <1>3

-----------------------------------------------------------------------------
(* The index.                                                               *)
Keys == DOMAIN Hash
Hashed == Hash \in [Keys -> Nat]
Entries(V) == [key : Keys, value : V]
Distinct(entries) == \A i, j \in DOMAIN entries : entries[i].key = entries[j].key => i = j
\* The slots hold the first n positions, each once and where a probe for its key gets to, and one is empty.
Sits(index, entries, n) ==
    /\ Len(index) \in Nat
    /\ n < Len(index)
    /\ index \in [1 .. Len(index) -> 0 .. n]
    /\ \A s, u \in DOMAIN index : index[s] = index[u] /\ index[s] # Absent => s = u
    /\ \A p \in 1 .. n : \E d \in 0 .. (Len(index) - 1) :
          /\ index[Slot(Hash[entries[p].key], d, Len(index))] = p
          /\ \A e \in 0 .. (d - 1) : index[Slot(Hash[entries[p].key], e, Len(index))] # Absent

\* More slots than positions leave one empty.
LEMMA OneIsEmpty ==
    ASSUME NEW entries, NEW n \in Nat, NEW index, Sits(index, entries, n)
    PROVE  \E s \in 1 .. Len(index) : index[s] = Absent
PROOF
  <1> DEFINE c == Len(index)
  <1>1. c \in Nat /\ n < c /\ index \in [1 .. c -> 0 .. n]
    BY DEF Sits
  <1>2. \A s, u \in 1 .. c : index[s] = index[u] /\ index[s] # Absent => s = u
    BY <1>1 DEF Sits
  <1> HIDE DEF c
  <1> SUFFICES ASSUME \A s \in 1 .. c : index[s] # Absent
               PROVE  FALSE
    BY DEF c
  <1>3. index \in [1 .. c -> 1 .. n]
    BY <1>1 DEF Absent
  <1>4. \A k \in Nat : IsFiniteSet(1 .. k) /\ Cardinality(1 .. k) = k
    <2> SUFFICES ASSUME NEW k \in Nat PROVE IsFiniteSet(1 .. k) /\ Cardinality(1 .. k) = k
      OBVIOUS
    <2>1. 1 \in Int /\ k \in Int
      OBVIOUS
    <2>2. IsFiniteSet(1 .. k) /\ Cardinality(1 .. k) = IF 1 > k THEN 0 ELSE k - 1 + 1
      BY ONLY <2>1, FS_Interval
    <2> QED BY <2>2
  <1>5. \E s, u \in 1 .. c : s # u /\ index[s] = index[u]
    BY <1>1, <1>3, <1>4, FS_PigeonHole
  <1> QED
    BY <1>2, <1>5

\* A probe ends: at the key or at an empty slot, and it has passed neither.
LEMMA ProbeStops ==
    ASSUME Hashed, NEW entries, NEW n \in Nat, NEW index, Sits(index, entries, n), NEW key \in Keys
    PROVE  \E d \in 0 .. (Len(index) - 1) :
              /\ Probe(index, entries, key) = Slot(Hash[key], d, Len(index))
              /\ \/ index[Probe(index, entries, key)] = Absent
                 \/ entries[index[Probe(index, entries, key)]].key = key
              /\ \A e \in 0 .. (d - 1) : /\ index[Slot(Hash[key], e, Len(index))] # Absent
                                         /\ entries[index[Slot(Hash[key], e, Len(index))]].key # key
PROOF
  <1> DEFINE c == Len(index)
             slot(d) == Slot(Hash[key], d, c)
             T == {d \in 0 .. (c - 1) : index[slot(d)] = Absent \/ entries[index[slot(d)]].key = key}
  <1>1. c \in Nat /\ c > 0 /\ Hash[key] \in Nat
    BY DEF Sits, Hashed
  <1>2. PICK s \in 1 .. c : index[s] = Absent
    BY OneIsEmpty
  <1>3. PICK d \in 0 .. (c - 1) : slot(d) = s
    BY <1>1, SlotsGoRound
  <1>4. d \in T
    BY <1>2, <1>3
  <1>5. T \subseteq Nat /\ T # {}
    BY <1>1, <1>4
  <1> DEFINE least == Min(T)
             found(e) == index[slot(e)] = Absent \/ entries[index[slot(e)]].key = key
  <1>6. Probe(index, entries, key) = slot(least)
    BY DEF Probe
  <1>7. \A e : e \in T <=> e \in 0 .. (c - 1) /\ found(e)
    OBVIOUS
  <1> HIDE DEF T
  <1>8. least \in T /\ \A e \in T : least <= e
    BY <1>5, MinIsLeast
  <1> HIDE DEF least, found, slot, c
  <1>9. least \in 0 .. (c - 1) /\ found(least)
    BY <1>7, <1>8
  <1>10. ASSUME NEW e \in 0 .. (least - 1)
         PROVE  ~found(e)
    <2>1. e \in 0 .. (c - 1) /\ ~(least <= e)
      BY <1>1, <1>9
    <2> QED BY <1>7, <1>8, <2>1
  <1>11. /\ index[slot(least)] = Absent \/ entries[index[slot(least)]].key = key
         /\ \A e \in 0 .. (least - 1) : index[slot(e)] # Absent /\ entries[index[slot(e)]].key # key
    BY <1>9, <1>10 DEF found
  <1> QED
    BY <1>6, <1>9, <1>11 DEF slot, c

\* Each key has its hash.
LEMMA KeysHash ==
    ASSUME Hashed, NEW V, NEW entries \in Seq(Entries(V))
    PROVE  /\ Len(entries) \in Nat /\ DOMAIN entries = 1 .. Len(entries)
           /\ \A p \in DOMAIN entries : entries[p].key \in Keys /\ Hash[entries[p].key] \in Nat
PROOF
  <1>1. \A p \in DOMAIN entries : entries[p] \in Entries(V)
    OBVIOUS
  <1>2. \A p \in DOMAIN entries : entries[p].key \in Keys
    BY <1>1 DEF Entries
  <1> QED BY <1>2 DEF Hashed

\* A probe for a key of the first positions stops at its slot.
LEMMA ProbeFinds ==
    ASSUME Hashed, NEW V, NEW entries \in Seq(Entries(V)), Distinct(entries),
           NEW n \in 0 .. Len(entries), NEW index, Sits(index, entries, n), NEW p \in 1 .. n
    PROVE  /\ Probe(index, entries, entries[p].key) \in DOMAIN index
           /\ index[Probe(index, entries, entries[p].key)] = p
PROOF
  <1> DEFINE c == Len(index)
             key == entries[p].key
             slot(d) == Slot(Hash[key], d, c)
             at == Probe(index, entries, key)
  <1>1. c \in Nat /\ c > 0 /\ n \in Nat /\ key \in Keys /\ Hash[key] \in Nat /\ p \in DOMAIN entries
    <2>1. c \in Nat /\ c > 0 /\ n \in Nat /\ p \in DOMAIN entries
      BY DEF Sits
    <2> QED BY <2>1, KeysHash
  <1>2. index \in [1 .. c -> 0 .. n]
    BY DEF Sits
  <1>3. PICK d \in 0 .. (c - 1) : index[slot(d)] = p /\ \A e \in 0 .. (d - 1) : index[slot(e)] # Absent
    BY DEF Sits
  <1> HIDE DEF key
  <1>4. PICK b \in 0 .. (c - 1) : /\ at = slot(b)
                                  /\ index[at] = Absent \/ entries[index[at]].key = key
                                  /\ \A e \in 0 .. (b - 1) : index[slot(e)] # Absent /\ entries[index[slot(e)]].key # key
    <2>1. n \in Nat /\ key \in Keys
      BY <1>1
    <2> QED BY <2>1, ProbeStops
  <1> HIDE DEF c, slot, at
  <1>5. ~(d < b)
    <2> SUFFICES ASSUME d < b PROVE FALSE
      OBVIOUS
    <2>1. d \in 0 .. (b - 1)
      BY <1>1
    <2> QED BY <1>3, <1>4, <2>1 DEF key
  <1>6. index[slot(b)] # Absent
    <2>1. CASE b < d
      BY <1>1, <1>3, <2>1
    <2>2. CASE b = d
      BY <1>3, <2>2 DEF Absent
    <2> QED BY <1>5, <2>1, <2>2
  <1>7. at \in 1 .. c
    BY <1>1, <1>4, SlotsGoRound DEF slot
  <1>8. entries[index[at]].key = key /\ index[at] \in DOMAIN entries
    BY <1>1, <1>2, <1>4, <1>6, <1>7 DEF Absent
  <1>9. index[at] = p
    BY <1>1, <1>8 DEF key, Distinct
  <1> QED
    BY <1>2, <1>7, <1>9 DEF at, key

\* A probe for a key that the first positions do not hold stops at an empty slot.
LEMMA ProbeMisses ==
    ASSUME Hashed, NEW V, NEW entries \in Seq(Entries(V)),
           NEW n \in 0 .. Len(entries), NEW index, Sits(index, entries, n),
           NEW key \in Keys, \A p \in 1 .. n : entries[p].key # key
    PROVE  \E d \in 0 .. (Len(index) - 1) :
              /\ Probe(index, entries, key) = Slot(Hash[key], d, Len(index))
              /\ Probe(index, entries, key) \in DOMAIN index
              /\ index[Probe(index, entries, key)] = Absent
              /\ \A e \in 0 .. (d - 1) : index[Slot(Hash[key], e, Len(index))] # Absent
PROOF
  <1> DEFINE c == Len(index)
             slot(d) == Slot(Hash[key], d, c)
             at == Probe(index, entries, key)
  <1>1. c \in Nat /\ c > 0 /\ n \in Nat /\ Hash[key] \in Nat
    BY DEF Sits, Hashed
  <1>2. index \in [1 .. c -> 0 .. n]
    BY DEF Sits
  <1>3. PICK b \in 0 .. (c - 1) : /\ at = slot(b)
                                  /\ index[at] = Absent \/ entries[index[at]].key = key
                                  /\ \A e \in 0 .. (b - 1) : index[slot(e)] # Absent
    BY <1>1, ProbeStops
  <1>4. slot(b) \in 1 .. c
    BY <1>1, SlotsGoRound
  <1> HIDE DEF c, at, slot
  <1>5. index[at] = Absent
    BY <1>1, <1>2, <1>3, <1>4 DEF Absent
  <1> QED
    BY <1>2, <1>3, <1>4, <1>5 DEF c, at, slot

-----------------------------------------------------------------------------
(* What is built step by step.                                              *)
\* A set of numbers with 0 in it and the next of each is all of them.
LEMMA Induction ==
    ASSUME NEW T, T \subseteq Nat, 0 \in T, \A k \in T : k + 1 \in T
    PROVE  T = Nat
PROOF
  <1> SUFFICES ASSUME Nat \ T # {} PROVE FALSE
    OBVIOUS
  <1>1. PICK x \in Nat \ T : \A y \in Nat \ T : x <= y
    BY HasLeast
  <1>2. x # 0 /\ x - 1 \in Nat
    BY <1>1
  <1>3. x - 1 \in T
    BY <1>1, <1>2
  <1>4. x - 1 + 1 = x
    BY <1>1
  <1> QED BY <1>1, <1>3, <1>4

\* What the steps F make of a beginning b, 0 to n times.
Iterations(S, b, F, n) == {g \in [0 .. n -> S] : g[0] = b /\ \A k \in 1 .. n : g[k] = F[k][g[k - 1]]}
\* There is such a function, so a recursive definition of this form has the value it says.
LEMMA Iterates ==
    ASSUME NEW S, NEW b \in S, NEW F \in [Nat -> [S -> S]], NEW n \in Nat
    PROVE  Iterations(S, b, F, n) # {}
PROOF
  <1> DEFINE P(m) == \E g \in [0 .. m -> S] : g[0] = b /\ \A k \in 1 .. m : g[k] = F[k][g[k - 1]]
             T == {m \in Nat : P(m)}
  <1>1. P(0)
    <2>1. [k \in 0 .. 0 |-> b] \in [0 .. 0 -> S] /\ [k \in 0 .. 0 |-> b][0] = b
      OBVIOUS
    <2>2. 1 .. 0 = {}
      OBVIOUS
    <2> QED BY <2>1, <2>2
  <1>2. ASSUME NEW m \in Nat, P(m)
        PROVE  P(m + 1)
    <2>1. PICK g \in [0 .. m -> S] : g[0] = b /\ \A k \in 1 .. m : g[k] = F[k][g[k - 1]]
      BY <1>2
    <2> DEFINE h == [k \in 0 .. (m + 1) |-> IF k = m + 1 THEN F[m + 1][g[m]] ELSE g[k]]
    <2>2. h \in [0 .. (m + 1) -> S]
      <3>1. g[m] \in S /\ m + 1 \in Nat
        OBVIOUS
      <3>2. F[m + 1][g[m]] \in S
        BY <3>1
      <3> QED BY <3>2
    <2>3. h[0] = b
      BY <2>1
    <2>4. ASSUME NEW k \in 1 .. (m + 1)
          PROVE  h[k] = F[k][h[k - 1]]
      <3>1. k - 1 \in 0 .. m /\ h[k - 1] = g[k - 1]
        OBVIOUS
      <3>2. CASE k = m + 1
        <4>1. k - 1 = m
          BY <3>2
        <4>2. h[m + 1] = F[m + 1][g[m]]
          OBVIOUS
        <4>3. h[k - 1] = g[m]
          BY <3>1, <4>1
        <4> HIDE DEF h
        <4> QED BY <3>2, <4>2, <4>3
      <3>3. CASE k # m + 1
        <4>1. k \in 1 .. m /\ h[k] = g[k]
          BY <3>3
        <4> QED BY <2>1, <3>1, <4>1
      <3> QED BY <3>2, <3>3
    <2> HIDE DEF h
    <2> QED BY <2>2, <2>3, <2>4
  <1> HIDE DEF P
  <1>3. T = Nat
    <2>1. T \subseteq Nat /\ 0 \in T
      BY <1>1
    <2>2. \A m \in T : m + 1 \in T
      BY <1>2
    <2> HIDE DEF T
    <2> QED BY <2>1, <2>2, Induction
  <1>4. P(n)
    BY <1>3
  <1> QED BY <1>4 DEF P, Iterations

\* The capacities that are tried.
LEMMA DoubledIs ==
    ASSUME NEW n \in Nat
    PROVE  /\ Doubled(n) \in [0 .. n -> Nat]
           /\ Doubled(n)[0] = 16
           /\ \A k \in 1 .. n : Doubled(n)[k] = 2 * Doubled(n)[k - 1]
PROOF
  <1> DEFINE F == [x \in Nat |-> [y \in Nat |-> 2 * y]]
             R(g) == [k \in 0 .. n |-> IF k = 0 THEN 16 ELSE 2 * g[k - 1]]
  <1>1. F \in [Nat -> [Nat -> Nat]]
    OBVIOUS
  <1>2. \A x \in Nat, y \in Nat : F[x][y] = 2 * y
    OBVIOUS
  <1> HIDE DEF F
  <1>3. PICK g \in [0 .. n -> Nat] : g[0] = 16 /\ \A k \in 1 .. n : g[k] = F[k][g[k - 1]]
    <2> DEFINE first == 16
    <2>1. first \in Nat
      OBVIOUS
    <2> HIDE DEF first
    <2>2. Iterations(Nat, first, F, n) # {}
      BY <1>1, <2>1, Iterates
    <2> QED BY <2>2 DEF first, Iterations
  <1>4. \A k \in 1 .. n : g[k] = 2 * g[k - 1]
    <2> SUFFICES ASSUME NEW k \in 1 .. n PROVE g[k] = 2 * g[k - 1]
      OBVIOUS
    <2>1. k \in Nat /\ g[k - 1] \in Nat
      OBVIOUS
    <2> QED BY <1>2, <1>3, <2>1
  <1>5. g = R(g)
    BY <1>3, <1>4
  <1>6. Doubled(n) = R(Doubled(n))
    BY <1>5 DEF Doubled
  <1> DEFINE f == Doubled(n)
  <1>7. f = [k \in 0 .. n |-> IF k = 0 THEN 16 ELSE 2 * f[k - 1]]
    BY <1>6
  <1> HIDE DEF f
  <1>8. f[0] = 16 /\ \A k \in 1 .. n : f[k] = 2 * f[k - 1]
    BY <1>7
  <1>9. \A k \in 0 .. n : f[k] \in Nat
    <2> DEFINE T == {k \in Nat : k <= n => f[k] \in Nat}
    <2>1. 0 \in T
      BY <1>8
    <2>2. ASSUME NEW k \in T PROVE k + 1 \in T
      <3>1. CASE k + 1 <= n
        <4>1. k + 1 \in 1 .. n /\ k \in Nat /\ f[k] \in Nat
          BY <2>2, <3>1
        <4>2. f[k + 1] = 2 * f[k + 1 - 1] /\ k + 1 - 1 = k
          BY <1>8, <4>1
        <4> QED BY <4>1, <4>2
      <3> QED BY <3>1
    <2>3. T \subseteq Nat
      OBVIOUS
    <2> HIDE DEF T
    <2>4. T = Nat
      BY <2>1, <2>2, <2>3, Induction
    <2> QED BY <2>4 DEF T
  <1> QED BY <1>7, <1>8, <1>9 DEF f

\* A capacity leaves a quarter of the slots empty, and one more.
LEMMA CapacityIsEnough ==
    ASSUME NEW n \in Nat
    PROVE  Capacity(n) \in Nat /\ Capacity(n) * 3 >= (n + 1) * 4
PROOF
  <1> DEFINE f == Doubled(n)
             T == {k \in 0 .. n : f[k] * 3 >= (n + 1) * 4}
             U == {k \in Nat : k <= n => f[k] >= 16 + 2 * k}
  <1>1. f \in [0 .. n -> Nat] /\ f[0] = 16 /\ \A k \in 1 .. n : f[k] = 2 * f[k - 1]
    BY DoubledIs
  <1> HIDE DEF f
  <1>2. 0 \in U
    BY <1>1
  <1>3. ASSUME NEW k \in U PROVE k + 1 \in U
    <2>1. CASE k + 1 <= n
      <3>1. k + 1 \in 1 .. n /\ k \in 0 .. n /\ f[k] \in Nat /\ f[k] >= 16 + 2 * k
        BY <1>1, <1>3, <2>1
      <3>2. f[k + 1] = 2 * f[k + 1 - 1] /\ k + 1 - 1 = k
        BY <1>1, <3>1
      <3> QED BY <3>1, <3>2
    <2> QED BY <2>1
  <1>4. U = Nat
    <2>1. U \subseteq Nat
      OBVIOUS
    <2> HIDE DEF U
    <2> QED BY <1>2, <1>3, <2>1, Induction
  <1>5. n \in T
    <2>1. n \in U
      BY <1>4
    <2>2. f[n] \in Nat /\ f[n] >= 16 + 2 * n
      BY <1>1, <2>1
    <2> QED BY <2>2
  <1>6. Min(T) \in T
    <2>1. T \subseteq Nat /\ T # {}
      BY <1>5
    <2> HIDE DEF T
    <2> QED BY <2>1, MinIsLeast
  <1>7. Capacity(n) = f[Min(T)]
    BY DEF Capacity, f
  <1> QED BY <1>1, <1>6, <1>7

-----------------------------------------------------------------------------
(* The index after an entry, and after all of them.                         *)
\* An entry more is put where a probe for it stops, and the others stay where theirs do.
LEMMA IndexedSits ==
    ASSUME Hashed, NEW V, NEW entries \in Seq(Entries(V)), Distinct(entries),
           NEW n \in Nat, n < Len(entries), NEW index, Sits(index, entries, n), n + 1 < Len(index)
    PROVE  /\ Sits(Indexed(index, entries, n + 1), entries, n + 1)
           /\ Len(Indexed(index, entries, n + 1)) = Len(index)
PROOF
  <1> DEFINE c == Len(index)
             key == entries[n + 1].key
             at == Probe(index, entries, key)
             next == Indexed(index, entries, n + 1)
             slot(p, d) == Slot(Hash[entries[p].key], d, c)
  <1>1. c \in Nat /\ n + 1 < c /\ index \in [1 .. c -> 0 .. n] /\ n + 1 \in DOMAIN entries
    BY DEF Sits
  <1>2. \A p \in 1 .. (n + 1) : p \in DOMAIN entries /\ entries[p].key \in Keys /\ Hash[entries[p].key] \in Nat
    <2>1. \A p \in 1 .. (n + 1) : p \in DOMAIN entries
      OBVIOUS
    <2> QED BY <2>1, KeysHash
  <1>3. \A p \in 1 .. n : entries[p].key # key
    BY <1>1, <1>2 DEF Distinct
  <1>4. PICK b \in 0 .. (c - 1) : /\ at = slot(n + 1, b)
                                  /\ at \in DOMAIN index
                                  /\ index[at] = Absent
                                  /\ \A e \in 0 .. (b - 1) : index[slot(n + 1, e)] # Absent
    <2>1. key \in Keys /\ n \in 0 .. Len(entries)
      BY <1>1, <1>2
    <2> HIDE DEF key
    <2>2. \E d \in 0 .. (Len(index) - 1) :
              /\ Probe(index, entries, key) = Slot(Hash[key], d, Len(index))
              /\ Probe(index, entries, key) \in DOMAIN index
              /\ index[Probe(index, entries, key)] = Absent
              /\ \A e \in 0 .. (d - 1) : index[Slot(Hash[key], e, Len(index))] # Absent
      BY <1>3, <2>1, ProbeMisses
    <2> QED BY <2>2 DEF key
  <1>5. next = [index EXCEPT ![at] = n + 1]
    BY DEF Indexed
  <1>6. \A p \in 1 .. (n + 1) : \A d \in 0 .. (c - 1) : slot(p, d) \in 1 .. c
    <2> SUFFICES ASSUME NEW p \in 1 .. (n + 1) PROVE \A d \in 0 .. (c - 1) : slot(p, d) \in 1 .. c
      OBVIOUS
    <2>1. Hash[entries[p].key] \in Nat /\ c > 0
      BY <1>1, <1>2
    <2> QED BY <1>1, <2>1, SlotsGoRound
  <1>7. \A s, u \in 1 .. c : index[s] = index[u] /\ index[s] # Absent => s = u
    BY <1>1 DEF Sits
  <1>8. \A p \in 1 .. n : \E d \in 0 .. (c - 1) :
            index[slot(p, d)] = p /\ \A e \in 0 .. (d - 1) : index[slot(p, e)] # Absent
    BY DEF Sits
  <1> HIDE DEF c, at, slot, next, key
  <1>9. /\ next \in [1 .. c -> 0 .. (n + 1)]
        /\ next[at] = n + 1
        /\ \A s \in 1 .. c : s # at => next[s] = index[s]
        /\ at \in 1 .. c
    BY <1>1, <1>4, <1>5
  <1>10. Len(next) = c
    BY <1>1, <1>9
  <1>11. \A s \in 1 .. c : index[s] # Absent => next[s] = index[s] /\ next[s] # Absent
    BY <1>4, <1>9
  <1>12. \A s \in 1 .. c : index[s] # n + 1
    BY <1>1
  <1>13. \A s, u \in 1 .. c : next[s] = next[u] /\ next[s] # Absent => s = u
    BY <1>7, <1>9, <1>12
  <1>14. ASSUME NEW p \in 1 .. (n + 1)
         PROVE  \E d \in 0 .. (c - 1) : next[slot(p, d)] = p /\ \A e \in 0 .. (d - 1) : next[slot(p, e)] # Absent
    <2>1. CASE p = n + 1
      <3>1. \A e \in 0 .. (b - 1) : e \in 0 .. (c - 1) /\ next[slot(p, e)] # Absent
        <4> SUFFICES ASSUME NEW e \in 0 .. (b - 1) PROVE e \in 0 .. (c - 1) /\ next[slot(p, e)] # Absent
          OBVIOUS
        <4>1. e \in 0 .. (c - 1)
          BY <1>1
        <4>2. slot(p, e) \in 1 .. c /\ index[slot(p, e)] # Absent
          BY <1>4, <1>6, <2>1, <4>1
        <4> QED BY <1>11, <4>1, <4>2
      <3>2. next[slot(p, b)] = p
        BY <1>4, <1>9, <2>1
      <3> QED BY <3>1, <3>2
    <2>2. CASE p # n + 1
      <3>1. p \in 1 .. n
        BY <2>2
      <3>2. PICK d \in 0 .. (c - 1) : index[slot(p, d)] = p /\ \A e \in 0 .. (d - 1) : index[slot(p, e)] # Absent
        BY <1>8, <3>1
      <3>3. \A e \in 0 .. (d - 1) : next[slot(p, e)] # Absent
        <4> SUFFICES ASSUME NEW e \in 0 .. (d - 1) PROVE next[slot(p, e)] # Absent
          OBVIOUS
        <4>1. e \in 0 .. (c - 1)
          BY <1>1
        <4>2. slot(p, e) \in 1 .. c /\ index[slot(p, e)] # Absent
          BY <1>6, <3>2, <4>1
        <4> QED BY <1>11, <4>2
      <3>4. next[slot(p, d)] = p
        <4>1. slot(p, d) \in 1 .. c /\ index[slot(p, d)] # Absent
          BY <1>6, <3>1, <3>2 DEF Absent
        <4> QED BY <1>11, <3>2, <4>1
      <3> QED BY <3>3, <3>4
    <2> QED BY <2>1, <2>2
  <1>15. DOMAIN next = 1 .. c
    BY <1>9
  <1> QED
    <2>1. \A p \in 1 .. (n + 1) : \E d \in 0 .. (Len(next) - 1) :
            /\ next[Slot(Hash[entries[p].key], d, Len(next))] = p
            /\ \A e \in 0 .. (d - 1) : next[Slot(Hash[entries[p].key], e, Len(next))] # Absent
      <3> SUFFICES ASSUME NEW p \in 1 .. (n + 1)
                   PROVE  \E d \in 0 .. (Len(next) - 1) :
                            /\ next[Slot(Hash[entries[p].key], d, Len(next))] = p
                            /\ \A e \in 0 .. (d - 1) : next[Slot(Hash[entries[p].key], e, Len(next))] # Absent
        OBVIOUS
      <3>1. PICK d \in 0 .. (c - 1) : next[slot(p, d)] = p /\ \A e \in 0 .. (d - 1) : next[slot(p, e)] # Absent
        BY <1>14
      <3> QED BY <1>10, <3>1 DEF slot
    <2>2. /\ Len(next) \in Nat /\ n + 1 < Len(next) /\ next \in [1 .. Len(next) -> 0 .. (n + 1)]
          /\ \A s, u \in DOMAIN next : next[s] = next[u] /\ next[s] # Absent => s = u
      BY <1>1, <1>9, <1>10, <1>13, <1>15
    <2>3. Sits(next, entries, n + 1)
      BY <2>1, <2>2 DEF Sits
    <2> QED BY <1>10, <2>3 DEF next, c

\* The steps of rebuild_positions.
LEMMA FilledIs ==
    ASSUME NEW entries, Len(entries) \in Nat
    PROVE  /\ Filled(entries)[0] = [slot \in 1 .. Capacity(Len(entries)) |-> Absent]
           /\ \A k \in 1 .. Len(entries) : Filled(entries)[k] = Indexed(Filled(entries)[k - 1], entries, k)
PROOF
  <1> DEFINE n == Len(entries)
             c == Capacity(n)
             S == [1 .. c -> Nat]
             b == [slot \in 1 .. c |-> Absent]
             F == [k \in Nat |-> [g \in S |-> Indexed(g, entries, k)]]
             R(g) == [k \in 0 .. n |-> IF k = 0 THEN b ELSE Indexed(g[k - 1], entries, k)]
  <1>1. b \in S
    BY DEF Absent
  <1>2. \A k \in Nat, g \in S : Indexed(g, entries, k) \in S
    <2> SUFFICES ASSUME NEW k \in Nat, NEW g \in S PROVE Indexed(g, entries, k) \in S
      OBVIOUS
    <2> DEFINE x == Probe(g, entries, entries[k].key)
    <2>1. Indexed(g, entries, k) = [g EXCEPT ![x] = k]
      BY DEF Indexed
    <2> HIDE DEF x
    <2> QED BY <2>1
  <1> HIDE DEF S, b
  <1>3. F \in [Nat -> [S -> S]] /\ \A k \in Nat, g \in S : F[k][g] = Indexed(g, entries, k)
    BY <1>2
  <1> HIDE DEF F, n
  <1>4. n \in Nat
    BY DEF n
  <1>5. PICK g \in [0 .. n -> S] : g[0] = b /\ \A k \in 1 .. n : g[k] = F[k][g[k - 1]]
    <2>1. F \in [Nat -> [S -> S]]
      BY <1>3
    <2>2. Iterations(S, b, F, n) # {}
      BY <1>1, <1>4, <2>1, Iterates
    <2> QED BY <2>2 DEF Iterations
  <1>6. \A k \in 1 .. n : g[k] = Indexed(g[k - 1], entries, k)
    <2> SUFFICES ASSUME NEW k \in 1 .. n PROVE g[k] = Indexed(g[k - 1], entries, k)
      OBVIOUS
    <2>1. k \in Nat /\ g[k - 1] \in S
      BY <1>4
    <2> QED BY <1>3, <1>5, <2>1
  <1>7. g = R(g)
    BY <1>4, <1>5, <1>6
  <1> DEFINE f == Filled(entries)
  <1>8. f = R(f)
    BY <1>7 DEF Filled, n, b
  <1> HIDE DEF f
  <1>9. f[0] = b /\ \A k \in 1 .. n : f[k] = Indexed(f[k - 1], entries, k)
    BY <1>4, <1>8
  <1> QED BY <1>9 DEF f, b, n

\* rebuild_positions puts every position where a probe gets to.
LEMMA FilledSits ==
    ASSUME Hashed, NEW V, NEW entries \in Seq(Entries(V)), Distinct(entries)
    PROVE  Sits(Filled(entries)[Len(entries)], entries, Len(entries))
PROOF
  <1> DEFINE n == Len(entries)
             c == Capacity(n)
             f == Filled(entries)
             T == {k \in Nat : k <= n => Sits(f[k], entries, k) /\ Len(f[k]) = c}
  <1>1. n \in Nat
    OBVIOUS
  <1>2. c \in Nat /\ n + 1 < c
    <2>1. c \in Nat /\ c * 3 >= (n + 1) * 4
      BY <1>1, CapacityIsEnough
    <2> HIDE DEF c, n
    <2>2. n + 1 <= c
      BY <1>1, <2>1
    <2> QED BY <1>1, <2>1, <2>2
  <1>3. f[0] = [slot \in 1 .. c |-> Absent] /\ \A k \in 1 .. n : f[k] = Indexed(f[k - 1], entries, k)
    BY <1>1, FilledIs
  <1> HIDE DEF f, c
  <1>4. 0 \in T
    <2>1. f[0] \in [1 .. c -> 0 .. 0] /\ Len(f[0]) = c /\ \A s \in 1 .. c : f[0][s] = Absent
      BY <1>2, <1>3 DEF Absent
    <2>2. Sits(f[0], entries, 0)
      BY <1>1, <1>2, <2>1 DEF Sits
    <2> QED BY <2>1, <2>2
  <1>5. ASSUME NEW k \in T PROVE k + 1 \in T
    <2> SUFFICES ASSUME k + 1 <= n PROVE Sits(f[k + 1], entries, k + 1) /\ Len(f[k + 1]) = c
      OBVIOUS
    <2>1. k \in Nat /\ k < n /\ Sits(f[k], entries, k) /\ Len(f[k]) = c
      BY <1>1, <1>5
    <2>2. k + 1 < Len(f[k])
      BY <1>1, <1>2, <2>1
    <2>3. f[k + 1] = Indexed(f[k], entries, k + 1)
      <3>1. k + 1 \in 1 .. n /\ k + 1 - 1 = k
        BY <1>1, <2>1
      <3> QED BY <1>3, <3>1
    <2> DEFINE g == f[k]
    <2> HIDE DEF g, T
    <2>4. Sits(Indexed(g, entries, k + 1), entries, k + 1) /\ Len(Indexed(g, entries, k + 1)) = Len(g)
      BY <2>1, <2>2, IndexedSits DEF g
    <2> QED BY <2>1, <2>3, <2>4 DEF g
  <1>6. T = Nat
    <2>1. T \subseteq Nat
      OBVIOUS
    <2> HIDE DEF T
    <2> QED BY <1>4, <1>5, <2>1, Induction
  <1> QED BY <1>1, <1>6 DEF f

-----------------------------------------------------------------------------
(* A table.                                                                 *)
Tables(V) == [entries : Seq(Entries(V)), index : Seq(Nat)]
Sound(t) ==
    /\ Distinct(t.entries)
    /\ IF Len(t.entries) < IndexThreshold THEN t.index = <<>> ELSE Sits(t.index, t.entries, Len(t.entries))

\* Find gives the position of the key.
LEMMA FindIs ==
    ASSUME Hashed, NEW V, NEW t \in Tables(V), Sound(t), NEW key \in Keys
    PROVE  /\ Find(t, key) \in 0 .. Len(t.entries)
           /\ \A p \in DOMAIN t.entries : t.entries[p].key = key <=> p = Find(t, key)
PROOF
  <1> DEFINE entries == t.entries
             n == Len(entries)
             at == {k \in DOMAIN entries : entries[k].key = key}
  <1>1. entries \in Seq(Entries(V)) /\ Distinct(entries) /\ n \in Nat /\ DOMAIN entries = 1 .. n
    BY DEF Tables, Sound
  <1>2. t.index # <<>> => Sits(t.index, entries, n)
    BY DEF Sound
  <1> HIDE DEF entries, n
  <1>3. CASE at # {}
    <2>1. PICK p \in at : p \in 1 .. n
      BY <1>1, <1>3
    <2>2. \A k \in DOMAIN entries : entries[k].key = key <=> k = p
      BY <1>1, <2>1 DEF Distinct
    <2>3. Find(t, key) = p
      <3>1. CASE t.index = <<>>
        <4>1. Find(t, key) = Min(at)
          BY <1>3, <3>1 DEF Find, entries
        <4>2. at \subseteq Nat
          BY <1>1
        <4>3. Min(at) \in at
          <5> HIDE DEF at
          <5> QED BY <1>3, <4>2, MinIsLeast
        <4> QED BY <2>2, <4>1, <4>3
      <3>2. CASE t.index # <<>>
        <4>1. Find(t, key) = t.index[Probe(t.index, entries, key)]
          BY <3>2 DEF Find, entries
        <4>2. key = entries[p].key
          BY <2>1
        <4>3. t.index[Probe(t.index, entries, entries[p].key)] = p
          <5> DEFINE index == t.index
          <5>1. Sits(index, entries, n) /\ n \in 0 .. Len(entries)
            BY <1>1, <1>2, <3>2 DEF n
          <5> HIDE DEF index
          <5>2. index[Probe(index, entries, entries[p].key)] = p
            BY <1>1, <2>1, <5>1, ProbeFinds
          <5> QED BY <5>2 DEF index
        <4> QED BY <4>1, <4>2, <4>3
      <3> QED BY <3>1, <3>2
    <2> QED BY <1>1, <2>1, <2>2, <2>3 DEF entries, n
  <1>4. CASE at = {}
    <2>1. \A k \in DOMAIN entries : entries[k].key # key
      BY <1>4
    <2>2. Find(t, key) = Absent
      <3>1. CASE t.index = <<>>
        BY <1>4, <3>1 DEF Find, entries
      <3>2. CASE t.index # <<>>
        <4> DEFINE index == t.index
        <4>1. Find(t, key) = index[Probe(index, entries, key)]
          BY <3>2 DEF Find, entries
        <4>2. Sits(index, entries, n) /\ n \in 0 .. Len(entries)
          BY <1>1, <1>2, <3>2 DEF n
        <4> HIDE DEF index
        <4>3. \A p \in 1 .. n : entries[p].key # key
          BY <1>1, <2>1
        <4>4. index[Probe(index, entries, key)] = Absent
          BY <1>1, <4>2, <4>3, ProbeMisses
        <4> QED BY <4>1, <4>4
      <3> QED BY <3>1, <3>2
    <2> QED BY <1>1, <2>1, <2>2 DEF entries, n, Absent
  <1> QED BY <1>3, <1>4

\* The index depends on the keys alone.
LEMMA SameKeys ==
    ASSUME NEW entries, NEW others, NEW n, NEW index, Sits(index, entries, n),
           \A p \in 1 .. n : others[p].key = entries[p].key
    PROVE  Sits(index, others, n)
PROOF
  <1>1. ASSUME NEW p \in 1 .. n
        PROVE  \E d \in 0 .. (Len(index) - 1) :
                  /\ index[Slot(Hash[others[p].key], d, Len(index))] = p
                  /\ \A e \in 0 .. (d - 1) : index[Slot(Hash[others[p].key], e, Len(index))] # Absent
    <2>1. others[p].key = entries[p].key
      OBVIOUS
    <2>2. \E d \in 0 .. (Len(index) - 1) :
             /\ index[Slot(Hash[entries[p].key], d, Len(index))] = p
             /\ \A e \in 0 .. (d - 1) : index[Slot(Hash[entries[p].key], e, Len(index))] # Absent
      BY DEF Sits
    <2> QED BY <2>1, <2>2
  <1> QED BY <1>1 DEF Sits

\* A table whose index has been rebuilt is sound.
LEMMA RebuiltIsSound ==
    ASSUME Hashed, NEW V, NEW entries \in Seq(Entries(V)), Distinct(entries),
           NEW t, t = [entries |-> entries, index |-> RebuildPositions(entries)]
    PROVE  t \in Tables(V) /\ Sound(t)
PROOF
  <1> DEFINE n == Len(entries)
             index == Filled(entries)[n]
  <1>1. n \in Nat
    OBVIOUS
  <1>2. Sits(index, entries, n)
    BY FilledSits
  <1> HIDE DEF index
  <1>3. index \in Seq(Nat)
    <2>1. Len(index) \in Nat /\ index \in [1 .. Len(index) -> Nat]
      BY <1>1, <1>2 DEF Sits
    <2> QED BY <2>1
  <1>4. RebuildPositions(entries) = IF n < IndexThreshold THEN <<>> ELSE index
    BY DEF RebuildPositions, index
  <1>5. RebuildPositions(entries) \in Seq(Nat)
    BY <1>3, <1>4
  <1>6. t \in Tables(V)
    BY <1>5 DEF Tables
  <1> QED
    BY <1>2, <1>4, <1>6 DEF Sound

\* What set makes of a table: the value at the key, or one entry more.
LEMMA SetIs ==
    ASSUME Hashed, NEW V, NEW t \in Tables(V), Sound(t), NEW key \in Keys, NEW value \in V
    PROVE  /\ Set(t, key, value) \in Tables(V)
           /\ Sound(Set(t, key, value))
           /\ Set(t, key, value).entries = IF Find(t, key) # Absent
                                           THEN [t.entries EXCEPT ![Find(t, key)].value = value]
                                           ELSE Append(t.entries, [key |-> key, value |-> value])
PROOF
  <1> DEFINE at == Find(t, key)
             n == Len(t.entries)
             more == Append(t.entries, [key |-> key, value |-> value])
             u == Set(t, key, value)
  <1>1. t.entries \in Seq(Entries(V)) /\ t.index \in Seq(Nat) /\ n \in Nat /\ DOMAIN t.entries = 1 .. n
    BY DEF Tables
  <1>2. at \in 0 .. n /\ \A p \in DOMAIN t.entries : t.entries[p].key = key <=> p = at
    BY FindIs
  <1>3. Distinct(t.entries) /\ IF n < IndexThreshold THEN t.index = <<>> ELSE Sits(t.index, t.entries, n)
    BY DEF Sound
  <1> HIDE DEF at
  <1>4. [key |-> key, value |-> value] \in Entries(V)
    BY DEF Entries
  <1>5. CASE at # Absent
    <2> DEFINE changed == [t.entries EXCEPT ![at].value = value]
    <2>1. u = [t EXCEPT !.entries = changed]
      BY <1>5 DEF Set, at
    <2>2. at \in DOMAIN t.entries
      BY <1>1, <1>2, <1>5 DEF Absent
    <2>3. \A p \in DOMAIN t.entries : t.entries[p] \in Entries(V)
      BY <1>1
    <2>4. /\ DOMAIN changed = 1 .. n /\ Len(changed) = n
          /\ \A p \in 1 .. n : changed[p] = IF p = at THEN [t.entries[p] EXCEPT !.value = value] ELSE t.entries[p]
      <3> DEFINE old == t.entries
      <3>1. old \in Seq(Entries(V)) /\ DOMAIN old = 1 .. n /\ n \in Nat /\ at \in 1 .. n
        BY <1>1, <2>2
      <3> HIDE DEF old
      <3>2. DOMAIN [old EXCEPT ![at].value = value] = 1 .. n
        BY <3>1
      <3>3. Len([old EXCEPT ![at].value = value]) = n
        BY <3>1, <3>2
      <3>4. \A p \in 1 .. n : [old EXCEPT ![at].value = value][p]
                             = IF p = at THEN [old[p] EXCEPT !.value = value] ELSE old[p]
        BY <3>1
      <3> QED BY <3>2, <3>3, <3>4 DEF old
    <2>5. \A p \in 1 .. n : changed[p] \in Entries(V) /\ changed[p].key = t.entries[p].key
      BY <1>1, <2>3, <2>4 DEF Entries
    <2>6. changed \in Seq(Entries(V))
      <3>1. changed = [p \in 1 .. n |-> changed[p]]
        BY <1>1
      <3> HIDE DEF changed
      <3>2. changed \in [1 .. n -> Entries(V)]
        BY <2>5, <3>1
      <3> QED BY <1>1, <3>2
    <2> HIDE DEF changed
    <2>7. u.entries = changed /\ u.index = t.index /\ u \in Tables(V)
      BY <2>1, <2>6 DEF Tables
    <2>8. Distinct(changed)
      BY <1>1, <1>3, <2>4, <2>5 DEF Distinct
    <2>9. Sound(u)
      <3>1. Sits(t.index, t.entries, n) => Sits(t.index, changed, n)
        BY <2>5, SameKeys
      <3> QED BY <1>3, <2>4, <2>7, <2>8, <3>1 DEF Sound
    <2> QED BY <1>5, <2>7, <2>9 DEF changed, at
  <1>6. CASE at = Absent
    <2>1. /\ more \in Seq(Entries(V)) /\ Len(more) = n + 1 /\ DOMAIN more = 1 .. (n + 1)
          /\ \A p \in 1 .. n : more[p] = t.entries[p]
          /\ more[n + 1] = [key |-> key, value |-> value]
      BY <1>1, <1>4
    <2>2. \A p \in 1 .. n : more[p].key # key
      BY <1>1, <1>2, <1>6, <2>1 DEF Absent
    <2>3. Distinct(more)
      <3>1. more[n + 1].key = key
        BY <2>1
      <3>2. \A i, j \in 1 .. n : more[i].key = more[j].key => i = j
        BY <1>1, <1>3, <2>1 DEF Distinct
      <3> HIDE DEF more
      <3>3. \A i \in 1 .. (n + 1) : i \in 1 .. n \/ i = n + 1
        BY <1>1
      <3> QED BY <2>1, <2>2, <3>1, <3>2, <3>3 DEF Distinct
    <2>4. CASE n + 1 < IndexThreshold
      <3>1. u = [entries |-> more, index |-> t.index]
        BY <1>6, <2>1, <2>4 DEF Set, at
      <3> HIDE DEF more
      <3>2. u.entries = more /\ u.index = t.index /\ u \in Tables(V)
        BY <1>1, <2>1, <3>1 DEF Tables
      <3>3. n < IndexThreshold
        BY <1>1, <2>4 DEF IndexThreshold
      <3>4. Sound(u)
        BY <1>3, <2>1, <2>3, <2>4, <3>2, <3>3 DEF Sound
      <3> QED BY <1>6, <3>2, <3>4 DEF more, at
    <2>5. CASE n + 1 >= IndexThreshold /\ (t.index = <<>> \/ Crowded(n + 1, Len(t.index)))
      <3>1. ~(n + 1 < IndexThreshold)
        BY <1>1, <2>5 DEF IndexThreshold
      <3>2. u = [entries |-> more, index |-> RebuildPositions(more)]
        BY <1>6, <2>1, <2>5, <3>1 DEF Set, at
      <3> HIDE DEF more
      <3>3. u \in Tables(V) /\ Sound(u)
        BY <2>1, <2>3, <3>2, RebuiltIsSound
      <3>4. u.entries = more
        BY <3>2
      <3> QED BY <1>6, <3>3, <3>4 DEF more, at
    <2>6. CASE n + 1 >= IndexThreshold /\ t.index # <<>> /\ ~Crowded(n + 1, Len(t.index))
      <3>1. ~(n + 1 < IndexThreshold)
        BY <1>1, <2>6 DEF IndexThreshold
      <3>2. u = [entries |-> more, index |-> Indexed(t.index, more, n + 1)]
        BY <1>6, <2>1, <2>6, <3>1 DEF Set, at
      <3> DEFINE index == t.index
      <3>3. Sits(index, t.entries, n)
        BY <1>3, <2>6
      <3> HIDE DEF more, index
      <3>4. Sits(index, more, n)
        BY <2>1, <3>3, SameKeys
      <3>5. n + 1 < Len(index)
        <4>1. Len(index) \in Nat
          BY <3>3 DEF Sits
        <4>2. ~((n + 1 + 1) * 4 > Len(index) * 3)
          BY <2>6 DEF Crowded, index
        <4> QED BY <1>1, <4>1, <4>2
      <3>6. n < Len(more)
        BY <1>1, <2>1
      <3> DEFINE next == Indexed(index, more, n + 1)
      <3>7. Sits(next, more, n + 1)
        BY <1>1, <2>1, <2>3, <3>4, <3>5, <3>6, IndexedSits
      <3> HIDE DEF next
      <3>8. next \in Seq(Nat)
        <4>1. Len(next) \in Nat /\ next \in [1 .. Len(next) -> Nat]
          BY <1>1, <3>7 DEF Sits
        <4> QED BY <4>1
      <3>9. u.entries = more /\ u.index = next /\ u \in Tables(V)
        BY <2>1, <3>2, <3>8 DEF Tables, next, index
      <3>10. Sound(u)
        BY <2>1, <2>3, <3>1, <3>7, <3>9 DEF Sound
      <3> QED BY <1>6, <3>9, <3>10 DEF more, at
    <2>7. n + 1 < IndexThreshold \/ n + 1 >= IndexThreshold
      BY <1>1 DEF IndexThreshold
    <2> QED BY <2>4, <2>5, <2>6, <2>7
  <1> QED BY <1>5, <1>6

\* A sequence without one of its places.
LEMMA RemovedIs ==
    ASSUME NEW S, NEW s \in Seq(S), NEW i \in 1 .. Len(s)
    PROVE  /\ RemoveAt(s, i) \in Seq(S)
           /\ Len(RemoveAt(s, i)) = Len(s) - 1
           /\ \A p \in 1 .. (Len(s) - 1) : RemoveAt(s, i)[p] = IF p < i THEN s[p] ELSE s[p + 1]
PROOF
  <1> DEFINE a == SubSeq(s, 1, i - 1)
             b == SubSeq(s, i + 1, Len(s))
             n == Len(s)
  <1>1. n \in Nat /\ i \in 1 .. n
    OBVIOUS
  <1>2. a \in Seq(S) /\ Len(a) = i - 1 /\ \A p \in 1 .. (i - 1) : a[p] = s[p]
    OBVIOUS
  <1>3. b \in Seq(S) /\ Len(b) = n - i /\ \A p \in 1 .. (n - i) : b[p] = s[p + i]
    OBVIOUS
  <1>4. RemoveAt(s, i) = a \o b
    BY DEF RemoveAt
  <1> HIDE DEF a, b
  <1>5. a \o b \in Seq(S) /\ Len(a \o b) = n - 1
    <2>1. a \in Seq(S) /\ b \in Seq(S)
      BY <1>2, <1>3
    <2>2. a \o b \in Seq(S) /\ Len(a \o b) = Len(a) + Len(b)
      BY ONLY <2>1
    <2>3. Len(a) + Len(b) = n - 1
      BY <1>1, <1>2, <1>3
    <2> QED BY <2>2, <2>3
  <1>6. ASSUME NEW p \in 1 .. (n - 1)
        PROVE  (a \o b)[p] = IF p < i THEN s[p] ELSE s[p + 1]
    <2>1. CASE p < i
      <3>1. (a \o b)[p] = a[p] /\ p \in 1 .. (i - 1)
        BY <1>1, <1>2, <1>3, <2>1
      <3> QED BY <1>2, <2>1, <3>1
    <2>2. CASE ~(p < i)
      <3>1. (a \o b)[p] = b[p - (i - 1)]
        <4>1. a \in Seq(S) /\ b \in Seq(S)
          BY <1>2, <1>3
        <4>2. p \in 1 .. (Len(a) + Len(b)) /\ ~(p <= Len(a))
          BY <1>1, <1>2, <1>3, <2>2
        <4>3. (a \o b)[p] = b[p - Len(a)]
          BY ONLY <4>1, <4>2
        <4> QED BY <1>2, <4>3
      <3>2. p - (i - 1) \in 1 .. (n - i) /\ p - (i - 1) + i = p + 1
        BY <1>1, <2>2
      <3>3. b[p - (i - 1)] = s[p - (i - 1) + i]
        BY <1>3, <3>2
      <3> QED BY <2>2, <3>1, <3>2, <3>3
    <2> QED BY <2>1, <2>2
  <1> QED
    BY <1>4, <1>5, <1>6

\* What erase makes of a table: the same, or the entry of the key gone.
LEMMA EraseIs ==
    ASSUME Hashed, NEW V, NEW t \in Tables(V), Sound(t), NEW key \in Keys
    PROVE  /\ Erase(t, key) \in Tables(V)
           /\ Sound(Erase(t, key))
           /\ Erase(t, key).entries = IF Find(t, key) # Absent THEN RemoveAt(t.entries, Find(t, key)) ELSE t.entries
PROOF
  <1> DEFINE at == Find(t, key)
             n == Len(t.entries)
             less == RemoveAt(t.entries, at)
             u == Erase(t, key)
  <1>1. t.entries \in Seq(Entries(V)) /\ n \in Nat /\ DOMAIN t.entries = 1 .. n /\ Distinct(t.entries)
    BY DEF Tables, Sound
  <1>2. at \in 0 .. n
    BY FindIs
  <1>3. CASE at = Absent
    BY <1>3 DEF Erase
  <1>4. CASE at # Absent
    <2>1. u = [entries |-> less, index |-> RebuildPositions(less)]
      BY <1>4 DEF Erase
    <2> HIDE DEF at
    <2>2. at \in 1 .. n
      BY <1>1, <1>2, <1>4 DEF Absent
    <2>3. /\ less \in Seq(Entries(V)) /\ Len(less) = n - 1
          /\ \A p \in 1 .. (n - 1) : less[p] = IF p < at THEN t.entries[p] ELSE t.entries[p + 1]
      BY <1>1, <2>2, RemovedIs
    <2> HIDE DEF less
    <2>4. Distinct(less)
      <3> SUFFICES ASSUME NEW p \in DOMAIN less, NEW q \in DOMAIN less, less[p].key = less[q].key
                   PROVE  p = q
        BY DEF Distinct
      <3>1. p \in 1 .. (n - 1) /\ q \in 1 .. (n - 1)
        BY <1>1, <2>2, <2>3
      <3> DEFINE from(x) == IF x < at THEN x ELSE x + 1
      <3>2. from(p) \in 1 .. n /\ from(q) \in 1 .. n
        BY <1>1, <3>1
      <3>3. less[p] = t.entries[from(p)] /\ less[q] = t.entries[from(q)]
        BY <2>3, <3>1
      <3>4. from(p) = from(q)
        <4> HIDE DEF from
        <4> QED BY <1>1, <3>2, <3>3 DEF Distinct
      <3> QED BY <1>1, <2>2, <3>1, <3>4
    <2>5. u \in Tables(V) /\ Sound(u)
      <3> HIDE DEF u
      <3> QED BY <2>1, <2>3, <2>4, RebuiltIsSound
    <2>6. u.entries = less
      BY <2>1
    <2> QED BY <1>4, <2>5, <2>6 DEF at, less
  <1> QED BY <1>3, <1>4

-----------------------------------------------------------------------------
(* A sequence of calls.                                                     *)
Calls == [op : {"set", "erase"}, key : Keys]
\* A table lists the keys that are held, each with its last holder, in the order of their first.
Told(t, holders) ==
    /\ \A p \in DOMAIN t.entries :
          /\ t.entries[p].value \in holders[t.entries[p].key]
          /\ \A j \in holders[t.entries[p].key] : j <= t.entries[p].value
    /\ \A key \in Keys : holders[key] # {} => \E p \in DOMAIN t.entries : t.entries[p].key = key
    /\ \A p, q \in DOMAIN t.entries :
          p < q => \E i \in holders[t.entries[p].key] : \A j \in holders[t.entries[q].key] : i < j

\* A key that is set is held by that call too.
LEMMA SetTells ==
    ASSUME Hashed, NEW t \in Tables(Nat), Sound(t), NEW holders \in [Keys -> SUBSET Nat], Told(t, holders),
           NEW key \in Keys, NEW m \in Nat, \A k \in Keys : \A j \in holders[k] : j < m,
           NEW later, later = [holders EXCEPT ![key] = @ \cup {m}]
    PROVE  Told(Set(t, key, m), later)
PROOF
  <1> DEFINE old == t.entries
             new == Set(t, key, m).entries
             at == Find(t, key)
             n == Len(old)
  <1>1. old \in Seq(Entries(Nat)) /\ n \in Nat /\ DOMAIN old = 1 .. n
    BY DEF Tables
  <1>2. at \in 0 .. n /\ \A p \in 1 .. n : old[p].key = key <=> p = at
    BY <1>1, FindIs
  <1>3. new = IF at # Absent THEN [old EXCEPT ![at].value = m] ELSE Append(old, [key |-> key, value |-> m])
    BY SetIs
  <1>4. \A p \in 1 .. n : old[p] \in Entries(Nat) /\ old[p].key \in Keys /\ old[p].value \in Nat
    <2>1. \A p \in 1 .. n : old[p] \in Entries(Nat)
      BY <1>1
    <2> QED BY <2>1 DEF Entries
  <1>5. \A k \in Keys : later[k] = IF k = key THEN holders[k] \cup {m} ELSE holders[k]
    OBVIOUS
  <1>6. /\ \A p \in 1 .. n : /\ old[p].value \in holders[old[p].key]
                             /\ \A j \in holders[old[p].key] : j <= old[p].value
        /\ \A k \in Keys : holders[k] # {} => \E p \in 1 .. n : old[p].key = k
        /\ \A p, q \in 1 .. n : p < q => \E i \in holders[old[p].key] : \A j \in holders[old[q].key] : i < j
    BY <1>1 DEF Told
  <1> DEFINE inOrder == \A p, q \in DOMAIN new :
                           p < q => \E i \in later[new[p].key] : \A j \in later[new[q].key] : i < j
             allHeld == \A k \in Keys : later[k] # {} => \E p \in DOMAIN new : new[p].key = k
             lastOnes == \A p \in DOMAIN new : /\ new[p].value \in later[new[p].key]
                                             /\ \A j \in later[new[p].key] : j <= new[p].value
  <1> HIDE DEF old, new, at, n, lastOnes, allHeld, inOrder
  <1>7. ASSUME at # Absent PROVE lastOnes /\ allHeld /\ inOrder
    <2>1. /\ DOMAIN new = 1 .. n /\ at \in 1 .. n
          /\ \A p \in 1 .. n : new[p] = IF p = at THEN [old[p] EXCEPT !.value = m] ELSE old[p]
      BY <1>1, <1>2, <1>3, <1>7 DEF Absent
    <2>2. \A p \in 1 .. n : new[p].key = old[p].key /\ new[p].value = IF p = at THEN m ELSE old[p].value
      BY <1>4, <2>1 DEF Entries
    <2>3. ASSUME NEW p \in 1 .. n
          PROVE  new[p].value \in later[new[p].key] /\ \A j \in later[new[p].key] : j <= new[p].value
      <3>1. CASE p = at
        <4>1. new[p].key = key /\ new[p].value = m /\ later[key] = holders[key] \cup {m}
          BY <1>2, <1>5, <2>2, <3>1
        <4> QED BY <4>1
      <3>2. CASE p # at
        <4>1. old[p].key # key /\ old[p].key \in Keys /\ new[p].key = old[p].key /\ new[p].value = old[p].value
          BY <1>2, <1>4, <2>2, <3>2
        <4>2. later[new[p].key] = holders[old[p].key]
          BY <1>5, <4>1
        <4> QED BY <1>6, <4>1, <4>2
      <3> QED BY <3>1, <3>2
    <2>4. ASSUME NEW k \in Keys, later[k] # {}
          PROVE  \E p \in 1 .. n : new[p].key = k
      <3>1. CASE k = key
        BY <1>2, <2>1, <2>2, <3>1
      <3>2. CASE k # key
        BY <1>5, <1>6, <2>2, <2>4, <3>2
      <3> QED BY <3>1, <3>2
    <2>5. ASSUME NEW p \in 1 .. n, NEW q \in 1 .. n, p < q
          PROVE  \E i \in later[new[p].key] : \A j \in later[new[q].key] : i < j
      <3>1. PICK i \in holders[old[p].key] : \A j \in holders[old[q].key] : i < j
        BY <1>6, <2>5
      <3>2. old[p].key \in Keys /\ old[q].key \in Keys
        BY <1>4
      <3>3. i \in later[old[p].key] /\ i < m
        BY <1>5, <3>1, <3>2
      <3>4. \A j \in later[old[q].key] : j \in holders[old[q].key] \/ j = m
        BY <1>5, <3>2
      <3>5. new[p].key = old[p].key /\ new[q].key = old[q].key
        BY <2>2
      <3>6. \A j \in later[old[q].key] : i < j
        BY <3>1, <3>3, <3>4
      <3> QED BY <3>3, <3>5, <3>6
    <2>6. lastOnes
      BY <2>1, <2>3 DEF lastOnes
    <2>7. allHeld
      BY <2>1, <2>4 DEF allHeld
    <2>8. inOrder
      BY <2>1, <2>5 DEF inOrder
    <2> QED BY <2>6, <2>7, <2>8
  <1>8. ASSUME at = Absent PROVE lastOnes /\ allHeld /\ inOrder
    <2>1. /\ DOMAIN new = 1 .. (n + 1)
          /\ \A p \in 1 .. n : new[p] = old[p]
          /\ new[n + 1] = [key |-> key, value |-> m]
      <3>1. [key |-> key, value |-> m] \in Entries(Nat)
        BY DEF Entries
      <3>2. new = Append(old, [key |-> key, value |-> m])
        BY <1>3, <1>8
      <3> QED BY <1>1, <3>1, <3>2 DEF n
    <2>2. \A p \in 1 .. n : old[p].key # key
      BY <1>2, <1>8 DEF Absent
    <2>3. later[key] = {m}
      <3>1. holders[key] = {}
        BY <1>6, <2>2
      <3> QED BY <1>5, <3>1
    <2>4. \A p \in 1 .. n : later[new[p].key] = holders[old[p].key]
      BY <1>4, <1>5, <2>1, <2>2
    <2>5. new[n + 1].key = key /\ new[n + 1].value = m
      BY <2>1
    <2>6. \A p \in 1 .. (n + 1) : p \in 1 .. n \/ p = n + 1
      BY <1>1
    <2>7. ASSUME NEW p \in 1 .. (n + 1)
          PROVE  new[p].value \in later[new[p].key] /\ \A j \in later[new[p].key] : j <= new[p].value
      <3>1. CASE p \in 1 .. n
        BY <1>6, <2>1, <2>4, <3>1
      <3>2. CASE p = n + 1
        BY <2>3, <2>5, <3>2
      <3> QED BY <2>6, <3>1, <3>2
    <2>8. ASSUME NEW k \in Keys, later[k] # {}
          PROVE  \E p \in 1 .. (n + 1) : new[p].key = k
      <3>1. CASE k = key
        <4>1. n + 1 \in 1 .. (n + 1)
          BY <1>1
        <4> QED BY <2>5, <3>1, <4>1
      <3>2. CASE k # key
        <4>1. holders[k] # {}
          BY <1>5, <2>8, <3>2
        <4>2. PICK p \in 1 .. n : old[p].key = k
          BY <1>6, <4>1
        <4>3. p \in 1 .. (n + 1)
          BY <1>1
        <4> QED BY <2>1, <4>2, <4>3
      <3> QED BY <3>1, <3>2
    <2>9. ASSUME NEW p \in 1 .. (n + 1), NEW q \in 1 .. (n + 1), p < q
          PROVE  \E i \in later[new[p].key] : \A j \in later[new[q].key] : i < j
      <3>1. p \in 1 .. n
        BY <1>1, <2>9
      <3>2. CASE q \in 1 .. n
        BY <1>6, <2>4, <2>9, <3>1, <3>2
      <3>3. CASE q = n + 1
        <4>1. old[p].value \in holders[old[p].key] /\ old[p].key \in Keys
          BY <1>4, <1>6, <3>1
        <4>2. old[p].value < m
          BY <4>1
        <4>3. later[new[q].key] = {m}
          BY <2>3, <2>5, <3>3
        <4> QED BY <2>4, <3>1, <4>1, <4>2, <4>3
      <3> QED BY <2>6, <3>2, <3>3
    <2>10. lastOnes
      BY <2>1, <2>7 DEF lastOnes
    <2>11. allHeld
      BY <2>1, <2>8 DEF allHeld
    <2>12. inOrder
      BY <2>1, <2>9 DEF inOrder
    <2> QED BY <2>10, <2>11, <2>12
  <1>9. lastOnes /\ allHeld /\ inOrder
    BY <1>7, <1>8
  <1> QED BY ONLY <1>9 DEF Told, new, lastOnes, allHeld, inOrder

\* A key that is erased is held no more.
LEMMA EraseTells ==
    ASSUME Hashed, NEW t \in Tables(Nat), Sound(t), NEW holders \in [Keys -> SUBSET Nat], Told(t, holders),
           NEW key \in Keys, NEW later, later = [holders EXCEPT ![key] = {}]
    PROVE  Told(Erase(t, key), later)
PROOF
  <1> DEFINE old == t.entries
             new == Erase(t, key).entries
             at == Find(t, key)
             n == Len(old)
  <1>1. old \in Seq(Entries(Nat)) /\ n \in Nat /\ DOMAIN old = 1 .. n
    BY DEF Tables
  <1>2. at \in 0 .. n /\ \A p \in 1 .. n : old[p].key = key <=> p = at
    BY <1>1, FindIs
  <1>3. new = IF at # Absent THEN RemoveAt(old, at) ELSE old
    BY EraseIs
  <1>4. \A p \in 1 .. n : old[p].key \in Keys
    <2>1. \A p \in 1 .. n : old[p] \in Entries(Nat)
      BY <1>1
    <2> QED BY <2>1 DEF Entries
  <1>5. \A k \in Keys : later[k] = IF k = key THEN {} ELSE holders[k]
    OBVIOUS
  <1>6. /\ \A p \in 1 .. n : /\ old[p].value \in holders[old[p].key]
                             /\ \A j \in holders[old[p].key] : j <= old[p].value
        /\ \A k \in Keys : holders[k] # {} => \E p \in 1 .. n : old[p].key = k
        /\ \A p, q \in 1 .. n : p < q => \E i \in holders[old[p].key] : \A j \in holders[old[q].key] : i < j
    BY <1>1 DEF Told
  <1> DEFINE m == IF at = Absent THEN n ELSE n - 1
             from(p) == IF at = Absent \/ p < at THEN p ELSE p + 1
  <1>7. DOMAIN new = 1 .. m /\ \A p \in 1 .. m : new[p] = old[from(p)]
    <2>1. CASE at = Absent
      BY <1>1, <1>3, <2>1
    <2>2. CASE at # Absent
      <3> HIDE DEF old, new, at
      <3>1. at \in 1 .. n
        BY <1>1, <1>2, <2>2 DEF Absent
      <3>2. new \in Seq(Entries(Nat)) /\ Len(new) = n - 1
        BY <1>1, <1>3, <2>2, <3>1, RemovedIs
      <3>3. \A p \in 1 .. (n - 1) : new[p] = IF p < at THEN old[p] ELSE old[p + 1]
        BY <1>1, <1>3, <2>2, <3>1, RemovedIs
      <3> QED BY <2>2, <3>2, <3>3
    <2> QED BY <2>1, <2>2
  <1> HIDE DEF old, new, at, n
  <1>8. m \in Nat /\ \A p \in 1 .. m : from(p) \in 1 .. n /\ from(p) # at
    BY <1>1, <1>2 DEF Absent
  <1>9. \A p, q \in 1 .. m : p < q => from(p) < from(q)
    BY <1>1, <1>2 DEF Absent
  <1>10. \A q \in 1 .. n : q # at => \E p \in 1 .. m : from(p) = q
    <2> SUFFICES ASSUME NEW q \in 1 .. n, q # at PROVE \E p \in 1 .. m : from(p) = q
      OBVIOUS
    <2>1. CASE at = Absent \/ q < at
      <3>1. q \in 1 .. m /\ from(q) = q
        BY <1>1, <1>2, <2>1
      <3> QED BY <3>1
    <2>2. CASE at # Absent /\ q > at
      <3>1. q - 1 \in 1 .. m /\ from(q - 1) = q
        BY <1>1, <1>2, <2>2 DEF Absent
      <3> QED BY <3>1
    <2> QED BY <1>1, <1>2, <2>1, <2>2
  <1> HIDE DEF m, from
  <1>11. \A p \in 1 .. m : later[new[p].key] = holders[old[from(p)].key]
    <2> SUFFICES ASSUME NEW p \in 1 .. m PROVE later[new[p].key] = holders[old[from(p)].key]
      OBVIOUS
    <2>1. old[from(p)].key # key /\ old[from(p)].key \in Keys
      BY <1>2, <1>4, <1>8
    <2> QED BY <1>5, <1>7, <2>1
  <1>12. \A p \in 1 .. m : new[p].value \in later[new[p].key] /\ \A j \in later[new[p].key] : j <= new[p].value
    <2> SUFFICES ASSUME NEW p \in 1 .. m
                 PROVE  new[p].value \in later[new[p].key] /\ \A j \in later[new[p].key] : j <= new[p].value
      OBVIOUS
    <2> DEFINE q == from(p)
    <2>1. q \in 1 .. n
      BY <1>8
    <2>2. new[p] = old[q] /\ later[new[p].key] = holders[old[q].key]
      BY <1>7, <1>11
    <2> HIDE DEF q
    <2>3. old[q].value \in holders[old[q].key] /\ \A j \in holders[old[q].key] : j <= old[q].value
      BY <1>6, <2>1
    <2> QED BY <2>2, <2>3
  <1>13. ASSUME NEW k \in Keys, later[k] # {}
         PROVE  \E p \in 1 .. m : new[p].key = k
    <2>1. k # key /\ holders[k] # {}
      BY <1>5, <1>13
    <2>2. PICK q \in 1 .. n : old[q].key = k
      BY <1>6, <2>1
    <2>3. q # at
      BY <1>2, <2>1, <2>2
    <2>4. PICK p \in 1 .. m : from(p) = q
      BY <1>10, <2>3
    <2> QED BY <1>7, <2>2, <2>4
  <1>14. ASSUME NEW p \in 1 .. m, NEW q \in 1 .. m, p < q
         PROVE  \E i \in later[new[p].key] : \A j \in later[new[q].key] : i < j
    <2>1. from(p) \in 1 .. n /\ from(q) \in 1 .. n
      BY <1>8
    <2>2. from(p) < from(q)
      BY <1>9, <1>14
    <2>3. PICK i \in holders[old[from(p)].key] : \A j \in holders[old[from(q)].key] : i < j
      BY <1>6, <2>1, <2>2
    <2>4. later[new[p].key] = holders[old[from(p)].key] /\ later[new[q].key] = holders[old[from(q)].key]
      BY <1>11
    <2> QED BY <2>3, <2>4
  <1> QED BY <1>7, <1>12, <1>13, <1>14 DEF Told, new

\* Every table that calls make is sound.
LEMMA CalledIs ==
    ASSUME Hashed, NEW calls \in Seq(Calls)
    PROVE  /\ Called(calls)[0] = Empty
           /\ \A k \in 1 .. Len(calls) : Called(calls)[k] = Do(Called(calls)[k - 1], calls[k], k)
           /\ \A k \in 0 .. Len(calls) : Called(calls)[k] \in Tables(Nat) /\ Sound(Called(calls)[k])
PROOF
  <1> DEFINE n == Len(calls)
             S == {t \in Tables(Nat) : Sound(t)}
             step(k) == IF k \in 1 .. n THEN [t \in S |-> Do(t, calls[k], k)] ELSE [t \in S |-> t]
             F == [k \in Nat |-> step(k)]
             R(g) == [k \in 0 .. n |-> IF k = 0 THEN Empty ELSE Do(g[k - 1], calls[k], k)]
  <1>1. n \in Nat
    OBVIOUS
  <1>2. Empty \in S
    BY DEF Empty, Tables, Sound, Distinct, IndexThreshold
  <1>3. \A k \in 1 .. n, t \in S : Do(t, calls[k], k) \in S
    <2> SUFFICES ASSUME NEW k \in 1 .. n, NEW t \in S PROVE Do(t, calls[k], k) \in S
      OBVIOUS
    <2>1. calls[k].key \in Keys /\ k \in Nat
      <3>1. calls[k] \in Calls /\ k \in Nat
        OBVIOUS
      <3> QED BY <3>1 DEF Calls
    <2>2. Set(t, calls[k].key, k) \in S
      BY <2>1, SetIs
    <2>3. Erase(t, calls[k].key) \in S
      BY <2>1, EraseIs
    <2> QED BY <2>2, <2>3 DEF Do
  <1> HIDE DEF S, n
  <1>4. \A k \in Nat : step(k) \in [S -> S]
    BY <1>3
  <1>5. F \in [Nat -> [S -> S]]
    <2> HIDE DEF step
    <2> QED BY <1>4
  <1>6. \A k \in 1 .. n, t \in S : F[k][t] = Do(t, calls[k], k)
    BY <1>1
  <1> HIDE DEF F
  <1> DEFINE b == Empty
  <1>7. b \in S
    BY <1>2
  <1> HIDE DEF b
  <1>8. PICK g \in [0 .. n -> S] : g[0] = b /\ \A k \in 1 .. n : g[k] = F[k][g[k - 1]]
    <2>1. Iterations(S, b, F, n) # {}
      BY <1>1, <1>5, <1>7, Iterates
    <2> QED BY <2>1 DEF Iterations
  <1>9. \A k \in 1 .. n : g[k] = Do(g[k - 1], calls[k], k)
    <2> SUFFICES ASSUME NEW k \in 1 .. n PROVE g[k] = Do(g[k - 1], calls[k], k)
      OBVIOUS
    <2>1. g[k - 1] \in S
      BY <1>1
    <2> QED BY <1>6, <1>8, <2>1
  <1>10. g = R(g)
    BY <1>1, <1>8, <1>9 DEF b
  <1> DEFINE f == Called(calls)
  <1>11. f = R(f)
    BY <1>10 DEF Called, n
  <1> HIDE DEF f
  <1>12. f[0] = Empty /\ \A k \in 1 .. n : f[k] = Do(f[k - 1], calls[k], k)
    BY <1>1, <1>11
  <1> DEFINE T == {k \in Nat : k <= n => f[k] \in S}
  <1>13. 0 \in T
    BY <1>2, <1>12
  <1>14. ASSUME NEW k \in T PROVE k + 1 \in T
    <2> SUFFICES ASSUME k + 1 <= n PROVE f[k + 1] \in S
      OBVIOUS
    <2>1. k + 1 \in 1 .. n /\ k + 1 - 1 = k /\ f[k] \in S
      BY <1>1, <1>14
    <2> QED BY <1>3, <1>12, <2>1
  <1>15. T = Nat
    <2>1. T \subseteq Nat
      OBVIOUS
    <2> HIDE DEF T
    <2> QED BY <1>13, <1>14, <2>1, Induction
  <1>16. \A k \in 0 .. n : f[k] \in S
    BY <1>1, <1>15
  <1> QED BY <1>12, <1>16 DEF f, S, n

\* Who holds a key after k calls.
Holders(calls, k) == [key \in Keys |-> {j \in 1 .. k : Holds(calls, k, key, j)}]
\* A call to set adds a holder of its key, a call to erase leaves none.
LEMMA HoldersChange ==
    ASSUME NEW calls \in Seq(Calls), NEW k \in Nat, k < Len(calls)
    PROVE  LET call == calls[k + 1] IN
           Holders(calls, k + 1) = IF call.op = "set"
                                   THEN [Holders(calls, k) EXCEPT ![call.key] = @ \cup {k + 1}]
                                   ELSE [Holders(calls, k) EXCEPT ![call.key] = {}]
PROOF
  <1> DEFINE call == calls[k + 1]
             before == Holders(calls, k)
             after == Holders(calls, k + 1)
  <1>1. call \in Calls
    OBVIOUS
  <1>2. call.key \in Keys /\ call.op \in {"set", "erase"} /\ call = [op |-> call.op, key |-> call.key]
    BY <1>1 DEF Calls
  <1> HIDE DEF call
  <1>3. ASSUME NEW key \in Keys, NEW j \in 1 .. k
        PROVE  Holds(calls, k + 1, key, j) <=> Holds(calls, k, key, j) /\ call # [op |-> "erase", key |-> key]
    <2>1. \A i \in j .. (k + 1) : i \in j .. k \/ i = k + 1
      OBVIOUS
    <2>2. k + 1 \in j .. (k + 1) /\ j .. k \subseteq j .. (k + 1)
      OBVIOUS
    <2> QED BY <2>1, <2>2 DEF Holds, call
  <1>4. ASSUME NEW key \in Keys
        PROVE  Holds(calls, k + 1, key, k + 1) <=> call = [op |-> "set", key |-> key]
    <2>1. (k + 1) .. (k + 1) = {k + 1}
      OBVIOUS
    <2>2. [op |-> "set", key |-> key].op # [op |-> "erase", key |-> key].op
      OBVIOUS
    <2> QED BY <2>1, <2>2 DEF Holds, call
  <1>5. 1 .. (k + 1) = (1 .. k) \cup {k + 1}
    OBVIOUS
  <1>6. ASSUME NEW key \in Keys
        PROVE  after[key] = IF call.key # key THEN before[key]
                            ELSE IF call.op = "set" THEN before[key] \cup {k + 1} ELSE {}
    <2>1. /\ after[key] = {j \in 1 .. (k + 1) : Holds(calls, k + 1, key, j)}
          /\ before[key] = {j \in 1 .. k : Holds(calls, k, key, j)}
      BY DEF Holders
    <2>2. \A op \in {"set", "erase"} : call = [op |-> op, key |-> key] <=> call.op = op /\ call.key = key
      BY <1>2
    <2> QED BY <1>2, <1>3, <1>4, <1>5, <2>1, <2>2
  <1>7. before = [key \in Keys |-> before[key]] /\ after = [key \in Keys |-> after[key]]
    BY DEF Holders
  <1> HIDE DEF before, after
  <1>8. CASE call.op = "set"
    <2>1. after = [before EXCEPT ![call.key] = @ \cup {k + 1}]
      BY <1>2, <1>6, <1>7, <1>8
    <2> QED BY <1>8, <2>1 DEF before, after, call
  <1>9. CASE call.op # "set"
    <2>1. after = [before EXCEPT ![call.key] = {}]
      BY <1>2, <1>6, <1>7, <1>9
    <2> QED BY <1>9, <2>1 DEF before, after, call
  <1> QED BY <1>8, <1>9

\* After every call the table is told what holds.
LEMMA EveryTableIsTold ==
    ASSUME Hashed, NEW calls \in Seq(Calls), NEW k \in 0 .. Len(calls)
    PROVE  Told(Called(calls)[k], Holders(calls, k))
PROOF
  <1> DEFINE n == Len(calls)
             f == Called(calls)
             T == {i \in Nat : i <= n => Told(f[i], Holders(calls, i))}
  <1>1. n \in Nat
    OBVIOUS
  <1>2. 0 \in T
    <2>1. f[0] = Empty
      BY CalledIs
    <2>2. DOMAIN Empty.entries = {}
      BY DEF Empty
    <2>3. \A key \in Keys : Holders(calls, 0)[key] = {}
      BY DEF Holders
    <2> QED BY <2>1, <2>2, <2>3 DEF Told
  <1>3. ASSUME NEW i \in T PROVE i + 1 \in T
    <2> SUFFICES ASSUME i + 1 <= n PROVE Told(f[i + 1], Holders(calls, i + 1))
      OBVIOUS
    <2> DEFINE t == f[i]
               call == calls[i + 1]
               holders == Holders(calls, i)
               later == Holders(calls, i + 1)
    <2>1. i \in Nat /\ i < n /\ Told(t, holders) /\ i \in 0 .. n /\ i + 1 \in 1 .. n
      BY <1>1, <1>3
    <2>2. t \in Tables(Nat) /\ Sound(t)
      BY <2>1, CalledIs
    <2>3. f[i + 1] = Do(t, call, i + 1)
      <3>1. i + 1 - 1 = i
        BY <2>1
      <3> QED BY <2>1, <3>1, CalledIs
    <2>4. holders \in [Keys -> SUBSET Nat]
      BY DEF Holders
    <2>5. \A key \in Keys : \A j \in holders[key] : j < i + 1
      BY <2>1 DEF Holders
    <2>6. call \in Calls
      BY <2>1
    <2>7. call.key \in Keys
      BY <2>6 DEF Calls
    <2>8. later = IF call.op = "set" THEN [holders EXCEPT ![call.key] = @ \cup {i + 1}]
                  ELSE [holders EXCEPT ![call.key] = {}]
      BY <2>1, HoldersChange
    <2> HIDE DEF t, call, holders, later, f, T
    <2>9. CASE call.op = "set"
      <3> DEFINE m == i + 1
                 key == call.key
      <3>1. m \in Nat /\ key \in Keys /\ later = [holders EXCEPT ![key] = @ \cup {m}]
        BY <2>1, <2>7, <2>8, <2>9
      <3>2. \A x \in Keys : \A j \in holders[x] : j < m
        BY <2>5
      <3> HIDE DEF m, key
      <3>3. Told(Set(t, key, m), later)
        BY <2>1, <2>2, <2>4, <3>1, <3>2, SetTells
      <3> QED BY <2>3, <2>9, <3>3 DEF Do, m, key, later
    <2>10. CASE call.op # "set"
      <3> DEFINE key == call.key
      <3>1. key \in Keys /\ later = [holders EXCEPT ![key] = {}]
        BY <2>7, <2>8, <2>10
      <3> HIDE DEF key
      <3>2. Told(Erase(t, key), later)
        BY <2>1, <2>2, <2>4, <3>1, EraseTells
      <3> QED BY <2>3, <2>10, <3>2 DEF Do, key, later
    <2> QED BY <2>9, <2>10
  <1>4. T = Nat
    <2>1. T \subseteq Nat
      OBVIOUS
    <2> HIDE DEF T
    <2> QED BY <1>2, <1>3, <2>1, Induction
  <1> QED BY <1>1, <1>4

\* A table tells of each key what the last call about it left and lists the keys in the order in which
\* they came, for every hash function, every number of keys and every sequence of calls.
THEOREM TablesAnswerTheLastCalls ==
    ASSUME Hashed, NEW calls \in Seq(Calls)
    PROVE  TellsTheLastCalls(calls)
PROOF
  <1> SUFFICES ASSUME NEW k \in 0 .. Len(calls)
               PROVE  LET t == Called(calls)[k]
                          holders(key) == {j \in 1 .. k : Holds(calls, k, key, j)}
                      IN /\ \A key \in DOMAIN Hash :
                               IF holders(key) = {} THEN Find(t, key) = Absent
                               ELSE t.entries[Find(t, key)] = [key |-> key, value |-> Max(holders(key))]
                         /\ \A p, q \in DOMAIN t.entries :
                               p < q => Min(holders(t.entries[p].key)) < Min(holders(t.entries[q].key))
    BY DEF TellsTheLastCalls
  <1> DEFINE t == Called(calls)[k]
             H(key) == {j \in 1 .. k : Holds(calls, k, key, j)}
             holders == Holders(calls, k)
  <1>1. k \in Nat
    OBVIOUS
  <1>2. t \in Tables(Nat) /\ Sound(t)
    BY CalledIs
  <1>3. Told(t, holders)
    BY EveryTableIsTold
  <1>4. \A key \in Keys : holders[key] = H(key) /\ H(key) \subseteq Nat
    BY DEF Holders
  <1>5. \A p \in DOMAIN t.entries : t.entries[p] \in Entries(Nat)
    BY <1>2 DEF Tables
  <1>6. DOMAIN t.entries = 1 .. Len(t.entries) /\ Len(t.entries) \in Nat
    BY <1>2 DEF Tables
  <1>7. \A p \in DOMAIN t.entries : t.entries[p].key \in Keys /\ t.entries[p].value \in Nat
    BY <1>5 DEF Entries
  <1> HIDE DEF t, H, holders
  <1>8. \A p \in DOMAIN t.entries : /\ t.entries[p].value \in H(t.entries[p].key)
                                    /\ \A j \in H(t.entries[p].key) : j <= t.entries[p].value
    BY <1>3, <1>4, <1>7 DEF Told
  <1>9. ASSUME NEW key \in Keys
        PROVE  IF H(key) = {} THEN Find(t, key) = Absent
               ELSE t.entries[Find(t, key)] = [key |-> key, value |-> Max(H(key))]
    <2> DEFINE at == Find(t, key)
    <2>1. at \in 0 .. Len(t.entries) /\ \A p \in DOMAIN t.entries : t.entries[p].key = key <=> p = at
      BY <1>2, FindIs
    <2> HIDE DEF at
    <2>2. CASE H(key) = {}
      <3>1. \A p \in DOMAIN t.entries : t.entries[p].key # key
        BY <1>8, <2>2
      <3> QED BY <1>6, <2>1, <2>2, <3>1 DEF Absent, at
    <2>3. CASE H(key) # {}
      <3>1. PICK p \in DOMAIN t.entries : t.entries[p].key = key
        BY <1>3, <1>4, <2>3 DEF Told
      <3>2. p = at
        BY <2>1, <3>1
      <3> DEFINE v == t.entries[p].value
                 X == H(key)
      <3>3. v \in X /\ v \in Nat /\ X \subseteq Nat /\ \A j \in X : j <= v
        BY <1>4, <1>7, <1>8, <3>1
      <3>4. t.entries[p] = [key |-> key, value |-> v]
        BY <1>5, <3>1 DEF Entries
      <3> HIDE DEF v, X
      <3>5. Max(X) = v
        <4>1. \E x \in X : \A y \in X : x >= y
          BY <3>3
        <4>2. Max(X) \in X /\ \A y \in X : Max(X) >= y
          BY <4>1 DEF Max
        <4> DEFINE m == Max(X)
        <4>3. m \in X /\ m >= v
          BY <3>3, <4>2
        <4> HIDE DEF m
        <4>4. m \in Nat /\ m <= v
          BY <3>3, <4>3
        <4>5. m = v
          BY <3>3, <4>3, <4>4
        <4> QED BY <4>5 DEF m
      <3> QED BY <2>3, <3>2, <3>4, <3>5 DEF at, X
    <2> QED BY <2>2, <2>3
  <1>10. ASSUME NEW p \in DOMAIN t.entries, NEW q \in DOMAIN t.entries, p < q
         PROVE  Min(H(t.entries[p].key)) < Min(H(t.entries[q].key))
    <2> DEFINE X == H(t.entries[p].key)
               Y == H(t.entries[q].key)
    <2>1. X \subseteq Nat /\ Y \subseteq Nat /\ X # {} /\ Y # {}
      BY <1>4, <1>7, <1>8
    <2>2. PICK i \in X : \A j \in Y : i < j
      <3>1. \E i \in holders[t.entries[p].key] : \A j \in holders[t.entries[q].key] : i < j
        BY <1>3, <1>10 DEF Told
      <3>2. holders[t.entries[p].key] = X /\ holders[t.entries[q].key] = Y
        BY <1>4, <1>7
      <3> QED BY <3>1, <3>2
    <2> HIDE DEF X, Y
    <2>3. Min(X) \in X /\ (\A y \in X : Min(X) <= y) /\ Min(Y) \in Y
      BY <2>1, MinIsLeast
    <2> DEFINE a == Min(X)
               b == Min(Y)
    <2>4. a <= i /\ i < b /\ a \in Nat /\ b \in Nat
      BY <2>1, <2>2, <2>3
    <2> HIDE DEF a, b
    <2>5. a < b
      BY <2>1, <2>4
    <2> QED BY <2>5 DEF a, b, X, Y
  <1> QED BY <1>9, <1>10 DEF t, H, Keys
====
