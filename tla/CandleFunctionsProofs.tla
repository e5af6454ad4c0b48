----------------------- MODULE CandleFunctionsProofs -----------------------
(***************************************************************************)
(* Theorems about the functions of CandleSchedules and CandleRequests, for *)
(* every schedule, of a fixed duration or of the calendar's months, any    *)
(* times and limits, and any opens the session policy lets through: the    *)
(* opens they return, the requests they accept, the sections, chunks and   *)
(* ranges they cut, and the historical price; and about those of           *)
(* CandleProviders, for every answer from upstream.  The last part draws   *)
(* from them the invariants of CandleFunctions.                            *)
(*                                                                         *)
(* The loops of the code are recursive functions.  That such a function    *)
(* exists is a fact to be proved, and it is where a loop is shown to end:  *)
(* WalkExists and NoDescent do it once, for a walk whose every step goes   *)
(* down in a well-founded relation.                                        *)
(***************************************************************************)
EXTENDS CandleFunctions, SequenceTheorems, FiniteSetTheorems, WellFoundedInduction, TLAPS

-----------------------------------------------------------------------------
(* A walk that ends at D: what it makes of x is E[x] there, and elsewhere  *)
(* follows by G from what it makes of the next step N[x].                  *)
Descends(S, V, D, N, E, G, R) ==
  /\ D \subseteq S /\ N \in [S -> S] /\ E \in [S -> V] /\ G \in [S \X V -> V]
  /\ IsWellFoundedOn(R, S) /\ \A x \in S \ D : <<N[x], x>> \in R

LEMMA WalkExists ==
  ASSUME NEW S, NEW V, NEW D, NEW N, NEW E, NEW G, NEW R, Descends(S, V, D, N, E, G, R)
  PROVE  \E f \in [S -> V] : \A x \in S : f[x] = IF x \in D THEN E[x] ELSE G[<<x, f[N[x]]>>]
  <1> USE DEF Descends
  <1> DEFINE Sol(A, h) == /\ A \subseteq S /\ h \in [A -> V]
                          /\ \A x \in A : IF x \in D THEN h[x] = E[x]
                                          ELSE N[x] \in A /\ h[x] = G[<<x, h[N[x]]>>]
             Has(x) == \E A, h : x \in A /\ Sol(A, h)
  <1>1. ASSUME NEW A, NEW h, Sol(A, h), NEW B, NEW k, Sol(B, k), NEW x \in A \cap B
        PROVE  h[x] = k[x]
    <2>1. A \cap B \subseteq S
      BY <1>1
    <2>2. \A y \in (A \cap B) \ D : N[y] \in A \cap B /\ <<N[y], y>> \in R
      BY <1>1
    <2>3. \A y \in A \cap B : (y \in D \/ h[N[y]] = k[N[y]]) => h[y] = k[y]
      BY <1>1
    <2> DEFINE T == {y \in A \cap B : h[y] # k[y]}
    <2> HIDE DEF Sol
    <2>4. SUFFICES ASSUME T # {} PROVE FALSE
      BY <1>1
    <2>5. T \subseteq S
      BY <2>1
    <2>6. PICK y \in T : \A z \in T : <<z, y>> \notin R
      BY <2>4, <2>5, WFMin
    <2>7. y \in (A \cap B) \ D /\ h[N[y]] # k[N[y]]
      BY <2>3
    <2>8. QED
      BY <2>2, <2>6, <2>7
  <1>2. ASSUME NEW x \in S, x \in D PROVE Has(x)
    <2>1. Sol({x}, [y \in {x} |-> E[x]])
      BY <1>2
    <2>2. QED
      BY <2>1
  <1>3. ASSUME NEW x \in S, x \notin D, Has(N[x]) PROVE Has(x)
    <2>1. PICK A, h : N[x] \in A /\ Sol(A, h)
      BY <1>3
    <2>2. CASE x \in A
      <3> HIDE DEF Sol
      <3>1. QED
        BY <2>1, <2>2
    <2>3. CASE x \notin A
      <3> DEFINE k == [y \in A \cup {x} |-> IF y = x THEN G[<<x, h[N[x]]>>] ELSE h[y]]
      <3>1. k \in [A \cup {x} -> V]
        BY <2>1
      <3>2. \A y \in A : k[y] = h[y] /\ (y \notin D => N[y] \in A /\ k[N[y]] = h[N[y]])
        BY <2>1, <2>3
      <3>3. N[x] \in A /\ k[N[x]] = h[N[x]] /\ k[x] = G[<<x, h[N[x]]>>]
        BY <2>1, <2>3
      <3> HIDE DEF k
      <3>4. Sol(A \cup {x}, k)
        BY <2>1, <3>1, <3>2, <3>3, <1>3
      <3>5. QED
        BY <3>4
    <2>4. QED
      BY <2>2, <2>3
  <1>4. ASSUME NEW x \in S PROVE Has(x)
    <2> DEFINE T == {y \in S : ~Has(y)}
    <2> HIDE DEF Has
    <2>1. SUFFICES ASSUME T # {} PROVE FALSE
      BY <1>4
    <2>2. PICK y \in T : \A z \in T : <<z, y>> \notin R
      BY <2>1, WFMin
    <2>3. y \in S /\ y \notin D /\ ~Has(N[y])
      BY <2>2, <1>2, <1>3
    <2>4. N[y] \in T /\ <<N[y], y>> \in R
      BY <2>3
    <2>5. QED
      BY <2>2, <2>4
  <1> DEFINE Is(x, v) == \E A, h : x \in A /\ Sol(A, h) /\ v = h[x]
             f == [x \in S |-> CHOOSE v : Is(x, v)]
  <1>5. ASSUME NEW A, NEW h, Sol(A, h), NEW x \in A PROVE f[x] = h[x]
    <2>1. x \in S
      BY <1>5
    <2> HIDE DEF Sol
    <2>2. Is(x, h[x])
      BY <1>5
    <2>3. \A v : Is(x, v) => v = h[x]
      BY <1>1, <1>5
    <2> HIDE DEF Is
    <2>4. QED
      BY <2>1, <2>2, <2>3
  <1>6. ASSUME NEW x \in S
        PROVE  f[x] \in V /\ f[x] = IF x \in D THEN E[x] ELSE G[<<x, f[N[x]]>>]
    <2>1. PICK A, h : x \in A /\ Sol(A, h)
      BY <1>4
    <2>2. f[x] = h[x]
      BY <2>1, <1>5
    <2>3. x \notin D => N[x] \in A /\ f[N[x]] = h[N[x]]
      <3>1. x \notin D => N[x] \in A
        BY <2>1
      <3> HIDE DEF f, Sol
      <3>2. QED
        BY <3>1, <2>1, <1>5
    <2> HIDE DEF f
    <2>4. QED
      BY <2>1, <2>2, <2>3
  <1>7. f \in [S -> V]
    BY <1>6
  <1>8. QED
    BY <1>6, <1>7

-----------------------------------------------------------------------------
(* What goes down, in m and where m stays the same in k, comes to an end.  *)
Lower(S, m, k) ==
  {p \in S \X S : m[p[1]] < m[p[2]] \/ (m[p[1]] = m[p[2]] /\ k[p[1]] < k[p[2]])}

LEMMA SmallestNat ==
  ASSUME NEW S, NEW m \in [S -> Nat], NEW T \in SUBSET S, T # {}
  PROVE  \E x \in T : \A y \in T : m[x] <= m[y]
  <1> DEFINE U == {m[x] : x \in T}
  <1>1. U \subseteq Nat /\ U # {}
    OBVIOUS
  <1> HIDE DEF U
  <1>2. PICK n \in U : \A i \in U : <<i, n>> \notin OpToRel(<, Nat)
    BY <1>1, WFMin, NatLessThanWellFounded
  <1>3. \A i \in U : n <= i
    <2>1. \A i \in U : i \in Nat /\ n \in Nat /\ ~(i < n)
      BY <1>1, <1>2 DEF OpToRel
    <2>2. QED
      BY <2>1
  <1>4. QED
    BY <1>3 DEF U

LEMMA LowerEnds ==
  ASSUME NEW S, NEW m \in [S -> Nat], NEW k \in [S -> Nat]
  PROVE  IsWellFoundedOn(Lower(S, m, k), S)
  <1>1. ASSUME NEW T \in SUBSET S, T # {}
        PROVE  \E x \in T : \A y \in T : <<y, x>> \notin Lower(S, m, k)
    <2>1. PICK a \in T : \A y \in T : m[a] <= m[y]
      BY <1>1, SmallestNat
    <2> DEFINE T2 == {y \in T : m[y] = m[a]}
    <2>2. T2 \in SUBSET S /\ T2 # {}
      BY <2>1
    <2> HIDE DEF T2
    <2>3. PICK x \in T2 : \A y \in T2 : k[x] <= k[y]
      BY <2>2, SmallestNat
    <2>4. ASSUME NEW y \in T PROVE <<y, x>> \notin Lower(S, m, k)
      <3>1. x \in T /\ m[x] = m[a] /\ m[x] \in Nat /\ m[y] \in Nat /\ k[x] \in Nat /\ k[y] \in Nat
        BY <2>3 DEF T2
      <3>2. m[x] <= m[y] /\ (m[y] = m[x] => k[x] <= k[y])
        BY <3>1, <2>1, <2>3 DEF T2
      <3>3. QED
        BY <3>1, <3>2 DEF Lower
    <2>5. QED
      BY <2>3, <2>4 DEF T2
  <1>2. QED
    BY <1>1, MinWF

(* A fault that would always have been there a step earlier is not there.  *)
LEMMA NoDescent ==
  ASSUME NEW S, NEW R, IsWellFoundedOn(R, S), NEW Bad \in SUBSET S,
         \A x \in Bad : \E y \in Bad : <<y, x>> \in R
  PROVE  Bad = {}
  <1>1. SUFFICES ASSUME Bad # {} PROVE FALSE
    OBVIOUS
  <1>2. QED
    BY <1>1, WFMin

(* What holds of no items and goes on from one to the next holds of all.   *)
LEMMA ScanKeeps ==
  ASSUME NEW n \in Nat, NEW Good, 0 \in Good, \A i \in 1 .. n : i - 1 \in Good => i \in Good
  PROVE  n \in Good
  <1> DEFINE S == 0 .. n
             m == [i \in S |-> i]
             R == Lower(S, m, m)
             Bad == S \ Good
  <1>1. ASSUME NEW i \in Bad PROVE \E j \in Bad : <<j, i>> \in R
    <2>1. i \in 1 .. n /\ i - 1 \in S /\ i - 1 \notin Good
      OBVIOUS
    <2>2. <<i - 1, i>> \in R
      BY <2>1 DEF Lower
    <2>3. QED
      BY <2>1, <2>2
  <1>2. m \in [S -> Nat] /\ Bad \in SUBSET S
    OBVIOUS
  <1>3. n \in S
    OBVIOUS
  <1> HIDE DEF m, Bad, S
  <1>4. IsWellFoundedOn(R, S)
    BY <1>2, LowerEnds
  <1> HIDE DEF R
  <1>5. Bad = {}
    BY <1>1, <1>2, <1>4, NoDescent
  <1>6. QED
    BY <1>3, <1>5 DEF Bad

-----------------------------------------------------------------------------
(* Months.                                                                 *)
LEMMA Quotient ==
  \A x \in Int, d \in Nat \ {0} : x \div d \in Int /\ (x \div d) * d <= x /\ x < (x \div d) * d + d
  OBVIOUS

LEMMA DaysIs == \A i \in Int : DaysInMonth(i) \in 28 .. 31
  <1>1. \A k \in 1 .. 12, feb \in {28, 29} :
          <<31, feb, 31, 30, 31, 30, 31, 31, 30, 31, 30, 31>>[k] \in 28 .. 31
    OBVIOUS
  <1>2. ASSUME NEW i \in Int PROVE DaysInMonth(i) \in 28 .. 31
    <2>1. PICK k \in 1 .. 12 : k = (i % 12) + 1
      OBVIOUS
    <2>2. PICK year : year = 1970 + i \div 12
      OBVIOUS
    <2>3. PICK feb \in {28, 29} :
            feb = IF (year % 4 = 0 /\ year % 100 # 0) \/ year % 400 = 0 THEN 29 ELSE 28
      OBVIOUS
    <2>4. DaysInMonth(i) = <<31, feb, 31, 30, 31, 30, 31, 31, 30, 31, 30, 31>>[k]
      BY <2>1, <2>2, <2>3 DEF DaysInMonth
    <2>5. QED
      BY <2>4, <1>1
  <1>3. QED
    BY <1>2

(* The length of a month.                                                  *)
Length(i) == Day * DaysInMonth(i)

LEMMA LengthIs ==
  \A i \in Int : Length(i) \in Int /\ 28 * Day <= Length(i) /\ Length(i) <= 31 * Day /\ Length(i) > 0
  <1>1. ASSUME NEW i \in Int
        PROVE  Length(i) \in Int /\ 28 * Day <= Length(i) /\ Length(i) <= 31 * Day /\ Length(i) > 0
    <2>1. PICK d \in 28 .. 31 : d = DaysInMonth(i)
      BY DaysIs
    <2>2. PICK day \in Nat \ {0} : day = Day
      BY DayAssumption
    <2>3. d = 28 \/ d = 29 \/ d = 30 \/ d = 31
      OBVIOUS
    <2>4. day * d \in Int /\ 28 * day <= day * d /\ day * d <= 31 * day /\ day * d > 0
      BY <2>3
    <2>5. QED
      BY <2>1, <2>2, <2>4 DEF Length
  <1>2. QED
    BY <1>1

LEMMA MonthStartIs ==
  /\ MonthStart \in [Int -> Int] /\ MonthStart[0] = 0
  /\ \A i \in Int : MonthStart[i + 1] = MonthStart[i] + Length(i)
  <1> DEFINE D == {0}
             N == [i \in Int |-> IF i > 0 THEN i - 1 ELSE i + 1]
             E == [i \in Int |-> 0]
             G == [p \in Int \X Int |-> IF p[1] > 0 THEN p[2] + Length(p[1] - 1) ELSE p[2] - Length(p[1])]
             m == [i \in Int |-> IF i < 0 THEN -i ELSE i]
             R == Lower(Int, m, m)
             Is(w) == w = [i \in Int |->
                            IF i = 0 THEN 0 ELSE IF i > 0 THEN w[i - 1] + Day * DaysInMonth(i - 1) ELSE w[i + 1] - Day * DaysInMonth(i)]
  <1>1. D \subseteq Int /\ N \in [Int -> Int] /\ E \in [Int -> Int] /\ m \in [Int -> Nat]
    OBVIOUS
  <1>2. G \in [Int \X Int -> Int]
    BY LengthIs
  <1>3. IsWellFoundedOn(R, Int)
    BY <1>1, LowerEnds
  <1>4. \A i \in Int \ D : <<N[i], i>> \in R
    BY DEF Lower
  <1>5. PICK f \in [Int -> Int] : \A i \in Int : f[i] = IF i \in D THEN E[i] ELSE G[<<i, f[N[i]]>>]
    <2> HIDE DEF D, N, E, G, R
    <2>1. Descends(Int, Int, D, N, E, G, R)
      BY <1>1, <1>2, <1>3, <1>4 DEF Descends
    <2>2. QED
      BY <2>1, WalkExists
  <1>6. ASSUME NEW i \in Int
        PROVE  f[i] = IF i = 0 THEN 0 ELSE IF i > 0 THEN f[i - 1] + Length(i - 1) ELSE f[i + 1] - Length(i)
    <2>1. CASE i = 0
      BY <2>1, <1>5
    <2>2. CASE i > 0
      <3>1. N[i] = i - 1 /\ i - 1 \in Int /\ i \notin D
        BY <2>2
      <3>2. f[i] = G[<<i, f[i - 1]>>] /\ f[i - 1] \in Int
        <4> HIDE DEF D, N, E, G
        <4>1. QED
          BY <3>1, <1>5
      <3>3. QED
        BY <2>2, <3>2
    <2>3. CASE i < 0
      <3>1. N[i] = i + 1 /\ i + 1 \in Int /\ i \notin D
        BY <2>3
      <3>2. f[i] = G[<<i, f[i + 1]>>] /\ f[i + 1] \in Int
        <4> HIDE DEF D, N, E, G
        <4>1. QED
          BY <3>1, <1>5
      <3>3. QED
        BY <2>3, <3>2
    <2>4. i = 0 \/ i > 0 \/ i < 0
      OBVIOUS
    <2>5. QED
      BY <2>1, <2>2, <2>3, <2>4
  <1>7. Is(f)
    BY <1>6 DEF Length
  <1>8. MonthStart = CHOOSE w : Is(w)
    BY DEF MonthStart
  <1>9. Is(MonthStart)
    <2> HIDE DEF Is
    <2>1. QED
      BY <1>7, <1>8
  <1>10. \A i \in Int : MonthStart[i] = IF i = 0 THEN 0 ELSE IF i > 0 THEN MonthStart[i - 1] + Length(i - 1) ELSE MonthStart[i + 1] - Length(i)
    BY <1>9 DEF Length
  <1> DEFINE Bad == {i \in Int : MonthStart[i] \notin Int}
  <1>11. ASSUME NEW i \in Bad PROVE \E j \in Bad : <<j, i>> \in R
    <2>1. i # 0
      BY <1>10
    <2>2. N[i] \in Int /\ <<N[i], i>> \in R
      BY <2>1, <1>4
    <2>3. MonthStart[N[i]] \notin Int
      <3>1. MonthStart[i] \notin Int /\ i \in Int
        OBVIOUS
      <3>2. CASE i > 0
        <4>1. N[i] = i - 1 /\ MonthStart[i] = MonthStart[i - 1] + Length(i - 1) /\ i - 1 \in Int
          BY <3>2, <1>10
        <4>2. QED
          BY <3>1, <4>1, LengthIs
      <3>3. CASE i < 0
        <4>1. N[i] = i + 1 /\ MonthStart[i] = MonthStart[i + 1] - Length(i)
          BY <3>3, <1>10
        <4>2. QED
          BY <3>1, <4>1, LengthIs
      <3>4. QED
        BY <2>1, <3>1, <3>2, <3>3
    <2>4. QED
      BY <2>2, <2>3
  <1>12. Bad = {}
    <2>1. Bad \in SUBSET Int
      OBVIOUS
    <2> HIDE DEF Bad, R
    <2>2. QED
      BY <2>1, <1>3, <1>11, NoDescent
  <1>13. \A i \in Int : MonthStart[i] \in Int
    BY <1>12
  <1>14. DOMAIN MonthStart = Int /\ MonthStart = [i \in Int |-> MonthStart[i]]
    BY <1>9
  <1>15. MonthStart \in [Int -> Int]
    BY <1>13, <1>14
  <1>16. ASSUME NEW i \in Int PROVE MonthStart[i + 1] = MonthStart[i] + Length(i)
    <2>1. PICK j \in Int : j = i + 1
      OBVIOUS
    <2>2. MonthStart[i] \in Int /\ MonthStart[j] \in Int /\ Length(i) \in Int
      BY <1>13, LengthIs
    <2>3. CASE i >= 0
      <3>1. MonthStart[j] = MonthStart[j - 1] + Length(j - 1) /\ j - 1 = i
        BY <2>1, <2>3, <1>10
      <3>2. QED
        BY <2>1, <3>1
    <2>4. CASE i < 0
      <3>1. MonthStart[i] = MonthStart[i + 1] - Length(i)
        BY <2>4, <1>10
      <3>2. QED
        BY <2>1, <2>2, <3>1
    <2>5. QED
      BY <2>3, <2>4
  <1>17. MonthStart[0] = 0
    BY <1>10
  <1>18. QED
    BY <1>15, <1>16, <1>17

(* A month is 28 days at least, so that n months are 28 n.                 *)
LEMMA MonthsApart ==
  ASSUME NEW i \in Int, NEW n \in Nat
  PROVE  MonthStart[i] + n * (28 * Day) <= MonthStart[i + n]
  <1>1. PICK w \in Nat \ {0} : w = 28 * Day
    BY DayAssumption
  <1> DEFINE Good == {k \in 0 .. n : MonthStart[i] + k * w <= MonthStart[i + k]}
  <1>2. \A j \in Int : MonthStart[j] \in Int
    BY MonthStartIs
  <1>3. 0 \in Good
    BY <1>2
  <1>4. ASSUME NEW k \in 1 .. n, k - 1 \in Good PROVE k \in Good
    <2>1. PICK j \in Nat : j = k - 1
      OBVIOUS
    <2>2. MonthStart[i] + j * w <= MonthStart[i + j]
      BY <2>1, <1>4
    <2>3. MonthStart[(i + j) + 1] = MonthStart[i + j] + Length(i + j) /\ w <= Length(i + j) /\ Length(i + j) \in Int
      BY <1>1, MonthStartIs, LengthIs
    <2>4. (i + j) + 1 = i + k /\ k * w = j * w + w /\ j * w \in Int
      BY <2>1
    <2>5. MonthStart[i + j] \in Int /\ MonthStart[i] \in Int
      BY <1>2
    <2>6. MonthStart[i] + k * w <= MonthStart[i + k]
      BY <2>2, <2>3, <2>4, <2>5
    <2>7. QED
      BY <2>6
  <1> HIDE DEF Good
  <1>5. n \in Good
    BY <1>3, <1>4, ScanKeeps
  <1>6. QED
    BY <1>1, <1>5 DEF Good

LEMMA MonthsInOrder == \A i, j \in Int : i < j <=> MonthStart[i] < MonthStart[j]
  <1>1. \A j \in Int : MonthStart[j] \in Int
    BY MonthStartIs
  <1>2. ASSUME NEW i \in Int, NEW j \in Int, i < j PROVE MonthStart[i] < MonthStart[j]
    <2>1. PICK n \in Nat \ {0} : j = i + n
      <3>1. j - i \in Nat \ {0} /\ j = i + (j - i)
        BY <1>2
      <3>2. QED
        BY <3>1
    <2>2. PICK w \in Nat \ {0} : w = 28 * Day
      BY DayAssumption
    <2>3. MonthStart[i] + n * w <= MonthStart[j]
      BY <2>1, <2>2, MonthsApart
    <2>4. n * w > 0
      OBVIOUS
    <2>5. QED
      BY <2>3, <2>4, <1>1
  <1>3. ASSUME NEW i \in Int, NEW j \in Int PROVE i < j <=> MonthStart[i] < MonthStart[j]
    <2>1. i < j \/ i = j \/ j < i
      OBVIOUS
    <2>2. i < j => MonthStart[i] < MonthStart[j]
      BY <1>2
    <2>3. j < i => MonthStart[j] < MonthStart[i]
      BY <1>2
    <2>4. QED
      BY <2>1, <2>2, <2>3, <1>1
  <1>4. QED
    BY <1>3

InMonth(t, i) == MonthStart[i] <= t /\ t < MonthStart[i + 1]

LEMMA OnlyMonth ==
  ASSUME NEW t \in Int, NEW i \in Int, NEW j \in Int, InMonth(t, i), InMonth(t, j)
  PROVE  i = j
  <1>1. \A k \in Int : MonthStart[k] \in Int
    BY MonthStartIs
  <1>2. MonthStart[i] < MonthStart[j + 1] /\ MonthStart[j] < MonthStart[i + 1]
    BY <1>1 DEF InMonth
  <1>3. i < j + 1 /\ j < i + 1
    BY <1>2, MonthsInOrder
  <1>4. QED
    BY <1>3

LEMMA MonthBetween ==
  ASSUME NEW t \in Int, NEW b \in Int, NEW c \in Int, MonthStart[b] <= t, t < MonthStart[c]
  PROVE  \E i \in b .. c - 1 : InMonth(t, i)
  <1>1. \A k \in Int : MonthStart[k] \in Int
    BY MonthStartIs
  <1>2. b < c
    BY <1>1, MonthsInOrder
  <1>3. PICK n \in Nat : c = b + n
    <2>1. c - b \in Nat /\ c = b + (c - b)
      BY <1>2
    <2>2. QED
      BY <2>1
  <1>4. SUFFICES ASSUME \A i \in b .. c - 1 : ~InMonth(t, i) PROVE FALSE
    OBVIOUS
  <1> DEFINE Good == {k \in 0 .. n : MonthStart[b + k] <= t}
  <1>5. 0 \in Good
    OBVIOUS
  <1>6. ASSUME NEW k \in 1 .. n, k - 1 \in Good PROVE k \in Good
    <2>1. PICK i \in b .. c - 1 : i = b + (k - 1) /\ i + 1 = b + k
      BY <1>3
    <2>2. MonthStart[i] <= t /\ ~InMonth(t, i)
      BY <2>1, <1>4, <1>6
    <2>3. MonthStart[b + k] <= t
      BY <2>1, <2>2, <1>1 DEF InMonth
    <2>4. QED
      BY <2>3
  <1> HIDE DEF Good
  <1>7. n \in Good
    BY <1>5, <1>6, ScanKeeps
  <1>8. QED
    BY <1>1, <1>3, <1>7 DEF Good

LEMMA MonthOfIs ==
  ASSUME NEW t \in Int
  PROVE  MonthOf(t) \in Int /\ InMonth(t, MonthOf(t))
  <1>1. PICK w \in Nat \ {0} : w = 28 * Day
    BY DayAssumption
  <1>2. PICK n \in Int : n = t \div w /\ n * w <= t /\ t < n * w + w
    BY Quotient
  <1>3. \A k \in Int : MonthStart[k] \in Int
    BY MonthStartIs
  <1>4. \E i \in (n .. 0) \cup (0 .. n) : InMonth(t, i)
    <2>1. CASE n >= 0
      <3>1. MonthStart[0] + (n + 1) * w <= MonthStart[0 + (n + 1)]
        BY <2>1, <1>1, MonthsApart
      <3>2. n * w \in Nat /\ (n + 1) * w = n * w + w
        BY <2>1
      <3>3. PICK c \in Int : c = n + 1
        OBVIOUS
      <3>4. MonthStart[0] <= t /\ t < MonthStart[c]
        BY <3>1, <3>2, <3>3, <1>2, <1>3, MonthStartIs
      <3>5. PICK i \in 0 .. c - 1 : InMonth(t, i)
        BY <3>3, <3>4, MonthBetween
      <3>6. QED
        BY <3>3, <3>5
    <2>2. CASE n < 0
      <3>1. PICK k \in Nat : k = -n
        BY <2>2
      <3>2. MonthStart[n] + k * w <= MonthStart[n + k] /\ n + k = 0
        BY <3>1, <1>1, MonthsApart
      <3>3. k * w = -(n * w) /\ n * w \in Int /\ n * w + w <= 0
        <4>1. k * w = -(n * w) /\ n * w \in Int /\ n * w + w = (n + 1) * w
          BY <3>1
        <4>2. PICK j \in Nat : j = -(n + 1)
          BY <2>2
        <4>3. (n + 1) * w = -(j * w) /\ j * w \in Nat
          BY <4>2
        <4>4. QED
          BY <4>1, <4>3
      <3>4. MonthStart[n] <= t /\ t < MonthStart[0]
        BY <3>2, <3>3, <1>2, <1>3, MonthStartIs
      <3>5. PICK i \in n .. 0 - 1 : InMonth(t, i)
        BY <3>4, MonthBetween
      <3>6. QED
        BY <3>5
    <2>3. QED
      BY <2>1, <2>2
  <1>5. MonthOf(t) = CHOOSE i \in (n .. 0) \cup (0 .. n) : InMonth(t, i)
    BY <1>1, <1>2 DEF MonthOf, InMonth
  <1>6. QED
    BY <1>4, <1>5

(* A month starts at midnight.                                             *)
LEMMA MonthsAreDays ==
  ASSUME NEW i \in Int
  PROVE  \E q \in Int : MonthStart[i] = Day * q
  <1>1. PICK d \in Nat \ {0} : d = Day
    BY DayAssumption
  <1>2. PICK n \in Nat : n = IF i < 0 THEN -i ELSE i
    OBVIOUS
  <1> DEFINE Nth(k) == IF i < 0 THEN 0 - k ELSE k
             Good == {k \in 0 .. n : \E q \in Int : MonthStart[Nth(k)] = d * q}
  <1>3. 0 \in Good
    <2>1. Nth(0) = 0
      OBVIOUS
    <2>2. MonthStart[0] = 0 /\ d * 0 = 0
      BY MonthStartIs
    <2> HIDE DEF At
    <2>3. QED
      BY <2>1, <2>2
  <1>4. ASSUME NEW k \in 1 .. n, k - 1 \in Good PROVE k \in Good
    <2>1. PICK q \in Int : MonthStart[Nth(k - 1)] = d * q
      BY <1>4
    <2>2. PICK j \in Int : j = IF i < 0 THEN Nth(k) ELSE Nth(k - 1)
      OBVIOUS
    <2>3. PICK m \in 28 .. 31 : m = DaysInMonth(j)
      BY DaysIs
    <2>4. MonthStart[j + 1] = MonthStart[j] + d * m /\ MonthStart[j] \in Int /\ MonthStart[j + 1] \in Int
      BY <2>3, <1>1, MonthStartIs DEF Length
    <2>5. d * (q + m) = d * q + d * m /\ d * (q - m) = d * q - d * m /\ d * m \in Int /\ d * q \in Int
      OBVIOUS
    <2>6. CASE i < 0
      <3>1. j = Nth(k) /\ j + 1 = Nth(k - 1)
        BY <2>2, <2>6
      <3> HIDE DEF At
      <3>2. MonthStart[Nth(k)] = d * (q - m) /\ q - m \in Int
        BY <3>1, <2>1, <2>4, <2>5
      <3>3. \E p \in Int : MonthStart[Nth(k)] = d * p
        <4>1. PICK p \in Int : p = q - m
          OBVIOUS
        <4>2. QED
          BY <3>2, <4>1
      <3>4. k \in 0 .. n
        OBVIOUS
      <3>5. QED
        BY <3>3, <3>4
    <2>7. CASE ~(i < 0)
      <3>1. j = Nth(k - 1) /\ j + 1 = Nth(k)
        BY <2>2, <2>7
      <3> HIDE DEF At
      <3>2. MonthStart[Nth(k)] = d * (q + m) /\ q + m \in Int
        BY <3>1, <2>1, <2>4, <2>5
      <3>3. \E p \in Int : MonthStart[Nth(k)] = d * p
        <4>1. PICK p \in Int : p = q + m
          OBVIOUS
        <4>2. QED
          BY <3>2, <4>1
      <3>4. k \in 0 .. n
        OBVIOUS
      <3>5. QED
        BY <3>3, <3>4
    <2>8. QED
      BY <2>6, <2>7
  <1>5. Nth(n) = i
    BY <1>2
  <1> HIDE DEF Good
  <1>6. n \in Good
    BY <1>3, <1>4, ScanKeeps
  <1>7. QED
    BY <1>1, <1>5, <1>6 DEF Good

(* add_month goes to the same day of the month, or to its last: the first  *)
(* instant of a month is reached from that of another, and from no other.  *)
LEMMA AddMonthIs ==
  ASSUME NEW t \in Int, NEW k \in Int, NEW i \in Int, InMonth(t, i)
  PROVE  /\ AddMonth(t, k) \in Int /\ InMonth(AddMonth(t, k), i + k)
         /\ AddMonth(t, k) = MonthStart[i + k] <=> t = MonthStart[i]
  <1>1. PICK d \in Nat \ {0} : d = Day
    BY DayAssumption
  <1>2. PICK to \in Int : to = i + k
    OBVIOUS
  <1>3. PICK a \in Int, b \in Int : a = MonthStart[i] /\ b = MonthStart[to]
    BY MonthStartIs
  <1>4. PICK last \in 27 .. 30 : last = DaysInMonth(to) - 1
    <2>1. PICK m \in 28 .. 31 : m = DaysInMonth(to)
      BY DaysIs
    <2>2. m - 1 \in 27 .. 30
      OBVIOUS
    <2>3. QED
      BY <2>1, <2>2
  <1>5. a <= t
    BY <1>3 DEF InMonth
  <1>6. PICK q \in Int : a = d * q
    BY <1>1, <1>3, MonthsAreDays
  <1>7. PICK r \in 0 .. d - 1 : r = t % d
    OBVIOUS
  <1>8. PICK day \in Nat : day = (t - a) \div d /\ t - a = d * day + r
    <2>1. PICK p \in Int : p = t \div d /\ t = d * p + r
      BY <1>7
    <2>2. d * p = d * q + d * (p - q) /\ d * q \in Int /\ d * p \in Int /\ d * (p - q) \in Int
      OBVIOUS
    <2>3. PICK s \in Int : s = p - q
      OBVIOUS
    <2>4. t - a = d * s + r
      BY <2>1, <2>2, <2>3, <1>6
    <2>5. s \in Nat
      <3>1. SUFFICES ASSUME s < 0 PROVE FALSE
        OBVIOUS
      <3>2. PICK u \in Nat : u = -(s + 1)
        BY <3>1
      <3>3. d * s = -(d * u) - d /\ d * u \in Nat
        BY <3>2
      <3>4. QED
        BY <3>3, <2>4, <1>5
    <2>6. (t - a) \div d = s
      BY <2>4
    <2>7. QED
      BY <2>3, <2>4, <2>5, <2>6
  <1>9. PICK x \in 0 .. last : x = IF day < last THEN day ELSE last
    OBVIOUS
  <1>10. MonthOf(t) = i
    BY MonthOfIs, OnlyMonth
  <1>11. AddMonth(t, k) = b + d * x + r
    BY <1>1, <1>2, <1>3, <1>4, <1>7, <1>8, <1>9, <1>10 DEF AddMonth
  <1>12. MonthStart[to + 1] = b + d * (last + 1)
    <2>1. DaysInMonth(to) = last + 1
      <3>1. DaysInMonth(to) \in Int
        BY DaysIs
      <3>2. QED
        BY <3>1, <1>4
    <2>2. QED
      BY <2>1, <1>1, <1>3, MonthStartIs DEF Length
  <1>13. 0 <= d * x /\ d * x <= d * last /\ d * (last + 1) = d * last + d /\ d * x \in Int /\ d * last \in Int
    OBVIOUS
  <1>14. d * x = 0 <=> x = 0
    OBVIOUS
  <1>15. d * day = 0 <=> day = 0
    OBVIOUS
  <1>16. x = 0 <=> day = 0
    BY <1>9
  <1>17. d * day \in Nat
    OBVIOUS
  <1> DEFINE y == d * x
             z == d * day
  <1>18. y \in Nat /\ z \in Nat /\ (y = 0 <=> z = 0) /\ t - a = z + r /\ AddMonth(t, k) = b + y + r
    BY <1>8, <1>11, <1>13, <1>14, <1>15, <1>16, <1>17
  <1>19. y + r < d * (last + 1)
    BY <1>13
  <1> HIDE DEF y, z
  <1>20. b + y + r \in Int /\ b <= b + y + r /\ (b + y + r = b <=> t = a)
    BY <1>18
  <1>21. b + y + r < MonthStart[to + 1]
    <2>1. PICK v \in Int : v = d * (last + 1)
      OBVIOUS
    <2>2. QED
      BY <2>1, <1>12, <1>18, <1>19
  <1>22. QED
    BY <1>2, <1>3, <1>18, <1>20, <1>21 DEF InMonth

-----------------------------------------------------------------------------
(* The grid of a schedule of a fixed duration.                             *)
Fixed(sch) == ~sch.month /\ sch.duration \in Nat \ {0} /\ sch.offset \in Int
FixedOpens(sch) == {sch.offset + k * sch.duration : k \in Int}

LEMMA FixedStep ==
  ASSUME NEW sch, Fixed(sch), NEW c \in Int
  PROVE  /\ EndAfter(sch, c) = c + sch.duration
         /\ Step(sch, c, -1) = c - sch.duration
         /\ \A k \in Int : Step(sch, c, k) = c + k * sch.duration
  BY DEF Fixed, EndAfter, Step

LEMMA FixedOpensAreInt == ASSUME NEW sch, Fixed(sch) PROVE FixedOpens(sch) \subseteq Int
  BY DEF Fixed, FixedOpens

(* The grid goes on from an open in both directions, and from no other.    *)
LEMMA FixedOpensGoOn ==
  ASSUME NEW sch, Fixed(sch), NEW c \in Int
  PROVE  /\ c \in FixedOpens(sch) <=> c + sch.duration \in FixedOpens(sch)
         /\ c \in FixedOpens(sch) <=> c - sch.duration \in FixedOpens(sch)
  <1> DEFINE d == sch.duration
             a == sch.offset
  <1>1. d \in Int /\ a \in Int
    BY DEF Fixed
  <1>2. \A k \in Int : a + (k + 1) * d = a + k * d + d /\ a + (k - 1) * d = a + k * d - d
    BY <1>1
  <1>3. \A b \in Int : b \in FixedOpens(sch) => b + d \in FixedOpens(sch) /\ b - d \in FixedOpens(sch)
    <2> TAKE b \in Int
    <2> HAVE b \in FixedOpens(sch)
    <2>1. PICK k \in Int : b = a + k * d
      BY DEF FixedOpens
    <2>2. b + d = a + (k + 1) * d /\ b - d = a + (k - 1) * d
      BY <2>1, <1>1, <1>2
    <2>3. QED
      BY <2>2 DEF FixedOpens
  <1>4. c + d \in Int /\ c - d \in Int /\ (c + d) - d = c /\ (c - d) + d = c
    BY <1>1
  <1>5. QED
    BY <1>3, <1>4

(* Two opens are a candle apart at least.                                  *)
LEMMA FixedOpensApart ==
  ASSUME NEW sch, Fixed(sch), NEW b \in FixedOpens(sch), NEW c \in FixedOpens(sch), b < c
  PROVE  b + sch.duration <= c
  <1> DEFINE d == sch.duration
             a == sch.offset
  <1>1. d \in Nat \ {0} /\ a \in Int
    BY DEF Fixed
  <1>2. PICK j \in Int, k \in Int : b = a + j * d /\ c = a + k * d
    BY DEF FixedOpens
  <1>3. j < k
    <2>1. SUFFICES ASSUME k <= j PROVE FALSE
      BY <1>2
    <2>2. PICK m \in Nat : j = k + m
      BY <2>1
    <2>3. j * d = k * d + m * d /\ m * d \in Nat /\ k * d \in Int
      BY <2>2, <1>1
    <2>4. QED
      BY <2>3, <1>1, <1>2
  <1>4. PICK m \in Nat : k = j + 1 + m
    BY <1>3
  <1>5. k * d = j * d + d + m * d /\ m * d \in Nat /\ j * d \in Int
    BY <1>4, <1>1
  <1>6. QED
    BY <1>5, <1>2, <1>1

(* The first open at or after a time is the first one.                     *)
LEMMA FixedFirstOpen ==
  ASSUME NEW sch, Fixed(sch), NEW t \in Int
  PROVE  /\ FirstOpen(sch, t) \in FixedOpens(sch)
         /\ t <= FirstOpen(sch, t) /\ FirstOpen(sch, t) < t + sch.duration
         /\ t \in FixedOpens(sch) <=> FirstOpen(sch, t) = t
  <1> DEFINE d == sch.duration
             a == sch.offset
             q == (t - a) \div d
             c == a + q * d
             u == FirstOpen(sch, t)
  <1>1. d \in Nat \ {0} /\ a \in Int /\ t - a \in Int
    BY DEF Fixed
  <1>2. q \in Int /\ q * d <= t - a /\ t - a < q * d + d
    BY <1>1, Quotient
  <1>3. c \in FixedOpens(sch) /\ c \in Int
    BY <1>1, <1>2 DEF FixedOpens
  <1>4. c + d \in FixedOpens(sch)
    BY <1>3, FixedOpensGoOn
  <1>5. u = IF c < t THEN c + d ELSE c
    BY DEF FirstOpen, Fixed
  <1> HIDE DEF c, u, q
  <1>6. c <= t /\ t < c + d
    BY <1>1, <1>2 DEF c
  <1>7. u \in FixedOpens(sch) /\ t <= u /\ u < t + d /\ u \in Int
    BY <1>1, <1>3, <1>4, <1>5, <1>6
  <1>8. t \in FixedOpens(sch) => u = t
    <2>1. SUFFICES ASSUME t \in FixedOpens(sch), t < u PROVE FALSE
      BY <1>7
    <2>2. t + d <= u
      BY <2>1, <1>7, FixedOpensApart
    <2>3. QED
      BY <2>2, <1>7, <1>1
  <1>9. QED
    BY <1>7, <1>8 DEF u

-----------------------------------------------------------------------------
(* The grid of any schedule, of a fixed duration or of months.             *)
Schedule(sch) == sch.month \/ Fixed(sch)
Opens(sch) == IF sch.month THEN {MonthStart[i] : i \in Int} ELSE FixedOpens(sch)

LEMMA MonthStartInMonth ==
  ASSUME NEW i \in Int
  PROVE  MonthStart[i] \in Int /\ InMonth(MonthStart[i], i)
  <1>1. MonthStart[i] \in Int /\ MonthStart[i + 1] \in Int /\ MonthStart[i] < MonthStart[i + 1]
    BY MonthStartIs, MonthsInOrder
  <1>2. QED
    BY <1>1 DEF InMonth

LEMMA MonthStep ==
  ASSUME NEW i \in Int, NEW k \in Int
  PROVE  AddMonth(MonthStart[i], k) = MonthStart[i + k]
  BY MonthStartInMonth, AddMonthIs

LEMMA OpensAreInt == ASSUME NEW sch, Schedule(sch) PROVE Opens(sch) \subseteq Int
  BY FixedOpensAreInt, MonthStartIs DEF Schedule, Opens

(* From an open the loops come to opens, and from no other time.           *)
LEMMA StepIs ==
  ASSUME NEW sch, Schedule(sch), NEW c \in Int
  PROVE  /\ EndAfter(sch, c) \in Int /\ c < EndAfter(sch, c)
         /\ Step(sch, c, -1) \in Int /\ Step(sch, c, -1) < c
         /\ c \in Opens(sch) <=> EndAfter(sch, c) \in Opens(sch)
         /\ c \in Opens(sch) <=> Step(sch, c, -1) \in Opens(sch)
  <1>1. CASE sch.month
    <2>1. PICK i \in Int : InMonth(c, i)
      BY MonthOfIs
    <2>2. ASSUME NEW k \in Int
          PROVE  /\ AddMonth(c, k) \in Int /\ InMonth(AddMonth(c, k), i + k)
                 /\ c \in Opens(sch) <=> AddMonth(c, k) \in Opens(sch)
      <3>1. PICK b \in Int : b = AddMonth(c, k) /\ InMonth(b, i + k) /\ (b = MonthStart[i + k] <=> c = MonthStart[i])
        BY <2>1, AddMonthIs
      <3>2. \A j \in Int : c = MonthStart[j] => j = i
        BY <2>1, MonthStartInMonth, OnlyMonth
      <3>3. \A j \in Int : b = MonthStart[j] => j = i + k
        <4>1. PICK h \in Int : h = i + k /\ InMonth(b, h)
          BY <3>1
        <4>2. QED
          BY <4>1, MonthStartInMonth, OnlyMonth
      <3>4. (c \in Opens(sch) <=> c = MonthStart[i]) /\ (b \in Opens(sch) <=> b = MonthStart[i + k])
        BY <1>1, <3>2, <3>3 DEF Opens
      <3>5. QED
        BY <3>1, <3>4
    <2>3. \A j \in Int : MonthStart[j] \in Int
      BY MonthStartIs
    <2>4. PICK one \in Int, back \in Int : one = 1 /\ back = -1
      OBVIOUS
    <2>5. EndAfter(sch, c) = AddMonth(c, one) /\ Step(sch, c, -1) = AddMonth(c, back)
      BY <1>1, <2>4 DEF EndAfter, Step
    <2>6. c < AddMonth(c, one)
      <3>1. AddMonth(c, one) \in Int /\ MonthStart[i + 1] <= AddMonth(c, one) /\ c < MonthStart[i + 1]
        BY <2>1, <2>2, <2>4 DEF InMonth
      <3>2. QED
        BY <3>1, <2>3
    <2>7. AddMonth(c, back) < c
      <3>1. AddMonth(c, back) \in Int /\ InMonth(AddMonth(c, back), i + back)
        BY <2>2
      <3>2. (i + back) + 1 = i
        BY <2>4
      <3>3. AddMonth(c, back) < MonthStart[i] /\ MonthStart[i] <= c
        BY <3>1, <3>2, <2>1 DEF InMonth
      <3>4. QED
        BY <3>1, <3>3, <2>3
    <2>8. QED
      BY <2>2, <2>5, <2>6, <2>7
  <1>2. CASE ~sch.month
    <2>1. Fixed(sch) /\ Opens(sch) = FixedOpens(sch)
      BY <1>2 DEF Schedule, Opens
    <2>2. PICK d \in Nat \ {0} : d = sch.duration
      BY <2>1 DEF Fixed
    <2>3. EndAfter(sch, c) = c + d /\ Step(sch, c, -1) = c - d
      BY <2>1, <2>2, FixedStep
    <2>4. /\ c \in Opens(sch) <=> c + d \in Opens(sch)
          /\ c \in Opens(sch) <=> c - d \in Opens(sch)
      <3>1. /\ c \in FixedOpens(sch) <=> c + sch.duration \in FixedOpens(sch)
            /\ c \in FixedOpens(sch) <=> c - sch.duration \in FixedOpens(sch)
        BY <2>1, FixedOpensGoOn
      <3>2. QED
        BY <3>1, <2>1, <2>2, Zenon
    <2>5. QED
      BY <2>3, <2>4
  <1>3. QED
    BY <1>1, <1>2

(* No open is between an open and the next.                                *)
LEMMA OpensFollow ==
  ASSUME NEW sch, Schedule(sch), NEW b \in Opens(sch), NEW c \in Opens(sch), b < c
  PROVE  EndAfter(sch, b) <= c /\ b <= Step(sch, c, -1)
  <1>1. CASE sch.month
    <2>1. PICK i \in Int, j \in Int : b = MonthStart[i] /\ c = MonthStart[j]
      BY <1>1 DEF Opens
    <2>2. i < j
      BY <2>1, MonthsInOrder
    <2>3. PICK h \in Int, g \in Int : h = i + 1 /\ g = j - 1
      OBVIOUS
    <2>4. EndAfter(sch, b) = MonthStart[h] /\ Step(sch, c, -1) = MonthStart[g]
      <3>1. AddMonth(MonthStart[i], 1) = MonthStart[i + 1]
        BY MonthStep
      <3>2. PICK back \in Int : back = -1
        OBVIOUS
      <3>3. AddMonth(MonthStart[j], back) = MonthStart[j + back] /\ j + back = g
        BY <3>2, <2>3, MonthStep
      <3>4. QED
        BY <3>1, <3>2, <3>3, <2>1, <2>3, <1>1 DEF EndAfter, Step
    <2>5. ~(j < h) /\ ~(g < i)
      BY <2>2, <2>3
    <2>6. ~(MonthStart[j] < MonthStart[h]) /\ ~(MonthStart[g] < MonthStart[i])
      BY <2>5, MonthsInOrder
    <2>7. QED
      BY <2>1, <2>4, <2>6, MonthStartIs
  <1>2. CASE ~sch.month
    <2>1. Fixed(sch) /\ b \in FixedOpens(sch) /\ c \in FixedOpens(sch)
      BY <1>2 DEF Schedule, Opens
    <2>2. PICK d \in Nat \ {0} : d = sch.duration
      BY <2>1 DEF Fixed
    <2>3. b \in Int /\ c \in Int /\ b + d <= c
      BY <2>1, <2>2, FixedOpensApart, FixedOpensAreInt
    <2>4. EndAfter(sch, b) = b + d /\ Step(sch, c, -1) = c - d
      BY <2>1, <2>2, <2>3, FixedStep
    <2>5. QED
      BY <2>2, <2>3, <2>4
  <1>3. QED
    BY <1>1, <1>2

LEMMA FirstOpenIs ==
  ASSUME NEW sch, Schedule(sch), NEW t \in Int
  PROVE  /\ FirstOpen(sch, t) \in Opens(sch) /\ FirstOpen(sch, t) \in Int /\ t <= FirstOpen(sch, t)
         /\ t \in Opens(sch) <=> FirstOpen(sch, t) = t
         /\ \A o \in Opens(sch) : t <= o => FirstOpen(sch, t) <= o
  <1>1. CASE sch.month
    <2>1. PICK i \in Int : i = MonthOf(t) /\ InMonth(t, i)
      BY MonthOfIs
    <2>2. PICK a \in Int, b \in Int : a = MonthStart[i] /\ b = MonthStart[i + 1]
      BY MonthStartIs
    <2>3. a <= t /\ t < b
      BY <2>1, <2>2 DEF InMonth
    <2>4. AddMonth(a, 1) = b
      BY <2>2, MonthStep
    <2>5. FirstOpen(sch, t) = IF a < t THEN b ELSE a
      BY <1>1, <2>1, <2>2, <2>4 DEF FirstOpen, FirstMonthAtOrAfter
    <2>6. a \in Opens(sch) /\ b \in Opens(sch)
      BY <1>1, <2>2 DEF Opens
    <2>7. \A o \in Opens(sch) : o \in Int /\ (o <= a \/ b <= o)
      <3>1. ASSUME NEW o \in Opens(sch) PROVE o \in Int /\ (o <= a \/ b <= o)
        <4>1. PICK j \in Int : o = MonthStart[j]
          BY <1>1 DEF Opens
        <4>2. ~(i < j) \/ ~(j < i + 1)
          OBVIOUS
        <4>3. ~(a < o) \/ ~(o < b)
          BY <4>1, <4>2, <2>2, MonthsInOrder
        <4>4. o \in Int
          BY <4>1, MonthStartIs
        <4>5. QED
          BY <4>3, <4>4
      <3>2. QED
        BY <3>1
    <2>8. QED
      BY <2>3, <2>5, <2>6, <2>7
  <1>2. CASE ~sch.month
    <2>1. Fixed(sch) /\ Opens(sch) = FixedOpens(sch)
      BY <1>2 DEF Schedule, Opens
    <2>2. PICK d \in Nat \ {0} : d = sch.duration
      BY <2>1 DEF Fixed
    <2>3. PICK u \in Int : /\ u = FirstOpen(sch, t) /\ u \in Opens(sch) /\ t <= u /\ u < t + d
                           /\ t \in Opens(sch) <=> u = t
      BY <2>1, <2>2, FixedFirstOpen, FixedOpensAreInt
    <2>4. ASSUME NEW o \in Opens(sch), t <= o PROVE u <= o
      <3>1. o \in Int /\ (o < u => o + d <= u)
        BY <2>1, <2>2, <2>3, FixedOpensApart, FixedOpensAreInt
      <3>2. QED
        BY <3>1, <2>3, <2>4
    <2>5. QED
      BY <2>3, <2>4
  <1>3. QED
    BY <1>1, <1>2

(* No open is between a time and the first open at or after it.            *)
LEMMA NoneBeforeFirst ==
  ASSUME NEW sch, Schedule(sch), NEW s \in Int, NEW o \in Opens(sch)
  PROVE  s <= o <=> FirstOpen(sch, s) <= o
  <1>1. PICK u \in Int : u = FirstOpen(sch, s)
    BY FirstOpenIs
  <1>2. s <= u /\ (s <= o => u <= o)
    BY <1>1, FirstOpenIs
  <1>3. o \in Int
    BY OpensAreInt
  <1>4. QED
    BY <1>1, <1>2, <1>3


(* A step of n candles, and the opens that are within it.                  *)
LEMMA StepsGoOn ==
  ASSUME NEW sch, Schedule(sch), NEW c \in Int, NEW n \in Nat \ {0}
  PROVE  Step(sch, c, n) \in Int /\ c < Step(sch, c, n)
  <1>1. CASE sch.month
    <2>1. PICK i \in Int : InMonth(c, i)
      BY MonthOfIs
    <2>2. PICK b \in Int : b = AddMonth(c, n) /\ InMonth(b, i + n)
      BY <2>1, AddMonthIs
    <2>3. PICK h \in Int, g \in Int : h = i + 1 /\ g = i + n /\ ~(g < h)
      OBVIOUS
    <2>4. MonthStart[h] \in Int /\ MonthStart[g] \in Int /\ ~(MonthStart[g] < MonthStart[h])
      BY <2>3, MonthsInOrder, MonthStartIs
    <2>5. c < MonthStart[h] /\ MonthStart[g] <= b
      BY <2>1, <2>2, <2>3 DEF InMonth
    <2>6. QED
      BY <1>1, <2>2, <2>4, <2>5 DEF Step
  <1>2. CASE ~sch.month
    <2>1. Fixed(sch)
      BY <1>2 DEF Schedule
    <2>2. PICK d \in Nat \ {0} : d = sch.duration
      BY <2>1 DEF Fixed
    <2>3. PICK k \in Nat \ {0} : k = n * d
      BY <2>2
    <2>4. Step(sch, c, n) = c + k
      BY <2>1, <2>2, <2>3, FixedStep
    <2>5. QED
      BY <2>4
  <1>3. QED
    BY <1>1, <1>2

LEMMA StepsAdd ==
  ASSUME NEW sch, Schedule(sch), NEW b \in Opens(sch), NEW n \in Nat
  PROVE  Step(sch, b, n + 1) = EndAfter(sch, Step(sch, b, n))
  <1>1. CASE sch.month
    <2>1. PICK i \in Int : b = MonthStart[i]
      BY <1>1 DEF Opens
    <2>2. PICK j \in Int : j = i + n
      OBVIOUS
    <2>3. AddMonth(b, n) = MonthStart[j]
      BY <2>1, <2>2, MonthStep
    <2>4. AddMonth(b, n + 1) = MonthStart[j + 1]
      <3>1. PICK k \in Int : k = n + 1 /\ i + k = j + 1
        BY <2>2
      <3>2. AddMonth(b, k) = MonthStart[i + k]
        BY <2>1, MonthStep
      <3>3. QED
        BY <3>1, <3>2
    <2>5. AddMonth(MonthStart[j], 1) = MonthStart[j + 1]
      BY MonthStep
    <2>6. QED
      BY <1>1, <2>3, <2>4, <2>5 DEF EndAfter, Step
  <1>2. CASE ~sch.month
    <2>1. Fixed(sch) /\ b \in Int
      BY <1>2, OpensAreInt DEF Schedule
    <2>2. PICK d \in Nat \ {0} : d = sch.duration
      BY <2>1 DEF Fixed
    <2>3. PICK x \in Int : x = n * d /\ (n + 1) * d = x + d
      BY <2>2
    <2>4. Step(sch, b, n) = b + x /\ Step(sch, b, n + 1) = b + (x + d)
      BY <2>1, <2>2, <2>3, FixedStep
    <2>5. EndAfter(sch, b + x) = (b + x) + d
      BY <2>1, <2>2, <2>3, FixedStep
    <2>6. QED
      BY <2>1, <2>2, <2>3, <2>4, <2>5
  <1>3. QED
    BY <1>1, <1>2
-----------------------------------------------------------------------------
(* The sequence s has the times of X, in order, each once.                 *)
Lists(s, X) ==
  /\ s \in Seq(Int) /\ ToSet(s) = X
  /\ \A i, j \in DOMAIN s : i < j => s[i] < s[j]

LEMMA ListsNone == Lists(<<>>, {})
  BY DEF Lists, ToSet

LEMMA ListsOpen ==
  ASSUME NEW c \in Int, NEW El
  PROVE  /\ IfOpen(El, c) \in Seq(Int)
         /\ Lists(IfOpen(El, c), El \cap {c})
         /\ Len(IfOpen(El, c)) = IF c \in El THEN 1 ELSE 0
  <1>1. CASE c \in El
    <2>1. IfOpen(El, c) = <<c>> /\ <<c>> \in Seq(Int) /\ Len(<<c>>) = 1 /\ DOMAIN <<c>> = {1} /\ <<c>>[1] = c
      BY <1>1 DEF IfOpen
    <2>2. ToSet(<<c>>) = El \cap {c}
      BY <2>1, <1>1 DEF ToSet
    <2>3. Lists(<<c>>, El \cap {c})
      BY <2>1, <2>2 DEF Lists
    <2>4. QED
      BY <2>1, <2>3, <1>1
  <1>2. CASE c \notin El
    <2>1. IfOpen(El, c) = <<>> /\ El \cap {c} = {}
      BY <1>2 DEF IfOpen
    <2>2. <<>> \in Seq(Int) /\ Len(<<>>) = 0
      OBVIOUS
    <2>3. Lists(IfOpen(El, c), El \cap {c})
      BY <2>1, ListsNone
    <2>4. QED
      BY <2>1, <2>2, <2>3, <1>2
  <1>3. QED
    BY <1>1, <1>2

LEMMA ListsConcat ==
  ASSUME NEW a, NEW X, NEW b, NEW Y, Lists(a, X), Lists(b, Y), \A x \in X, y \in Y : x < y
  PROVE  Lists(a \o b, X \cup Y)
  <1> DEFINE s == a \o b
             n == Len(a)
             m == Len(b)
  <1>1. a \in Seq(Int) /\ b \in Seq(Int) /\ n \in Nat /\ m \in Nat /\ DOMAIN a = 1 .. n /\ DOMAIN b = 1 .. m
    BY DEF Lists
  <1>2. s \in Seq(Int) /\ DOMAIN s = 1 .. n + m
    BY <1>1
  <1>3. \A i \in 1 .. n + m : s[i] = IF i <= n THEN a[i] ELSE b[i - n]
    BY <1>1
  <1>4. \A i \in 1 .. n : s[i] = a[i] /\ a[i] \in X
    BY <1>1, <1>3 DEF Lists, ToSet
  <1>5. \A i \in 1 .. m : n + i \in 1 .. n + m /\ s[n + i] = b[i] /\ b[i] \in Y
    BY <1>1, <1>3 DEF Lists, ToSet
  <1>6. \A i \in 1 .. n + m : i \notin 1 .. n => i - n \in 1 .. m /\ s[i] = b[i - n] /\ b[i - n] \in Y
    BY <1>1, <1>3 DEF Lists, ToSet
  <1> HIDE DEF s, n, m
  <1>7. ToSet(s) = X \cup Y
    <2>1. X = {a[i] : i \in 1 .. n} /\ Y = {b[i] : i \in 1 .. m}
      BY <1>1 DEF Lists, ToSet
    <2>2. ToSet(s) = {s[i] : i \in 1 .. n + m}
      BY <1>2 DEF ToSet
    <2>3. ASSUME NEW x \in X PROVE x \in ToSet(s)
      <3>1. PICK i \in 1 .. n : x = a[i]
        BY <2>1
      <3>2. QED
        BY <3>1, <1>1, <1>4, <2>2
    <2>4. ASSUME NEW y \in Y PROVE y \in ToSet(s)
      <3>1. PICK i \in 1 .. m : y = b[i]
        BY <2>1
      <3>2. QED
        BY <3>1, <1>5, <2>2
    <2>5. QED
      BY <2>2, <2>3, <2>4, <1>4, <1>6
  <1>8. ASSUME NEW i \in 1 .. n + m, NEW j \in 1 .. n + m, i < j PROVE s[i] < s[j]
    <2>1. CASE i \in 1 .. n /\ j \in 1 .. n
      BY <2>1, <1>4, <1>1, <1>8 DEF Lists
    <2>2. CASE i \in 1 .. n /\ j \notin 1 .. n
      BY <2>2, <1>4, <1>6
    <2>3. CASE i \notin 1 .. n
      <3>1. j \notin 1 .. n /\ i - n < j - n
        BY <2>3, <1>1, <1>8
      <3>2. QED
        BY <3>1, <2>3, <1>6, <1>1 DEF Lists
    <2>4. QED
      BY <2>1, <2>2, <2>3
  <1>9. QED
    BY <1>2, <1>7, <1>8 DEF Lists, s

(* The eligible opens of a range, without its end or with it.              *)
OpensIn(El, s, e) == {o \in El : s <= o /\ o < e}
OpensUpto(El, s, c) == {o \in El : s <= o /\ o <= c}
NoneBetween(El, b, c) == b < c /\ \A o \in El : o \in Int /\ (o <= b \/ c <= o)

LEMMA LenConcat ==
  \A p, q \in Seq(Int) : p \o q \in Seq(Int) /\ Len(p \o q) = Len(p) + Len(q) /\ Len(p) \in Nat /\ Len(q) \in Nat
  OBVIOUS

(* What a sequence makes of one more open before or after it.              *)
LEMMA OneBefore ==
  ASSUME NEW El, NEW c \in Int, NEW b \in Int, NEW q, NEW from \in Int, NoneBetween(El, c, from), from <= b,
         Lists(q, OpensIn(El, from, b))
  PROVE  Lists(IfOpen(El, c) \o q, OpensIn(El, c, b))
  <1> DEFINE a == IfOpen(El, c)
             Y == El \cap {c}
             Z == OpensIn(El, from, b)
             X == OpensIn(El, c, b)
  <1>1. Lists(a, Y)
    BY ListsOpen
  <1>2. \A x \in Y, y \in Z : x < y
    BY DEF OpensIn, NoneBetween
  <1>3. X = Y \cup Z
    BY DEF OpensIn, NoneBetween
  <1>4. Lists(q, Z)
    OBVIOUS
  <1> HIDE DEF a, X, Y, Z
  <1>5. Lists(a \o q, Y \cup Z)
    BY <1>1, <1>2, <1>4, ListsConcat
  <1>6. QED
    BY <1>3, <1>5 DEF a, X

LEMMA OneAfter ==
  ASSUME NEW El, NEW c \in Int, NEW b \in Int, NEW q, NEW upto \in Int, NoneBetween(El, upto, c), b <= upto + 1,
         Lists(q, OpensUpto(El, b, upto))
  PROVE  Lists(q \o IfOpen(El, c), OpensUpto(El, b, c))
  <1> DEFINE a == IfOpen(El, c)
             Y == El \cap {c}
             Z == OpensUpto(El, b, upto)
             X == OpensUpto(El, b, c)
  <1>1. Lists(a, Y)
    BY ListsOpen
  <1>2. \A x \in Z, y \in Y : x < y
    BY DEF OpensUpto, NoneBetween
  <1>3. X = Z \cup Y
    BY DEF OpensUpto, NoneBetween
  <1>4. Lists(q, Z)
    OBVIOUS
  <1> HIDE DEF a, X, Y, Z
  <1>5. Lists(q \o a, Z \cup Y)
    BY <1>1, <1>2, <1>4, ListsConcat
  <1>6. QED
    BY <1>3, <1>5 DEF a, X


(* Of two lists, that of the larger set is the longer one.                 *)
LEMMA FewerIsShorter ==
  ASSUME NEW p, NEW X, Lists(p, X), NEW T, IsFiniteSet(T), NEW g, \A x \in X : g[x] \in T,
         \A x, y \in X : g[x] = g[y] => x = y
  PROVE  Len(p) \in Nat /\ Len(p) <= Cardinality(T)
  <1>1. PICK n \in Nat : n = Len(p)
    BY DEF Lists
  <1>2. DOMAIN p = 1 .. n /\ \A i \in 1 .. n : p[i] \in X /\ p[i] \in Int
    BY <1>1 DEF Lists, ToSet
  <1>3. \A i, j \in 1 .. n : p[i] = p[j] => i = j
    <2>1. ASSUME NEW i \in 1 .. n, NEW j \in 1 .. n, p[i] = p[j] PROVE i = j
      <3>1. ~(i < j) /\ ~(j < i)
        BY <2>1, <1>2 DEF Lists
      <3>2. QED
        BY <3>1
    <2>2. QED
      BY <2>1
  <1> DEFINE f == [i \in 1 .. n |-> g[p[i]]]
  <1>4. f \in Injection(1 .. n, T)
    BY <1>2, <1>3 DEF Injection, IsInjective
  <1> HIDE DEF f
  <1>5. Cardinality(1 .. n) <= Cardinality(T)
    BY <1>4, FS_Injection
  <1>6. Cardinality(1 .. n) = n
    BY FS_Interval
  <1>7. QED
    BY <1>1, <1>5, <1>6

LEMMA LongerList ==
  ASSUME NEW p, NEW X, Lists(p, X), NEW q, NEW Y, Lists(q, Y), X \subseteq Y
  PROVE  Len(p) \in Nat /\ Len(q) \in Nat /\ Len(p) <= Len(q)
  <1>1. PICK n \in Nat : n = Len(q)
    BY DEF Lists
  <1>2. \A y \in Y : \E i \in 1 .. n : q[i] = y
    BY <1>1 DEF Lists, ToSet
  <1> DEFINE g == [y \in Y |-> CHOOSE i \in 1 .. n : q[i] = y]
  <1>3. \A y \in Y : g[y] \in 1 .. n /\ q[g[y]] = y
    BY <1>2
  <1> HIDE DEF g
  <1>4. IsFiniteSet(1 .. n) /\ Cardinality(1 .. n) = n
    BY FS_Interval
  <1>5. \A x \in X : g[x] \in 1 .. n
    BY <1>3
  <1>6. \A x, y \in X : g[x] = g[y] => x = y
    BY <1>3
  <1>7. Len(p) \in Nat /\ Len(p) <= Cardinality(1 .. n)
    BY <1>4, <1>5, <1>6, FewerIsShorter
  <1>8. QED
    BY <1>1, <1>4, <1>7
-----------------------------------------------------------------------------
(* expected_opens walks from the first open to the end of the range.       *)
ExpectedWalk(sch, e, El, w) ==
  w = [c \in Int |-> IF c < e THEN IfOpen(El, c) \o w[EndAfter(sch, c)] ELSE <<>>]

LEMMA ExpectedWalkIs ==
  ASSUME NEW sch, Schedule(sch), NEW s \in Int, NEW e \in Int, NEW El
  PROVE  \E w : ExpectedWalk(sch, e, El, w) /\ ExpectedOpens(sch, s, e, El) = w[FirstOpen(sch, s)]
  <1> DEFINE D == {c \in Int : ~(c < e)}
             N == [c \in Int |-> EndAfter(sch, c)]
             E == [c \in Int |-> <<>>]
             G == [p \in Int \X Seq(Int) |-> IfOpen(El, p[1]) \o p[2]]
             m == [c \in Int |-> IF c < e THEN e - c ELSE 0]
             R == Lower(Int, m, m)
  <1>1. \A c \in Int : EndAfter(sch, c) \in Int /\ c < EndAfter(sch, c)
    BY StepIs
  <1>2. N \in [Int -> Int] /\ E \in [Int -> Seq(Int)] /\ m \in [Int -> Nat]
    BY <1>1
  <1>3. G \in [Int \X Seq(Int) -> Seq(Int)]
    <2>1. \A c \in Int : IfOpen(El, c) \in Seq(Int)
      BY ListsOpen
    <2>2. \A c \in Int, q \in Seq(Int) : IfOpen(El, c) \o q \in Seq(Int)
      BY <2>1
    <2>3. QED
      BY <2>2
  <1>4. IsWellFoundedOn(R, Int)
    BY <1>2, LowerEnds
  <1>5. \A c \in Int \ D : <<N[c], c>> \in R
    BY <1>1 DEF Lower
  <1>6. \A c \in Int : N[c] = EndAfter(sch, c) /\ N[c] \in Int
    BY <1>1
  <1>7. PICK f \in [Int -> Seq(Int)] :
          \A c \in Int : f[c] = IF c \in D THEN E[c] ELSE G[<<c, f[N[c]]>>]
    <2> DEFINE V == Seq(Int)
    <2>1. D \subseteq Int /\ N \in [Int -> Int] /\ E \in [Int -> V] /\ G \in [Int \X V -> V]
      BY <1>2, <1>3
    <2> HIDE DEF D, N, E, G, R, V
    <2>2. Descends(Int, V, D, N, E, G, R)
      BY <2>1, <1>4, <1>5 DEF Descends
    <2>3. \E f \in [Int -> V] : \A c \in Int : f[c] = IF c \in D THEN E[c] ELSE G[<<c, f[N[c]]>>]
      BY <2>2, WalkExists
    <2>4. QED
      BY <2>3 DEF V
  <1>8. \A c \in Int : f[c] = IF c < e THEN IfOpen(El, c) \o f[EndAfter(sch, c)] ELSE <<>>
    <2> TAKE c \in Int
    <2>1. CASE c < e
      <3>1. f[c] = G[<<c, f[N[c]]>>]
        BY <2>1, <1>7
      <3>2. f[N[c]] \in Seq(Int)
        BY <1>6
      <3>3. QED
        BY <3>1, <3>2, <2>1, <1>6
    <2>2. CASE ~(c < e)
      BY <2>2, <1>7
    <2>3. QED
      BY <2>1, <2>2
  <1>9. ExpectedWalk(sch, e, El, f)
    BY <1>8 DEF ExpectedWalk
  <1>10. ExpectedOpens(sch, s, e, El) = (CHOOSE w : ExpectedWalk(sch, e, El, w))[FirstOpen(sch, s)]
    BY DEF ExpectedOpens, ExpectedWalk
  <1>11. QED
    BY <1>9, <1>10

(* The walk lists the opens of the grid that are in Times.                   *)
LEMMA ExpectedLists ==
  ASSUME NEW sch, Schedule(sch), NEW s \in Int, NEW e \in Int, NEW Times,
         NEW El, El = Times \cap Opens(sch)
  PROVE  Lists(ExpectedOpens(sch, s, e, Times), OpensIn(El, s, e))
  <1> DEFINE m == [c \in Int |-> IF c < e THEN e - c ELSE 0]
             R == Lower(Int, m, m)
  <1>1. \A c \in Int : EndAfter(sch, c) \in Int /\ c < EndAfter(sch, c)
    BY StepIs
  <1>2. \A o \in El : o \in Int
    BY OpensAreInt
  <1>3. PICK w : ExpectedWalk(sch, e, Times, w) /\ ExpectedOpens(sch, s, e, Times) = w[FirstOpen(sch, s)]
    BY ExpectedWalkIs
  <1>4. \A c \in Int : w[c] = IF c < e THEN IfOpen(Times, c) \o w[EndAfter(sch, c)] ELSE <<>>
    <2>1. w = [c \in Int |-> IF c < e THEN IfOpen(Times, c) \o w[EndAfter(sch, c)] ELSE <<>>]
      BY <1>3 DEF ExpectedWalk
    <2>2. QED
      BY <2>1
  <1> DEFINE Bad == {c \in Opens(sch) : ~Lists(w[c], OpensIn(El, c, e))}
  <1>5. ASSUME NEW c \in Int, NEW b \in Int, b = EndAfter(sch, c), c \in Bad
        PROVE  b \in Bad /\ <<b, c>> \in R
    <2>1. c \in Opens(sch) /\ ~Lists(w[c], OpensIn(El, c, e)) /\ c < b
      BY <1>1, <1>5
    <2> HIDE DEF Bad, R, m
    <2>2. b \in Opens(sch)
      BY <2>1, <1>5, StepIs
    <2>3. c < e
      <3>1. SUFFICES ASSUME ~(c < e) PROVE FALSE
        OBVIOUS
      <3>2. w[c] = <<>>
        BY <3>1, <1>4
      <3>3. OpensIn(El, c, e) = {}
        BY <3>1, <1>2 DEF OpensIn
      <3>4. QED
        BY <2>1, <3>2, <3>3, ListsNone
    <2>4. w[c] = IfOpen(El, c) \o w[b]
      <3>1. IfOpen(El, c) = IfOpen(Times, c)
        BY <2>1 DEF IfOpen
      <3>2. QED
        BY <2>3, <3>1, <1>4, <1>5
    <2>5. \A o \in El : c < o => b <= o
      BY <2>1, <1>5, OpensFollow
    <2>6. NoneBetween(El, c, b)
      BY <2>1, <2>5, <1>2 DEF NoneBetween
    <2>7. ASSUME Lists(w[b], OpensIn(El, b, e)) PROVE FALSE
      <3>1. CASE b <= e
        <4> DEFINE q == w[b]
        <4>1. Lists(q, OpensIn(El, b, e))
          BY <2>7
        <4> HIDE DEF q
        <4>2. Lists(IfOpen(El, c) \o q, OpensIn(El, c, e))
          BY <3>1, <4>1, <2>6, OneBefore
        <4>3. QED
          BY <4>2, <2>1, <2>4 DEF q
      <3>2. CASE e < b
        <4>1. w[b] = <<>>
          BY <3>2, <1>4
        <4>2. Lists(IfOpen(El, c), El \cap {c}) /\ IfOpen(El, c) \in Seq(Int)
          BY ListsOpen
        <4>3. OpensIn(El, c, e) = El \cap {c}
          BY <3>2, <2>3, <2>6 DEF OpensIn, NoneBetween
        <4>4. IfOpen(El, c) \o <<>> = IfOpen(El, c)
          BY <4>2
        <4>5. QED
          BY <4>1, <4>2, <4>3, <4>4, <2>1, <2>4
      <3>3. QED
        BY <3>1, <3>2
    <2>8. m[b] < m[c]
      BY <2>1, <2>3 DEF m
    <2>9. <<b, c>> \in R
      BY <2>8 DEF Lower, R
    <2>10. QED
      BY <2>2, <2>7, <2>9 DEF Bad
  <1>6. Bad = {}
    <2>1. m \in [Int -> Nat]
      OBVIOUS
    <2> HIDE DEF m
    <2>2. IsWellFoundedOn(R, Int)
      BY <2>1, LowerEnds
    <2>3. Bad \in SUBSET Int
      BY OpensAreInt
    <2> HIDE DEF Bad, R
    <2>4. ASSUME NEW c \in Bad PROVE \E b \in Bad : <<b, c>> \in R
      <3>1. c \in Int
        BY <2>3
      <3>2. PICK b \in Int : b = EndAfter(sch, c)
        BY <3>1, <1>1
      <3>3. QED
        BY <3>1, <3>2, <1>5
    <2>5. QED
      BY <2>2, <2>3, <2>4, NoDescent
  <1> DEFINE u == FirstOpen(sch, s)
  <1>7. u \in Opens(sch)
    BY FirstOpenIs
  <1>8. Lists(w[u], OpensIn(El, u, e))
    BY <1>6, <1>7
  <1>9. OpensIn(El, u, e) = OpensIn(El, s, e)
    BY NoneBeforeFirst DEF OpensIn
  <1>10. QED
    BY <1>3, <1>8, <1>9


(* expected_opens returns the eligible opens of the range, in order.       *)
THEOREM ExpectedOpensExact ==
  ASSUME NEW sch, Schedule(sch), NEW s \in Int, NEW e \in Int, NEW El \in SUBSET Opens(sch)
  PROVE  Lists(ExpectedOpens(sch, s, e, El), OpensIn(El, s, e))
  <1>1. El = El \cap Opens(sch)
    OBVIOUS
  <1>2. QED
    BY <1>1, ExpectedLists

(* The months that _validate_range counts are those that start in the      *)
(* range, in order: the walk is that of expected_opens with no session     *)
(* policy.                                                                 *)
THEOREM MonthOpensExact ==
  ASSUME NEW sch, Schedule(sch), sch.month, NEW s \in Int, NEW e \in Int
  PROVE  Lists(MonthOpens(s, e), OpensIn(Opens(sch), s, e))
  <1>1. \A c \in Int : IfOpen(Int, c) = <<c>> /\ EndAfter(sch, c) = AddMonth(c, 1)
    BY DEF IfOpen, EndAfter, Step
  <1>2. FirstOpen(sch, s) = FirstMonthAtOrAfter(s)
    BY DEF FirstOpen
  <1>3. ExpectedOpens(sch, s, e, Int) = MonthOpens(s, e)
    BY <1>1, <1>2 DEF ExpectedOpens, MonthOpens
  <1>4. Opens(sch) = Int \cap Opens(sch)
    BY OpensAreInt
  <1>5. QED
    BY <1>3, <1>4, ExpectedLists
-----------------------------------------------------------------------------
(* latest_opens and next_opens return if there are enough eligible opens   *)
(* on their side of the time: each step of the loop is nearer to the next  *)
(* of them, or has found it.                                               *)
Ways == {"back", "on"}

Ahead(El, way, c) == {o \in El : IF way = "back" THEN o <= c ELSE c <= o}
HasMany(S, n) == \E T \in SUBSET S : IsFiniteSet(T) /\ n <= Cardinality(T)

(* So there are, for any time and number, if the eligible opens never end. *)
(* It is a hypothesis of theorems and not of the model, in which TLC could *)
(* not evaluate it.                                                        *)
Recurs(El) == \A c \in Int : (\E o \in El : o <= c) /\ (\E o \in El : c <= o)

LEMMA OneMoreOf ==
  ASSUME NEW T, IsFiniteSet(T), NEW n \in Nat, n <= Cardinality(T), NEW x, x \notin T, NEW S, T \cup {x} \subseteq S
  PROVE  HasMany(S, n + 1)
  <1>1. IsFiniteSet(T \cup {x}) /\ Cardinality(T \cup {x}) = Cardinality(T) + 1 /\ Cardinality(T) \in Nat
    BY FS_AddElement, FS_CardinalityType
  <1>2. n + 1 <= Cardinality(T \cup {x})
    BY <1>1
  <1>3. QED
    BY <1>1, <1>2 DEF HasMany

LEMMA OneLessOf ==
  ASSUME NEW S, NEW n \in Nat \ {0}, HasMany(S, n), NEW x
  PROVE  S # {} /\ HasMany(S \ {x}, n - 1)
  <1>1. PICK T \in SUBSET S : IsFiniteSet(T) /\ n <= Cardinality(T)
    BY DEF HasMany
  <1>2. Cardinality(T) \in Nat /\ IsFiniteSet(T \ {x})
        /\ Cardinality(T \ {x}) = IF x \in T THEN Cardinality(T) - 1 ELSE Cardinality(T)
    BY <1>1, FS_RemoveElement, FS_CardinalityType
  <1>3. T # {}
    BY <1>1, <1>2, FS_EmptySet
  <1>4. n - 1 <= Cardinality(T \ {x})
    BY <1>1, <1>2
  <1>5. T \ {x} \in SUBSET (S \ {x})
    BY <1>1
  <1>6. QED
    BY <1>1, <1>2, <1>3, <1>4, <1>5 DEF HasMany

LEMMA RecursIsMany ==
  ASSUME NEW El, \A o \in El : o \in Int, Recurs(El), NEW way \in Ways, NEW n \in Nat
  PROVE  \A c \in Int : HasMany(Ahead(El, way, c), n)
  <1> DEFINE Good == {i \in 0 .. n : \A c \in Int : HasMany(Ahead(El, way, c), i)}
  <1>1. 0 \in Good
    <2>1. IsFiniteSet({}) /\ Cardinality({}) = 0
      BY FS_EmptySet
    <2>2. 0 <= Cardinality({})
      BY <2>1
    <2>3. QED
      BY <2>1, <2>2 DEF HasMany
  <1>2. ASSUME NEW i \in 1 .. n, i - 1 \in Good PROVE i \in Good
    <2>1. ASSUME NEW c \in Int PROVE HasMany(Ahead(El, way, c), i)
      <3>1. PICK o \in El : IF way = "back" THEN o <= c ELSE c <= o
        BY DEF Recurs
      <3>2. PICK b \in Int : b = IF way = "back" THEN o - 1 ELSE o + 1
        OBVIOUS
      <3>3. HasMany(Ahead(El, way, b), i - 1)
        BY <1>2
      <3>4. PICK T \in SUBSET Ahead(El, way, b) : IsFiniteSet(T) /\ i - 1 <= Cardinality(T)
        BY <3>3 DEF HasMany
      <3>5. o \in Int /\ \A x \in T : x \in El /\ x \in Int /\ IF way = "back" THEN x <= b ELSE b <= x
        BY <3>4 DEF Ahead
      <3>6. o \notin T /\ T \cup {o} \subseteq Ahead(El, way, c)
        BY <3>1, <3>2, <3>5 DEF Ahead
      <3>7. PICK k \in Nat : k = i - 1 /\ k + 1 = i
        OBVIOUS
      <3>8. HasMany(Ahead(El, way, c), k + 1)
        BY <3>4, <3>6, <3>7, OneMoreOf
      <3>9. QED
        BY <3>7, <3>8
    <2>2. QED
      BY <2>1
  <1>3. n \in Good
    <2> HIDE DEF Good
    <2>1. QED
      BY <1>1, <1>2, ScanKeeps
  <1>4. QED
    BY <1>3

Along(way, c, n) == IF way = "back" THEN c - n ELSE c + n
Beside(sch, way, c) == IF way = "back" THEN Step(sch, c, -1) ELSE EndAfter(sch, c)

LEMMA DistanceIs ==
  ASSUME NEW way \in Ways, NEW El, \A o \in El : o \in Int
  PROVE  \E m \in [Int -> Nat] : \A c \in Int : Ahead(El, way, c) # {} =>
           Along(way, c, m[c]) \in El /\ \A n \in Nat : Along(way, c, n) \in El => m[c] <= n
  <1> DEFINE Near(c, n) == Along(way, c, n) \in El /\ \A i \in Nat : Along(way, c, i) \in El => n <= i
  <1>1. ASSUME NEW c \in Int, Ahead(El, way, c) # {} PROVE \E n \in Nat : Near(c, n)
    <2> DEFINE T == {n \in Nat : Along(way, c, n) \in El}
    <2>1. T # {}
      <3>1. PICK o \in El : IF way = "back" THEN o <= c ELSE c <= o
        BY <1>1 DEF Ahead
      <3>2. o \in Int
        OBVIOUS
      <3>3. CASE way = "back"
        <4>1. c - o \in Nat /\ c - (c - o) = o
          BY <3>1, <3>2, <3>3
        <4>2. Along(way, c, c - o) \in El
          BY <4>1, <3>3 DEF Along
        <4>3. QED
          BY <4>1, <4>2
      <3>4. CASE way # "back"
        <4>1. o - c \in Nat /\ c + (o - c) = o
          BY <3>1, <3>2, <3>4
        <4>2. Along(way, c, o - c) \in El
          BY <4>1, <3>4 DEF Along
        <4>3. QED
          BY <4>1, <4>2
      <3>5. QED
        BY <3>3, <3>4
    <2> DEFINE id == [n \in Nat |-> n]
    <2>2. \E n \in T : \A i \in T : id[n] <= id[i]
      <3>1. id \in [Nat -> Nat] /\ T \in SUBSET Nat
        OBVIOUS
      <3> HIDE DEF id, T
      <3>2. QED
        BY <2>1, <3>1, SmallestNat
    <2>3. PICK n \in T : \A i \in T : n <= i
      BY <2>2
    <2>4. QED
      BY <2>3
  <1> DEFINE m == [c \in Int |-> CHOOSE n \in Nat : Ahead(El, way, c) # {} => Near(c, n)]
  <1> HIDE DEF Near
  <1>2. \A c \in Int : m[c] \in Nat /\ (Ahead(El, way, c) # {} => Near(c, m[c]))
    <2>1. \A c \in Int : \E n \in Nat : Ahead(El, way, c) # {} => Near(c, n)
      BY <1>1
    <2>2. QED
      BY <2>1
  <1>3. m \in [Int -> Nat]
    BY <1>2
  <1> HIDE DEF m
  <1>4. QED
    BY <1>2, <1>3 DEF Near

LEMMA FindEnds ==
  ASSUME NEW sch, Schedule(sch), NEW El \in SUBSET Opens(sch), NEW way \in Ways
  PROVE  \E R : /\ IsWellFoundedOn(R, Int \X Nat)
                /\ \A c \in Opens(sch), n \in Nat \ {0} : Ahead(El, way, c) # {} =>
                     LET next == <<Beside(sch, way, c), StillToFind(El, <<c, n>>)>> IN
                     next \in Int \X Nat /\ <<next, <<c, n>>>> \in R
  <1>1. \A o \in El : o \in Int
    BY OpensAreInt
  <1>2. PICK dist \in [Int -> Nat] : \A c \in Int : Ahead(El, way, c) # {} =>
          Along(way, c, dist[c]) \in El /\ \A n \in Nat : Along(way, c, n) \in El => dist[c] <= n
    BY <1>1, DistanceIs
  <1> DEFINE P == Int \X Nat
             m == [at \in P |-> at[2]]
             k == [at \in P |-> dist[at[1]]]
             R == Lower(P, m, k)
  <1>3. m \in [P -> Nat] /\ k \in [P -> Nat]
    BY <1>2
  <1>4. IsWellFoundedOn(R, P)
    <2> HIDE DEF P, m, k
    <2>1. QED
      BY <1>3, LowerEnds
  <1>5. ASSUME NEW c \in Opens(sch), NEW n \in Nat \ {0}, Ahead(El, way, c) # {}
        PROVE  LET next == <<Beside(sch, way, c), StillToFind(El, <<c, n>>)>> IN
               next \in P /\ <<next, <<c, n>>>> \in R
    <2>1. c \in Int
      BY OpensAreInt
    <2>2. Beside(sch, way, c) \in Int
      BY <2>1, StepIs DEF Beside
    <2>3. PICK b \in Int : b = Beside(sch, way, c)
      BY <2>2
    <2>4. CASE c \in El
      <3>1. StillToFind(El, <<c, n>>) = n - 1 /\ n - 1 \in Nat
        BY <2>4 DEF StillToFind
      <3>2. <<b, n - 1>> \in P /\ <<c, n>> \in P /\ m[<<b, n - 1>>] < m[<<c, n>>]
        BY <2>1, <3>1
      <3>3. <<<<b, n - 1>>, <<c, n>>>> \in R
        BY <3>2 DEF Lower
      <3>4. QED
        BY <3>1, <3>2, <3>3, <2>3
    <2>5. CASE c \notin El
      <3>1. StillToFind(El, <<c, n>>) = n
        BY <2>5 DEF StillToFind
      <3>2. PICK i \in Nat : i = dist[c] /\ Along(way, c, i) \in El
        BY <1>2, <1>5, <2>1
      <3>3. PICK o \in Opens(sch) : o = Along(way, c, i) /\ o \in El /\ o # c /\ o \in Int
        BY <3>2, <2>5, <1>1
      <3>4. PICK j \in Nat : j < i /\ Along(way, b, j) = o
        <4>1. CASE way = "back"
          <5>1. o = c - i /\ o < c
            BY <4>1, <3>3, <2>1 DEF Along
          <5>2. o <= b /\ b < c
            BY <4>1, <5>1, <2>1, <2>3, OpensFollow, StepIs DEF Beside
          <5>3. b - o \in Nat /\ b - o < i /\ b - (b - o) = o
            BY <5>1, <5>2, <3>3, <2>1
          <5>4. QED
            BY <4>1, <5>3 DEF Along
        <4>2. CASE way # "back"
          <5>1. o = c + i /\ c < o
            BY <4>2, <3>3, <2>1 DEF Along
          <5>2. b <= o /\ c < b
            BY <4>2, <5>1, <2>1, <2>3, OpensFollow, StepIs DEF Beside
          <5>3. o - b \in Nat /\ o - b < i /\ b + (o - b) = o
            BY <5>1, <5>2, <3>3, <2>1
          <5>4. QED
            BY <4>2, <5>3 DEF Along
        <4>3. QED
          BY <4>1, <4>2
      <3>5. dist[b] <= j
        <4>1. o \in Ahead(El, way, b)
          BY <2>3, <3>3, <3>4 DEF Ahead, Along
        <4>2. QED
          BY <4>1, <3>3, <3>4, <1>2
      <3>6. dist[b] < dist[c]
        BY <3>2, <3>4, <3>5, <1>2
      <3>7. /\ <<b, n>> \in P /\ <<c, n>> \in P /\ m[<<b, n>>] = m[<<c, n>>]
            /\ k[<<b, n>>] < k[<<c, n>>]
        BY <2>1, <3>6
      <3>8. <<<<b, n>>, <<c, n>>>> \in R
        BY <3>7 DEF Lower
      <3>9. QED
        BY <3>1, <3>7, <3>8, <2>3
    <2>6. QED
      BY <2>4, <2>5
  <1>6. QED
    BY <1>4, <1>5

(* The two loops, as functions of a time and the opens still to find.      *)
LatestWalk(sch, El, w) ==
  w = [at \in Int \X Nat |->
        IF at[2] = 0 THEN <<>>
        ELSE w[<<Step(sch, at[1], -1), StillToFind(El, at)>>] \o IfOpen(El, at[1])]

NextWalk(sch, El, w) ==
  w = [at \in Int \X Nat |->
        IF at[2] = 0 THEN <<>>
        ELSE IfOpen(El, at[1]) \o w[<<EndAfter(sch, at[1]), StillToFind(El, at)>>]]

FindWalk(sch, El, way, f) ==
  \A c \in Int, n \in Nat :
    LET next == <<Beside(sch, way, c), StillToFind(El, <<c, n>>)>> IN
    f[<<c, n>>] = IF n = 0 THEN <<>>
                  ELSE IF way = "back" THEN f[next] \o IfOpen(El, c) ELSE IfOpen(El, c) \o f[next]

(* Off the grid, and after the last open, nothing is ever found.           *)
LEMMA FindWalks ==
  ASSUME NEW sch, Schedule(sch), NEW El \in SUBSET Opens(sch), NEW way \in Ways
  PROVE  \E f \in [Int \X Nat -> Seq(Int)] : FindWalk(sch, El, way, f)
  <1> DEFINE P == Int \X Nat
             V == Seq(Int)
             Next(at) == <<Beside(sch, way, at[1]), StillToFind(El, at)>>
             Ends(c) == c \notin Opens(sch) \/ Ahead(El, way, c) = {}
             D == {at \in P : at[2] = 0 \/ Ends(at[1])}
             N == [at \in P |-> IF at \in D THEN at ELSE Next(at)]
             E == [at \in P |-> <<>>]
             G == [p \in P \X V |-> IF way = "back" THEN p[2] \o IfOpen(El, p[1][1]) ELSE IfOpen(El, p[1][1]) \o p[2]]
  <1>1. PICK R : /\ IsWellFoundedOn(R, P)
                 /\ \A c \in Opens(sch), n \in Nat \ {0} : Ahead(El, way, c) # {} =>
                      Next(<<c, n>>) \in P /\ <<Next(<<c, n>>), <<c, n>>>> \in R
    BY FindEnds
  <1>2. \A at \in P \ D : Next(at) \in P /\ <<Next(at), at>> \in R
    <2> TAKE at \in P \ D
    <2>1. PICK c \in Int, n \in Nat : at = <<c, n>>
      OBVIOUS
    <2>2. c \in Opens(sch) /\ n \in Nat \ {0} /\ Ahead(El, way, c) # {}
      BY <2>1
    <2> HIDE DEF Next, D, P
    <2>3. QED
      BY <1>1, <2>1, <2>2
  <1>3. Descends(P, V, D, N, E, G, R)
    <2>1. D \subseteq P /\ E \in [P -> V]
      OBVIOUS
    <2>2. N \in [P -> P] /\ \A at \in P \ D : <<N[at], at>> \in R
      <3> HIDE DEF P, D, Next
      <3>1. QED
        BY <1>2
    <2>3. G \in [P \X V -> V]
      <3>1. \A c \in Int, q \in Seq(Int) : q \o IfOpen(El, c) \in Seq(Int) /\ IfOpen(El, c) \o q \in Seq(Int)
        <4> TAKE c \in Int, q \in Seq(Int)
        <4>1. IfOpen(El, c) \in Seq(Int)
          BY ListsOpen
        <4>2. QED
          BY <4>1
      <3>2. ASSUME NEW p \in P \X V PROVE G[p] \in V
        <4>1. p[1][1] \in Int /\ p[2] \in Seq(Int)
          OBVIOUS
        <4>2. G[p] = IF way = "back" THEN p[2] \o IfOpen(El, p[1][1]) ELSE IfOpen(El, p[1][1]) \o p[2]
          OBVIOUS
        <4>3. QED
          BY <4>1, <4>2, <3>1
      <3>3. QED
        BY <3>2
    <2> HIDE DEF P, V, D, N, E, G
    <2>4. QED
      BY <1>1, <2>1, <2>2, <2>3 DEF Descends
  <1>4. PICK f \in [P -> V] : \A at \in P : f[at] = IF at \in D THEN E[at] ELSE G[<<at, f[N[at]]>>]
    <2> HIDE DEF P, V, D, N, E, G
    <2>1. QED
      BY <1>3, WalkExists
  <1>5. ASSUME NEW c \in Int, NEW n \in Nat
        PROVE  f[<<c, n>>] = IF n = 0 THEN <<>>
                             ELSE IF way = "back" THEN f[Next(<<c, n>>)] \o IfOpen(El, c)
                                  ELSE IfOpen(El, c) \o f[Next(<<c, n>>)]
    <2>1. <<c, n>> \in P
      OBVIOUS
    <2>2. CASE n = 0
      BY <2>1, <2>2, <1>4
    <2>3. CASE n # 0 /\ ~Ends(c)
      <3>1. <<c, n>> \notin D
        BY <2>3
      <3>2. N[<<c, n>>] = Next(<<c, n>>) /\ Next(<<c, n>>) \in P
        <4> HIDE DEF P, D, Next
        <4>1. QED
          BY <2>1, <3>1, <1>2
      <3>3. f[<<c, n>>] = G[<<<<c, n>>, f[Next(<<c, n>>)]>>] /\ f[Next(<<c, n>>)] \in V
        <4> HIDE DEF P, V, D, N, E, G, Next
        <4>1. QED
          BY <2>1, <3>1, <3>2, <1>4
      <3> HIDE DEF Next
      <3>4. QED
        BY <2>1, <2>3, <3>3
    <2>4. CASE n # 0 /\ Ends(c)
      <3> DEFINE b == Beside(sch, way, c)
      <3>1. c \notin El
        BY <2>4 DEF Ahead
      <3>2. Next(<<c, n>>) = <<b, n>> /\ IfOpen(El, c) = <<>>
        BY <3>1 DEF StillToFind, IfOpen
      <3>3. b \in Int /\ Ends(b)
        <4>1. b \in Int /\ (b \in Opens(sch) <=> c \in Opens(sch)) /\ IF way = "back" THEN b < c ELSE c < b
          BY StepIs DEF Beside
        <4>2. \A o \in El : o \in Int
          BY OpensAreInt
        <4>3. Ahead(El, way, b) \subseteq Ahead(El, way, c)
          BY <4>1, <4>2 DEF Ahead
        <4>4. QED
          BY <2>4, <4>1, <4>3
      <3> HIDE DEF b
      <3>4. <<b, n>> \in D /\ <<c, n>> \in D
        BY <2>4, <3>3
      <3>5. f[<<c, n>>] = <<>> /\ f[<<b, n>>] = <<>>
        BY <3>4, <1>4
      <3>6. <<>> \o <<>> = <<>>
        OBVIOUS
      <3> HIDE DEF Next
      <3>7. QED
        BY <2>4, <3>2, <3>5, <3>6
    <2>5. QED
      BY <2>2, <2>3, <2>4
  <1>6. QED
    BY <1>4, <1>5 DEF FindWalk

(* What is used of the two walks that the code takes.                      *)
LatestIs(sch, El, w) ==
  /\ \A t, n : LatestOpens(sch, t, n, El) = w[<<Step(sch, FirstOpen(sch, t), -1), n>>]
  /\ \A c \in Int, n \in Nat :
       w[<<c, n>>] = IF n = 0 THEN <<>>
                     ELSE w[<<Step(sch, c, -1), StillToFind(El, <<c, n>>)>>] \o IfOpen(El, c)

LEMMA LatestWalkIs ==
  ASSUME NEW sch, Schedule(sch), NEW El \in SUBSET Opens(sch)
  PROVE  \E w : LatestIs(sch, El, w)
  <1>1. PICK f \in [Int \X Nat -> Seq(Int)] : \A c \in Int, n \in Nat :
          f[<<c, n>>] = IF n = 0 THEN <<>>
                        ELSE f[<<Step(sch, c, -1), StillToFind(El, <<c, n>>)>>] \o IfOpen(El, c)
    <2>1. "back" \in Ways
      BY DEF Ways
    <2>2. PICK f \in [Int \X Nat -> Seq(Int)] : FindWalk(sch, El, "back", f)
      BY <2>1, FindWalks
    <2>3. \A c \in Int : Beside(sch, "back", c) = Step(sch, c, -1)
      BY DEF Beside
    <2>4. QED
      BY <2>2, <2>3 DEF FindWalk
  <1>2. ASSUME NEW at \in Int \X Nat
        PROVE  f[at] = IF at[2] = 0 THEN <<>>
                       ELSE f[<<Step(sch, at[1], -1), StillToFind(El, at)>>] \o IfOpen(El, at[1])
    <2>1. PICK c \in Int, n \in Nat : at = <<c, n>> /\ at[1] = c /\ at[2] = n
      OBVIOUS
    <2>2. QED
      BY <2>1, <1>1
  <1>3. LatestWalk(sch, El, f)
    BY <1>2 DEF LatestWalk
  <1> DEFINE w == CHOOSE w : LatestWalk(sch, El, w)
  <1>4. LatestWalk(sch, El, w)
    BY <1>3
  <1>5. \A t, n : LatestOpens(sch, t, n, El) = w[<<Step(sch, FirstOpen(sch, t), -1), n>>]
    BY DEF LatestOpens, LatestWalk
  <1> HIDE DEF w
  <1>6. ASSUME NEW c \in Int, NEW n \in Nat
        PROVE  w[<<c, n>>] = IF n = 0 THEN <<>>
                             ELSE w[<<Step(sch, c, -1), StillToFind(El, <<c, n>>)>>] \o IfOpen(El, c)
    <2>1. w = [at \in Int \X Nat |->
                IF at[2] = 0 THEN <<>>
                ELSE w[<<Step(sch, at[1], -1), StillToFind(El, at)>>] \o IfOpen(El, at[1])]
      BY <1>4 DEF LatestWalk
    <2>2. \A at \in Int \X Nat :
            w[at] = IF at[2] = 0 THEN <<>>
                    ELSE w[<<Step(sch, at[1], -1), StillToFind(El, at)>>] \o IfOpen(El, at[1])
      BY <2>1
    <2>3. w[<<c, n>>] = IF n = 0 THEN <<>>
                        ELSE w[<<Step(sch, c, -1), StillToFind(El, <<c, n>>)>>] \o IfOpen(El, c)
      BY <2>2
    <2>4. QED
      BY <2>3
  <1>7. QED
    BY <1>5, <1>6 DEF LatestIs

NextIs(sch, El, w) ==
  /\ \A t, n : NextOpens(sch, t, n, El) = w[<<FirstOpen(sch, t), n>>]
  /\ \A c \in Int, n \in Nat :
       w[<<c, n>>] = IF n = 0 THEN <<>>
                     ELSE IfOpen(El, c) \o w[<<EndAfter(sch, c), StillToFind(El, <<c, n>>)>>]

LEMMA NextWalkIs ==
  ASSUME NEW sch, Schedule(sch), NEW El \in SUBSET Opens(sch)
  PROVE  \E w : NextIs(sch, El, w)
  <1>1. PICK f \in [Int \X Nat -> Seq(Int)] : \A c \in Int, n \in Nat :
          f[<<c, n>>] = IF n = 0 THEN <<>>
                        ELSE IfOpen(El, c) \o f[<<EndAfter(sch, c), StillToFind(El, <<c, n>>)>>]
    <2>1. "on" \in Ways
      BY DEF Ways
    <2>2. PICK f \in [Int \X Nat -> Seq(Int)] : FindWalk(sch, El, "on", f)
      BY <2>1, FindWalks
    <2>3. \A c \in Int : Beside(sch, "on", c) = EndAfter(sch, c)
      BY DEF Beside
    <2>4. QED
      BY <2>2, <2>3 DEF FindWalk
  <1>2. ASSUME NEW at \in Int \X Nat
        PROVE  f[at] = IF at[2] = 0 THEN <<>>
                       ELSE IfOpen(El, at[1]) \o f[<<EndAfter(sch, at[1]), StillToFind(El, at)>>]
    <2>1. PICK c \in Int, n \in Nat : at = <<c, n>> /\ at[1] = c /\ at[2] = n
      OBVIOUS
    <2>2. QED
      BY <2>1, <1>1
  <1>3. NextWalk(sch, El, f)
    BY <1>2 DEF NextWalk
  <1> DEFINE w == CHOOSE w : NextWalk(sch, El, w)
  <1>4. NextWalk(sch, El, w)
    BY <1>3
  <1>5. \A t, n : NextOpens(sch, t, n, El) = w[<<FirstOpen(sch, t), n>>]
    BY DEF NextOpens, NextWalk
  <1> HIDE DEF w
  <1>6. ASSUME NEW c \in Int, NEW n \in Nat
        PROVE  w[<<c, n>>] = IF n = 0 THEN <<>>
                             ELSE IfOpen(El, c) \o w[<<EndAfter(sch, c), StillToFind(El, <<c, n>>)>>]
    <2>1. w = [at \in Int \X Nat |->
                IF at[2] = 0 THEN <<>>
                ELSE IfOpen(El, at[1]) \o w[<<EndAfter(sch, at[1]), StillToFind(El, at)>>]]
      BY <1>4 DEF NextWalk
    <2>2. \A at \in Int \X Nat :
            w[at] = IF at[2] = 0 THEN <<>>
                    ELSE IfOpen(El, at[1]) \o w[<<EndAfter(sch, at[1]), StillToFind(El, at)>>]
      BY <2>1
    <2>3. w[<<c, n>>] = IF n = 0 THEN <<>>
                        ELSE IfOpen(El, c) \o w[<<EndAfter(sch, c), StillToFind(El, <<c, n>>)>>]
      BY <2>2
    <2>4. QED
      BY <2>3
  <1>7. QED
    BY <1>5, <1>6 DEF NextIs

(* An open that a loop finds is one less to find.                          *)
LEMMA FindGoesOn ==
  ASSUME NEW sch, Schedule(sch), NEW El \in SUBSET Opens(sch), NEW way \in Ways, NEW c \in Opens(sch), NEW n \in Nat \ {0},
         HasMany(Ahead(El, way, c), n), NEW b, b = Beside(sch, way, c)
  PROVE  Ahead(El, way, c) # {} /\ HasMany(Ahead(El, way, b), StillToFind(El, <<c, n>>))
  <1>1. c \in Int /\ \A o \in El : o \in Int /\ o \in Opens(sch)
    BY OpensAreInt
  <1>2. b \in Int /\ IF way = "back" THEN b < c ELSE c < b
    BY <1>1, StepIs DEF Beside
  <1>3. \A o \in Ahead(El, way, c) : o = c \/ o \in Ahead(El, way, b)
    BY <1>1, OpensFollow DEF Ahead, Beside
  <1>4. Ahead(El, way, c) \ {c} \subseteq Ahead(El, way, b)
    BY <1>3
  <1>5. Ahead(El, way, c) # {} /\ HasMany(Ahead(El, way, c) \ {c}, n - 1)
    BY OneLessOf
  <1>6. CASE c \in El
    <2>1. StillToFind(El, <<c, n>>) = n - 1
      BY <1>6 DEF StillToFind
    <2>2. QED
      BY <2>1, <1>4, <1>5 DEF HasMany
  <1>7. CASE c \notin El
    <2>1. StillToFind(El, <<c, n>>) = n
      BY <1>7 DEF StillToFind
    <2>2. Ahead(El, way, c) \subseteq Ahead(El, way, b)
      BY <1>3, <1>7 DEF Ahead
    <2>3. QED
      BY <2>1, <2>2, <1>5 DEF HasMany
  <1>8. QED
    BY <1>6, <1>7

(* latest_opens returns as many opens as it was asked for, if there are so *)
(* many, in order: those before the time without a gap between them.       *)
THEOREM LatestOpensFound ==
  ASSUME NEW sch, Schedule(sch), NEW e \in Int, NEW limit \in Nat, NEW El \in SUBSET Opens(sch),
         HasMany({o \in El : o < e}, limit)
  PROVE  /\ Len(LatestOpens(sch, e, limit, El)) = limit
         /\ \E b \in Int : Lists(LatestOpens(sch, e, limit, El), OpensIn(El, b, e))
  <1>1. PICK w : LatestIs(sch, El, w)
    BY LatestWalkIs
  <1>2. /\ \A t, n : LatestOpens(sch, t, n, El) = w[<<Step(sch, FirstOpen(sch, t), -1), n>>]
        /\ \A c \in Int, n \in Nat :
             w[<<c, n>>] = IF n = 0 THEN <<>>
                           ELSE w[<<Step(sch, c, -1), StillToFind(El, <<c, n>>)>>] \o IfOpen(El, c)
    BY <1>1 DEF LatestIs
  <1>3. "back" \in Ways
    BY DEF Ways
  <1>4. PICK R : /\ IsWellFoundedOn(R, Int \X Nat)
                 /\ \A c \in Opens(sch), n \in Nat \ {0} : Ahead(El, "back", c) # {} =>
                      LET next == <<Step(sch, c, -1), StillToFind(El, <<c, n>>)>> IN
                      next \in Int \X Nat /\ <<next, <<c, n>>>> \in R
    BY <1>3, FindEnds DEF Beside
  <1>5. \A o \in El : o \in Int
    BY OpensAreInt
  <1> DEFINE Found(c, n) == /\ Len(w[<<c, n>>]) = n
                            /\ \E b \in Int : b <= c + 1 /\ Lists(w[<<c, n>>], OpensUpto(El, b, c))
             Many(c, n) == HasMany(Ahead(El, "back", c), n)
             Bad == {at \in Opens(sch) \X Nat : Many(at[1], at[2]) /\ ~Found(at[1], at[2])}
  <1>6. ASSUME NEW c \in Int, c \in Opens(sch), NEW n \in Nat, Many(c, n), ~Found(c, n), NEW b \in Int, b = Step(sch, c, -1),
               NEW k, k = StillToFind(El, <<c, n>>)
        PROVE  b \in Opens(sch) /\ k \in Nat /\ Many(b, k) /\ ~Found(b, k) /\ <<<<b, k>>, <<c, n>>>> \in R
    <2>1. n # 0
      <3>1. SUFFICES ASSUME n = 0 PROVE FALSE
        OBVIOUS
      <3>2. w[<<c, n>>] = <<>> /\ Len(<<>>) = 0
        BY <3>1, <1>2
      <3>3. OpensUpto(El, c + 1, c) = {}
        BY <1>5 DEF OpensUpto
      <3>4. Lists(<<>>, OpensUpto(El, c + 1, c))
        BY <3>3, ListsNone
      <3>5. c + 1 \in Int /\ c + 1 <= c + 1
        OBVIOUS
      <3>6. QED
        BY <3>1, <3>2, <3>4, <3>5, <1>6
    <2>2. b \in Opens(sch)
      BY <1>6, StepIs
    <2>3. k \in Nat /\ k = n - IF c \in El THEN 1 ELSE 0
      BY <2>1, <1>6 DEF StillToFind
    <2>4. Ahead(El, "back", c) # {} /\ Many(b, k)
      <3>1. n \in Nat \ {0} /\ b = Beside(sch, "back", c)
        BY <2>1, <1>6 DEF Beside
      <3>2. QED
        BY <3>1, <1>3, <1>6, FindGoesOn
    <2>5. <<<<b, k>>, <<c, n>>>> \in R
      <3>1. n \in Nat \ {0} /\ Ahead(El, "back", c) # {}
        BY <2>1, <2>4
      <3>2. QED
        BY <3>1, <1>4, <1>6
    <2>6. w[<<c, n>>] = w[<<b, k>>] \o IfOpen(El, c)
      BY <2>1, <1>2, <1>6
    <2>7. ASSUME Found(b, k) PROVE Found(c, n)
      <3>1. PICK a \in Int : a <= b + 1 /\ Lists(w[<<b, k>>], OpensUpto(El, a, b))
        BY <2>7
      <3>2. b < c
        BY <1>6, StepIs
      <3>3. \A o \in El : o < c => o <= b
        BY <1>6, OpensFollow
      <3>4. NoneBetween(El, b, c)
        BY <3>2, <3>3, <1>5 DEF NoneBetween
      <3>5. Lists(w[<<c, n>>], OpensUpto(El, a, c))
        <4> DEFINE q == w[<<b, k>>]
        <4>1. Lists(q, OpensUpto(El, a, b)) /\ a <= b + 1
          BY <3>1
        <4> HIDE DEF q
        <4>2. Lists(q \o IfOpen(El, c), OpensUpto(El, a, c))
          BY <3>4, <4>1, OneAfter
        <4>3. QED
          BY <4>2, <2>6 DEF q
      <3>6. Len(w[<<c, n>>]) = n
        <4> DEFINE q == w[<<b, k>>]
                   i == IfOpen(El, c)
        <4>1. q \in Seq(Int) /\ Len(q) = k
          BY <3>1, <2>7 DEF Lists
        <4>2. i \in Seq(Int) /\ Len(i) = IF c \in El THEN 1 ELSE 0
          BY ListsOpen
        <4> HIDE DEF q, i
        <4>3. Len(q \o i) = Len(q) + Len(i)
          BY <4>1, <4>2, LenConcat
        <4>4. Len(q \o i) = n
          BY <4>1, <4>2, <4>3, <2>3
        <4>5. QED
          BY <4>4, <2>6 DEF q, i
      <3>7. a <= c + 1
        BY <3>1, <3>2
      <3>8. QED
        BY <3>5, <3>6, <3>7
    <2>8. QED
      BY <2>2, <2>3, <2>4, <2>5, <2>7, <1>6
  <1>7. Bad = {}
    <2>1. Bad \in SUBSET (Int \X Nat)
      BY OpensAreInt
    <2>2. ASSUME NEW at \in Bad PROVE \E y \in Bad : <<y, at>> \in R
      <3>1. PICK c \in Int, n \in Nat : at = <<c, n>> /\ c \in Opens(sch) /\ Many(c, n) /\ ~Found(c, n)
        <4> HIDE DEF Found, Many
        <4>1. at \in Opens(sch) \X Nat /\ Many(at[1], at[2]) /\ ~Found(at[1], at[2])
          OBVIOUS
        <4>2. at = <<at[1], at[2]>> /\ at[1] \in Opens(sch) /\ at[1] \in Int /\ at[2] \in Nat
          BY <4>1, OpensAreInt
        <4>3. QED
          BY <4>1, <4>2
      <3>2. PICK b \in Int : b = Step(sch, c, -1)
        BY StepIs
      <3> DEFINE k == StillToFind(El, <<c, n>>)
      <3> HIDE DEF Found, Many, Bad
      <3>3. b \in Opens(sch) /\ k \in Nat /\ Many(b, k) /\ ~Found(b, k) /\ <<<<b, k>>, <<c, n>>>> \in R
        BY <3>1, <3>2, <1>6
      <3>4. <<b, k>> \in Bad
        BY <3>3 DEF Bad
      <3>5. QED
        BY <3>1, <3>3, <3>4
    <2> HIDE DEF Bad
    <2>3. QED
      BY <2>1, <2>2, <1>4, NoDescent
  <1> DEFINE u == FirstOpen(sch, e)
             c == Step(sch, u, -1)
  <1>8. u \in Opens(sch) /\ u \in Int
    BY FirstOpenIs
  <1>9. c \in Opens(sch) /\ c \in Int /\ c < u
    BY <1>8, StepIs
  <1>10. LatestOpens(sch, e, limit, El) = w[<<c, limit>>]
    BY <1>2
  <1>11. \A o \in El : o <= c <=> o < e
    <2> TAKE o \in El
    <2>1. o \in Opens(sch) /\ o \in Int
      BY <1>5
    <2>2. e <= o <=> u <= o
      BY <2>1, NoneBeforeFirst
    <2>3. o < u => o <= c
      BY <2>1, <1>8, OpensFollow
    <2>4. QED
      BY <2>1, <2>2, <2>3, <1>8, <1>9
  <1>12. Found(c, limit)
    <2>1. Many(c, limit)
      <3> HIDE DEF c
      <3>1. Ahead(El, "back", c) = {o \in El : o < e}
        BY <1>11 DEF Ahead
      <3>2. QED
        BY <3>1
    <2> HIDE DEF Found, Many, c
    <2>2. <<c, limit>> \in Opens(sch) \X Nat /\ <<c, limit>>[1] = c /\ <<c, limit>>[2] = limit
      BY <1>9
    <2>3. ~(<<c, limit>> \in Bad)
      BY <1>7
    <2>4. QED
      BY <2>1, <2>2, <2>3
  <1>13. QED
    <2>1. PICK b \in Int : Lists(w[<<c, limit>>], OpensUpto(El, b, c))
      BY <1>12
    <2> HIDE DEF c
    <2>2. OpensUpto(El, b, c) = OpensIn(El, b, e)
      BY <1>11 DEF OpensIn, OpensUpto
    <2>3. QED
      BY <2>1, <2>2, <1>10, <1>12

(* And it returns whatever it is asked for if the opens never end.         *)
COROLLARY LatestOpensExact ==
  ASSUME NEW sch, Schedule(sch), NEW e \in Int, NEW limit \in Nat, NEW El \in SUBSET Opens(sch), Recurs(El)
  PROVE  /\ Len(LatestOpens(sch, e, limit, El)) = limit
         /\ \E b \in Int : Lists(LatestOpens(sch, e, limit, El), OpensIn(El, b, e))
  <1>1. \A o \in El : o \in Int
    BY OpensAreInt
  <1>2. HasMany(Ahead(El, "back", e - 1), limit)
    BY <1>1, RecursIsMany DEF Ways
  <1>3. Ahead(El, "back", e - 1) = {o \in El : o < e}
    BY <1>1 DEF Ahead
  <1>4. QED
    BY <1>2, <1>3, LatestOpensFound

(* next_opens returns as many opens as it was asked for, if there are so   *)
(* many, in order: those from the time on, without a gap between them.     *)
THEOREM NextOpensFound ==
  ASSUME NEW sch, Schedule(sch), NEW s \in Int, NEW limit \in Nat, NEW El \in SUBSET Opens(sch),
         HasMany({o \in El : s <= o}, limit)
  PROVE  /\ Len(NextOpens(sch, s, limit, El)) = limit
         /\ \E b \in Int : Lists(NextOpens(sch, s, limit, El), OpensIn(El, s, b))
  <1>1. PICK w : NextIs(sch, El, w)
    BY NextWalkIs
  <1>2. /\ \A t, n : NextOpens(sch, t, n, El) = w[<<FirstOpen(sch, t), n>>]
        /\ \A c \in Int, n \in Nat :
             w[<<c, n>>] = IF n = 0 THEN <<>>
                           ELSE IfOpen(El, c) \o w[<<EndAfter(sch, c), StillToFind(El, <<c, n>>)>>]
    BY <1>1 DEF NextIs
  <1>3. "on" \in Ways
    BY DEF Ways
  <1>4. PICK R : /\ IsWellFoundedOn(R, Int \X Nat)
                 /\ \A c \in Opens(sch), n \in Nat \ {0} : Ahead(El, "on", c) # {} =>
                      LET next == <<EndAfter(sch, c), StillToFind(El, <<c, n>>)>> IN
                      next \in Int \X Nat /\ <<next, <<c, n>>>> \in R
    BY <1>3, FindEnds DEF Beside
  <1>5. \A o \in El : o \in Int
    BY OpensAreInt
  <1> DEFINE Found(c, n) == /\ Len(w[<<c, n>>]) = n
                            /\ \E b \in Int : c <= b /\ Lists(w[<<c, n>>], OpensIn(El, c, b))
             Many(c, n) == HasMany(Ahead(El, "on", c), n)
             Bad == {at \in Opens(sch) \X Nat : Many(at[1], at[2]) /\ ~Found(at[1], at[2])}
  <1>6. ASSUME NEW c \in Int, c \in Opens(sch), NEW n \in Nat, Many(c, n), ~Found(c, n), NEW b \in Int, b = EndAfter(sch, c),
               NEW k, k = StillToFind(El, <<c, n>>)
        PROVE  b \in Opens(sch) /\ k \in Nat /\ Many(b, k) /\ ~Found(b, k) /\ <<<<b, k>>, <<c, n>>>> \in R
    <2>1. n # 0
      <3>1. SUFFICES ASSUME n = 0 PROVE FALSE
        OBVIOUS
      <3>2. w[<<c, n>>] = <<>> /\ Len(<<>>) = 0
        BY <3>1, <1>2
      <3>3. OpensIn(El, c, c) = {}
        BY <1>5 DEF OpensIn
      <3>4. Lists(<<>>, OpensIn(El, c, c))
        BY <3>3, ListsNone
      <3>5. c <= c
        OBVIOUS
      <3>6. QED
        BY <3>1, <3>2, <3>4, <3>5, <1>6
    <2>2. b \in Opens(sch)
      BY <1>6, StepIs
    <2>3. k \in Nat /\ k = n - IF c \in El THEN 1 ELSE 0
      BY <2>1, <1>6 DEF StillToFind
    <2>4. Ahead(El, "on", c) # {} /\ Many(b, k)
      <3>1. n \in Nat \ {0} /\ b = Beside(sch, "on", c)
        BY <2>1, <1>6 DEF Beside
      <3>2. QED
        BY <3>1, <1>3, <1>6, FindGoesOn
    <2>5. <<<<b, k>>, <<c, n>>>> \in R
      <3>1. n \in Nat \ {0} /\ Ahead(El, "on", c) # {}
        BY <2>1, <2>4
      <3>2. QED
        BY <3>1, <1>4, <1>6
    <2>6. w[<<c, n>>] = IfOpen(El, c) \o w[<<b, k>>]
      BY <2>1, <1>2, <1>6
    <2>7. ASSUME Found(b, k) PROVE Found(c, n)
      <3>1. PICK a \in Int : b <= a /\ Lists(w[<<b, k>>], OpensIn(El, b, a))
        BY <2>7
      <3>2. c < b
        BY <1>6, StepIs
      <3>3. \A o \in El : c < o => b <= o
        BY <1>6, OpensFollow
      <3>4. NoneBetween(El, c, b)
        BY <3>2, <3>3, <1>5 DEF NoneBetween
      <3>5. Lists(w[<<c, n>>], OpensIn(El, c, a))
        <4> DEFINE q == w[<<b, k>>]
        <4>1. Lists(q, OpensIn(El, b, a)) /\ b <= a
          BY <3>1
        <4> HIDE DEF q
        <4>2. Lists(IfOpen(El, c) \o q, OpensIn(El, c, a))
          BY <3>4, <4>1, OneBefore
        <4>3. QED
          BY <4>2, <2>6 DEF q
      <3>6. Len(w[<<c, n>>]) = n
        <4> DEFINE q == w[<<b, k>>]
                   i == IfOpen(El, c)
        <4>1. q \in Seq(Int) /\ Len(q) = k
          BY <3>1, <2>7 DEF Lists
        <4>2. i \in Seq(Int) /\ Len(i) = IF c \in El THEN 1 ELSE 0
          BY ListsOpen
        <4> HIDE DEF q, i
        <4>3. Len(i \o q) = Len(i) + Len(q)
          BY <4>1, <4>2, LenConcat
        <4>4. Len(i \o q) = n
          BY <4>1, <4>2, <4>3, <2>3
        <4>5. QED
          BY <4>4, <2>6 DEF q, i
      <3>7. c <= a
        BY <3>1, <3>2
      <3>8. QED
        BY <3>5, <3>6, <3>7
    <2>8. QED
      BY <2>2, <2>3, <2>4, <2>5, <2>7, <1>6
  <1>7. Bad = {}
    <2>1. Bad \in SUBSET (Int \X Nat)
      BY OpensAreInt
    <2>2. ASSUME NEW at \in Bad PROVE \E y \in Bad : <<y, at>> \in R
      <3>1. PICK c \in Int, n \in Nat : at = <<c, n>> /\ c \in Opens(sch) /\ Many(c, n) /\ ~Found(c, n)
        <4> HIDE DEF Found, Many
        <4>1. at \in Opens(sch) \X Nat /\ Many(at[1], at[2]) /\ ~Found(at[1], at[2])
          OBVIOUS
        <4>2. at = <<at[1], at[2]>> /\ at[1] \in Opens(sch) /\ at[1] \in Int /\ at[2] \in Nat
          BY <4>1, OpensAreInt
        <4>3. QED
          BY <4>1, <4>2
      <3>2. PICK b \in Int : b = EndAfter(sch, c)
        BY StepIs
      <3> DEFINE k == StillToFind(El, <<c, n>>)
      <3> HIDE DEF Found, Many, Bad
      <3>3. b \in Opens(sch) /\ k \in Nat /\ Many(b, k) /\ ~Found(b, k) /\ <<<<b, k>>, <<c, n>>>> \in R
        BY <3>1, <3>2, <1>6
      <3>4. <<b, k>> \in Bad
        BY <3>3 DEF Bad
      <3>5. QED
        BY <3>1, <3>3, <3>4
    <2> HIDE DEF Bad
    <2>3. QED
      BY <2>1, <2>2, <1>4, NoDescent
  <1> DEFINE c == FirstOpen(sch, s)
  <1>8. c \in Opens(sch) /\ c \in Int
    BY FirstOpenIs, OpensAreInt
  <1>9. NextOpens(sch, s, limit, El) = w[<<c, limit>>]
    BY <1>2
  <1>10. Found(c, limit)
    <2>1. Many(c, limit)
      <3> HIDE DEF c
      <3>1. \A o \in El : s <= o <=> c <= o
        BY NoneBeforeFirst DEF c
      <3>2. Ahead(El, "on", c) = {o \in El : s <= o}
        BY <3>1 DEF Ahead
      <3>3. QED
        BY <3>2
    <2> HIDE DEF Found, Many, c
    <2>2. <<c, limit>> \in Opens(sch) \X Nat /\ <<c, limit>>[1] = c /\ <<c, limit>>[2] = limit
      BY <1>8
    <2>3. ~(<<c, limit>> \in Bad)
      BY <1>7
    <2>4. QED
      BY <2>1, <2>2, <2>3
  <1>11. \A b \in Int : OpensIn(El, c, b) = OpensIn(El, s, b)
    BY NoneBeforeFirst DEF OpensIn
  <1>12. QED
    BY <1>9, <1>10, <1>11

(* And it returns whatever it is asked for if the opens never end.         *)
COROLLARY NextOpensExact ==
  ASSUME NEW sch, Schedule(sch), NEW s \in Int, NEW limit \in Nat, NEW El \in SUBSET Opens(sch), Recurs(El)
  PROVE  /\ Len(NextOpens(sch, s, limit, El)) = limit
         /\ \E b \in Int : Lists(NextOpens(sch, s, limit, El), OpensIn(El, s, b))
  <1>1. \A o \in El : o \in Int
    BY OpensAreInt
  <1>2. HasMany(Ahead(El, "on", s), limit)
    BY <1>1, RecursIsMany DEF Ways
  <1>3. Ahead(El, "on", s) = {o \in El : s <= o}
    BY DEF Ahead
  <1>4. QED
    BY <1>2, <1>3, NextOpensFound

-----------------------------------------------------------------------------
(* How many opens a range has: they are a candle apart at least, so that a *)
(* list of them that is longer takes a longer range.                       *)
LEMMA ListIsSpaced ==
  ASSUME NEW sch, Fixed(sch), NEW X \in SUBSET FixedOpens(sch), NEW s, Lists(s, X), NEW d \in Nat, d = sch.duration
  PROVE  \A i \in 1 .. Len(s) : s[1] + (i - 1) * d <= s[i]
  <1> DEFINE Bad == {i \in 1 .. Len(s) : ~(s[1] + (i - 1) * d <= s[i])}
  <1>1. s \in Seq(Int) /\ Len(s) \in Nat /\ DOMAIN s = 1 .. Len(s) /\ \A i \in 1 .. Len(s) : s[i] \in Int /\ s[i] \in X
    BY DEF Lists, ToSet
  <1>2. SUFFICES ASSUME Bad # {} PROVE FALSE
    OBVIOUS
  <1> DEFINE m == [i \in 1 .. Len(s) |-> i]
  <1>3. PICK i \in Bad : \A j \in Bad : m[i] <= m[j]
    <2>1. m \in [1 .. Len(s) -> Nat] /\ Bad \in SUBSET (1 .. Len(s))
      BY <1>1
    <2> HIDE DEF m, Bad
    <2>2. QED
      BY <1>2, <2>1, SmallestNat
  <1>4. i \in 1 .. Len(s) /\ i \in Int /\ ~(s[1] + (i - 1) * d <= s[i])
    BY <1>1
  <1>5. i # 1
    <2>1. i = 1 => (i - 1) * d = 0 /\ s[1] \in Int /\ s[i] = s[1]
      BY <1>1, <1>4
    <2>2. QED
      BY <1>4, <2>1
  <1>6. i - 1 \in 1 .. Len(s) /\ i - 1 \notin Bad
    <2>1. i - 1 \in 1 .. Len(s)
      BY <1>1, <1>4, <1>5
    <2>2. m[i - 1] < m[i]
      BY <1>4, <2>1
    <2>3. \A j \in Bad : m[j] \in Int /\ m[i] <= m[j]
      BY <1>1, <1>3
    <2>4. m[i] \in Int /\ m[i - 1] \in Int
      BY <1>4, <2>1
    <2> HIDE DEF m
    <2>5. i - 1 \notin Bad
      <3> HIDE DEF Bad
      <3>1. i - 1 \in Bad => m[i] <= m[i - 1]
        BY <2>3
      <3>2. QED
        BY <2>2, <2>4, <3>1
    <2>6. QED
      BY <2>1, <2>5
  <1>7. s[1] + ((i - 1) - 1) * d <= s[i - 1]
    BY <1>6
  <1>8. s[i - 1] < s[i]
    <2>1. i - 1 \in DOMAIN s /\ i \in DOMAIN s /\ i - 1 < i
      BY <1>1, <1>4, <1>6
    <2>2. QED
      BY <2>1 DEF Lists
  <1>9. s[i - 1] + d <= s[i]
    BY <1>1, <1>4, <1>6, <1>8, FixedOpensApart
  <1>10. ((i - 1) - 1) * d + d = (i - 1) * d /\ (i - 1) * d \in Int
    BY <1>4
  <1>11. s[1] \in Int /\ s[i - 1] \in Int /\ s[i] \in Int
    BY <1>1, <1>4, <1>6
  <1> HIDE DEF Bad
  <1> DEFINE x == (i - 1) * d
             y == ((i - 1) - 1) * d
  <1>12. x \in Int /\ y \in Int /\ y + d = x /\ s[1] + y <= s[i - 1] /\ ~(s[1] + x <= s[i])
    BY <1>4, <1>7, <1>10
  <1> HIDE DEF x, y
  <1>13. QED
    BY <1>9, <1>11, <1>12

LEMMA FixedRangeFits ==
  ASSUME NEW sch, Fixed(sch), NEW El \in SUBSET FixedOpens(sch), NEW s \in Int, NEW e \in Int, NEW n \in Nat,
         NEW d \in Nat, d = sch.duration, e - s <= n * d, NEW list, Lists(list, OpensIn(El, s, e))
  PROVE  Len(list) <= n
  <1> DEFINE X == OpensIn(El, s, e)
  <1>1. list \in Seq(Int) /\ Len(list) \in Nat /\ \A i \in 1 .. Len(list) : list[i] \in Int /\ list[i] \in X
    BY DEF Lists, ToSet
  <1>2. SUFFICES ASSUME n + 1 <= Len(list) PROVE FALSE
    BY <1>1
  <1>3. X \in SUBSET FixedOpens(sch)
    BY DEF OpensIn
  <1>4. n + 1 \in 1 .. Len(list) /\ 1 \in 1 .. Len(list)
    BY <1>1, <1>2
  <1>5. list[1] + ((n + 1) - 1) * d <= list[n + 1]
    <2> HIDE DEF X
    <2>1. QED
      BY <1>3, <1>4, ListIsSpaced DEF X
  <1>6. s <= list[1] /\ list[n + 1] < e /\ list[1] \in Int /\ list[n + 1] \in Int
    BY <1>1, <1>4 DEF OpensIn
  <1> DEFINE x == n * d
  <1>7. x \in Int /\ ((n + 1) - 1) * d = x /\ e - s <= x
    OBVIOUS
  <1> HIDE DEF x
  <1>8. QED
    BY <1>5, <1>6, <1>7

(* A range of n candles, or of any part of the n-th, has n opens at most.  *)
LEMMA RangeFits ==
  ASSUME NEW sch, Schedule(sch), NEW El \in SUBSET Opens(sch), NEW s \in Int, NEW e \in Int, NEW n \in Nat,
         e <= Step(sch, s, n), NEW list, Lists(list, OpensIn(El, s, e))
  PROVE  Len(list) <= n
  <1>1. CASE sch.month
    <2>1. PICK i \in Int : InMonth(s, i)
      BY MonthOfIs
    <2>2. PICK b \in Int : b = AddMonth(s, n) /\ InMonth(b, i + n) /\ (b = MonthStart[i + n] <=> s = MonthStart[i])
      BY <2>1, AddMonthIs
    <2>3. e <= b
      BY <1>1, <2>2 DEF Step
    <2>4. PICK a \in Int : a = IF s = MonthStart[i] THEN i ELSE i + 1
      OBVIOUS
    <2>5. PICK c \in Int : c = a + n - 1
      OBVIOUS
    <2>6. ASSUME NEW o \in OpensIn(El, s, e) PROVE \E j \in a .. c : o = MonthStart[j]
      <3>1. o \in El /\ s <= o /\ o < e
        BY DEF OpensIn
      <3>2. PICK j \in Int : o = MonthStart[j] /\ o \in Int
        BY <1>1, <3>1, MonthStartIs DEF Opens
      <3>3. PICK x \in Int, y \in Int, z \in Int : x = MonthStart[i] /\ y = MonthStart[i + n] /\ z = MonthStart[(i + n) + 1]
        <4>1. PICK h \in Int, g \in Int : h = i + n /\ g = (i + n) + 1
          OBVIOUS
        <4>2. MonthStart[i] \in Int /\ MonthStart[h] \in Int /\ MonthStart[g] \in Int
          BY MonthStartIs
        <4>3. QED
          BY <4>1, <4>2
      <3>4. x <= s /\ y <= b /\ b < z /\ o < b
        BY <2>1, <2>2, <2>3, <3>1, <3>2, <3>3 DEF InMonth
      <3>5. CASE s = x
        <4>1. ~(o < x) /\ ~(y < o) /\ o # y
          BY <3>1, <3>2, <3>3, <3>4, <3>5, <2>2
        <4>2. ~(j < i) /\ ~(i + n < j) /\ j # i + n
          BY <4>1, <3>2, <3>3, MonthsInOrder
        <4>3. QED
          BY <4>2, <3>2, <3>3, <3>5, <2>4, <2>5
      <3>6. CASE s # x
        <4>1. x < o /\ o < z
          BY <3>1, <3>2, <3>4, <3>6
        <4>2. i < j /\ j < (i + n) + 1
          BY <4>1, <3>2, <3>3, MonthsInOrder
        <4>3. QED
          BY <4>2, <3>2, <3>3, <3>6, <2>4, <2>5
      <3>7. QED
        BY <3>5, <3>6
    <2> DEFINE X == OpensIn(El, s, e)
               g == [o \in X |-> CHOOSE j \in a .. c : o = MonthStart[j]]
    <2>7. \A o \in X : g[o] \in a .. c /\ o = MonthStart[g[o]]
      BY <2>6
    <2> HIDE DEF g
    <2>8. \A x, y \in X : g[x] = g[y] => x = y
      BY <2>7
    <2>9. IsFiniteSet(a .. c) /\ Cardinality(a .. c) = n
      <3>1. IsFiniteSet(a .. c) /\ Cardinality(a .. c) = IF a > c THEN 0 ELSE c - a + 1
        BY FS_Interval
      <3>2. IF a > c THEN n = 0 ELSE c - a + 1 = n
        BY <2>4, <2>5
      <3>3. QED
        BY <3>1, <3>2
    <2>10. Lists(list, X)
      OBVIOUS
    <2> HIDE DEF X
    <2>11. Len(list) <= Cardinality(a .. c)
      BY <2>7, <2>8, <2>9, <2>10, FewerIsShorter
    <2>12. QED
      BY <2>9, <2>11
  <1>2. CASE ~sch.month
    <2>1. Fixed(sch) /\ El \in SUBSET FixedOpens(sch)
      BY <1>2 DEF Schedule, Opens
    <2>2. PICK d \in Nat \ {0} : d = sch.duration
      BY <2>1 DEF Fixed
    <2>3. PICK x \in Int : x = n * d
      OBVIOUS
    <2>4. e <= s + x
      BY <2>1, <2>2, <2>3, FixedStep
    <2>5. e - s <= n * d
      BY <2>3, <2>4
    <2>6. QED
      BY <2>1, <2>2, <2>5, FixedRangeFits
  <1>3. QED
    BY <1>1, <1>2

LEMMA FixedCount ==
  ASSUME NEW sch, Fixed(sch), NEW El \in SUBSET FixedOpens(sch), NEW s \in Int, NEW e \in Int, s <= e,
         NEW list, Lists(list, OpensIn(El, s, e))
  PROVE  ConservativeCount(sch, s, e) \in Nat /\ Len(list) <= ConservativeCount(sch, s, e)
  <1>1. PICK d \in Nat \ {0} : d = sch.duration
    BY DEF Fixed
  <1> DEFINE n == (e - s + d - 1) \div d
  <1>2. ConservativeCount(sch, s, e) = n
    BY <1>1 DEF ConservativeCount, Fixed
  <1>3. e - s + d - 1 \in Nat
    BY <1>1
  <1>4. n \in Int /\ n * d <= e - s + d - 1 /\ e - s + d - 1 < n * d + d
    <2> DEFINE x == e - s + d - 1
    <2>1. x \in Int
      BY <1>3
    <2> HIDE DEF x
    <2>2. x \div d \in Int /\ (x \div d) * d <= x /\ x < (x \div d) * d + d
      BY <1>1, <2>1, Quotient
    <2>3. QED
      BY <2>2 DEF x
  <1>5. n \in Nat
    BY <1>1, <1>3
  <1> HIDE DEF n
  <1>6. n * d \in Int
    BY <1>1, <1>4
  <1>7. e - s <= n * d
    <2> DEFINE x == n * d
    <2> HIDE DEF x
    <2>1. x \in Int /\ e - s + d - 1 < x + d
      BY <1>4, <1>6 DEF x
    <2>2. e - s <= x
      BY <1>1, <2>1
    <2>3. QED
      BY <2>2 DEF x
  <1>8. Len(list) <= n
    BY <1>1, <1>5, <1>7, FixedRangeFits
  <1>9. QED
    BY <1>2, <1>5, <1>8

(* The conservative count of a range, which a request is checked against   *)
(* before its symbol and policy are known, is never less than the number   *)
(* of opens that are then expected (candles.py:36, :282).                  *)
THEOREM CountIsConservative ==
  ASSUME NEW sch, Schedule(sch), NEW El \in SUBSET Opens(sch), NEW s \in Int, NEW e \in Int, s <= e
  PROVE  /\ ConservativeCount(sch, s, e) \in Nat
         /\ Len(ExpectedOpens(sch, s, e, El)) <= ConservativeCount(sch, s, e)
  <1>1. Lists(ExpectedOpens(sch, s, e, El), OpensIn(El, s, e))
    BY ExpectedOpensExact
  <1>2. CASE sch.month
    <2>1. Lists(MonthOpens(s, e), OpensIn(Opens(sch), s, e))
      BY <1>2, MonthOpensExact
    <2>2. OpensIn(El, s, e) \subseteq OpensIn(Opens(sch), s, e)
      BY DEF OpensIn
    <2>3. ConservativeCount(sch, s, e) = Len(MonthOpens(s, e))
      BY <1>2 DEF ConservativeCount
    <2>4. QED
      BY <1>1, <2>1, <2>2, <2>3, LongerList
  <1>3. CASE ~sch.month
    <2>1. Fixed(sch) /\ El \in SUBSET FixedOpens(sch)
      BY <1>3 DEF Schedule, Opens
    <2>2. QED
      BY <1>1, <2>1, FixedCount
  <1>4. QED
    BY <1>2, <1>3

(* What parse_candle_request makes of what it accepts: an absent or a      *)
(* malformed parameter is a negative number.                               *)
RawOK(raw) == raw.from \in Int /\ raw.to \in Int /\ raw.limit \in Int /\ raw.count \in Int

Accepted(raw, sch, now, req) == req = ParseRequest(raw, sch, now) /\ req.error = ""

OneMode(raw, req) ==
  /\ req.mode \in {"limit", "count", "range"}
  /\ req.mode = "limit" <=> Given(raw.limit)
  /\ req.mode = "count" <=> Given(raw.count)

LEMMA AcceptedIs ==
  ASSUME NEW sch, NEW now \in Int, NEW raw, RawOK(raw), NEW req, Accepted(raw, sch, now, req)
  PROVE  /\ OneMode(raw, req) /\ req.start \in Int /\ req.end \in Int
         /\ \/ /\ req.mode # "range" /\ req.n \in 1 .. MaxCandles /\ req.direction \in {"forward", "backward"}
               /\ ~(Given(raw.from) /\ Given(raw.to))
            \/ /\ req.mode = "range" /\ req.direction = "range"
               /\ req.start < req.end /\ ~TooLong(sch, req.start, req.end)
  <1>1. PICK mode : mode = IF Given(raw.count) THEN "count" ELSE IF Given(raw.limit) THEN "limit" ELSE "range"
    OBVIOUS
  <1>2. PICK n : n = IF mode = "count" THEN raw.count ELSE raw.limit
    OBVIOUS
  <1>3. PICK end \in Int : end = IF Given(raw.to) THEN raw.to ELSE now
    BY DEF RawOK
  <1>4. PICK bad1, bad2, bad3 :
          bad1 = Error("INVALID_TIME_RANGE") /\ bad2 = Error("UNSUPPORTED_SYMBOL") /\ bad3 = Error("UNSUPPORTED_TIMEFRAME")
    OBVIOUS
  <1>5. bad1.error # "" /\ bad2.error # "" /\ bad3.error # ""
    BY <1>4 DEF Error
  <1>6. req = IF Given(raw.before) THEN bad1
              ELSE IF raw.symbol = "" THEN bad2
              ELSE IF raw.timeframe \notin Timeframes THEN bad3
              ELSE IF Given(raw.limit) /\ Given(raw.count) THEN bad1
              ELSE IF mode # "range" /\ (n \notin 1 .. MaxCandles \/ (Given(raw.from) /\ Given(raw.to))) THEN bad1
              ELSE IF mode # "range" /\ Given(raw.from)
                   THEN IF raw.from = Malformed THEN bad1 ELSE Request(mode, n, "forward", raw.from, raw.from)
              ELSE IF end = Malformed THEN bad1
              ELSE IF mode # "range" THEN Request(mode, n, "backward", end, end)
              ELSE IF raw.from < 0 \/ end <= raw.from \/ TooLong(sch, raw.from, end) THEN bad1
              ELSE Request("range", 0, "range", raw.from, end)
    BY <1>1, <1>2, <1>3, <1>4 DEF ParseRequest, Accepted
  <1>7. req # bad1 /\ req # bad2 /\ req # bad3
    BY <1>5 DEF Accepted
  <1>8. /\ ~(Given(raw.limit) /\ Given(raw.count))
        /\ mode # "range" => n \in 1 .. MaxCandles /\ ~(Given(raw.from) /\ Given(raw.to))
        /\ mode # "range" /\ Given(raw.from) => req = Request(mode, n, "forward", raw.from, raw.from)
        /\ mode # "range" /\ ~Given(raw.from) => req = Request(mode, n, "backward", end, end)
        /\ mode = "range" => /\ req = Request("range", 0, "range", raw.from, end)
                             /\ ~(end <= raw.from) /\ ~TooLong(sch, raw.from, end)
    BY <1>6, <1>7, Zenon
  <1>9. raw.from \in Int
    BY DEF RawOK
  <1>10. req.mode = mode => OneMode(raw, req)
    BY <1>1, <1>8 DEF OneMode
  <1>11. CASE mode # "range" /\ Given(raw.from)
    <2>1. req = Request(mode, n, "forward", raw.from, raw.from)
      BY <1>8, <1>11, Zenon
    <2>2. req.mode = mode /\ req.n = n /\ req.direction = "forward" /\ req.start = raw.from /\ req.end = raw.from
      BY <2>1 DEF Request
    <2>3. QED
      BY <1>8, <1>9, <1>10, <1>11, <2>2
  <1>12. CASE mode # "range" /\ ~Given(raw.from)
    <2>1. req = Request(mode, n, "backward", end, end)
      BY <1>8, <1>12, Zenon
    <2>2. req.mode = mode /\ req.n = n /\ req.direction = "backward" /\ req.start = end /\ req.end = end
      BY <2>1 DEF Request
    <2>3. QED
      BY <1>3, <1>8, <1>10, <1>12, <2>2
  <1>13. CASE mode = "range"
    <2>1. req = Request("range", 0, "range", raw.from, end)
      BY <1>8, <1>13, Zenon
    <2>2. req.mode = "range" /\ req.direction = "range" /\ req.start = raw.from /\ req.end = end
      BY <2>1 DEF Request
    <2>3. QED
      BY <1>3, <1>8, <1>9, <1>10, <1>13, <2>2
  <1>14. QED
    BY <1>11, <1>12, <1>13

(* A request that is accepted is in one mode and never has more opens than *)
(* a request may have: n of them, on its side of the time it gives, or     *)
(* those of its range (candles.py:36, :164, :282).                         *)
THEOREM AcceptedRequestsFit ==
  ASSUME NEW sch, Schedule(sch), NEW El \in SUBSET Opens(sch), Recurs(El), MaxCandles \in Nat,
         NEW now \in Int, NEW raw, RawOK(raw), NEW req, Accepted(raw, sch, now, req),
         NEW opens, opens = Window(req, sch, El).opens
  PROVE  /\ OneMode(raw, req)
         /\ Len(opens) <= MaxCandles
         /\ req.mode # "range" => Len(opens) = req.n
         /\ CASE req.mode = "range" -> Lists(opens, OpensIn(El, req.start, req.end))
              [] req.mode # "range" /\ req.direction = "forward" ->
                   \E b \in Int : Lists(opens, OpensIn(El, req.start, b))
              [] OTHER -> \E b \in Int : Lists(opens, OpensIn(El, b, req.end))
  <1>1. /\ OneMode(raw, req) /\ req.start \in Int /\ req.end \in Int
        /\ \/ /\ req.mode # "range" /\ req.n \in 1 .. MaxCandles /\ req.direction \in {"forward", "backward"}
           \/ /\ req.mode = "range" /\ req.direction = "range"
              /\ req.start < req.end /\ ~TooLong(sch, req.start, req.end)
    BY AcceptedIs
  <1>2. PICK s \in Int, e \in Int : s = req.start /\ e = req.end
    BY <1>1
  <1>3. CASE req.mode = "range"
    <2>1. opens = ExpectedOpens(sch, s, e, El)
      BY <1>2, <1>3 DEF Window
    <2>2. s <= e /\ ~TooLong(sch, s, e)
      BY <1>1, <1>2, <1>3
    <2>3. Lists(opens, OpensIn(El, s, e))
      BY <2>1, ExpectedOpensExact
    <2>4. ConservativeCount(sch, s, e) \in Nat /\ Len(opens) <= ConservativeCount(sch, s, e)
      BY <2>1, <2>2, CountIsConservative
    <2>5. PICK c \in Int : c = ConservativeCount(sch, s, e)
      BY <2>4
    <2>6. ~(c > MaxCandles)
      BY <2>2, <2>5 DEF TooLong
    <2>7. Len(opens) \in Nat
      BY <2>3 DEF Lists
    <2>8. Len(opens) <= MaxCandles
      BY <2>4, <2>5, <2>6, <2>7
    <2>9. QED
      BY <1>1, <1>2, <1>3, <2>3, <2>8
  <1>4. CASE req.mode # "range"
    <2>1. PICK n \in Nat : n = req.n /\ n <= MaxCandles
      BY <1>1, <1>4
    <2>2. CASE req.direction = "forward"
      <3>1. opens = NextOpens(sch, s, n, El)
        BY <1>2, <1>4, <2>1, <2>2 DEF Window
      <3>2. Len(NextOpens(sch, s, n, El)) = n /\ \E b \in Int : Lists(NextOpens(sch, s, n, El), OpensIn(El, s, b))
        BY <1>2, <2>1, NextOpensExact
      <3>3. Len(opens) = n /\ \E b \in Int : Lists(opens, OpensIn(El, s, b))
        BY <3>1, <3>2, Zenon
      <3>4. QED
        BY <1>1, <1>2, <1>4, <2>1, <2>2, <3>3
    <2>3. CASE req.direction # "forward"
      <3>1. opens = LatestOpens(sch, e, n, El)
        BY <1>2, <1>4, <2>1, <2>3 DEF Window
      <3>2. Len(LatestOpens(sch, e, n, El)) = n /\ \E b \in Int : Lists(LatestOpens(sch, e, n, El), OpensIn(El, b, e))
        BY <1>2, <2>1, LatestOpensExact
      <3>3. Len(opens) = n /\ \E b \in Int : Lists(opens, OpensIn(El, b, e))
        BY <3>1, <3>2, Zenon
      <3>4. QED
        BY <1>1, <1>2, <1>4, <2>1, <2>3, <3>3
    <2>4. QED
      BY <2>2, <2>3
  <1>5. QED
    BY <1>3, <1>4

-----------------------------------------------------------------------------
(* The sections cut the range from s to e, in order and without a gap or   *)
(* an overlap, and none of them ends after the step from its start.        *)
Part == [start : Int, end : Int, count : {0}]

Cuts(parts, S, s, e) ==
  /\ parts \in Seq(Part)
  /\ Len(parts) = 0 <=> e <= s
  /\ Len(parts) # 0 => parts[1].start = s /\ parts[Len(parts)].end = e
  /\ \A i \in 1 .. Len(parts) : parts[i].start < parts[i].end /\ parts[i].end <= S[parts[i].start]
  /\ \A i \in 1 .. Len(parts) - 1 : parts[i + 1].start = parts[i].end

LEMMA CutsNone == ASSUME NEW S, NEW s \in Int, NEW e \in Int, e <= s PROVE Cuts(<<>>, S, s, e)
  BY DEF Cuts

LEMMA CutsOne ==
  ASSUME NEW p \in Part, NEW s \in Int, NEW b \in Int, p.start = s, p.end = b, NEW S, NEW e \in Int,
         NEW q, Cuts(q, S, b, e), s < b, b <= S[s], b <= e
  PROVE  Cuts(<<p>> \o q, S, s, e)
  <1> DEFINE r == <<p>> \o q
             n == Len(q)
  <1>1. q \in Seq(Part) /\ n \in Nat /\ r \in Seq(Part) /\ Len(r) = n + 1
    BY DEF Cuts
  <1>2. r[1] = p /\ \A i \in 1 .. n : r[i + 1] = q[i]
    BY <1>1
  <1>3. \A i \in 1 .. n + 1 : i = 1 \/ (i - 1 \in 1 .. n /\ r[i] = q[i - 1])
    BY <1>1, <1>2
  <1>4. /\ n = 0 <=> e <= b
        /\ n # 0 => q[1].start = b /\ q[n].end = e
        /\ \A i \in 1 .. n : q[i].start < q[i].end /\ q[i].end <= S[q[i].start]
        /\ \A i \in 1 .. n - 1 : q[i + 1].start = q[i].end
    BY DEF Cuts
  <1> HIDE DEF r, n
  <1>5. ~(Len(r) = 0) /\ ~(e <= s)
    BY <1>1
  <1>6. r[1].start = s /\ r[Len(r)].end = e
    <2>1. CASE n = 0
      BY <2>1, <1>1, <1>2, <1>4
    <2>2. CASE n # 0
      <3>1. n \in 1 .. n
        BY <2>2, <1>1
      <3>2. r[n + 1] = q[n]
        BY <3>1, <1>2
      <3>3. QED
        BY <2>2, <3>2, <1>1, <1>2, <1>4
    <2>3. QED
      BY <2>1, <2>2
  <1>7. \A i \in 1 .. Len(r) : r[i].start < r[i].end /\ r[i].end <= S[r[i].start]
    BY <1>1, <1>2, <1>3, <1>4
  <1>8. ASSUME NEW i \in 1 .. Len(r) - 1 PROVE r[i + 1].start = r[i].end
    <2>1. i \in 1 .. n /\ r[i + 1] = q[i]
      BY <1>1, <1>2
    <2>2. CASE i = 1
      BY <2>1, <2>2, <1>1, <1>2, <1>4
    <2>3. CASE i # 1
      <3>1. PICK j \in 1 .. n - 1 : i = j + 1
        BY <2>1, <2>3, <1>1
      <3>2. r[j + 1] = q[j]
        BY <3>1, <1>1, <1>2
      <3>3. QED
        BY <2>1, <3>1, <3>2, <1>4
    <2>4. QED
      BY <2>2, <2>3
  <1>9. QED
    BY <1>1, <1>5, <1>6, <1>7, <1>8 DEF Cuts, r

(* The walk of iter_chunks and of _history_ranges: steps, the last one cut *)
(* at the end.                                                             *)
GoesOn(S) == \A c \in Int : S[c] \in Int /\ c < S[c]
CutAt(c, S, e) == IF S[c] < e THEN S[c] ELSE e

CutWalk(S, e, w) ==
  w = [c \in Int |-> IF c >= e THEN <<>> ELSE <<Section(c, CutAt(c, S, e), 0)>> \o w[CutAt(c, S, e)]]

LEMMA CutWalkIs ==
  ASSUME NEW S, GoesOn(S), NEW e \in Int
  PROVE  \E w : CutWalk(S, e, w)
  <1> DEFINE D == {c \in Int : c >= e}
             N == [c \in Int |-> CutAt(c, S, e)]
             E == [c \in Int |-> <<>>]
             V == Seq(Part)
             G == [p \in Int \X V |-> <<Section(p[1], CutAt(p[1], S, e), 0)>> \o p[2]]
             m == [c \in Int |-> IF c < e THEN e - c ELSE 0]
             R == Lower(Int, m, m)
  <1>1. \A c \in Int : CutAt(c, S, e) \in Int /\ (c < e => c < CutAt(c, S, e) /\ CutAt(c, S, e) <= e)
    BY DEF CutAt, GoesOn
  <1>2. N \in [Int -> Int] /\ m \in [Int -> Nat]
    BY <1>1
  <1>3. E \in [Int -> V]
    OBVIOUS
  <1>4. G \in [Int \X V -> V]
    <2>1. \A c \in Int : Section(c, CutAt(c, S, e), 0) \in Part
      BY <1>1 DEF Section, Part
    <2>2. \A c \in Int, q \in V : <<Section(c, CutAt(c, S, e), 0)>> \o q \in V
      BY <2>1
    <2>3. QED
      BY <2>2
  <1>5. IsWellFoundedOn(R, Int)
    BY <1>2, LowerEnds
  <1>6. \A c \in Int \ D : <<N[c], c>> \in R
    BY <1>1 DEF Lower
  <1>7. PICK f \in [Int -> V] : \A c \in Int : f[c] = IF c \in D THEN E[c] ELSE G[<<c, f[N[c]]>>]
    <2>1. D \subseteq Int
      OBVIOUS
    <2> HIDE DEF D, N, E, G, R, V
    <2>2. Descends(Int, V, D, N, E, G, R)
      BY <2>1, <1>2, <1>3, <1>4, <1>5, <1>6 DEF Descends
    <2>3. QED
      BY <2>2, WalkExists
  <1>8. \A c \in Int : f[c] = IF c >= e THEN <<>> ELSE <<Section(c, CutAt(c, S, e), 0)>> \o f[CutAt(c, S, e)]
    <2> TAKE c \in Int
    <2>1. CASE ~(c >= e)
      <3>1. f[c] = G[<<c, f[N[c]]>>]
        BY <2>1, <1>7
      <3>2. N[c] = CutAt(c, S, e) /\ N[c] \in Int /\ f[N[c]] \in V
        BY <1>1
      <3>3. QED
        BY <3>1, <3>2, <2>1
    <2>2. CASE c >= e
      BY <2>2, <1>7
    <2>3. QED
      BY <2>1, <2>2
  <1>9. CutWalk(S, e, f)
    BY <1>8 DEF CutWalk
  <1>10. QED
    BY <1>9

LEMMA CutWalkCuts ==
  ASSUME NEW S, GoesOn(S), NEW e \in Int, NEW w, CutWalk(S, e, w), NEW s \in Int
  PROVE  Cuts(w[s], S, s, e)
  <1> DEFINE m == [c \in Int |-> IF c < e THEN e - c ELSE 0]
             R == Lower(Int, m, m)
             Bad == {c \in Int : ~Cuts(w[c], S, c, e)}
  <1>1. \A c \in Int : w[c] = IF c >= e THEN <<>> ELSE <<Section(c, CutAt(c, S, e), 0)>> \o w[CutAt(c, S, e)]
    BY DEF CutWalk
  <1>2. ASSUME NEW c \in Bad PROVE \E b \in Bad : <<b, c>> \in R
    <2>1. c \in Int /\ ~Cuts(w[c], S, c, e)
      OBVIOUS
    <2>2. PICK b \in Int : b = CutAt(c, S, e)
      BY <2>1 DEF CutAt, GoesOn
    <2> HIDE DEF Bad, R, m
    <2>3. c < e
      <3>1. SUFFICES ASSUME c >= e PROVE FALSE
        BY <2>1
      <3>2. w[c] = <<>> /\ e <= c
        BY <2>1, <3>1, <1>1
      <3>3. QED
        BY <2>1, <3>2, CutsNone
    <2>4. c < b /\ b <= S[c] /\ b <= e
      BY <2>1, <2>2, <2>3 DEF CutAt, GoesOn
    <2>5. ASSUME Cuts(w[b], S, b, e) PROVE FALSE
      <3>1. PICK p : p = Section(c, b, 0)
        OBVIOUS
      <3>2. p \in Part /\ p.start = c /\ p.end = b
        BY <3>1, <2>1 DEF Section, Part
      <3>3. PICK q : q = w[b]
        OBVIOUS
      <3>4. w[c] = <<p>> \o q
        <4>1. ~(c >= e)
          BY <2>1, <2>3
        <4>2. w[c] = <<Section(c, CutAt(c, S, e), 0)>> \o w[CutAt(c, S, e)]
          BY <4>1, <1>1, <2>1, Zenon
        <4>3. QED
          BY <4>2, <2>2, <3>1, <3>3, Zenon
      <3>5. Cuts(q, S, b, e)
        BY <2>5, <3>3
      <3>6. Cuts(<<p>> \o q, S, c, e)
        BY <3>2, <3>5, <2>1, <2>4, CutsOne
      <3>7. QED
        BY <3>4, <3>6, <2>1
    <2>6. m[b] < m[c]
      BY <2>1, <2>3, <2>4 DEF m
    <2>7. <<b, c>> \in R
      BY <2>1, <2>6 DEF Lower, R
    <2>8. QED
      BY <2>5, <2>7 DEF Bad
  <1>3. Bad = {}
    <2>1. m \in [Int -> Nat] /\ Bad \in SUBSET Int
      OBVIOUS
    <2> HIDE DEF m, Bad
    <2>2. IsWellFoundedOn(R, Int)
      BY <2>1, LowerEnds
    <2> HIDE DEF R
    <2>3. QED
      BY <2>1, <2>2, <1>2, NoDescent
  <1>4. QED
    BY <1>3

ChunkSteps(sch, n) == [c \in Int |-> Step(sch, c, n)]

(* The chunks of a backfill follow each other from the start to the end of *)
(* the command's range, and no chunk has more opens than a request may     *)
(* have (backfill_candles.py:100, candles.py:282).                         *)
THEOREM ChunksCut ==
  ASSUME NEW sch, Schedule(sch), NEW El \in SUBSET Opens(sch), NEW s \in Int, NEW e \in Int, NEW n \in Nat \ {0},
         NEW chunks, chunks = Chunks(sch, s, e, n)
  PROVE  /\ Cuts(chunks, ChunkSteps(sch, n), s, e)
         /\ \A i \in 1 .. Len(chunks) : Len(ExpectedOpens(sch, chunks[i].start, chunks[i].end, El)) <= n
  <1> DEFINE S == ChunkSteps(sch, n)
  <1>1. \A c \in Int : S[c] = Step(sch, c, n)
    BY DEF ChunkSteps
  <1>2. GoesOn(S)
    <2>1. \A c \in Int : Step(sch, c, n) \in Int /\ c < Step(sch, c, n)
      BY StepsGoOn
    <2> HIDE DEF S
    <2>2. QED
      BY <2>1, <1>1 DEF GoesOn
  <1> HIDE DEF S
  <1>3. \A w : CutWalk(S, e, w) <=>
          w = [c \in Int |-> IF c >= e THEN <<>>
                             ELSE LET next == Step(sch, c, n)
                                      end  == IF next < e THEN next ELSE e
                                  IN  <<Section(c, end, 0)>> \o w[end]]
    BY <1>1 DEF CutWalk, CutAt
  <1>4. chunks = (CHOOSE w : CutWalk(S, e, w))[s]
    BY <1>3 DEF Chunks
  <1>5. CutWalk(S, e, CHOOSE w : CutWalk(S, e, w))
    BY <1>2, CutWalkIs
  <1>6. Cuts(chunks, S, s, e)
    BY <1>2, <1>4, <1>5, CutWalkCuts
  <1>7. ASSUME NEW i \in 1 .. Len(chunks)
        PROVE  Len(ExpectedOpens(sch, chunks[i].start, chunks[i].end, El)) <= n
    <2>1. chunks[i] \in Part /\ chunks[i].end <= S[chunks[i].start]
      BY <1>6 DEF Cuts
    <2>2. PICK b \in Int, c \in Int : b = chunks[i].start /\ c = chunks[i].end
      BY <2>1 DEF Part
    <2>3. c <= Step(sch, b, n)
      BY <2>1, <2>2, <1>1
    <2>4. PICK list : list = ExpectedOpens(sch, b, c, El)
      OBVIOUS
    <2>5. Lists(list, OpensIn(El, b, c))
      BY <2>4, ExpectedOpensExact
    <2>6. Len(list) <= n
      BY <2>3, <2>5, RangeFits
    <2>7. QED
      BY <2>2, <2>4, <2>6
  <1>8. QED
    BY <1>6, <1>7 DEF S

LEMMA HistoryRangesAre ==
  ASSUME NEW s \in Int, NEW e \in Int, NEW maximum \in Nat \ {0}, NEW S, S = [c \in Int |-> c + maximum]
  PROVE  GoesOn(S) /\ \E w : CutWalk(S, e, w) /\ HistoryRanges(s, e, maximum) = IF e <= s THEN <<>> ELSE w[s]
  <1>1. (\A c \in Int : S[c] = c + maximum) /\ GoesOn(S)
    BY DEF GoesOn
  <1>2. \A w : CutWalk(S, e, w) <=>
          w = [c \in Int |-> IF c >= e THEN <<>>
                             ELSE LET end == IF c + maximum < e THEN c + maximum ELSE e
                                  IN  <<Section(c, end, 0)>> \o w[end]]
    BY <1>1 DEF CutWalk, CutAt
  <1>3. HistoryRanges(s, e, maximum) = IF e <= s THEN <<>> ELSE (CHOOSE w : CutWalk(S, e, w))[s]
    <2>1. CASE e <= s
      BY <2>1 DEF HistoryRanges
    <2>2. CASE ~(e <= s)
      <3>1. HistoryRanges(s, e, maximum) =
              (CHOOSE w : w = [c \in Int |->
                          IF c >= e THEN <<>>
                             ELSE LET end == IF c + maximum < e THEN c + maximum ELSE e
                                  IN  <<Section(c, end, 0)>> \o w[end]])[s]
        BY <2>2 DEF HistoryRanges
      <3>2. QED
        BY <2>2, <3>1, <1>2
    <2>3. QED
      BY <2>1, <2>2
  <1>4. CutWalk(S, e, CHOOSE w : CutWalk(S, e, w))
    BY <1>1, CutWalkIs
  <1>5. QED
    BY <1>1, <1>3, <1>4

(* The ranges of a Yahoo request follow each other from its start to its   *)
(* end, and none is longer than Yahoo accepts                              *)
(* (yfinance_market_data.py:366).                                          *)
THEOREM HistoryRangesCut ==
  ASSUME NEW s \in Int, NEW e \in Int, NEW maximum \in Nat \ {0}
  PROVE  Cuts(HistoryRanges(s, e, maximum), [c \in Int |-> c + maximum], s, e)
  <1>1. PICK S : S = [c \in Int |-> c + maximum]
    OBVIOUS
  <1>2. GoesOn(S) /\ \E w : CutWalk(S, e, w) /\ HistoryRanges(s, e, maximum) = IF e <= s THEN <<>> ELSE w[s]
    BY <1>1, HistoryRangesAre
  <1>3. PICK w : CutWalk(S, e, w) /\ HistoryRanges(s, e, maximum) = IF e <= s THEN <<>> ELSE w[s]
    BY <1>2
  <1>4. Cuts(w[s], S, s, e)
    BY <1>2, <1>3, CutWalkCuts
  <1>5. Cuts(HistoryRanges(s, e, maximum), S, s, e)
    BY <1>3, <1>4, CutsNone
  <1>6. QED
    BY <1>1, <1>5

-----------------------------------------------------------------------------
(* The loop of get_historical_price over X, the eligible candles of each   *)
(* resolution, and F, the resolutions that fail.                           *)
PricedIn(i, opens) == [error |-> "", resolution |-> Resolutions[i], pricedAt |-> Max(opens)]

TryWalk(X, F, w) ==
  w = [i \in 1 .. Len(Resolutions) + 1 |->
        IF i > Len(Resolutions) THEN Error("PRICE_NOT_FOUND")
        ELSE IF i \in F THEN Error("PROVIDER_UNAVAILABLE")
        ELSE IF X[i] = {} THEN w[i + 1] ELSE PricedIn(i, X[i])]

(* The i-th resolution prices, and none before it had a candle or failed.  *)
FirstToPrice(X, F, i, j) ==
  /\ i <= j /\ X[j] # {} /\ j \notin F
  /\ \A k \in i .. j - 1 : X[k] = {} /\ k \notin F

LEMMA TryWalkIs ==
  ASSUME NEW X, NEW F, Len(Resolutions) \in Nat
  PROVE  \E w : TryWalk(X, F, w)
  <1> DEFINE S == 1 .. Len(Resolutions) + 1
             D == {i \in S : i > Len(Resolutions) \/ i \in F \/ X[i] # {}}
             N == [i \in S |-> IF i > Len(Resolutions) THEN i ELSE i + 1]
             E == [i \in S |-> IF i > Len(Resolutions) THEN Error("PRICE_NOT_FOUND")
                               ELSE IF i \in F THEN Error("PROVIDER_UNAVAILABLE")
                               ELSE PricedIn(i, X[i])]
             V == {E[i] : i \in S}
             G == [p \in S \X V |-> p[2]]
             m == [i \in S |-> Len(Resolutions) + 1 - i]
             R == Lower(S, m, m)
  <1>1. D \subseteq S /\ N \in [S -> S] /\ m \in [S -> Nat]
    OBVIOUS
  <1>2. E \in [S -> V] /\ G \in [S \X V -> V]
    OBVIOUS
  <1>3. IsWellFoundedOn(R, S)
    BY <1>1, LowerEnds
  <1>4. \A i \in S \ D : <<N[i], i>> \in R
    BY DEF Lower
  <1>5. PICK f \in [S -> V] : \A i \in S : f[i] = IF i \in D THEN E[i] ELSE G[<<i, f[N[i]]>>]
    <2> HIDE DEF S, D, N, E, G, R, V
    <2>1. Descends(S, V, D, N, E, G, R)
      BY <1>1, <1>2, <1>3, <1>4 DEF Descends
    <2>2. QED
      BY <2>1, WalkExists
  <1>6. ASSUME NEW i \in S
        PROVE  f[i] = IF i > Len(Resolutions) THEN Error("PRICE_NOT_FOUND")
                      ELSE IF i \in F THEN Error("PROVIDER_UNAVAILABLE")
                      ELSE IF X[i] = {} THEN f[i + 1] ELSE PricedIn(i, X[i])
    <2>1. CASE i \in D
      <3>1. f[i] = E[i]
        BY <2>1, <1>5
      <3>2. QED
        BY <2>1, <3>1
    <2>2. CASE i \notin D
      <3>1. f[i] = G[<<i, f[N[i]]>>]
        BY <2>2, <1>5
      <3>2. N[i] = i + 1 /\ N[i] \in S
        BY <2>2, <1>1
      <3>3. f[N[i]] \in V
        BY <3>2
      <3> HIDE DEF V, E, N
      <3>4. f[i] = f[i + 1]
        BY <3>1, <3>2, <3>3
      <3>5. QED
        BY <3>4, <2>2
    <2>3. QED
      BY <2>1, <2>2
  <1>7. TryWalk(X, F, f)
    BY <1>6 DEF TryWalk
  <1>8. QED
    BY <1>7

LEMMA TryWalkPrices ==
  ASSUME NEW X, NEW F, Len(Resolutions) \in Nat, NEW w, TryWalk(X, F, w),
         NEW i \in 1 .. Len(Resolutions) + 1
  PROVE  \/ \E code \in {"PRICE_NOT_FOUND", "PROVIDER_UNAVAILABLE"} : w[i] = Error(code)
         \/ \E j \in 1 .. Len(Resolutions) : FirstToPrice(X, F, i, j) /\ w[i] = PricedIn(j, X[j])
  <1> DEFINE S == 1 .. Len(Resolutions) + 1
             Fails(k) == \E code \in {"PRICE_NOT_FOUND", "PROVIDER_UNAVAILABLE"} : w[k] = Error(code)
             Prices(k) == \E j \in 1 .. Len(Resolutions) : FirstToPrice(X, F, k, j) /\ w[k] = PricedIn(j, X[j])
             m == [k \in S |-> Len(Resolutions) + 1 - k]
             R == Lower(S, m, m)
             Bad == {k \in S : ~Fails(k) /\ ~Prices(k)}
  <1>1. \A k \in S : w[k] = IF k > Len(Resolutions) THEN Error("PRICE_NOT_FOUND")
                            ELSE IF k \in F THEN Error("PROVIDER_UNAVAILABLE")
                            ELSE IF X[k] = {} THEN w[k + 1] ELSE PricedIn(k, X[k])
    BY DEF TryWalk
  <1>2. ASSUME NEW k \in Bad PROVE \E n \in Bad : <<n, k>> \in R
    <2>1. k \in S /\ ~Fails(k) /\ ~Prices(k)
      OBVIOUS
    <2> HIDE DEF Bad
    <2>2. ~(k > Len(Resolutions)) /\ k \notin F
      BY <1>1, <2>1
    <2>3. X[k] = {}
      <3>1. SUFFICES ASSUME X[k] # {} PROVE FALSE
        OBVIOUS
      <3>2. w[k] = PricedIn(k, X[k])
        BY <1>1, <2>1, <2>2, <3>1
      <3>3. k \in 1 .. Len(Resolutions) /\ FirstToPrice(X, F, k, k)
        BY <2>1, <2>2, <3>1 DEF FirstToPrice
      <3>4. QED
        BY <2>1, <3>2, <3>3
    <2>4. w[k] = w[k + 1] /\ k + 1 \in S
      BY <1>1, <2>1, <2>2, <2>3
    <2>5. ~Fails(k + 1)
      BY <2>1, <2>4
    <2>6. ASSUME Prices(k + 1) PROVE FALSE
      <3>1. PICK j \in 1 .. Len(Resolutions) : FirstToPrice(X, F, k + 1, j) /\ w[k + 1] = PricedIn(j, X[j])
        BY <2>6
      <3>2. FirstToPrice(X, F, k, j)
        BY <2>1, <2>2, <2>3, <3>1 DEF FirstToPrice
      <3>3. QED
        BY <2>1, <2>4, <3>1, <3>2
    <2>7. k + 1 \in Bad
      BY <2>4, <2>5, <2>6 DEF Bad
    <2>8. <<k + 1, k>> \in R
      BY <2>1, <2>4 DEF Lower
    <2>9. QED
      BY <2>7, <2>8
  <1>3. Bad = {}
    <2>1. m \in [S -> Nat] /\ Bad \in SUBSET S
      OBVIOUS
    <2> HIDE DEF m, Bad, S
    <2>2. IsWellFoundedOn(R, S)
      BY <2>1, LowerEnds
    <2> HIDE DEF R
    <2>3. QED
      BY <2>1, <2>2, <1>2, NoDescent
  <1>4. QED
    BY <1>3

(* The largest of the eligible candles: there are two slots at most.       *)
LEMMA LargestOfTwo ==
  ASSUME NEW l, l \in Seq(Int), Len(l) = 2, NEW T, T \subseteq ToSet(l), T # {}
  PROVE  Max(T) \in T /\ \A o \in T : o <= Max(T)
  <1>1. PICK a \in Int, b \in Int : a = l[1] /\ b = l[2]
    OBVIOUS
  <1>2. \A o \in T : o = a \/ o = b
    BY <1>1 DEF ToSet
  <1>3. \E x \in T : \A y \in T : x >= y
    BY <1>1, <1>2
  <1>4. Max(T) \in T /\ \A y \in T : Max(T) >= y
    BY <1>3 DEF Max
  <1>5. QED
    BY <1>2, <1>4

(* What get_historical_price returns is a price of the j-th resolution.    *)
Priced(price, schedules, at, now, has, failing, El) ==
  price = HistoricalPrice(schedules, at, now, has, failing, El) /\ price.error = ""

PriceOf(price, schedules, at, has, failing, El, j) ==
  /\ price.resolution = Resolutions[j]
  /\ price.pricedAt = Max(Eligible(schedules, at, has, El, j))
  /\ Eligible(schedules, at, has, El, j) # {}
  /\ \A k \in 1 .. j - 1 : Eligible(schedules, at, has, El, k) = {}
  /\ \A k \in 1 .. j : Resolutions[k] \notin failing

LEMMA ErrorsAreNoPrice ==
  ASSUME NEW price, price.error = "", NEW code, code # ""
  PROVE  price # Error(code)
  <1>1. Error(code).error = code
    BY DEF Error
  <1>2. QED
    BY <1>1

PriceWalk(schedules, at, has, failing, El, w) ==
  w = [i \in 1 .. Len(Resolutions) + 1 |->
        IF i > Len(Resolutions) THEN Error("PRICE_NOT_FOUND")
        ELSE IF Resolutions[i] \in failing THEN Error("PROVIDER_UNAVAILABLE")
        ELSE IF Eligible(schedules, at, has, El, i) = {} THEN w[i + 1]
        ELSE [error |-> "", resolution |-> Resolutions[i], pricedAt |-> Max(Eligible(schedules, at, has, El, i))]]

LEMMA PriceIsOf ==
  ASSUME Len(Resolutions) \in Nat, NEW schedules, NEW at \in Int, NEW now \in Int, NEW has, NEW failing, NEW El,
         NEW price, Priced(price, schedules, at, now, has, failing, El)
  PROVE  at <= now /\ \E j \in 1 .. Len(Resolutions) : PriceOf(price, schedules, at, has, failing, El, j)
  <1>1. PICK n \in Nat : n = Len(Resolutions)
    OBVIOUS
  <1>2. PICK X : X = [i \in 1 .. n |-> Eligible(schedules, at, has, El, i)]
    OBVIOUS
  <1>3. PICK F : F = {i \in 1 .. n : Resolutions[i] \in failing}
    OBVIOUS
  <1>4. \A i \in 1 .. n : X[i] = Eligible(schedules, at, has, El, i) /\ (i \in F <=> Resolutions[i] \in failing)
    BY <1>2, <1>3
  <1>5. \A i \in 1 .. n + 1 : ~(i > n) => i \in 1 .. n
    OBVIOUS
  <1>6. \A w : TryWalk(X, F, w) <=> PriceWalk(schedules, at, has, failing, El, w)
    BY <1>1, <1>4, <1>5 DEF TryWalk, PricedIn, PriceWalk
  <1>7. HistoricalPrice(schedules, at, now, has, failing, El) =
          IF at > now THEN Error("INVALID_TIME_RANGE") ELSE (CHOOSE w : TryWalk(X, F, w))[1]
    <2>1. HistoricalPrice(schedules, at, now, has, failing, El) =
            IF at > now THEN Error("INVALID_TIME_RANGE")
            ELSE (CHOOSE w : PriceWalk(schedules, at, has, failing, El, w))[1]
      BY DEF HistoricalPrice, PriceWalk
    <2>2. (CHOOSE w : TryWalk(X, F, w)) = CHOOSE w : PriceWalk(schedules, at, has, failing, El, w)
      BY <1>6
    <2>3. QED
      BY <2>1, <2>2
  <1>8. \A code \in {"INVALID_TIME_RANGE", "PRICE_NOT_FOUND", "PROVIDER_UNAVAILABLE"} : price # Error(code)
    <2>1. price.error = ""
      BY DEF Priced
    <2>2. \A code \in {"INVALID_TIME_RANGE", "PRICE_NOT_FOUND", "PROVIDER_UNAVAILABLE"} : code # ""
      OBVIOUS
    <2>3. QED
      BY <2>1, <2>2, ErrorsAreNoPrice, Zenon
  <1>9. PICK w : TryWalk(X, F, w) /\ w = CHOOSE v : TryWalk(X, F, v)
    BY <1>1, TryWalkIs
  <1>10. ~(at > now) /\ price = w[1]
    BY <1>7, <1>8, <1>9 DEF Priced
  <1>11. PICK j \in 1 .. n : FirstToPrice(X, F, 1, j) /\ price = PricedIn(j, X[j])
    <2>1. 1 \in 1 .. n + 1
      OBVIOUS
    <2>2. \/ \E code \in {"PRICE_NOT_FOUND", "PROVIDER_UNAVAILABLE"} : w[1] = Error(code)
          \/ \E j \in 1 .. n : FirstToPrice(X, F, 1, j) /\ w[1] = PricedIn(j, X[j])
      <3>1. 1 \in 1 .. Len(Resolutions) + 1 /\ TryWalk(X, F, w)
        BY <2>1, <1>1, <1>9
      <3>2. \/ \E code \in {"PRICE_NOT_FOUND", "PROVIDER_UNAVAILABLE"} : w[1] = Error(code)
            \/ \E j \in 1 .. Len(Resolutions) : FirstToPrice(X, F, 1, j) /\ w[1] = PricedIn(j, X[j])
        BY <3>1, TryWalkPrices
      <3>3. QED
        BY <3>2, <1>1
    <2>3. QED
      BY <2>2, <1>8, <1>10
  <1>12. price.resolution = Resolutions[j] /\ price.pricedAt = Max(X[j])
    BY <1>11 DEF PricedIn
  <1>13. X[j] # {} /\ \A k \in 1 .. j - 1 : k \in 1 .. n /\ X[k] = {}
    BY <1>11 DEF FirstToPrice
  <1>14. \A k \in 1 .. j : k \in 1 .. n /\ k \notin F
    BY <1>11 DEF FirstToPrice
  <1>15. PriceOf(price, schedules, at, has, failing, El, j)
    BY <1>4, <1>12, <1>13, <1>14 DEF PriceOf
  <1>16. QED
    BY <1>1, <1>10, <1>15

(* The candles of upstream that the policy lets through and had closed.    *)
Closed(sch, at, has, El) == {o \in has \cap El : o < at /\ CloseTime(sch, o) <= at}

(* A historical price is that of a candle which had closed at the instant  *)
(* asked for, and the last such one that upstream has in its resolution; a *)
(* finer resolution had none in its last two slots, and neither it nor the *)
(* one used failed: a failure is not hidden by a coarser resolution        *)
(* (historical_prices.py:77-107).                                          *)
THEOREM HistoricalPriceLooksBack ==
  ASSUME Len(Resolutions) \in Nat, NEW schedules, NEW at \in Int, NEW now \in Int, NEW has, NEW failing, NEW El,
         \A i \in 1 .. Len(Resolutions) :
           /\ Schedule(schedules[Resolutions[i]]) /\ Recurs(El[Resolutions[i]])
           /\ El[Resolutions[i]] \in SUBSET Opens(schedules[Resolutions[i]]),
         NEW price, Priced(price, schedules, at, now, has, failing, El)
  PROVE  /\ at <= now
         /\ \E j \in 1 .. Len(Resolutions) : LET tf == Resolutions[j] IN
              /\ price.resolution = tf
              /\ price.pricedAt \in Closed(schedules[tf], at, has[tf], El[tf])
              /\ \A o \in Closed(schedules[tf], at, has[tf], El[tf]) : o <= price.pricedAt
              /\ \A k \in 1 .. j : Resolutions[k] \notin failing
              /\ \A k \in 1 .. j - 1 : Eligible(schedules, at, has, El, k) = {}
  <1>1. PICK j \in 1 .. Len(Resolutions) : PriceOf(price, schedules, at, has, failing, El, j)
    BY PriceIsOf
  <1>2. PICK tf, sch, H, L, T :
          /\ tf = Resolutions[j] /\ sch = schedules[tf] /\ H = has[tf] /\ L = El[tf]
          /\ T = Eligible(schedules, at, has, El, j)
    OBVIOUS
  <1>3. Schedule(sch) /\ Recurs(L) /\ L \in SUBSET Opens(sch)
    BY <1>2
  <1>4. PICK list : list = LatestOpens(sch, at, 2, L)
    OBVIOUS
  <1>5. Len(list) = 2 /\ \E b \in Int : Lists(list, OpensIn(L, b, at))
    <2>1. PICK two \in Nat : two = 2
      OBVIOUS
    <2>2. /\ Len(LatestOpens(sch, at, two, L)) = two
          /\ \E b \in Int : Lists(LatestOpens(sch, at, two, L), OpensIn(L, b, at))
      BY <1>3, LatestOpensExact
    <2>3. QED
      BY <1>4, <2>1, <2>2
  <1>6. PICK b \in Int : Lists(list, OpensIn(L, b, at))
    BY <1>5
  <1>7. list \in Seq(Int) /\ ToSet(list) = OpensIn(L, b, at)
    BY <1>6 DEF Lists
  <1>8. T = {o \in OpensIn(L, b, at) \cap H : CloseTime(sch, o) <= at}
    BY <1>2, <1>4, <1>7 DEF Eligible, PricedBy, LatestTwo
  <1>9. price.resolution = tf /\ price.pricedAt = Max(T) /\ T # {}
    BY <1>1, <1>2 DEF PriceOf
  <1>10. PICK p : p = Max(T)
    OBVIOUS
  <1>11. p \in T /\ \A o \in T : o <= p
    BY <1>5, <1>7, <1>8, <1>9, <1>10, LargestOfTwo
  <1>12. \A o \in L : o \in Int
    BY <1>3, OpensAreInt
  <1>13. p \in Closed(sch, at, H, L) /\ b <= p
    BY <1>8, <1>11 DEF Closed, OpensIn
  <1>14. ASSUME NEW o \in Closed(sch, at, H, L) PROVE o <= p
    <2>1. o \in L /\ o \in H /\ o < at /\ CloseTime(sch, o) <= at /\ o \in Int
      BY <1>12 DEF Closed
    <2>2. CASE b <= o
      BY <2>1, <2>2, <1>8, <1>11 DEF OpensIn
    <2>3. CASE ~(b <= o)
      <3>1. p \in Int
        BY <1>12, <1>13 DEF Closed
      <3>2. QED
        BY <2>1, <2>3, <3>1, <1>13
    <2>4. QED
      BY <2>2, <2>3
  <1>15. /\ \A k \in 1 .. j : Resolutions[k] \notin failing
         /\ \A k \in 1 .. j - 1 : Eligible(schedules, at, has, El, k) = {}
    BY <1>1 DEF PriceOf
  <1>16. at <= now
    BY PriceIsOf
  <1>17. QED
    BY <1>2, <1>9, <1>10, <1>13, <1>14, <1>15, <1>16

-----------------------------------------------------------------------------
(* A run of opens of the grid that are all in M: count candles long.       *)
Run == [start : Int, end : Int, count : Nat]

RunOf(sch, M, r) ==
  /\ r \in Run /\ r.start \in Opens(sch) /\ r.end \in Opens(sch)
  /\ r.start < r.end /\ r.end = Step(sch, r.start, r.count)
  /\ \A c \in Opens(sch) : r.start <= c /\ c < r.end => c \in M

(* The sections secs are runs of opens of M, do not touch, and have all of *)
(* those opens.                                                            *)
Covers(sch, secs, M) ==
  /\ secs \in Seq(Run)
  /\ \A i \in 1 .. Len(secs) : RunOf(sch, M, secs[i])
  /\ \A i, j \in 1 .. Len(secs) : i < j => secs[i].end < secs[j].start
  /\ \A o \in M : \E i \in 1 .. Len(secs) : secs[i].start <= o /\ o < secs[i].end

LEMMA LastAndFront ==
  ASSUME NEW s, s \in Seq(Run), s # <<>>, NEW x \in Run
  PROVE  /\ Len(s) \in Nat \ {0} /\ Last(s) = s[Len(s)]
         /\ Front(s) \o <<x>> \in Seq(Run) /\ Len(Front(s) \o <<x>>) = Len(s)
         /\ (Front(s) \o <<x>>)[Len(s)] = x
         /\ \A i \in 1 .. Len(s) - 1 : (Front(s) \o <<x>>)[i] = s[i]
  <1>1. Len(s) \in Nat \ {0} /\ Last(s) = s[Len(s)]
    BY DEF Last
  <1>2. PICK f : f = Front(s)
    OBVIOUS
  <1>3. f \in Seq(Run) /\ Len(f) = Len(s) - 1 /\ \A i \in 1 .. Len(s) - 1 : f[i] = s[i]
    <2>1. \A i \in 1 .. Len(s) - 1 : s[i] \in Run
      BY <1>1
    <2>2. PICK one \in Int, k \in Int : one = 1 /\ k = Len(s) - 1
      BY <1>1
    <2>3. f = SubSeq(s, one, k)
      BY <1>2, <2>2 DEF Front
    <2>4. /\ f \in Seq(Run) /\ Len(f) = IF one <= k THEN k - one + 1 ELSE 0
          /\ \A i \in 1 .. k - one + 1 : f[i] = s[one + i - 1]
      <3>1. \A i \in one .. k : s[i] \in Run
        BY <2>1, <2>2
      <3>2. QED
        BY <2>3, <3>1, SubSeqProperties
    <2>5. QED
      BY <1>1, <2>2, <2>4
  <1>4. f \o <<x>> \in Seq(Run) /\ Len(f \o <<x>>) = Len(s) /\ (f \o <<x>>)[Len(s)] = x
    BY <1>1, <1>3
  <1>5. \A i \in 1 .. Len(s) - 1 : (f \o <<x>>)[i] = s[i]
    BY <1>1, <1>3
  <1>6. QED
    BY <1>1, <1>2, <1>4, <1>5

LEMMA AddMissingCovers ==
  ASSUME NEW sch, Schedule(sch), NEW M \in SUBSET Opens(sch), NEW secs, Covers(sch, secs, M),
         NEW t \in Opens(sch), \A o \in M : o < t
  PROVE  Covers(sch, AddMissing(sch, secs, t), M \cup {t})
  <1>1. PICK n \in Nat : n = Len(secs)
    BY DEF Covers
  <1>2. \A c \in Opens(sch) : c \in Int
    BY OpensAreInt
  <1>3. PICK u \in Opens(sch) : u = EndAfter(sch, t) /\ u \in Int /\ t < u
    BY <1>2, StepIs
  <1>4. t \in Int
    BY <1>2
  <1>5. \A c \in Opens(sch) : c < u => c <= t
    <2>1. \A c \in Opens(sch) : t < c => u <= c
      BY <1>3, OpensFollow
    <2>2. QED
      BY <1>3, <1>2, <2>1
  <1>6. ASSUME NEW r, RunOf(sch, M, r)
        PROVE  RunOf(sch, M \cup {t}, r) /\ r.end <= t
    <2>1. r.start \in Opens(sch) /\ r.start \in M /\ r.start < r.end /\ r.end \in Int
      BY <1>2, <1>6 DEF RunOf
    <2>2. r.start < t
      BY <2>1
    <2>3. t < r.end => t \in M
      BY <2>1, <2>2, <1>2, <1>6 DEF RunOf
    <2>4. ~(t < t)
      BY <1>2
    <2>5. r.end <= t
      BY <2>1, <2>3, <2>4, <1>2
    <2>6. QED
      BY <2>5, <1>6 DEF RunOf
  <1>7. CASE secs # <<>> /\ Last(secs).end = t
    <2>1. n \in 1 .. n /\ Last(secs) = secs[n] /\ secs \in Seq(Run) /\ n # 0
      BY <1>1, <1>7 DEF Last, Covers
    <2>2. PICK last : last = secs[n]
      OBVIOUS
    <2>3. RunOf(sch, M, last) /\ last.end = t /\ last.start \in Int /\ last.count \in Nat /\ last.start < t
      BY <2>1, <2>2, <1>1, <1>2, <1>7 DEF Covers, RunOf, Run
    <2>4. PICK x : x = Section(last.start, EndAfter(sch, t), last.count + 1)
      OBVIOUS
    <2>5. x \in Run /\ x.start = last.start /\ x.end = u /\ x.count = last.count + 1
      BY <2>3, <2>4, <1>3, <1>2 DEF Section, Run
    <2>6. PICK new : new = Front(secs) \o <<x>>
      OBVIOUS
    <2>7. /\ new \in Seq(Run) /\ Len(new) = n /\ new[n] = x
          /\ \A i \in 1 .. n - 1 : new[i] = secs[i]
      BY <2>1, <2>5, <2>6, <1>1, <1>7, LastAndFront
    <2>8. RunOf(sch, M \cup {t}, x)
      <3>1. x.start < x.end
        BY <2>3, <2>5, <1>3, <1>2
      <3>2. x.end = Step(sch, x.start, x.count)
        <4>1. PICK b \in Opens(sch), k \in Nat : b = last.start /\ k = last.count
          BY <2>3 DEF RunOf
        <4>2. t = Step(sch, b, k)
          BY <2>3, <4>1 DEF RunOf
        <4>3. Step(sch, b, k + 1) = EndAfter(sch, Step(sch, b, k))
          BY StepsAdd
        <4>4. QED
          BY <4>1, <4>2, <4>3, <2>5, <1>3
      <3>3. ASSUME NEW c \in Opens(sch), x.start <= c, c < x.end PROVE c \in M \cup {t}
        <4>1. c = t \/ c < t
          BY <3>3, <2>5, <1>2, <1>5
        <4>2. c < t => c \in M
          BY <3>3, <2>3, <2>5 DEF RunOf
        <4>3. QED
          BY <4>1, <4>2
      <3>4. x.start \in Opens(sch)
        BY <2>3, <2>5 DEF RunOf
      <3>5. QED
        BY <2>5, <3>1, <3>2, <3>3, <3>4, <1>3 DEF RunOf
    <2>9. \A i \in 1 .. n : i \in 1 .. n - 1 \/ i = n
      OBVIOUS
    <2>10. \A i \in 1 .. n : RunOf(sch, M \cup {t}, new[i])
      BY <2>7, <2>8, <2>9, <1>1, <1>6 DEF Covers
    <2>11. ASSUME NEW i \in 1 .. n, NEW j \in 1 .. n, i < j
           PROVE  new[i].end < new[j].start
      <3>1. i \in 1 .. n - 1 /\ new[i] = secs[i]
        BY <2>7, <2>11
      <3>2. new[j].start = secs[j].start
        BY <2>2, <2>5, <2>7, <2>9
      <3>3. QED
        BY <3>1, <3>2, <2>11, <1>1 DEF Covers
    <2>12. ASSUME NEW o \in M \cup {t}
           PROVE  \E i \in 1 .. n : new[i].start <= o /\ o < new[i].end
      <3>1. o \in Int
        BY <1>2
      <3>2. CASE o = t
        <4>1. x.start <= o /\ o < x.end
          BY <3>2, <2>3, <2>5, <1>3, <1>2
        <4>2. QED
          BY <4>1, <2>1, <2>7
      <3>3. CASE o \in M
        <4>1. PICK i \in 1 .. n : secs[i].start <= o /\ o < secs[i].end
          BY <3>3, <1>1 DEF Covers
        <4>2. CASE i = n
          <5>1. x.start <= o /\ o < x.end
            BY <4>1, <4>2, <3>1, <2>2, <2>3, <2>5, <1>3, <1>2
          <5>2. QED
            BY <5>1, <2>1, <2>7
        <4>3. CASE i # n
          BY <4>1, <4>3, <2>7, <2>9
        <4>4. QED
          BY <4>2, <4>3
      <3>4. QED
        BY <3>2, <3>3
    <2>13. Covers(sch, new, M \cup {t})
      BY <2>7, <2>10, <2>11, <2>12 DEF Covers
    <2>14. new = AddMissing(sch, secs, t)
      BY <2>1, <2>2, <2>4, <2>6, <1>7 DEF AddMissing
    <2>15. QED
      BY <2>13, <2>14
  <1>8. CASE ~(secs # <<>> /\ Last(secs).end = t)
    <2>1. PICK x : x = Section(t, EndAfter(sch, t), 1)
      OBVIOUS
    <2>2. x \in Run /\ x.start = t /\ x.end = u /\ x.count = 1
      BY <2>1, <1>3, <1>2 DEF Section, Run
    <2>3. PICK new : new = Append(secs, x)
      OBVIOUS
    <2>4. /\ new \in Seq(Run) /\ Len(new) = n + 1 /\ new[n + 1] = x
          /\ \A i \in 1 .. n : new[i] = secs[i]
      BY <2>2, <2>3, <1>1 DEF Covers
    <2>5. RunOf(sch, M \cup {t}, x)
      <3>1. x.end = Step(sch, x.start, x.count) /\ x.start < x.end
        BY <2>2, <1>3, <1>2 DEF EndAfter
      <3>2. \A c \in Opens(sch) : x.start <= c /\ c < x.end => c \in M \cup {t}
        BY <2>2, <1>3, <1>2, <1>5
      <3>3. QED
        BY <2>2, <3>1, <3>2, <1>3 DEF RunOf
    <2>6. \A i \in 1 .. n + 1 : i \in 1 .. n \/ i = n + 1
      OBVIOUS
    <2>7. \A i \in 1 .. n + 1 : RunOf(sch, M \cup {t}, new[i])
      BY <2>4, <2>5, <2>6, <1>1, <1>6 DEF Covers
    <2>8. ASSUME NEW i \in 1 .. n PROVE secs[i].end < t
      <3>1. RunOf(sch, M, secs[i]) /\ secs[i].end <= t
        BY <1>1, <1>6 DEF Covers
      <3>2. CASE i = n
        <4>1. secs # <<>> /\ Last(secs) = secs[n]
          BY <3>2, <1>1 DEF Last, Covers
        <4>2. secs[n].end # t /\ secs[i].end \in Int
          BY <4>1, <3>1, <1>2, <1>8 DEF RunOf
        <4>3. QED
          BY <3>1, <3>2, <4>2, <1>2
      <3>3. CASE i # n
        <4>1. n \in 1 .. n /\ i < n
          BY <3>3
        <4>2. secs[i].end < secs[n].start /\ RunOf(sch, M, secs[n]) /\ secs[n].end <= t
          BY <4>1, <1>1, <1>6 DEF Covers
        <4>3. /\ secs[i].end \in Int /\ secs[n].start \in Int /\ secs[n].end \in Int
              /\ secs[n].start < secs[n].end
          BY <3>1, <4>2, <1>2 DEF RunOf
        <4>4. QED
          BY <4>2, <4>3, <1>2
      <3>4. QED
        BY <3>2, <3>3
    <2>9. ASSUME NEW i \in 1 .. n + 1, NEW j \in 1 .. n + 1, i < j
          PROVE  new[i].end < new[j].start
      <3>1. i \in 1 .. n /\ new[i] = secs[i]
        BY <2>4, <2>9
      <3>2. CASE j = n + 1
        BY <3>1, <3>2, <2>2, <2>4, <2>8
      <3>3. CASE j # n + 1
        <4>1. j \in 1 .. n /\ new[j] = secs[j]
          BY <3>3, <2>4
        <4>2. QED
          BY <3>1, <4>1, <2>9, <1>1 DEF Covers
      <3>4. QED
        BY <3>2, <3>3
    <2>10. ASSUME NEW o \in M \cup {t}
           PROVE  \E i \in 1 .. n + 1 : new[i].start <= o /\ o < new[i].end
      <3>1. CASE o \in M
        <4>1. PICK i \in 1 .. n : secs[i].start <= o /\ o < secs[i].end
          BY <3>1, <1>1 DEF Covers
        <4>2. QED
          BY <4>1, <2>4
      <3>2. CASE o = t
        <4>1. n + 1 \in 1 .. n + 1 /\ x.start <= o /\ o < x.end
          BY <3>2, <2>2, <1>3, <1>2
        <4>2. QED
          BY <4>1, <2>4
      <3>3. QED
        BY <3>1, <3>2
    <2>11. Covers(sch, new, M \cup {t})
      BY <2>4, <2>7, <2>9, <2>10 DEF Covers
    <2>12. new = AddMissing(sch, secs, t)
      BY <2>1, <2>3, <1>8 DEF AddMissing
    <2>13. QED
      BY <2>11, <2>12
  <1>9. QED
    BY <1>7, <1>8

(* The walk of missing_sections through the expected opens.                *)
MissingWalk(sch, expected, available, w) ==
  w = [i \in 0 .. Len(expected) |->
        IF i = 0 THEN <<>>
        ELSE IF expected[i] \in available THEN w[i - 1]
        ELSE AddMissing(sch, w[i - 1], expected[i])]

LEMMA CoversNone == ASSUME NEW sch PROVE Covers(sch, <<>>, {})
  BY DEF Covers

LEMMA AddMissingIs ==
  ASSUME NEW sch, Schedule(sch), NEW t \in Int, NEW secs \in Seq(Run)
  PROVE  AddMissing(sch, secs, t) \in Seq(Run)
  <1>1. EndAfter(sch, t) \in Int
    BY StepIs
  <1>2. CASE secs # <<>> /\ Last(secs).end = t
    <2>1. Len(secs) \in Nat \ {0} /\ Last(secs) \in Run
      BY <1>2 DEF Last
    <2>2. PICK x : x = Section(Last(secs).start, EndAfter(sch, t), Last(secs).count + 1)
      OBVIOUS
    <2>3. x \in Run
      BY <1>1, <2>1, <2>2 DEF Section, Run
    <2>4. QED
      BY <1>2, <2>2, <2>3, LastAndFront DEF AddMissing
  <1>3. CASE ~(secs # <<>> /\ Last(secs).end = t)
    <2>1. Section(t, EndAfter(sch, t), 1) \in Run
      BY <1>1 DEF Section, Run
    <2>2. QED
      BY <1>3, <2>1 DEF AddMissing
  <1>4. QED
    BY <1>2, <1>3

LEMMA MissingWalkIs ==
  ASSUME NEW sch, Schedule(sch), NEW expected \in Seq(Int), NEW available
  PROVE  \E w : MissingWalk(sch, expected, available, w)
  <1>1. PICK n \in Nat : n = Len(expected)
    OBVIOUS
  <1> DEFINE S == 0 .. n
             V == Seq(Run)
             D == {0}
             N == [i \in S |-> IF i = 0 THEN 0 ELSE i - 1]
             E == [i \in S |-> <<>>]
             G == [p \in S \X V |-> IF p[1] = 0 \/ expected[p[1]] \in available THEN p[2]
                                    ELSE AddMissing(sch, p[2], expected[p[1]])]
             m == [i \in S |-> i]
             R == Lower(S, m, m)
  <1>2. D \subseteq S /\ N \in [S -> S] /\ E \in [S -> V] /\ m \in [S -> Nat]
    OBVIOUS
  <1>3. \A i \in S : i = 0 \/ expected[i] \in Int
    BY <1>1
  <1>4. G \in [S \X V -> V]
    <2>1. \A i \in S, q \in V : i = 0 \/ AddMissing(sch, q, expected[i]) \in V
      BY <1>3, AddMissingIs
    <2>2. QED
      BY <2>1
  <1>5. IsWellFoundedOn(R, S)
    BY <1>2, LowerEnds
  <1>6. \A i \in S \ D : <<N[i], i>> \in R
    BY DEF Lower
  <1>7. PICK f \in [S -> V] : \A i \in S : f[i] = IF i \in D THEN E[i] ELSE G[<<i, f[N[i]]>>]
    <2> HIDE DEF S, D, N, E, G, R, V
    <2>1. Descends(S, V, D, N, E, G, R)
      BY <1>2, <1>4, <1>5, <1>6 DEF Descends
    <2>2. QED
      BY <2>1, WalkExists
  <1>8. ASSUME NEW i \in S
        PROVE  f[i] = IF i = 0 THEN <<>>
                      ELSE IF expected[i] \in available THEN f[i - 1]
                      ELSE AddMissing(sch, f[i - 1], expected[i])
    <2>1. CASE i = 0
      BY <2>1, <1>7
    <2>2. CASE i # 0
      <3>1. f[i] = G[<<i, f[N[i]]>>]
        BY <2>2, <1>7
      <3>2. N[i] = i - 1 /\ N[i] \in S
        BY <2>2, <1>2
      <3>3. f[N[i]] \in V
        BY <3>2
      <3> HIDE DEF V, E, N
      <3>4. QED
        BY <3>1, <3>2, <3>3, <2>2
    <2>3. QED
      BY <2>1, <2>2
  <1>9. MissingWalk(sch, expected, available, f)
    BY <1>1, <1>8 DEF MissingWalk
  <1>10. QED
    BY <1>9

(* The missing opens among the first i that are expected.                  *)
MissingUpto(expected, available, i) == {expected[j] : j \in {k \in 1 .. i : expected[k] \notin available}}

(* The sections that are fetched are runs of adjacent opens of the grid,   *)
(* cover each missing open once, have none that is there already or is not *)
(* expected, and do not touch; a section of count opens is count candles   *)
(* long (candle_schedules.py:109).                                         *)
THEOREM MissingSectionsExact ==
  ASSUME NEW sch, Schedule(sch), NEW X \in SUBSET Opens(sch), NEW expected, Lists(expected, X), NEW available
  PROVE  Covers(sch, MissingSections(sch, expected, available), X \ available)
  <1>1. PICK n \in Nat : n = Len(expected)
    BY DEF Lists
  <1>2. /\ expected \in Seq(Int) /\ \A i \in 1 .. n : expected[i] \in X /\ expected[i] \in Int
        /\ \A i, j \in 1 .. n : i < j => expected[i] < expected[j]
    BY <1>1 DEF Lists, ToSet
  <1>3. PICK w : /\ MissingWalk(sch, expected, available, w)
                 /\ MissingSections(sch, expected, available) = w[n]
    <2>1. PICK w : /\ MissingWalk(sch, expected, available, w)
                   /\ w = CHOOSE v : MissingWalk(sch, expected, available, v)
      BY <1>2, MissingWalkIs
    <2>2. MissingSections(sch, expected, available)
            = (CHOOSE v : MissingWalk(sch, expected, available, v))[Len(expected)]
      BY DEF MissingSections, MissingWalk
    <2>3. QED
      BY <2>1, <2>2, <1>1
  <1>4. \A i \in 0 .. n : w[i] = IF i = 0 THEN <<>>
                                 ELSE IF expected[i] \in available THEN w[i - 1]
                                 ELSE AddMissing(sch, w[i - 1], expected[i])
    BY <1>1, <1>3 DEF MissingWalk
  <1> DEFINE S == 0 .. n
             M(i) == MissingUpto(expected, available, i)
             m == [i \in S |-> i]
             R == Lower(S, m, m)
             Bad == {i \in S : ~Covers(sch, w[i], M(i))}
  <1>5. ASSUME NEW i \in Bad PROVE \E j \in Bad : <<j, i>> \in R
    <2>1. i \in S /\ ~Covers(sch, w[i], M(i))
      OBVIOUS
    <2> HIDE DEF Bad
    <2>2. i # 0
      <3>1. SUFFICES ASSUME i = 0 PROVE FALSE
        OBVIOUS
      <3>2. M(i) = {}
        BY <3>1 DEF MissingUpto
      <3>3. w[i] = <<>>
        BY <3>1, <2>1, <1>4
      <3>4. QED
        BY <2>1, <3>2, <3>3, CoversNone
    <2>3. PICK j \in S : j = i - 1
      BY <2>1, <2>2
    <2>4. i \in 1 .. n /\ \A k \in 1 .. i : k \in 1 .. j \/ k = i
      BY <2>1, <2>2, <2>3
    <2>5. PICK t \in Int : t = expected[i] /\ t \in X
      BY <2>4, <1>2
    <2>6. M(i) = IF t \in available THEN M(j) ELSE M(j) \cup {t}
      <3>1. \A k \in 1 .. j : k \in 1 .. i
        BY <2>3, <2>4
      <3>2. i \in 1 .. i
        BY <2>4
      <3>3. QED
        BY <2>4, <2>5, <3>1, <3>2 DEF MissingUpto
    <2>7. ASSUME Covers(sch, w[j], M(j)) PROVE FALSE
      <3>1. CASE t \in available
        BY <3>1, <2>1, <2>2, <2>3, <2>5, <2>6, <2>7, <1>4
      <3>2. CASE t \notin available
        <4>1. w[i] = AddMissing(sch, w[j], t) /\ M(i) = M(j) \cup {t}
          BY <3>2, <2>1, <2>2, <2>3, <2>5, <2>6, <1>4
        <4>2. PICK P, q : P = M(j) /\ q = w[j]
          OBVIOUS
        <4>3. \A o \in P : o \in Opens(sch) /\ o < t
          <5>1. ASSUME NEW k \in 1 .. j PROVE expected[k] \in Opens(sch) /\ expected[k] < t
            <6>1. k \in 1 .. n /\ k < i
              BY <2>3, <2>4
            <6>2. QED
              BY <6>1, <2>4, <2>5, <1>2
          <5>2. QED
            BY <4>2, <5>1 DEF MissingUpto
        <4>4. P \in SUBSET Opens(sch) /\ t \in Opens(sch) /\ Covers(sch, q, P)
          BY <4>2, <4>3, <2>5, <2>7
        <4>5. Covers(sch, AddMissing(sch, q, t), P \cup {t})
          BY <4>3, <4>4, AddMissingCovers
        <4>6. QED
          BY <4>1, <4>2, <4>5, <2>1
      <3>3. QED
        BY <3>1, <3>2
    <2>8. j \in Bad
      BY <2>7 DEF Bad
    <2>9. <<j, i>> \in R
      BY <2>1, <2>3 DEF Lower
    <2>10. QED
      BY <2>8, <2>9
  <1>6. Bad = {}
    <2>1. m \in [S -> Nat] /\ Bad \in SUBSET S
      OBVIOUS
    <2> HIDE DEF m, Bad, S
    <2>2. IsWellFoundedOn(R, S)
      BY <2>1, LowerEnds
    <2> HIDE DEF R
    <2>3. QED
      BY <2>1, <2>2, <1>5, NoDescent
  <1>7. Covers(sch, w[n], M(n))
    <2>1. n \in S
      OBVIOUS
    <2>2. QED
      BY <2>1, <1>6
  <1>8. M(n) = X \ available
    BY <1>1, <1>2 DEF MissingUpto, Lists, ToSet
  <1>9. QED
    BY <1>3, <1>7, <1>8

(* What is asked of upstream is what neither the table nor the cache has   *)
(* (candles.py:437).                                                       *)
COROLLARY GapsAreWhatIsMissing ==
  ASSUME NEW sch, Schedule(sch), NEW X \in SUBSET Opens(sch), NEW expected, Lists(expected, X),
         NEW persisted, NEW cached
  PROVE  Covers(sch, FindGaps(sch, persisted, expected, cached), X \ (persisted \cup cached))
  <1>1. PICK available : available = (persisted \cup cached) \cap ToSet(expected)
    OBVIOUS
  <1>2. ToSet(expected) = X
    BY DEF Lists
  <1>3. X \ available = X \ (persisted \cup cached)
    BY <1>1, <1>2
  <1>4. Covers(sch, MissingSections(sch, expected, available), X \ available)
    BY MissingSectionsExact
  <1>5. QED
    BY <1>1, <1>3, <1>4 DEF FindGaps

-----------------------------------------------------------------------------
(* The rows of an answer.                                                  *)

(* Twelve Data: of the first i rows, those of the window and the session,  *)
(* and whether these are sound and no two of the same open.                *)
Kept(rows, s, e, El, i) == {j \in 1 .. i : InWindow(rows[j], s, e) /\ rows[j].open \in El}
OpensOf(rows, J) == {rows[j].open : j \in J}

Parsed(rows, i) == \A j \in 1 .. i : rows[j].open # Unparsable
Distinct(rows, J) == \A j, k \in J : rows[j].open = rows[k].open => j = k
AllGood(rows, J) == \A j \in J : rows[j].value = "good"

LEMMA OneMore ==
  ASSUME NEW n \in Nat, NEW i \in 1 .. n
  PROVE  i - 1 \in 0 .. n /\ i \in 1 .. i /\ i \notin 1 .. i - 1 /\ \A j : j \in 1 .. i <=> j \in 1 .. i - 1 \/ j = i
  OBVIOUS

TimeSeries(rows, s, e, El, i) ==
  IF Parsed(rows, i) /\ AllGood(rows, Kept(rows, s, e, El, i)) /\ Distinct(rows, Kept(rows, s, e, El, i))
  THEN Candles(OpensOf(rows, Kept(rows, s, e, El, i)))
  ELSE Unavailable

LEMMA TakeRowIs ==
  ASSUME NEW rows, NEW s, NEW e, NEW El, NEW n \in Nat, NEW i \in 1 .. n
  PROVE  TakeRow(TimeSeries(rows, s, e, El, i - 1), rows[i], s, e, El) = TimeSeries(rows, s, e, El, i)
  <1> DEFINE K(k) == Kept(rows, s, e, El, k)
             Fine(k) == Parsed(rows, k) /\ AllGood(rows, K(k)) /\ Distinct(rows, K(k))
             in == InWindow(rows[i], s, e) /\ rows[i].open \in El
  <1>1. i - 1 \in 0 .. n /\ i \in 1 .. i /\ i \notin 1 .. i - 1 /\ \A j : j \in 1 .. i <=> j \in 1 .. i - 1 \/ j = i
    BY OneMore
  <1>2. K(i) = IF in THEN K(i - 1) \cup {i} ELSE K(i - 1)
    BY <1>1 DEF Kept
  <1>3. i \notin K(i - 1)
    BY <1>1 DEF Kept
  <1>4. PICK J : J = K(i - 1)
    OBVIOUS
  <1>5. Parsed(rows, i) <=> Parsed(rows, i - 1) /\ rows[i].open # Unparsable
    BY <1>1 DEF Parsed
  <1>6. /\ Candles(OpensOf(rows, J)).ok /\ ~Unavailable.ok
        /\ Candles(OpensOf(rows, J)).opens = OpensOf(rows, J)
    BY DEF Candles, Unavailable
  <1>7. CASE ~Fine(i - 1)
    <2>1. ~Fine(i)
      BY <1>2, <1>5, <1>7 DEF AllGood, Distinct
    <2>2. TimeSeries(rows, s, e, El, i - 1) = Unavailable /\ TimeSeries(rows, s, e, El, i) = Unavailable
      BY <1>7, <2>1 DEF TimeSeries
    <2>3. QED
      BY <2>2, <1>6 DEF TakeRow
  <1>8. CASE Fine(i - 1)
    <2>1. TimeSeries(rows, s, e, El, i - 1) = Candles(OpensOf(rows, J))
      BY <1>4, <1>8 DEF TimeSeries
    <2>2. CASE rows[i].open = Unparsable
      <3>1. TimeSeries(rows, s, e, El, i) = Unavailable
        BY <1>5, <2>2 DEF TimeSeries
      <3>2. QED
        BY <2>1, <2>2, <3>1 DEF TakeRow
    <2>3. CASE rows[i].open # Unparsable /\ ~in
      <3>1. TimeSeries(rows, s, e, El, i) = Candles(OpensOf(rows, J))
        BY <1>2, <1>4, <1>5, <1>8, <2>3 DEF TimeSeries
      <3>2. QED
        BY <2>1, <2>3, <3>1, <1>6 DEF TakeRow
    <2>4. CASE rows[i].open # Unparsable /\ in
      <3>1. Parsed(rows, i) /\ K(i) = J \cup {i} /\ AllGood(rows, J) /\ Distinct(rows, J) /\ i \notin J
        BY <1>2, <1>3, <1>4, <1>5, <1>8, <2>4
      <3>2. AllGood(rows, J \cup {i}) <=> rows[i].value = "good"
        BY <3>1 DEF AllGood
      <3>3. Distinct(rows, J \cup {i}) <=> rows[i].open \notin OpensOf(rows, J)
        BY <3>1 DEF Distinct, OpensOf
      <3>4. OpensOf(rows, J \cup {i}) = OpensOf(rows, J) \cup {rows[i].open}
        BY DEF OpensOf
      <3>5. TimeSeries(rows, s, e, El, i) =
              IF rows[i].value = "good" /\ rows[i].open \notin OpensOf(rows, J)
              THEN Candles(OpensOf(rows, J) \cup {rows[i].open}) ELSE Unavailable
        BY <3>1, <3>2, <3>3, <3>4 DEF TimeSeries
      <3>6. TakeRow(Candles(OpensOf(rows, J)), rows[i], s, e, El) =
              IF rows[i].value = "good" /\ rows[i].open \notin OpensOf(rows, J)
              THEN Candles(OpensOf(rows, J) \cup {rows[i].open}) ELSE Unavailable
        BY <2>4, <1>6 DEF TakeRow
      <3>7. QED
        BY <2>1, <3>5, <3>6
    <2>5. QED
      BY <2>2, <2>3, <2>4
  <1>9. QED
    BY <1>7, <1>8

(* _normalize_time_series accepts an answer if every row has a time, and   *)
(* those of the window and the session are sound and of different opens;   *)
(* it then returns exactly these (twelvedata_market_data.py:490).          *)
THEOREM NormalizeTimeSeriesExact ==
  ASSUME NEW rows, Len(rows) \in Nat, NEW s, NEW e, NEW El
  PROVE  NormalizeTimeSeries(rows, s, e, El) = TimeSeries(rows, s, e, El, Len(rows))
  <1>1. PICK n \in Nat : n = Len(rows)
    OBVIOUS
  <1> DEFINE Reads(w) == w = [i \in 0 .. Len(rows) |->
                               IF i = 0 THEN Candles({}) ELSE TakeRow(w[i - 1], rows[i], s, e, El)]
             all == [i \in 0 .. n |-> TimeSeries(rows, s, e, El, i)]
  <1>2. NormalizeTimeSeries(rows, s, e, El) = (CHOOSE w : Reads(w))[Len(rows)]
    BY DEF NormalizeTimeSeries
  <1>3. TimeSeries(rows, s, e, El, 0) = Candles({})
    <2>1. Kept(rows, s, e, El, 0) = {} /\ Parsed(rows, 0)
      BY DEF Kept, Parsed
    <2>2. AllGood(rows, {}) /\ Distinct(rows, {}) /\ OpensOf(rows, {}) = {}
      BY DEF AllGood, Distinct, OpensOf
    <2>3. QED
      BY <2>1, <2>2 DEF TimeSeries
  <1>4. \A i \in 1 .. n : TakeRow(TimeSeries(rows, s, e, El, i - 1), rows[i], s, e, El) = TimeSeries(rows, s, e, El, i)
    BY TakeRowIs
  <1>5. Reads(all)
    <2>1. \A i \in 0 .. n : i = 0 \/ (i \in 1 .. n /\ i - 1 \in 0 .. n)
      OBVIOUS
    <2>2. \A i \in 0 .. n : all[i] = IF i = 0 THEN Candles({}) ELSE TakeRow(all[i - 1], rows[i], s, e, El)
      BY <1>3, <1>4, <2>1
    <2>3. QED
      BY <1>1, <2>2
  <1>6. PICK w : Reads(w) /\ w = CHOOSE v : Reads(v)
    BY <1>5
  <1>7. \A i \in 0 .. n : w[i] = IF i = 0 THEN Candles({}) ELSE TakeRow(w[i - 1], rows[i], s, e, El)
    BY <1>1, <1>6
  <1> DEFINE Good == {i \in 0 .. n : w[i] = TimeSeries(rows, s, e, El, i)}
  <1>8. 0 \in Good
    BY <1>3, <1>7
  <1>9. ASSUME NEW i \in 1 .. n, i - 1 \in Good PROVE i \in Good
    <2>1. i \in 0 .. n /\ i # 0 /\ w[i] = TakeRow(w[i - 1], rows[i], s, e, El)
      BY <1>7
    <2>2. QED
      BY <2>1, <1>9, <1>4
  <1>10. n \in Good
    <2> HIDE DEF Good
    <2>1. QED
      BY <1>8, <1>9, ScanKeeps
  <1>11. QED
    BY <1>1, <1>2, <1>6, <1>10

(* Yahoo: of the first i rows, those of the window.                        *)
Inside(rows, s, e, i) == {j \in 1 .. i : InWindow(rows[j], s, e)}
Goods(rows, J) == {j \in J : rows[j].value = "good"}
NoneInvalid(rows, J) == \A j \in J : rows[j].value # "invalid"

History(rows, s, e, i) ==
  LET J == Inside(rows, s, e, i)
  IN  IF Parsed(rows, i) /\ NoneInvalid(rows, J) /\ Distinct(rows, J)
      THEN [ok |-> TRUE, opens |-> OpensOf(rows, Goods(rows, J)), seen |-> OpensOf(rows, J)]
      ELSE Refused

LEMMA TakeHistoryRowIs ==
  ASSUME NEW rows, NEW s, NEW e, NEW n \in Nat, NEW i \in 1 .. n
  PROVE  TakeHistoryRow(History(rows, s, e, i - 1), rows[i], s, e) = History(rows, s, e, i)
  <1> DEFINE K(k) == Inside(rows, s, e, k)
             Fine(k) == Parsed(rows, k) /\ NoneInvalid(rows, K(k)) /\ Distinct(rows, K(k))
             read(J) == [ok |-> TRUE, opens |-> OpensOf(rows, Goods(rows, J)), seen |-> OpensOf(rows, J)]
             in == InWindow(rows[i], s, e)
  <1>1. i - 1 \in 0 .. n /\ i \in 1 .. i /\ i \notin 1 .. i - 1 /\ \A j : j \in 1 .. i <=> j \in 1 .. i - 1 \/ j = i
    BY OneMore
  <1>2. K(i) = IF in THEN K(i - 1) \cup {i} ELSE K(i - 1)
    BY <1>1 DEF Inside
  <1>3. i \notin K(i - 1)
    BY <1>1 DEF Inside
  <1>4. PICK J : J = K(i - 1)
    OBVIOUS
  <1>5. Parsed(rows, i) <=> Parsed(rows, i - 1) /\ rows[i].open # Unparsable
    BY <1>1 DEF Parsed
  <1>6. ~Refused.ok /\ read(J).ok /\ read(J).opens = OpensOf(rows, Goods(rows, J)) /\ read(J).seen = OpensOf(rows, J)
    BY DEF Refused
  <1>7. CASE ~Fine(i - 1)
    <2>1. ~Fine(i)
      BY <1>2, <1>5, <1>7 DEF NoneInvalid, Distinct
    <2>2. History(rows, s, e, i - 1) = Refused /\ History(rows, s, e, i) = Refused
      BY <1>7, <2>1 DEF History
    <2>3. QED
      BY <2>2, <1>6 DEF TakeHistoryRow
  <1>8. CASE Fine(i - 1)
    <2>1. History(rows, s, e, i - 1) = read(J)
      BY <1>4, <1>8 DEF History
    <2>2. CASE rows[i].open = Unparsable
      <3>1. History(rows, s, e, i) = Refused
        BY <1>5, <2>2 DEF History
      <3>2. QED
        BY <2>1, <2>2, <3>1 DEF TakeHistoryRow
    <2>3. CASE rows[i].open # Unparsable /\ ~in
      <3>1. History(rows, s, e, i) = read(J)
        BY <1>2, <1>4, <1>5, <1>8, <2>3 DEF History
      <3> HIDE DEF read
      <3>2. QED
        BY <2>1, <2>3, <3>1, <1>6 DEF TakeHistoryRow
    <2>4. CASE rows[i].open # Unparsable /\ in
      <3>1. Parsed(rows, i) /\ K(i) = J \cup {i} /\ NoneInvalid(rows, J) /\ Distinct(rows, J) /\ i \notin J
        BY <1>2, <1>3, <1>4, <1>5, <1>8, <2>4
      <3>2. NoneInvalid(rows, J \cup {i}) <=> rows[i].value # "invalid"
        BY <3>1 DEF NoneInvalid
      <3>3. Distinct(rows, J \cup {i}) <=> rows[i].open \notin OpensOf(rows, J)
        BY <3>1 DEF Distinct, OpensOf
      <3>4. OpensOf(rows, J \cup {i}) = OpensOf(rows, J) \cup {rows[i].open}
        BY DEF OpensOf
      <3>5. OpensOf(rows, Goods(rows, J \cup {i})) =
              IF rows[i].value = "good" THEN OpensOf(rows, Goods(rows, J)) \cup {rows[i].open}
              ELSE OpensOf(rows, Goods(rows, J))
        BY DEF OpensOf, Goods
      <3>6. PICK next : next = [ok |-> TRUE, seen |-> OpensOf(rows, J) \cup {rows[i].open},
                                opens |-> IF rows[i].value = "good" THEN OpensOf(rows, Goods(rows, J)) \cup {rows[i].open}
                                          ELSE OpensOf(rows, Goods(rows, J))]
        OBVIOUS
      <3>7. read(J \cup {i}) = next
        BY <3>4, <3>5, <3>6
      <3>8. History(rows, s, e, i) =
              IF rows[i].value # "invalid" /\ rows[i].open \notin OpensOf(rows, J) THEN next ELSE Refused
        BY <3>1, <3>2, <3>3, <3>7 DEF History
      <3> HIDE DEF read
      <3>9. TakeHistoryRow(read(J), rows[i], s, e) =
              IF rows[i].value # "invalid" /\ rows[i].open \notin OpensOf(rows, J) THEN next ELSE Refused
        BY <2>4, <3>6, <1>6 DEF TakeHistoryRow
      <3>10. QED
        BY <2>1, <3>8, <3>9
    <2>5. QED
      BY <2>2, <2>3, <2>4
  <1>9. QED
    BY <1>7, <1>8

(* _normalize_history accepts an answer if every row has a time, and those *)
(* of the window have their numbers and different opens, and one of them   *)
(* is sound if there are any; it then returns exactly the sound ones       *)
(* (yfinance_market_data.py:411).                                          *)
THEOREM NormalizeHistoryExact ==
  ASSUME NEW rows, Len(rows) \in Nat, NEW s, NEW e, NEW J, J = Inside(rows, s, e, Len(rows))
  PROVE  NormalizeHistory(rows, s, e) =
           IF /\ Parsed(rows, Len(rows)) /\ NoneInvalid(rows, J) /\ Distinct(rows, J)
              /\ J = {} \/ Goods(rows, J) # {}
           THEN Candles(OpensOf(rows, Goods(rows, J))) ELSE Unavailable
  <1>1. PICK n \in Nat : n = Len(rows)
    OBVIOUS
  <1> DEFINE none == [ok |-> TRUE, opens |-> {}, seen |-> {}]
             Reads(w) == w = [i \in 0 .. Len(rows) |->
                               IF i = 0 THEN [ok |-> TRUE, opens |-> {}, seen |-> {}]
                               ELSE TakeHistoryRow(w[i - 1], rows[i], s, e)]
             all == [i \in 0 .. n |-> History(rows, s, e, i)]
  <1>2. PICK read : read = (CHOOSE w : Reads(w))[Len(rows)]
    OBVIOUS
  <1>3. NormalizeHistory(rows, s, e) =
          IF ~read.ok \/ (read.opens = {} /\ read.seen # {}) THEN Unavailable ELSE Candles(read.opens)
    BY <1>2 DEF NormalizeHistory
  <1>4. History(rows, s, e, 0) = none
    <2>1. Inside(rows, s, e, 0) = {} /\ Parsed(rows, 0)
      BY DEF Inside, Parsed
    <2>2. NoneInvalid(rows, {}) /\ Distinct(rows, {}) /\ OpensOf(rows, {}) = {} /\ Goods(rows, {}) = {}
      BY DEF NoneInvalid, Distinct, OpensOf, Goods
    <2>3. QED
      BY <2>1, <2>2 DEF History
  <1>5. \A i \in 1 .. n : TakeHistoryRow(History(rows, s, e, i - 1), rows[i], s, e) = History(rows, s, e, i)
    BY TakeHistoryRowIs
  <1>6. Reads(all)
    <2>1. \A i \in 0 .. n : i = 0 \/ (i \in 1 .. n /\ i - 1 \in 0 .. n)
      OBVIOUS
    <2>2. \A i \in 0 .. n : all[i] = IF i = 0 THEN none ELSE TakeHistoryRow(all[i - 1], rows[i], s, e)
      BY <1>4, <1>5, <2>1
    <2>3. QED
      BY <1>1, <2>2
  <1>7. PICK w : Reads(w) /\ w = CHOOSE v : Reads(v)
    BY <1>6
  <1>8. \A i \in 0 .. n : w[i] = IF i = 0 THEN none ELSE TakeHistoryRow(w[i - 1], rows[i], s, e)
    BY <1>1, <1>7
  <1> DEFINE Good == {i \in 0 .. n : w[i] = History(rows, s, e, i)}
  <1>9. 0 \in Good
    <2> HIDE DEF none
    <2>1. 0 \in 0 .. n
      OBVIOUS
    <2>2. w[0] = none
      BY <1>8, <2>1
    <2>3. QED
      BY <1>4, <2>1, <2>2
  <1>10. ASSUME NEW i \in 1 .. n, i - 1 \in Good PROVE i \in Good
    <2>1. i \in 0 .. n /\ i # 0 /\ w[i] = TakeHistoryRow(w[i - 1], rows[i], s, e)
      BY <1>8
    <2>2. QED
      BY <2>1, <1>5, <1>10
  <1>11. n \in Good
    <2> HIDE DEF Good
    <2>1. QED
      BY <1>9, <1>10, ScanKeeps
  <1>12. read = History(rows, s, e, n)
    BY <1>1, <1>2, <1>7, <1>11
  <1> HIDE DEF none, Reads, all, Good
  <1>13. OpensOf(rows, J) = {} <=> J = {}
    BY DEF OpensOf
  <1>14. OpensOf(rows, Goods(rows, J)) = {} <=> Goods(rows, J) = {}
    BY DEF OpensOf
  <1> DEFINE fine == Parsed(rows, n) /\ NoneInvalid(rows, J) /\ Distinct(rows, J)
  <1>15. CASE fine
    <2>1. read = [ok |-> TRUE, opens |-> OpensOf(rows, Goods(rows, J)), seen |-> OpensOf(rows, J)]
      BY <1>1, <1>12, <1>15 DEF History
    <2>2. read.ok /\ read.opens = OpensOf(rows, Goods(rows, J)) /\ read.seen = OpensOf(rows, J)
      BY <2>1
    <2>3. QED
      BY <2>2, <1>1, <1>3, <1>13, <1>14, <1>15
  <1>16. CASE ~fine
    <2>1. read = Refused
      BY <1>1, <1>12, <1>16 DEF History
    <2>2. ~read.ok
      BY <2>1 DEF Refused
    <2>3. QED
      BY <2>2, <1>1, <1>3, <1>16
  <1>17. QED
    BY <1>15, <1>16

(* Binance: of the first i prices, those that are asked for and the        *)
(* symbols that have exactly one, a good one.                              *)
Named(items, x, i) == {j \in 1 .. i : items[j].symbol = x}

Priceable(requested, items, i) ==
  {x \in requested : \E j \in 1 .. i : Named(items, x, i) = {j} /\ items[j].good}

BatchUpTo(requested, items, i) ==
  [prices |-> Priceable(requested, items, i),
   unavailable |-> {x \in requested : Named(items, x, i) # {}} \ Priceable(requested, items, i)]

LEMMA TakeItemIs ==
  ASSUME NEW requested, NEW items, NEW n \in Nat, NEW i \in 1 .. n
  PROVE  TakeItem(BatchUpTo(requested, items, i - 1), items[i], requested) = BatchUpTo(requested, items, i)
  <1>1. i - 1 \in 0 .. n /\ i \in 1 .. i /\ i \notin 1 .. i - 1 /\ \A j : j \in 1 .. i <=> j \in 1 .. i - 1 \/ j = i
    BY OneMore
  <1>2. PICK x : x = items[i].symbol
    OBVIOUS
  <1>3. \A z : Named(items, z, i) = IF z = x THEN Named(items, z, i - 1) \cup {i} ELSE Named(items, z, i - 1)
    BY <1>1, <1>2 DEF Named
  <1>4. \A z : i \notin Named(items, z, i - 1)
    BY <1>1 DEF Named
  <1>5. \A z : z # x => (z \in Priceable(requested, items, i) <=> z \in Priceable(requested, items, i - 1))
    BY <1>1, <1>3, <1>4 DEF Priceable
  <1>6. x \in Priceable(requested, items, i) <=>
          x \in requested /\ Named(items, x, i - 1) = {} /\ items[i].good
    BY <1>1, <1>3, <1>4 DEF Priceable, Named
  <1>7. PICK P, U : P = Priceable(requested, items, i - 1)
                    /\ U = {z \in requested : Named(items, z, i - 1) # {}} \ P
    OBVIOUS
  <1>8. P \subseteq requested /\ \A z \in requested : z \in P \cup U <=> Named(items, z, i - 1) # {}
    BY <1>7 DEF Priceable
  <1>9. PICK batch : batch = BatchUpTo(requested, items, i - 1)
    OBVIOUS
  <1>10. batch = [prices |-> P, unavailable |-> U] /\ batch.prices = P /\ batch.unavailable = U
    BY <1>7, <1>9 DEF BatchUpTo
  <1> DEFINE PN == Priceable(requested, items, i)
             UN == {z \in requested : Named(items, z, i) # {}} \ PN
  <1>11. BatchUpTo(requested, items, i) = [prices |-> PN, unavailable |-> UN]
    BY DEF BatchUpTo
  <1>12. TakeItem(batch, items[i], requested) =
           IF x \notin requested THEN batch
           ELSE IF x \in P \cup U \/ ~items[i].good
                THEN [prices |-> P \ {x}, unavailable |-> U \cup {x}]
           ELSE [prices |-> P \cup {x}, unavailable |-> U]
    BY <1>2, <1>10 DEF TakeItem
  <1>13. PN \subseteq requested
    BY DEF Priceable
  <1>14. \A z : z # x => (z \in PN <=> z \in P)
    BY <1>5, <1>7
  <1>15. \A z : z # x => (z \in UN <=> z \in U)
    BY <1>3, <1>7, <1>14
  <1>16. x \in requested /\ x \notin PN => x \in UN
    BY <1>3
  <1> HIDE DEF PN, UN
  <1>17. CASE x \notin requested
    <2>1. x \notin P /\ x \notin U /\ x \notin PN /\ x \notin UN
      BY <1>7, <1>8, <1>13, <1>17 DEF UN
    <2>2. PN = P /\ UN = U
      BY <2>1, <1>14, <1>15
    <2>3. QED
      BY <2>2, <1>9, <1>10, <1>11, <1>12, <1>17
  <1>18. CASE x \in requested /\ (x \in P \cup U \/ ~items[i].good)
    <2>1. x \notin PN
      BY <1>6, <1>8, <1>18 DEF PN
    <2>2. PN = P \ {x} /\ UN = U \cup {x}
      BY <2>1, <1>14, <1>15, <1>16, <1>18
    <2>3. QED
      BY <2>2, <1>9, <1>11, <1>12, <1>18
  <1>19. CASE x \in requested /\ ~(x \in P \cup U \/ ~items[i].good)
    <2>1. x \in PN /\ x \notin U
      BY <1>6, <1>8, <1>19 DEF PN
    <2>2. x \notin UN
      BY <2>1 DEF UN
    <2>3. PN = P \cup {x} /\ UN = U
      BY <2>1, <2>2, <1>14, <1>15
    <2>4. QED
      BY <2>3, <1>9, <1>11, <1>12, <1>19
  <1>20. QED
    BY <1>17, <1>18, <1>19

(* A quote batch of Binance prices exactly the symbols asked for that have *)
(* one item, a good one, however many items there are and in any order;    *)
(* every other symbol asked for is unavailable (binance_spot.py:118).      *)
THEOREM BinancePricesExact ==
  ASSUME NEW items, Len(items) \in Nat, NEW requested
  PROVE  BinancePrices(requested, items) = Batch(Priceable(requested, items, Len(items)), requested)
  <1>1. PICK n \in Nat : n = Len(items)
    OBVIOUS
  <1> DEFINE none == [prices |-> {}, unavailable |-> {}]
             Reads(w) == w = [i \in 0 .. Len(items) |->
                               IF i = 0 THEN [prices |-> {}, unavailable |-> {}]
                               ELSE TakeItem(w[i - 1], items[i], requested)]
             all == [i \in 0 .. n |-> BatchUpTo(requested, items, i)]
  <1>2. PICK read : read = (CHOOSE w : Reads(w))[Len(items)]
    OBVIOUS
  <1>3. BinancePrices(requested, items) = [read EXCEPT !.unavailable = @ \cup (requested \ read.prices)]
    BY <1>2 DEF BinancePrices
  <1>4. BatchUpTo(requested, items, 0) = none
    <2>1. \A x : Named(items, x, 0) = {}
      BY DEF Named
    <2>2. Priceable(requested, items, 0) = {}
      BY DEF Priceable
    <2>3. QED
      BY <2>1, <2>2 DEF BatchUpTo
  <1>5. \A i \in 1 .. n : TakeItem(BatchUpTo(requested, items, i - 1), items[i], requested) = BatchUpTo(requested, items, i)
    BY TakeItemIs
  <1>6. Reads(all)
    <2>1. \A i \in 0 .. n : i = 0 \/ (i \in 1 .. n /\ i - 1 \in 0 .. n)
      OBVIOUS
    <2>2. \A i \in 0 .. n : all[i] = IF i = 0 THEN none ELSE TakeItem(all[i - 1], items[i], requested)
      BY <1>4, <1>5, <2>1
    <2>3. QED
      BY <1>1, <2>2
  <1>7. PICK w : Reads(w) /\ w = CHOOSE v : Reads(v)
    BY <1>6
  <1>8. \A i \in 0 .. n : w[i] = IF i = 0 THEN none ELSE TakeItem(w[i - 1], items[i], requested)
    BY <1>1, <1>7
  <1> DEFINE Good == {i \in 0 .. n : w[i] = BatchUpTo(requested, items, i)}
  <1>9. 0 \in Good
    <2> HIDE DEF none
    <2>1. 0 \in 0 .. n
      OBVIOUS
    <2>2. w[0] = none
      BY <1>8, <2>1
    <2>3. QED
      BY <1>4, <2>1, <2>2
  <1>10. ASSUME NEW i \in 1 .. n, i - 1 \in Good PROVE i \in Good
    <2>1. i \in 0 .. n /\ i # 0 /\ w[i] = TakeItem(w[i - 1], items[i], requested)
      BY <1>8
    <2>2. QED
      BY <2>1, <1>5, <1>10
  <1>11. n \in Good
    <2> HIDE DEF Good
    <2>1. QED
      BY <1>9, <1>10, ScanKeeps
  <1>12. read = BatchUpTo(requested, items, n)
    BY <1>1, <1>2, <1>7, <1>11
  <1> HIDE DEF none, Reads, all, Good
  <1>13. PICK P, U : P = Priceable(requested, items, n) /\ U = {x \in requested : Named(items, x, n) # {}} \ P
    OBVIOUS
  <1>14. read = [prices |-> P, unavailable |-> U]
    BY <1>12, <1>13 DEF BatchUpTo
  <1>15. BinancePrices(requested, items) = [prices |-> P, unavailable |-> U \cup (requested \ P)]
    BY <1>3, <1>14
  <1>16. U \cup (requested \ P) = requested \ P
    BY <1>13
  <1>17. QED
    BY <1>1, <1>13, <1>15, <1>16 DEF Batch

-----------------------------------------------------------------------------
(* The inputs: each is of the kind it says.                                *)
LEMMA InputKinds ==
  ASSUME InputInit
  PROVE  /\ OfKind("grid") => InitGrid
         /\ OfKind("gaps") => InitGaps
         /\ OfKind("chunks") => InitChunks
         /\ OfKind("parse") => InitParse
         /\ OfKind("rows") => InitRows
         /\ OfKind("items") \/ OfKind("prices") => InitPrices
         /\ OfKind("past") => InitPast
  <1>1. InitGrid => input.kind = "grid"
    BY DEF InitGrid
  <1>2. InitGaps => input.kind = "gaps"
    BY DEF InitGaps
  <1>3. InitChunks => input.kind = "chunks"
    BY DEF InitChunks
  <1>4. InitParse => input.kind = "parse"
    BY DEF InitParse
  <1>5. InitRows => input.kind = "rows"
    <2>1. InitRows => \E rows, outcome, supported :
            input = [kind |-> "rows", rows |-> rows, outcome |-> outcome, supported |-> supported]
      BY Zenon DEF InitRows
    <2>2. QED
      BY <2>1
  <1>6. InitPrices => input.kind \in {"items", "prices"}
    BY DEF InitPrices
  <1>7. InitPast => input.kind = "past"
    BY DEF InitPast, PastInputs
  <1>8. QED
    BY <1>1, <1>2, <1>3, <1>4, <1>5, <1>6, <1>7 DEF InputInit, OfKind

(* A behaviour is one input.                                               *)
LEMMA InputStays == InputSpec => []InputInit
  <1>1. InputInit /\ [InputNext]_input => InputInit'
    <2> SUFFICES ASSUME InputInit, input' = input PROVE InputInit'
      BY DEF InputNext
    <2>1. QED
      <3>1. InitGrid => InitGrid'
        BY DEF InitGrid
      <3>2. InitGaps => InitGaps'
        BY DEF InitGaps
      <3>3. InitChunks => InitChunks'
        BY DEF InitChunks
      <3>4. InitParse => InitParse'
        BY DEF InitParse
      <3>5. InitRows => InitRows'
        BY DEF InitRows
      <3>6. InitPrices => InitPrices'
        BY DEF InitPrices
      <3>7. InitPast => InitPast'
        BY DEF InitPast
      <3>8. QED
        BY <3>1, <3>2, <3>3, <3>4, <3>5, <3>6, <3>7 DEF InputInit
  <1>2. QED
    BY <1>1, PTL DEF InputSpec

LEMMA HoursAndMonths ==
  /\ Hour \in Nat /\ Hour > 1 /\ Day \in Nat
  /\ Schedule(Hours) /\ Schedule(Months) /\ ~Hours.month /\ Months.month
  /\ Hours.duration = Hour /\ Hours.offset = 0 /\ Months.duration = 31 * Day
  <1>1. Day \in Nat /\ Day >= 48
    BY DayAssumption, InputsAssumption
  <1>2. Hour \in Nat /\ Hour > 1
    BY <1>1 DEF Hour
  <1>3. Hours.month = FALSE /\ Hours.duration = Hour /\ Hours.offset = 0
    BY DEF Hours, FixedSchedule
  <1>4. Months.month = TRUE /\ Months.duration = 31 * Day
    BY DEF Months, FixedSchedule
  <1>5. QED
    BY <1>1, <1>2, <1>3, <1>4 DEF Schedule, Fixed

(* The first opens of a grid are opens of it.                              *)
LEMMA GridIsOpens ==
  ASSUME NEW sch \in {Hours, Months}, NEW n \in Int
  PROVE  Grid(sch, n) \subseteq Opens(sch)
  <1>1. CASE sch.month
    BY <1>1 DEF Grid, Opens
  <1>2. CASE ~sch.month
    BY <1>2 DEF Grid, Opens, FixedOpens
  <1>3. QED
    BY <1>1, <1>2

(* The parts of a range follow each other.                                 *)
LEMMA CutsFollow ==
  ASSUME NEW parts, NEW S, NEW s \in Int, NEW e \in Int, Cuts(parts, S, s, e)
  PROVE  /\ parts # <<>> <=> s < e
         /\ \A i \in DOMAIN parts : /\ parts[i].start < parts[i].end
                                    /\ parts[i].start = (IF i = 1 THEN s ELSE parts[i - 1].end)
         /\ parts # <<>> => Last(parts).end = e
  <1>1. PICK n \in Nat : n = Len(parts)
    BY DEF Cuts
  <1>2. /\ parts \in Seq(Part) /\ DOMAIN parts = 1 .. n /\ (n = 0 <=> e <= s)
        /\ n # 0 => parts[1].start = s /\ parts[n].end = e
        /\ \A i \in 1 .. n : parts[i].start < parts[i].end
        /\ \A i \in 1 .. n - 1 : parts[i + 1].start = parts[i].end
    BY <1>1 DEF Cuts
  <1>3. parts = <<>> <=> n = 0
    BY <1>1, <1>2
  <1>4. ASSUME NEW i \in 1 .. n
        PROVE  parts[i].start = (IF i = 1 THEN s ELSE parts[i - 1].end)
    <2>1. CASE i = 1
      BY <2>1, <1>2
    <2>2. CASE i # 1
      <3>1. PICK j \in 1 .. n - 1 : j = i - 1 /\ i = j + 1
        BY <2>2
      <3>2. QED
        BY <2>2, <3>1, <1>2
    <2>3. QED
      BY <2>1, <2>2
  <1>5. QED
    BY <1>1, <1>2, <1>3, <1>4 DEF Last

LEMMA RangesFollow ==
  ASSUME NEW s \in Int, NEW e \in Int, NEW maximum \in Nat
  PROVE  \E S : Cuts(HistoryRanges(s, e, maximum), S, s, e)
  <1>1. CASE maximum # 0
    BY <1>1, HistoryRangesCut
  <1>2. CASE maximum = 0 /\ s < e
    <2>1. HistoryRanges(s, e, maximum) = <<Section(s, e, 0)>>
      BY <1>2 DEF HistoryRanges
    <2>2. PICK p : p = Section(s, e, 0)
      OBVIOUS
    <2>3. p \in Part /\ p.start = s /\ p.end = e
      BY <2>2 DEF Section, Part
    <2>4. Cuts(<<p>>, [c \in Int |-> e], s, e)
      BY <2>3, <1>2 DEF Cuts
    <2>5. QED
      BY <2>1, <2>2, <2>4
  <1>3. CASE e <= s
    <2>1. HistoryRanges(s, e, maximum) = <<>>
      BY <1>3 DEF HistoryRanges
    <2>2. QED
      BY <2>1, <1>3, CutsNone
  <1>4. QED
    BY <1>1, <1>2, <1>3

LEMMA ChunksInput ==
  ASSUME InputInit, OfKind("chunks")
  PROVE  /\ input.sch \in {Hours, Months} /\ input.start \in Int /\ input.end \in Int /\ input.n \in 1 .. 3
         /\ (input.n - 1) * input.sch.duration \in Nat
  <1>1. InitChunks
    BY InputKinds
  <1>2. PICK s \in 0 .. 5, length \in 0 .. 9, n \in 1 .. 3 :
          \/ input = [kind |-> "chunks", sch |-> Hours, start |-> s, end |-> s + length, n |-> n]
          \/ input = [kind |-> "chunks", sch |-> Months, n |-> n,
                      start |-> (25 + 2 * s) * Day, end |-> (25 + 2 * s + 11 * length) * Day]
    BY <1>1 DEF InitChunks
  <1>3. Day \in Nat /\ Hour \in Nat /\ Hours.duration = Hour /\ Months.duration = 31 * Day
    BY HoursAndMonths
  <1>4. (n - 1) * Hour \in Nat /\ (n - 1) * (31 * Day) \in Nat
    BY <1>3
  <1>5. (25 + 2 * s) * Day \in Int /\ (25 + 2 * s + 11 * length) * Day \in Int
    BY <1>3
  <1>6. CASE input = [kind |-> "chunks", sch |-> Hours, start |-> s, end |-> s + length, n |-> n]
    <2>1. input.sch = Hours /\ input.start = s /\ input.end = s + length /\ input.n = n
      BY <1>6
    <2>2. QED
      BY <2>1, <1>3, <1>4
  <1>7. CASE input = [kind |-> "chunks", sch |-> Months, n |-> n,
                      start |-> (25 + 2 * s) * Day, end |-> (25 + 2 * s + 11 * length) * Day]
    <2> DEFINE a == (25 + 2 * s) * Day
               b == (25 + 2 * s + 11 * length) * Day
    <2>1. input = [kind |-> "chunks", sch |-> Months, n |-> n, start |-> a, end |-> b] /\ a \in Int /\ b \in Int
      BY <1>5, <1>7
    <2> HIDE DEF a, b
    <2>2. input.sch = Months /\ input.start = a /\ input.end = b /\ input.n = n
      BY <2>1
    <2>3. QED
      BY <2>1, <2>2, <1>3, <1>4
  <1>8. QED
    BY <1>2, <1>6, <1>7

LEMMA ChunksAreExactNow == InputInit => ChunksAreExact
  <1> SUFFICES ASSUME InputInit, OfKind("chunks") PROVE ChunksAreExact
    BY DEF ChunksAreExact
  <1>1. PICK sch, s, e, n : sch = input.sch /\ s = input.start /\ e = input.end /\ n = input.n
    OBVIOUS
  <1>2. sch \in {Hours, Months} /\ s \in Int /\ e \in Int /\ n \in 1 .. 3 /\ (n - 1) * sch.duration \in Nat
    BY <1>1, ChunksInput
  <1>3. Schedule(sch) /\ \E El \in SUBSET Opens(sch) : El = Grid(sch, 30)
    BY <1>2, HoursAndMonths, GridIsOpens
  <1>4. PICK El \in SUBSET Opens(sch) : El = Grid(sch, 30)
    BY <1>3
  <1>5. PICK chunks : chunks = Chunks(sch, s, e, n)
    OBVIOUS
  <1>6. n \in Nat \ {0}
    BY <1>2
  <1>7. /\ Cuts(chunks, ChunkSteps(sch, n), s, e)
        /\ \A i \in 1 .. Len(chunks) : Len(ExpectedOpens(sch, chunks[i].start, chunks[i].end, El)) <= n
    <2>1. s \in Int /\ e \in Int /\ Schedule(sch)
      BY <1>2, <1>3
    <2>2. QED
      BY <2>1, <1>5, <1>6, ChunksCut, Zenon
  <1>8. PICK ranges : ranges = HistoryRanges(s, e, (n - 1) * sch.duration)
    OBVIOUS
  <1>9. \E S : Cuts(ranges, S, s, e)
    BY <1>2, <1>8, RangesFollow
  <1> DEFINE Follow(parts) ==
               /\ parts # <<>> <=> s < e
               /\ \A i \in DOMAIN parts : /\ parts[i].start < parts[i].end
                                          /\ parts[i].start = (IF i = 1 THEN s ELSE parts[i - 1].end)
               /\ parts # <<>> => Last(parts).end = e
  <1>10. Follow(chunks) /\ Follow(ranges)
    BY <1>2, <1>7, <1>9, CutsFollow
  <1>11. \A c \in ToSet(chunks) : Len(ExpectedOpens(sch, c.start, c.end, El)) <= n
    <2>1. chunks \in Seq(Part)
      BY <1>7 DEF Cuts
    <2>2. QED
      BY <2>1, <1>7 DEF ToSet
  <1>12. QED
    BY <1>1, <1>4, <1>5, <1>8, <1>10, <1>11 DEF ChunksAreExact

(* Whatever the input, the chunks of a backfill and the ranges of a Yahoo  *)
(* request follow each other from the start to the end, and no chunk has   *)
(* more opens than a request may have (backfill_candles.py:100,            *)
(* yfinance_market_data.py:366).                                           *)
THEOREM ChunksCorrect == InputSpec => []ChunksAreExact
  BY InputStays, ChunksAreExactNow, PTL

-----------------------------------------------------------------------------
(* There is one list of a set.                                             *)
LEMMA ListParts ==
  ASSUME NEW p, NEW X, Lists(p, X), NEW n \in Nat, n = Len(p)
  PROVE  /\ p \in Seq(Int) /\ DOMAIN p = 1 .. n
         /\ \A i \in 1 .. n : p[i] \in Int /\ p[i] \in X
         /\ \A i, j \in 1 .. n : i < j => p[i] < p[j]
         /\ \A x \in X : \E i \in 1 .. n : p[i] = x
  <1>1. p \in Seq(Int) /\ ToSet(p) = X /\ \A i, j \in DOMAIN p : i < j => p[i] < p[j]
    BY DEF Lists
  <1>2. DOMAIN p = 1 .. n
    BY <1>1
  <1>3. \A i \in 1 .. n : p[i] \in Int
    BY <1>1, <1>2
  <1>4. \A i \in 1 .. n : p[i] \in X
    BY <1>1, <1>2 DEF ToSet
  <1>5. \A x \in X : \E i \in 1 .. n : p[i] = x
    BY <1>1, <1>2 DEF ToSet
  <1>6. QED
    BY <1>1, <1>2, <1>3, <1>4, <1>5

LEMMA NotSmaller ==
  ASSUME NEW n \in Nat, NEW X, NEW p, Lists(p, X), n = Len(p), NEW q, Lists(q, X), n = Len(q),
         NEW i \in 1 .. n, \A j \in 1 .. n : j < i => p[j] = q[j]
  PROVE  ~(p[i] < q[i])
  <1>1. SUFFICES ASSUME p[i] < q[i] PROVE FALSE
    OBVIOUS
  <1>2. p[i] \in Int /\ p[i] \in X /\ q[i] \in Int
    BY ListParts
  <1>3. \A x \in X : \E j \in 1 .. n : q[j] = x
    BY ListParts
  <1>4. PICK j \in 1 .. n : q[j] = p[i]
    BY <1>2, <1>3
  <1>5. \A a, b \in 1 .. n : a < b => q[a] < q[b]
    BY ListParts
  <1>6. \A a, b \in 1 .. n : a < b => p[a] < p[b]
    BY ListParts
  <1>7. i # j
    BY <1>1, <1>2, <1>4
  <1>8. ~(i < j)
    BY <1>1, <1>2, <1>4, <1>5
  <1>9. j < i
    BY <1>7, <1>8
  <1>10. p[j] = q[j] /\ p[j] < p[i]
    BY <1>6, <1>9
  <1>11. QED
    BY <1>2, <1>4, <1>10

LEMMA OneList ==
  ASSUME NEW X, NEW p, Lists(p, X), NEW q, Lists(q, X)
  PROVE  p = q
  <1>1. PICK n \in Nat : n = Len(p)
    BY DEF Lists
  <1>2. n = Len(q)
    <2>1. X \subseteq X
      OBVIOUS
    <2>2. Len(p) <= Len(q) /\ Len(q) <= Len(p) /\ Len(q) \in Nat
      BY <2>1, LongerList
    <2>3. QED
      BY <1>1, <2>2
  <1> DEFINE Same == {i \in 0 .. n : \A j \in 1 .. i : p[j] = q[j]}
  <1>3. 0 \in Same
    OBVIOUS
  <1>4. ASSUME NEW i \in 1 .. n, i - 1 \in Same PROVE i \in Same
    <2>1. \A j \in 1 .. n : j < i => p[j] = q[j]
      BY <1>4
    <2>2. \A j \in 1 .. n : j < i => q[j] = p[j]
      BY <2>1
    <2>3. ~(p[i] < q[i])
      BY <2>1, <1>1, <1>2, NotSmaller
    <2>4. ~(q[i] < p[i])
      BY <2>2, <1>1, <1>2, NotSmaller
    <2>5. p[i] \in Int /\ q[i] \in Int
      BY <1>1, <1>2, ListParts
    <2>6. p[i] = q[i]
      BY <2>3, <2>4, <2>5
    <2>7. \A j \in 1 .. i : j = i \/ j < i
      OBVIOUS
    <2>8. QED
      BY <2>1, <2>6, <2>7
  <1>5. n \in Same
    <2> HIDE DEF Same
    <2>1. QED
      BY <1>3, <1>4, ScanKeeps
  <1>6. \A j \in 1 .. n : p[j] = q[j]
    BY <1>5
  <1>7. p \in Seq(Int) /\ q \in Seq(Int)
    BY DEF Lists
  <1>8. DOMAIN p = 1 .. n /\ DOMAIN q = 1 .. n
    <2>1. DOMAIN p = 1 .. n
      BY <1>1, ListParts
    <2>2. DOMAIN q = 1 .. n
      BY <1>2, ListParts
    <2>3. QED
      BY <2>1, <2>2
  <1>9. QED
    BY <1>6, <1>7, <1>8

(* Two lists of two, one after the other.                                  *)
LEMMA ConcatAt ==
  ASSUME NEW p \in Seq(Int), NEW q \in Seq(Int)
  PROVE  \A i \in 1 .. Len(p) + Len(q) : (p \o q)[i] = IF i <= Len(p) THEN p[i] ELSE q[i - Len(p)]
  OBVIOUS

LEMMA FourInARow ==
  ASSUME NEW p \in Seq(Int), Len(p) = 2, NEW q \in Seq(Int), Len(q) = 2
  PROVE  LET both == p \o q IN
         both \in Seq(Int) /\ Len(both) = 4 /\ both[1] = p[1] /\ both[2] = p[2] /\ both[3] = q[1] /\ both[4] = q[2]
  <1> DEFINE s == p \o q
  <1>1. s \in Seq(Int) /\ Len(s) = 4
    <2>1. s \in Seq(Int) /\ Len(s) = Len(p) + Len(q)
      BY LenConcat
    <2> HIDE DEF s
    <2>2. QED
      BY <2>1
  <1>2. \A i \in 1 .. Len(p) + Len(q) : s[i] = IF i <= Len(p) THEN p[i] ELSE q[i - Len(p)]
    BY ConcatAt
  <1> HIDE DEF s
  <1>3. s[1] = p[1] /\ s[2] = p[2] /\ s[3] = q[1] /\ s[4] = q[2]
    BY <1>2
  <1> USE DEF s
  <1>4. QED
    BY <1>1, <1>3

(* What the nearest two opens on each side of a time are.                  *)
LEMMA TwoBetween ==
  ASSUME NEW El \in SUBSET Int, NEW a \in Int, NEW c \in Int, NEW p, Lists(p, OpensIn(El, a, c)), Len(p) = 2
  PROVE  /\ p \in Seq(Int) /\ p[1] \in El /\ p[2] \in El /\ p[1] \in Int /\ p[2] \in Int
         /\ a <= p[1] /\ p[1] < p[2] /\ p[2] < c
  <1>1. PICK n \in Nat : n = 2
    OBVIOUS
  <1>2. n = Len(p)
    BY <1>1
  <1>3. /\ p \in Seq(Int)
        /\ \A i \in 1 .. n : p[i] \in Int /\ p[i] \in OpensIn(El, a, c)
        /\ \A i, j \in 1 .. n : i < j => p[i] < p[j]
    BY <1>2, ListParts
  <1>4. p[1] \in OpensIn(El, a, c) /\ p[2] \in OpensIn(El, a, c)
    BY <1>1, <1>3
  <1>5. p[1] < p[2]
    BY <1>1, <1>3
  <1>6. \A x \in OpensIn(El, a, c) : x \in El /\ x \in Int /\ a <= x /\ x < c
    BY DEF OpensIn
  <1>7. QED
    BY <1>3, <1>4, <1>5, <1>6

Surround(both, sch, at, El) ==
  /\ \A i \in 1 .. 3 : both[i] < both[i + 1]
  /\ {o \in El : o >= both[1] /\ o <= both[4]} = ToSet(both)
  /\ both[2] < at /\ at <= both[3]
  /\ ExpectedOpens(sch, both[1], EndAfter(sch, both[4]), El) = both

LEMMA TwoAndTwo ==
  ASSUME NEW sch, Schedule(sch), NEW at \in Int, NEW El \in SUBSET Opens(sch), IsFiniteSet(El),
         Cardinality({o \in El : o < at}) >= 2, Cardinality({o \in El : o >= at}) >= 2,
         NEW both, both = LatestOpens(sch, at, 2, El) \o NextOpens(sch, at, 2, El)
  PROVE  Surround(both, sch, at, El)
  <1>1. El \in SUBSET Int
    BY OpensAreInt
  <1>2. PICK two \in Nat : two = 2
    OBVIOUS
  <1>3. PICK p, q : p = LatestOpens(sch, at, two, El) /\ q = NextOpens(sch, at, two, El)
    OBVIOUS
  <1>4. both = p \o q
    BY <1>2, <1>3
  <1>5. HasMany({o \in El : o < at}, two) /\ HasMany({o \in El : at <= o}, two)
    <2>1. \A o \in El : o >= at <=> at <= o
      BY <1>1
    <2>2. PICK A, B : A = {o \in El : o < at} /\ B = {o \in El : o >= at}
      OBVIOUS
    <2>3. B = {o \in El : at <= o}
      BY <2>1, <2>2
    <2>4. IsFiniteSet(A) /\ IsFiniteSet(B)
      BY <2>2, FS_Subset
    <2>5. Cardinality(A) \in Nat /\ Cardinality(B) \in Nat
      BY <2>4, FS_CardinalityType
    <2>6. two <= Cardinality(A) /\ two <= Cardinality(B)
      BY <1>2, <2>2, <2>5
    <2>7. HasMany(A, two) /\ HasMany(B, two)
      BY <2>4, <2>6 DEF HasMany
    <2>8. QED
      BY <2>2, <2>3, <2>7
  <1>6. Len(p) = 2 /\ \E b \in Int : Lists(p, OpensIn(El, b, at))
    BY <1>2, <1>3, <1>5, LatestOpensFound
  <1>7. Len(q) = 2 /\ \E c \in Int : Lists(q, OpensIn(El, at, c))
    BY <1>2, <1>3, <1>5, NextOpensFound
  <1>8. PICK b \in Int : Lists(p, OpensIn(El, b, at))
    BY <1>6
  <1>9. PICK c \in Int : Lists(q, OpensIn(El, at, c))
    BY <1>7
  <1>10. /\ p \in Seq(Int) /\ p[1] \in El /\ p[2] \in El /\ p[1] \in Int /\ p[2] \in Int
         /\ b <= p[1] /\ p[1] < p[2] /\ p[2] < at
    BY <1>1, <1>6, <1>8, TwoBetween
  <1>11. /\ q \in Seq(Int) /\ q[1] \in El /\ q[2] \in El /\ q[1] \in Int /\ q[2] \in Int
         /\ at <= q[1] /\ q[1] < q[2] /\ q[2] < c
    BY <1>1, <1>7, <1>9, TwoBetween
  <1>12. both \in Seq(Int) /\ Len(both) = 4 /\ both[1] = p[1] /\ both[2] = p[2] /\ both[3] = q[1] /\ both[4] = q[2]
    <2>1. p \in Seq(Int) /\ Len(p) = 2 /\ q \in Seq(Int) /\ Len(q) = 2
      BY <1>6, <1>7, <1>10, <1>11
    <2>2. LET s == p \o q IN
          s \in Seq(Int) /\ Len(s) = 4 /\ s[1] = p[1] /\ s[2] = p[2] /\ s[3] = q[1] /\ s[4] = q[2]
      BY <2>1, FourInARow
    <2>3. QED
      BY <1>4, <2>2
  <1>13. PICK x1 \in Int, x2 \in Int, x3 \in Int, x4 \in Int :
           /\ both[1] = x1 /\ both[2] = x2 /\ both[3] = x3 /\ both[4] = x4
           /\ x1 < x2 /\ x2 < at /\ at <= x3 /\ x3 < x4 /\ b <= x1 /\ x4 < c
    BY <1>10, <1>11, <1>12
  <1>14. \A i \in 1 .. 3 : both[i] < both[i + 1]
    <2>1. \A i \in 1 .. 3 : i = 1 \/ i = 2 \/ i = 3
      OBVIOUS
    <2>2. 1 + 1 = 2 /\ 2 + 1 = 3 /\ 3 + 1 = 4
      OBVIOUS
    <2>3. both[1] < both[2] /\ both[2] < both[3] /\ both[3] < both[4]
      <3>1. x1 < x2 /\ x2 < x3 /\ x3 < x4
        BY <1>13
      <3>2. QED
        BY <3>1, <1>13
    <2>4. QED
      BY <2>1, <2>2, <2>3
  <1>15. Lists(both, OpensIn(El, b, c))
    <2>1. \A x \in OpensIn(El, b, at), y \in OpensIn(El, at, c) : x < y
      BY <1>1 DEF OpensIn
    <2>2. OpensIn(El, b, at) \cup OpensIn(El, at, c) = OpensIn(El, b, c)
      <3>1. b < at /\ at < c
        BY <1>13
      <3>2. \A o \in El : (b <= o /\ o < at) \/ (at <= o /\ o < c) <=> b <= o /\ o < c
        BY <1>1, <3>1
      <3>3. QED
        BY <3>2 DEF OpensIn
    <2>3. Lists(p \o q, OpensIn(El, b, at) \cup OpensIn(El, at, c))
      BY <1>8, <1>9, <2>1, ListsConcat
    <2>4. QED
      BY <1>4, <2>2, <2>3
  <1>16. \A o \in El : b <= o /\ o < c <=> o >= x1 /\ o <= x4
    <2>1. PICK n \in Nat : n = 4
      OBVIOUS
    <2>2. DOMAIN both = 1 .. n
      <3>1. n = Len(both)
        BY <1>12, <2>1
      <3>2. QED
        BY <1>15, <3>1, ListParts
    <2>3. \A o \in OpensIn(El, b, c) : \E i \in 1 .. n : both[i] = o
      BY <1>15, <2>2 DEF Lists, ToSet
    <2>4. \A i \in 1 .. n : i = 1 \/ i = 2 \/ i = 3 \/ i = 4
      BY <2>1
    <2>5. \A i \in 1 .. n : both[i] = x1 \/ both[i] = x2 \/ both[i] = x3 \/ both[i] = x4
      BY <1>13, <2>4
    <2>6. \A o \in OpensIn(El, b, c) : o = x1 \/ o = x2 \/ o = x3 \/ o = x4
      BY <2>3, <2>5
    <2>7. \A o \in El : b <= o /\ o < c => o \in OpensIn(El, b, c)
      BY DEF OpensIn
    <2>8. \A o \in El : b <= o /\ o < c => o >= x1 /\ o <= x4
      BY <1>13, <2>6, <2>7
    <2>9. QED
      BY <1>1, <1>13, <2>8
  <1>17. {o \in El : o >= x1 /\ o <= x4} = OpensIn(El, b, c)
    BY <1>16 DEF OpensIn
  <1>18. PICK u \in Int : u = EndAfter(sch, x4) /\ x4 < u
    <2>1. EndAfter(sch, x4) \in Int /\ x4 < EndAfter(sch, x4)
      BY StepIs
    <2>2. QED
      BY <2>1
  <1>19. OpensIn(El, x1, u) = OpensIn(El, b, c)
    <2>1. x4 \in Opens(sch)
      BY <1>11, <1>12, <1>13
    <2>2. \A o \in Opens(sch) : x4 < o => u <= o
      BY <1>18, <2>1, OpensFollow
    <2>3. \A o \in El : x1 <= o /\ o < u <=> o >= x1 /\ o <= x4
      BY <2>2, <1>1, <1>18
    <2>4. QED
      BY <2>3, <1>17 DEF OpensIn
  <1>20. Lists(ExpectedOpens(sch, x1, u, El), OpensIn(El, x1, u))
    BY ExpectedOpensExact
  <1>21. ExpectedOpens(sch, x1, u, El) = both
    BY <1>15, <1>19, <1>20, OneList
  <1>22. ToSet(both) = OpensIn(El, b, c)
    BY <1>15 DEF Lists
  <1>23. QED
    BY <1>13, <1>14, <1>17, <1>18, <1>21, <1>22 DEF Surround

(* The schedule of a symbol is a grid.                                     *)
LEMMA DurationIs == \A tf \in Timeframes : Duration(tf) \in Nat \ {0}
  <1>1. /\ Hour \in Nat \ {0} /\ Hour \div 2 \in Nat \ {0} /\ 4 * Hour \in Nat \ {0}
        /\ Day \in Nat \ {0} /\ 7 * Day \in Nat \ {0} /\ 31 * Day \in Nat \ {0}
    <2>1. Hour \in Nat /\ Hour > 1 /\ Day \in Nat \ {0}
      BY HoursAndMonths, DayAssumption
    <2>2. QED
      BY <2>1
  <1>2. ASSUME NEW tf \in Timeframes PROVE Duration(tf) \in Nat \ {0}
    <2>1. tf = "30m" => Duration(tf) = Hour \div 2
      BY DEF Duration
    <2>2. tf = "1h" => Duration(tf) = Hour
      BY DEF Duration
    <2>3. tf = "4h" => Duration(tf) = 4 * Hour
      BY DEF Duration
    <2>4. tf = "1d" => Duration(tf) = Day
      BY DEF Duration
    <2>5. tf = "1w" => Duration(tf) = 7 * Day
      BY DEF Duration
    <2>6. tf = "1mo" => Duration(tf) = 31 * Day
      BY DEF Duration
    <2>7. QED
      BY <1>1, <2>1, <2>2, <2>3, <2>4, <2>5, <2>6 DEF Timeframes
  <1>3. QED
    BY <1>2

LEMMA CandleScheduleIs ==
  ASSUME NEW symbol, NEW tf \in Timeframes
  PROVE  Schedule(CandleSchedule(symbol, tf))
  <1>1. PICK offset \in Int : CandleSchedule(symbol, tf) = [FixedSchedule(Duration(tf), offset) EXCEPT !.month = (tf = "1mo")]
    <2>1. Hour \div 2 \in Int /\ 4 * Day \in Int /\ 0 \in Int
      BY HoursAndMonths
    <2>2. QED
      BY <2>1 DEF CandleSchedule
  <1>2. /\ CandleSchedule(symbol, tf).duration = Duration(tf)
        /\ CandleSchedule(symbol, tf).offset = offset
    BY <1>1 DEF FixedSchedule
  <1>3. QED
    BY <1>2, DurationIs DEF Schedule, Fixed

LEMMA FiniteImage ==
  ASSUME NEW S, IsFiniteSet(S), NEW f, DOMAIN f = S, f = [k \in S |-> f[k]]
  PROVE  IsFiniteSet({f[k] : k \in S})
  <1>1. PICK T : T = {f[k] : k \in S}
    OBVIOUS
  <1>2. f \in Surjection(S, T)
    BY <1>1 DEF Surjection
  <1>3. QED
    BY <1>1, <1>2, FS_Surjection

LEMMA AroundIsOpens ==
  ASSUME NEW symbol, NEW tf \in Timeframes, NEW t \in Int
  PROVE  /\ OpensAround(symbol, tf, t) \subseteq Opens(CandleSchedule(symbol, tf))
         /\ IsFiniteSet(OpensAround(symbol, tf, t))
  <1>1. PICK sch : sch = CandleSchedule(symbol, tf)
    OBVIOUS
  <1>2. Schedule(sch)
    BY <1>1, CandleScheduleIs
  <1>3. PICK r \in Int : r = Reach(tf)
    <2>1. (5 * Day) \div Duration(tf) \in Int
      BY DurationIs, DayAssumption
    <2>2. QED
      BY <2>1 DEF Reach
  <1>4. PICK steps : steps = -r .. r
    OBVIOUS
  <1>5. steps \subseteq Int /\ IsFiniteSet(steps)
    BY <1>3, <1>4, FS_Interval
  <1> DEFINE grid == IF sch.month THEN {MonthStart[MonthOf(t) + k] : k \in steps}
                                  ELSE {FirstOpen(sch, t) + k * sch.duration : k \in steps}
  <1>6. OpensAround(symbol, tf, t) = {o \in grid : IsEligible(symbol, o, tf)}
    BY <1>1, <1>3, <1>4, Zenon DEF OpensAround
  <1>7. grid \subseteq Opens(sch) /\ IsFiniteSet(grid)
    <2>1. CASE sch.month
      <3>1. MonthOf(t) \in Int
        BY MonthOfIs
      <3>2. \A k \in steps : MonthStart[MonthOf(t) + k] \in Opens(sch)
        BY <2>1, <1>5, <3>1 DEF Opens
      <3>3. IsFiniteSet({MonthStart[MonthOf(t) + k] : k \in steps})
        <4> DEFINE f == [k \in steps |-> MonthStart[MonthOf(t) + k]]
        <4>1. IsFiniteSet({f[k] : k \in steps})
          BY <1>5, FiniteImage
        <4>2. QED
          BY <4>1
      <3>4. QED
        BY <2>1, <3>2, <3>3
    <2>2. CASE ~sch.month
      <3>1. FirstOpen(sch, t) \in Opens(sch)
        BY <1>2, FirstOpenIs
      <3>2. PICK j \in Int : FirstOpen(sch, t) = sch.offset + j * sch.duration
        BY <2>2, <3>1 DEF Opens, FixedOpens
      <3>3. \A k \in steps : FirstOpen(sch, t) + k * sch.duration \in Opens(sch)
        <4>1. PICK a \in Int, d \in Int : a = sch.offset /\ d = sch.duration
          BY <1>2, <2>2 DEF Schedule, Fixed
        <4>2. \A k \in Int : (a + j * d) + k * d = a + (j + k) * d
          OBVIOUS
        <4>3. \A k \in Int : j + k \in Int /\ FirstOpen(sch, t) + k * sch.duration = sch.offset + (j + k) * sch.duration
          BY <3>2, <4>1, <4>2
        <4>4. QED
          BY <1>5, <2>2, <4>3 DEF Opens, FixedOpens
      <3>4. IsFiniteSet({FirstOpen(sch, t) + k * sch.duration : k \in steps})
        <4> DEFINE f == [k \in steps |-> FirstOpen(sch, t) + k * sch.duration]
        <4>1. IsFiniteSet({f[k] : k \in steps})
          BY <1>5, FiniteImage
        <4>2. QED
          BY <4>1
      <3>5. QED
        BY <2>2, <3>3, <3>4
    <2>3. QED
      BY <2>1, <2>2
  <1> HIDE DEF grid
  <1>8. {o \in grid : IsEligible(symbol, o, tf)} \subseteq grid
    OBVIOUS
  <1>9. QED
    BY <1>1, <1>6, <1>7, <1>8, FS_Subset

LEMMA OpensInput ==
  ASSUME InputInit, OfKind("grid")
  PROVE  input.tf \in Timeframes /\ input.at \in Int
  <1>1. InitGrid
    BY InputKinds
  <1>2. PICK symbol \in Symbols, tf \in Timeframes, t \in Instants :
          input = [kind |-> "grid", symbol |-> symbol, tf |-> tf, at |-> t]
    BY <1>1 DEF InitGrid
  <1>3. QED
    BY <1>2, InputsAssumption

LEMMA OpensAreExactNow == InputInit => OpensAreExact
  <1> SUFFICES ASSUME InputInit, OfKind("grid") PROVE OpensAreExact
    BY DEF OpensAreExact
  <1>1. PICK sch, at, around :
          sch = CandleSchedule(input.symbol, input.tf) /\ at = input.at /\ around = OpensAround(input.symbol, input.tf, input.at)
    OBVIOUS
  <1>2. at \in Int /\ Schedule(sch) /\ around \in SUBSET Opens(sch) /\ IsFiniteSet(around)
    BY <1>1, OpensInput, CandleScheduleIs, AroundIsOpens
  <1>3. PICK both : both = LatestOpens(sch, at, 2, around) \o NextOpens(sch, at, 2, around)
    OBVIOUS
  <1>4. ASSUME Cardinality({o \in around : o < at}) >= 2, Cardinality({o \in around : o >= at}) >= 2
        PROVE  Surround(both, sch, at, around)
    BY <1>2, <1>3, <1>4, TwoAndTwo
  <1>5. QED
    BY <1>1, <1>3, <1>4, Zenon DEF OpensAreExact, Surround

(* Of any row of a registry, timeframe and instant, the two nearest opens  *)
(* on each side are the ones latest_opens and next_opens return, in order, *)
(* and expected_opens is the part of the grid between them                 *)
(* (candle_schedules.py:59-104).                                           *)
THEOREM OpensCorrect == InputSpec => []OpensAreExact
  BY InputStays, OpensAreExactNow, PTL

-----------------------------------------------------------------------------
(* The opens of a grid that counts from EPOCH.                             *)
LEMMA Remainder ==
  ASSUME NEW t \in Int, NEW d \in Nat \ {0}
  PROVE  t % d \in Int /\ 0 <= t % d /\ t % d < d /\ t = (t \div d) * d + (t % d) /\ t \div d \in Int
  OBVIOUS

LEMMA NoMultipleBetween ==
  ASSUME NEW j \in Int, NEW d \in Nat \ {0}, 0 <= j * d, j * d < d
  PROVE  j = 0
  <1>1. j <= 0
    <2>1. SUFFICES ASSUME j >= 1 PROVE FALSE
      OBVIOUS
    <2>2. PICK i \in Nat : j = i + 1
      BY <2>1
    <2>3. i * d >= 0 /\ j * d = i * d + d
      BY <2>2
    <2>4. QED
      BY <2>3
  <1>2. j >= 0
    <2>1. SUFFICES ASSUME j < 0 PROVE FALSE
      OBVIOUS
    <2>2. PICK i \in Nat : i = (0 - j) - 1
      BY <2>1
    <2>3. i * d >= 0 /\ j * d = 0 - (i * d + d)
      <3>1. j = 0 - (i + 1)
        BY <2>2
      <3>2. (0 - (i + 1)) * d = 0 - (i * d + d)
        OBVIOUS
      <3>3. QED
        BY <3>1, <3>2
    <2>4. QED
      BY <2>3
  <1>3. QED
    BY <1>1, <1>2

LEMMA MultiplesAre ==
  ASSUME NEW d \in Nat \ {0}
  PROVE  /\ \A k \in Int : k * d \in Multiples(d)
         /\ \A t \in Multiples(d) : \E k \in Int : t = k * d
  <1>1. ASSUME NEW k \in Int PROVE k * d \in Multiples(d)
    <2>1. PICK t \in Int : t = k * d
      OBVIOUS
    <2>2. PICK q \in Int, r \in Int : q = t \div d /\ r = t % d /\ 0 <= r /\ r < d /\ t = q * d + r
      BY Remainder
    <2>3. PICK j \in Int : j = k - q
      OBVIOUS
    <2>4. j * d = k * d - q * d
      BY <2>3
    <2>5. j * d = r
      BY <2>1, <2>2, <2>4
    <2>6. j = 0
      BY <2>2, <2>5, NoMultipleBetween
    <2>7. r = 0
      BY <2>5, <2>6
    <2>8. QED
      BY <2>1, <2>2, <2>7 DEF Multiples
  <1>2. ASSUME NEW t \in Multiples(d) PROVE \E k \in Int : t = k * d
    <2>1. t \in Int /\ t % d = 0
      BY DEF Multiples
    <2>2. t \div d \in Int /\ t = (t \div d) * d
      BY <2>1, Remainder
    <2>3. QED
      BY <2>2
  <1>3. QED
    BY <1>1, <1>2

LEMMA MultiplesAreOpens ==
  ASSUME NEW d \in Nat \ {0}, NEW sch, Fixed(sch), sch.duration = d, sch.offset = 0
  PROVE  Multiples(d) \in SUBSET Opens(sch) /\ Recurs(Multiples(d)) /\ Multiples(d) \subseteq Int
  <1>1. Multiples(d) \subseteq Int
    BY DEF Multiples
  <1>2. \A k \in Int : 0 + k * d = k * d
    OBVIOUS
  <1>3. Multiples(d) \in SUBSET Opens(sch)
    BY <1>2, MultiplesAre DEF Opens, FixedOpens, Fixed
  <1>4. ASSUME NEW c \in Int PROVE (\E o \in Multiples(d) : o <= c) /\ (\E o \in Multiples(d) : c <= o)
    <2>1. PICK q \in Int : q = c \div d /\ q * d <= c /\ c < q * d + d
      BY Quotient
    <2>2. q * d \in Multiples(d)
      BY MultiplesAre
    <2>3. (q + 1) * d \in Multiples(d) /\ (q + 1) * d = q * d + d
      <3>1. q + 1 \in Int /\ (q + 1) * d = q * d + d
        OBVIOUS
      <3>2. QED
        BY <3>1, MultiplesAre
    <2>4. c <= (q + 1) * d
      BY <2>1, <2>3
    <2>5. QED
      BY <2>1, <2>2, <2>3, <2>4
  <1>5. QED
    BY <1>1, <1>3, <1>4 DEF Recurs

LEMMA ParseInput ==
  ASSUME InputInit, OfKind("parse")
  PROVE  RawOK(input.raw)
  <1>1. InitParse
    BY InputKinds
  <1>2. PICK raw \in RawRequests : input.raw = raw
    BY <1>1 DEF InitParse
  <1>3. RawTimes \subseteq Int /\ RawNumbers \subseteq Int
    BY DEF RawTimes, RawNumbers, Absent, Malformed
  <1>4. QED
    BY <1>2, <1>3 DEF RawRequests, RawOK

(* What is given of a request with a limit or a count.                     *)
Fits(raw, req, opens) ==
  /\ (Given(raw.limit) \/ Given(raw.count)) => ~(Given(raw.from) /\ Given(raw.to))
  /\ Len(opens) <= MaxCandles
  /\ req.mode # "range" => Len(opens) = req.n
  /\ \A o \in ToSet(opens) : IF req.direction = "backward" THEN o < req.end ELSE o >= req.start

LEMMA AcceptedFitsOf ==
  ASSUME NEW sch, Schedule(sch), NEW El \in SUBSET Opens(sch), Recurs(El), NEW now \in Int, NEW raw, RawOK(raw),
         NEW req, Accepted(raw, sch, now, req), NEW opens, opens = Window(req, sch, El).opens
  PROVE  Fits(raw, req, opens)
  <1>1. MaxCandles \in Nat
    BY InputsAssumption
  <1>2. El \subseteq Int
    BY OpensAreInt
  <1>3. /\ OneMode(raw, req) /\ req.start \in Int /\ req.end \in Int
        /\ \/ /\ req.mode # "range" /\ req.n \in 1 .. MaxCandles /\ req.direction \in {"forward", "backward"}
              /\ ~(Given(raw.from) /\ Given(raw.to))
           \/ /\ req.mode = "range" /\ req.direction = "range"
              /\ req.start < req.end /\ ~TooLong(sch, req.start, req.end)
    BY AcceptedIs
  <1>4. /\ Len(opens) <= MaxCandles
        /\ req.mode # "range" => Len(opens) = req.n
    BY <1>1, AcceptedRequestsFit
  <1>5. /\ req.mode = "range" => Lists(opens, OpensIn(El, req.start, req.end))
        /\ req.mode # "range" /\ req.direction = "forward" => \E b \in Int : Lists(opens, OpensIn(El, req.start, b))
        /\ req.mode # "range" /\ req.direction # "forward" => \E b \in Int : Lists(opens, OpensIn(El, b, req.end))
    BY <1>1, AcceptedRequestsFit
  <1>6. (Given(raw.limit) \/ Given(raw.count)) => ~(Given(raw.from) /\ Given(raw.to))
    BY <1>3 DEF OneMode
  <1>7. ASSUME NEW o \in ToSet(opens) PROVE IF req.direction = "backward" THEN o < req.end ELSE o >= req.start
    <2>1. CASE req.direction = "backward"
      <3>1. PICK b \in Int : Lists(opens, OpensIn(El, b, req.end))
        BY <1>3, <1>5, <2>1
      <3>2. o \in OpensIn(El, b, req.end)
        BY <3>1 DEF Lists
      <3>3. QED
        BY <2>1, <3>2 DEF OpensIn
    <2>2. CASE req.direction # "backward"
      <3>1. PICK b : Lists(opens, OpensIn(El, req.start, b))
        BY <1>3, <1>5, <2>2
      <3>2. o \in OpensIn(El, req.start, b)
        BY <3>1 DEF Lists
      <3>3. o \in Int /\ req.start <= o
        BY <1>2, <3>2 DEF OpensIn
      <3>4. QED
        BY <1>3, <2>2, <3>3
    <2>3. QED
      BY <2>1, <2>2
  <1>8. QED
    BY <1>4, <1>6, <1>7 DEF Fits

LEMMA AcceptedFitsNow == InputInit => AcceptedFits
  <1> SUFFICES ASSUME InputInit, OfKind("parse") PROVE AcceptedFits
    BY DEF AcceptedFits
  <1>1. PICK raw, req, opens :
          raw = input.raw /\ req = ParseRequest(raw, Hours, 17) /\ opens = Window(req, Hours, Multiples(Hour)).opens
    OBVIOUS
  <1>2. RawOK(raw)
    BY <1>1, ParseInput
  <1>3. Schedule(Hours) /\ Multiples(Hour) \in SUBSET Opens(Hours) /\ Recurs(Multiples(Hour))
    <2>1. Hour \in Nat \ {0} /\ Fixed(Hours) /\ Schedule(Hours) /\ Hours.duration = Hour /\ Hours.offset = 0
      BY HoursAndMonths DEF Schedule
    <2>2. QED
      BY <2>1, MultiplesAreOpens
  <1>4. ASSUME req.error = "" PROVE Fits(raw, req, opens)
    <2>1. Accepted(raw, Hours, 17, req) /\ 17 \in Int
      <3>1. Accepted(raw, Hours, 17, req)
        BY <1>1, <1>4, Zenon DEF Accepted
      <3>2. QED
        BY <3>1
    <2>2. QED
      BY <1>1, <1>2, <1>3, <2>1, AcceptedFitsOf
  <1>5. QED
    BY <1>1, <1>4, Zenon DEF AcceptedFits, Fits

(* A request that parse_candle_request accepts is in one mode, and has no  *)
(* more opens than a request may have, each on its side of the time the    *)
(* request gives (candles.py:36, :164, :282).                              *)
THEOREM AcceptedCorrect == InputSpec => []AcceptedFits
  BY InputStays, AcceptedFitsNow, PTL

-----------------------------------------------------------------------------
(* The candles of at back that had closed, those of the last two slots.    *)
ClosedIn(H, d, at) == {o \in H : o + d - 1 <= at /\ o + 2 * d >= at}

LEMMA MultiplesFollow ==
  ASSUME NEW d \in Nat \ {0}, NEW sch, Fixed(sch), sch.duration = d, sch.offset = 0
  PROVE  /\ \A o \in Multiples(d) : o + d \in Multiples(d)
         /\ \A o, u \in Multiples(d) : o < u => o + d <= u
  <1>1. Multiples(d) \in SUBSET Opens(sch) /\ Multiples(d) \subseteq Int
    BY MultiplesAreOpens
  <1>2. ASSUME NEW o \in Multiples(d) PROVE o + d \in Multiples(d)
    <2>1. PICK k \in Int : o = k * d
      BY MultiplesAre
    <2>2. k + 1 \in Int /\ (k + 1) * d = k * d + d
      OBVIOUS
    <2>3. (k + 1) * d \in Multiples(d)
      BY <2>2, MultiplesAre
    <2>4. QED
      BY <2>1, <2>2, <2>3
  <1>3. ASSUME NEW o \in Multiples(d), NEW u \in Multiples(d), o < u PROVE o + d <= u
    <2>1. o \in Opens(sch) /\ u \in Opens(sch) /\ o \in Int
      BY <1>1
    <2>2. EndAfter(sch, o) <= u
      BY <2>1, <1>3, OpensFollow DEF Schedule
    <2>3. EndAfter(sch, o) = o + d
      BY <2>1, FixedStep
    <2>4. QED
      BY <2>2, <2>3
  <1>4. QED
    BY <1>2, <1>3

(* The two slots of at are those of the candles that may price it.         *)
LEMMA TwoSlots ==
  ASSUME NEW d \in Nat \ {0}, d > 1, NEW sch, Fixed(sch), sch.duration = d, sch.offset = 0,
         NEW at \in Int, NEW H \in SUBSET Multiples(d)
  PROVE  /\ PricedBy(sch, at, LatestTwo(sch, at, H, Multiples(d))) = ClosedIn(H, d, at)
         /\ ClosedIn(H, d, at) # {} =>
              /\ Max(ClosedIn(H, d, at)) \in ClosedIn(H, d, at)
              /\ \A o \in ClosedIn(H, d, at) : o <= Max(ClosedIn(H, d, at))
  <1>1. PICK M : M = Multiples(d)
    OBVIOUS
  <1>2. M \in SUBSET Opens(sch) /\ Recurs(M) /\ M \subseteq Int
    BY <1>1, MultiplesAreOpens
  <1>3. /\ \A o \in M : o + d \in M
        /\ \A o, u \in M : o < u => o + d <= u
    BY <1>1, MultiplesFollow
  <1>4. PICK list : list = LatestOpens(sch, at, 2, M)
    OBVIOUS
  <1>5. Len(list) = 2 /\ \E b \in Int : Lists(list, OpensIn(M, b, at))
    <2>1. PICK two \in Nat : two = 2
      OBVIOUS
    <2>2. Schedule(sch)
      BY DEF Schedule
    <2>3. /\ Len(LatestOpens(sch, at, two, M)) = two
          /\ \E b \in Int : Lists(LatestOpens(sch, at, two, M), OpensIn(M, b, at))
      BY <1>2, <2>2, LatestOpensExact
    <2>4. QED
      BY <1>4, <2>1, <2>3
  <1>6. PICK b \in Int : Lists(list, OpensIn(M, b, at))
    BY <1>5
  <1>7. list \in Seq(Int) /\ ToSet(list) = OpensIn(M, b, at)
    BY <1>6 DEF Lists
  <1>8. PICK x \in Int, y \in Int : list[1] = x /\ list[2] = y /\ x \in M /\ y \in M /\ b <= x /\ x < y /\ y < at
    BY <1>2, <1>5, <1>6, TwoBetween
  <1>9. \A o \in OpensIn(M, b, at) : o = x \/ o = y
    <2>1. DOMAIN list = 1 .. 2
      BY <1>5, <1>6, ListParts
    <2>2. \A o \in ToSet(list) : \E i \in 1 .. 2 : o = list[i]
      BY <2>1 DEF ToSet
    <2>3. \A i \in 1 .. 2 : i = 1 \/ i = 2
      OBVIOUS
    <2>4. QED
      BY <1>7, <1>8, <2>2, <2>3
  <1>10. ASSUME NEW o \in M, o + d - 1 <= at PROVE o \in OpensIn(M, b, at) <=> o + 2 * d >= at
    <2>1. o \in Int /\ o < at
      BY <1>2, <1>10
    <2>2. ASSUME o + 2 * d >= at, o < b PROVE FALSE
      <3>1. o < x
        BY <2>1, <2>2, <1>8
      <3>2. o + d <= x /\ x + d <= y
        BY <3>1, <1>3, <1>8
      <3>3. QED
        BY <2>1, <2>2, <3>2, <1>8
    <2>3. ASSUME b <= o, ~(o + 2 * d >= at) PROVE FALSE
      <3>1. o + d \in M /\ (o + d) + d \in M
        BY <1>3
      <3>2. (o + d) + d < at
        BY <2>1, <2>3
      <3>3. o + d < at /\ b <= o + d /\ b <= (o + d) + d
        BY <2>1, <2>3, <3>2
      <3>4. o \in OpensIn(M, b, at) /\ o + d \in OpensIn(M, b, at) /\ (o + d) + d \in OpensIn(M, b, at)
        BY <2>1, <2>3, <3>1, <3>2, <3>3 DEF OpensIn
      <3>5. (o = x \/ o = y) /\ (o + d = x \/ o + d = y) /\ ((o + d) + d = x \/ (o + d) + d = y)
        BY <3>4, <1>9
      <3>6. QED
        BY <3>5, <2>1
    <2>4. QED
      BY <2>1, <2>2, <2>3 DEF OpensIn
  <1>11. PICK T : T = PricedBy(sch, at, LatestTwo(sch, at, H, M))
    OBVIOUS
  <1>12. \A o \in M : CloseTime(sch, o) = o + d - 1
    BY <1>2, FixedStep DEF CloseTime
  <1>13. T = {o \in OpensIn(M, b, at) \cap H : CloseTime(sch, o) <= at}
    BY <1>4, <1>7, <1>11 DEF PricedBy, LatestTwo
  <1>14. T = {o \in H : o + d - 1 <= at /\ o + 2 * d >= at}
    <2>1. \A o \in H : o \in M
      BY <1>1
    <2>2. \A o \in H : o \in OpensIn(M, b, at) /\ CloseTime(sch, o) <= at <=> o + d - 1 <= at /\ o + 2 * d >= at
      BY <2>1, <1>10, <1>12
    <2>3. QED
      BY <1>13, <2>2
  <1>15. T # {} => Max(T) \in T /\ \A o \in T : o <= Max(T)
    <2>1. T \subseteq ToSet(list)
      BY <1>7, <1>13
    <2>2. QED
      BY <1>5, <1>7, <2>1, LargestOfTwo
  <1>16. QED
    BY <1>1, <1>11, <1>14, <1>15 DEF ClosedIn

LEMMA ResolutionsAre ==
  /\ Len(Resolutions) \in Nat /\ DOMAIN Resolutions = 1 .. Len(Resolutions)
  /\ \A i \in DOMAIN Resolutions : Resolutions[i] \in ToSet(Resolutions)
  /\ \A tf \in ToSet(Resolutions) : Duration(tf) \in Nat \ {0} /\ Duration(tf) > 1
  <1>1. Resolutions \in Seq(Timeframes \ {"1mo"}) /\ \A i \in DOMAIN Resolutions : Duration(Resolutions[i]) > 1
    BY InputsAssumption
  <1>2. Len(Resolutions) \in Nat /\ DOMAIN Resolutions = 1 .. Len(Resolutions)
    BY <1>1
  <1>3. \A i \in DOMAIN Resolutions : Resolutions[i] \in Timeframes
    BY <1>1, <1>2
  <1>4. \A tf \in ToSet(Resolutions) : tf \in Timeframes /\ Duration(tf) > 1
    BY <1>1, <1>3 DEF ToSet
  <1>5. \A i \in DOMAIN Resolutions : Resolutions[i] \in ToSet(Resolutions)
    BY DEF ToSet
  <1>6. QED
    BY <1>2, <1>4, <1>5, DurationIs

LEMMA PastInput ==
  ASSUME InputInit, OfKind("past")
  PROVE  /\ input.at \in Int /\ input.now \in Int
         /\ \A tf \in ToSet(Resolutions) : input.has[tf] \in SUBSET Multiples(Duration(tf))
  <1>1. input \in PastInputs
    BY InputKinds DEF InitPast
  <1>2. PICK at \in {95, 96, 97, 103, 104}, early \in {0, 1}, failing \in SUBSET ToSet(Resolutions), slots \in Slots :
          input = [kind |-> "past", at |-> at, now |-> at - early, failing |-> failing, has |-> CandlesIn(slots, at)]
    BY <1>1 DEF PastInputs
  <1>3. input.at = at /\ input.now = at - early /\ input.has = CandlesIn(slots, at)
    BY <1>2
  <1>4. ASSUME NEW tf \in ToSet(Resolutions) PROVE input.has[tf] \in SUBSET Multiples(Duration(tf))
    <2>1. PICK d : d = Duration(tf)
      OBVIOUS
    <2>2. d \in Nat \ {0}
      BY <2>1, ResolutionsAre
    <2>3. input.has[tf] = {at - (at % d) - i * d : i \in slots[tf]}
      BY <1>3, <2>1 DEF CandlesIn
    <2>4. slots[tf] \subseteq 0 .. 2
      BY DEF Slots
    <2>5. ASSUME NEW i \in 0 .. 2 PROVE at - (at % d) - i * d \in Multiples(d)
      <3>1. PICK q \in Int : at = q * d + (at % d) /\ at % d \in Int
        <4>1. at \in Int
          OBVIOUS
        <4>2. at \div d \in Int /\ at = (at \div d) * d + (at % d) /\ at % d \in Int
          BY <2>2, <4>1, Remainder
        <4>3. QED
          BY <4>2
      <3>2. at - (at % d) - i * d = q * d - i * d
        BY <2>2, <3>1
      <3>3. q - i \in Int /\ (q - i) * d = q * d - i * d
        BY <2>2
      <3>4. (q - i) * d \in Multiples(d)
        BY <2>2, <3>3, MultiplesAre
      <3>5. QED
        BY <3>2, <3>3, <3>4
    <2>6. QED
      BY <2>1, <2>3, <2>4, <2>5
  <1>5. QED
    BY <1>2, <1>3, <1>4

LEMMA NeverLooksAheadNow == InputInit => NeverLooksAhead
  <1> SUFFICES ASSUME InputInit, OfKind("past") PROVE NeverLooksAhead
    BY DEF NeverLooksAhead
  <1>1. PICK sch, all, price, at, has, failing :
          /\ sch = [tf \in ToSet(Resolutions) |-> FixedSchedule(Duration(tf), 0)]
          /\ all = [tf \in ToSet(Resolutions) |-> Multiples(Duration(tf))]
          /\ price = HistoricalPrice(sch, input.at, input.now, input.has, input.failing, all)
          /\ at = input.at /\ has = input.has /\ failing = input.failing
    OBVIOUS
  <1> DEFINE closed(tf) == {o \in input.has[tf] : o + Duration(tf) - 1 <= input.at /\ o + 2 * Duration(tf) >= input.at}
  <1>2. ASSUME NEW i \in DOMAIN Resolutions, NEW tf, tf = Resolutions[i]
        PROVE  /\ Eligible(sch, at, has, all, i) = closed(tf)
               /\ closed(tf) # {} => Max(closed(tf)) \in closed(tf) /\ \A o \in closed(tf) : o <= Max(closed(tf))
    <2>1. tf \in ToSet(Resolutions)
      BY <1>2, ResolutionsAre
    <2>2. PICK d, s : d = Duration(tf) /\ s = sch[tf]
      OBVIOUS
    <2>3. d \in Nat \ {0} /\ d > 1
      BY <2>1, <2>2, ResolutionsAre
    <2>4. s = FixedSchedule(d, 0) /\ all[tf] = Multiples(d)
      BY <1>1, <2>1, <2>2
    <2>5. Fixed(s) /\ s.duration = d /\ s.offset = 0
      BY <2>3, <2>4 DEF Fixed, FixedSchedule
    <2>6. at \in Int /\ has[tf] \in SUBSET Multiples(d)
      BY <1>1, <2>1, <2>2, PastInput
    <2>7. closed(tf) = ClosedIn(has[tf], d, at)
      BY <1>1, <2>2 DEF ClosedIn
    <2>8. Eligible(sch, at, has, all, i) = PricedBy(s, at, LatestTwo(s, at, has[tf], Multiples(d)))
      BY <1>2, <2>2, <2>4 DEF Eligible
    <2>9. PICK C : C = ClosedIn(has[tf], d, at)
      OBVIOUS
    <2>10. /\ PricedBy(s, at, LatestTwo(s, at, has[tf], Multiples(d))) = C
           /\ C # {} => Max(C) \in C /\ \A o \in C : o <= Max(C)
      BY <2>3, <2>5, <2>6, <2>9, TwoSlots
    <2> HIDE DEF closed
    <2>11. QED
      BY <2>7, <2>8, <2>9, <2>10
  <1>3. ASSUME price.error = ""
        PROVE  \E used \in DOMAIN Resolutions :
                 /\ price.resolution = Resolutions[used]
                 /\ price.pricedAt \in closed(price.resolution)
                 /\ \A o \in closed(price.resolution) : o <= price.pricedAt
                 /\ \A i \in 1 .. used - 1 : closed(Resolutions[i]) = {}
                 /\ \A i \in 1 .. used : Resolutions[i] \notin input.failing
    <2>1. Len(Resolutions) \in Nat /\ at \in Int /\ input.now \in Int
      BY <1>1, PastInput, ResolutionsAre
    <2>2. Priced(price, sch, at, input.now, has, failing, all)
      BY <1>1, <1>3, Zenon DEF Priced
    <2>3. PICK j \in 1 .. Len(Resolutions) : PriceOf(price, sch, at, has, failing, all, j)
      BY <2>1, <2>2, PriceIsOf
    <2>4. j \in DOMAIN Resolutions /\ \A i \in 1 .. j - 1 : i \in DOMAIN Resolutions
      BY <2>1, ResolutionsAre
    <2>5. PICK tf : tf = Resolutions[j]
      OBVIOUS
    <2>6. /\ price.resolution = tf /\ price.pricedAt = Max(Eligible(sch, at, has, all, j))
          /\ Eligible(sch, at, has, all, j) # {}
          /\ \A k \in 1 .. j - 1 : Eligible(sch, at, has, all, k) = {}
          /\ \A k \in 1 .. j : Resolutions[k] \notin failing
      BY <2>3, <2>5 DEF PriceOf
    <2> HIDE DEF closed
    <2>7. Eligible(sch, at, has, all, j) = closed(tf) /\ Max(closed(tf)) \in closed(tf) /\ \A o \in closed(tf) : o <= Max(closed(tf))
      BY <1>2, <2>4, <2>5, <2>6
    <2>8. \A k \in 1 .. j - 1 : closed(Resolutions[k]) = {}
      BY <1>2, <2>4, <2>6
    <2>9. price.pricedAt \in closed(price.resolution) /\ \A o \in closed(price.resolution) : o <= price.pricedAt
      BY <2>6, <2>7
    <2>10. QED
      BY <1>1, <2>4, <2>5, <2>6, <2>8, <2>9
  <1>4. QED
    BY <1>1, <1>3, Zenon DEF NeverLooksAhead

(* A historical price is that of a candle which had closed at the instant  *)
(* asked for, the last such one in the two slots of its resolution, when   *)
(* no finer resolution had one or failed (historical_prices.py:77-107).    *)
THEOREM PricesLookBack == InputSpec => []NeverLooksAhead
  BY InputStays, NeverLooksAheadNow, PTL

-----------------------------------------------------------------------------
(* Sequences of one and of two.                                           *)
LEMMA AppendOne == ASSUME NEW X, NEW a \in X, NEW b \in X PROVE Append(<<a>>, b) = <<a, b>>
  <1> DEFINE p == Append(<<a>>, b)
             q == <<a, b>>
  <1>1. q \in Seq(X) /\ Len(q) = 2 /\ q[1] = a /\ q[2] = b
    OBVIOUS
  <1>2. <<a>> \in Seq(X) /\ Len(<<a>>) = 1 /\ <<a>>[1] = a
    OBVIOUS
  <1>3. p \in Seq(X) /\ Len(p) = 2 /\ p[1] = a /\ p[2] = b
    BY <1>2, AppendProperties
  <1> HIDE DEF p, q
  <1>4. \A i \in 1 .. Len(p) : p[i] = q[i]
    <2>1. \A i \in 1 .. 2 : i = 1 \/ i = 2
      OBVIOUS
    <2>2. QED
      BY <1>1, <1>3, <2>1
  <1>5. p = q
    BY <1>1, <1>3, <1>4, SeqEqual
  <1>6. QED
    BY <1>5 DEF p, q

(* The two ranges of a Yahoo request of three, two at a time.              *)
LEMMA TwoRanges ==
  \E one, two : /\ HistoryRanges(2, 5, 2) = <<one, two>>
                /\ one.start = 2 /\ one.end = 4 /\ two.start = 4 /\ two.end = 5
  <1>1. PICK s \in Int, e \in Int, m \in Nat \ {0} : s = 2 /\ e = 5 /\ m = 2
    OBVIOUS
  <1>2. PICK S : S = [c \in Int |-> c + m]
    OBVIOUS
  <1>3. \E w : CutWalk(S, e, w) /\ HistoryRanges(s, e, m) = IF e <= s THEN <<>> ELSE w[s]
    BY <1>2, HistoryRangesAre
  <1>4. PICK w : CutWalk(S, e, w) /\ HistoryRanges(s, e, m) = IF e <= s THEN <<>> ELSE w[s]
    BY <1>3
  <1>5. HistoryRanges(2, 5, 2) = w[2]
    BY <1>1, <1>4
  <1>6. \A c \in Int : w[c] = IF c >= 5 THEN <<>> ELSE <<Section(c, CutAt(c, S, 5), 0)>> \o w[CutAt(c, S, 5)]
    BY <1>1, <1>4 DEF CutWalk
  <1>7. CutAt(2, S, 5) = 4 /\ CutAt(4, S, 5) = 5
    BY <1>1, <1>2 DEF CutAt
  <1>8. w[5] = <<>>
    <2>1. 5 \in Int /\ 5 >= 5
      OBVIOUS
    <2>2. QED
      BY <1>6, <2>1, Zenon
  <1>9. PICK one, two : one = Section(2, 4, 0) /\ two = Section(4, 5, 0)
    OBVIOUS
  <1>10. 4 \in Int /\ ~(4 >= 5) /\ 2 \in Int /\ ~(2 >= 5)
    OBVIOUS
  <1>11. w[4] = <<two>> \o w[5] /\ w[2] = <<one>> \o w[4]
    BY <1>6, <1>7, <1>9, <1>10, Zenon
  <1>12. <<two>> \o <<>> = <<two>> /\ <<one>> \o <<two>> = <<one, two>>
    <2>1. one \in Part /\ two \in Part
      BY <1>9 DEF Section, Part
    <2>2. <<one>> \in Seq(Part) /\ <<two>> \in Seq(Part)
      BY <2>1
    <2>3. <<two>> \o <<>> = <<two>> /\ <<one>> \o <<two>> = Append(<<one>>, two)
      BY <2>1, <2>2, ConcatEmptySeq, AppendIsConcat
    <2>4. Append(<<one>>, two) = <<one, two>>
      BY <2>1, AppendOne
    <2>5. QED
      BY <2>3, <2>4
  <1>13. w[2] = <<one, two>>
    BY <1>8, <1>11, <1>12
  <1>14. one.start = 2 /\ one.end = 4 /\ two.start = 4 /\ two.end = 5
    BY <1>9 DEF Section
  <1>15. QED
    BY <1>5, <1>13, <1>14

(* As many opens as rows that have them, if no two are the same.           *)
LEMMA DistinctCount ==
  ASSUME NEW rows, NEW J, IsFiniteSet(J), Distinct(rows, J)
  PROVE  Cardinality(OpensOf(rows, J)) = Cardinality(J)
  <1>1. PICK f : f = [j \in J |-> rows[j].open]
    OBVIOUS
  <1>2. PICK T : T = OpensOf(rows, J)
    OBVIOUS
  <1>3. f \in Surjection(J, T)
    BY <1>1, <1>2 DEF Surjection, OpensOf
  <1>4. f \in Injection(J, T)
    <2>1. f \in [J -> T]
      BY <1>3 DEF Surjection
    <2>2. \A j, k \in J : f[j] = f[k] => j = k
      BY <1>1 DEF Distinct
    <2>3. QED
      BY <1>1, <2>1, <2>2 DEF Injection, IsInjective
  <1>5. Cardinality(T) = Cardinality(J)
    BY <1>3, <1>4, FS_Surjection
  <1>6. QED
    BY <1>2, <1>5

(* An answer that is sound, of the rows of the window inside.              *)
SoundAnswer(answer, rows, inside) ==
  answer.ok => /\ answer.opens = {rows[i].open : i \in {j \in inside : rows[j].value = "good"}}
               /\ Cardinality({rows[i].open : i \in inside}) = Cardinality(inside)

LEMMA SoundByParts ==
  ASSUME NEW answer, NEW rows, NEW inside, IsFiniteSet(inside),
         answer.ok => answer.opens = OpensOf(rows, Goods(rows, inside)) /\ Distinct(rows, inside)
  PROVE  SoundAnswer(answer, rows, inside)
  <1>1. SUFFICES ASSUME answer.ok PROVE SoundAnswer(answer, rows, inside)
    BY DEF SoundAnswer
  <1>2. answer.opens = OpensOf(rows, Goods(rows, inside)) /\ Distinct(rows, inside)
    BY <1>1
  <1>3. Cardinality(OpensOf(rows, inside)) = Cardinality(inside)
    BY <1>2, DistinctCount
  <1>4. QED
    BY <1>2, <1>3 DEF SoundAnswer, OpensOf, Goods

LEMMA AnswerKinds ==
  /\ ~Unavailable.ok /\ \A opens : Candles(opens).ok /\ Candles(opens).opens = opens
  BY DEF Unavailable, Candles

(* The rows of the window.                                                 *)
LEMMA RowsInput ==
  ASSUME InputInit, OfKind("rows"), NEW inside, inside = {i \in DOMAIN input.rows : input.rows[i].open \in 2 .. 4}
  PROVE  /\ Len(input.rows) \in Nat /\ DOMAIN input.rows = 1 .. Len(input.rows)
         /\ \A i \in DOMAIN input.rows : input.rows[i].open \in Int
         /\ input.outcome = "rows" \/ DOMAIN input.rows = {}
         /\ IsFiniteSet(inside) /\ inside \subseteq DOMAIN input.rows
  <1>1. InitRows
    BY InputKinds
  <1>2. \E rows \in BoundedSeq(Rows, MaxRows) : \E outcome, supported :
          /\ outcome = "rows" \/ rows = <<>>
          /\ input = [kind |-> "rows", rows |-> rows, outcome |-> outcome, supported |-> supported]
    BY <1>1, Zenon DEF InitRows
  <1>3. PICK rows \in BoundedSeq(Rows, MaxRows) : \E outcome, supported :
          /\ outcome = "rows" \/ rows = <<>>
          /\ input = [kind |-> "rows", rows |-> rows, outcome |-> outcome, supported |-> supported]
    BY <1>2
  <1>4. input.rows = rows /\ (input.outcome = "rows" \/ rows = <<>>)
    BY <1>3
  <1>5. PICK m \in Nat : rows \in [1 .. m -> Rows]
    BY InputsAssumption DEF BoundedSeq, SeqOf
  <1>6. DOMAIN rows = 1 .. m /\ \A i \in 1 .. m : rows[i] \in Rows
    BY <1>5
  <1>7. Len(rows) = m
    BY <1>5
  <1>8. \A row \in Rows : row.open \in Int
    BY DEF Rows, Unparsable
  <1>9. IsFiniteSet(1 .. m)
    BY FS_Interval
  <1>10. inside \subseteq 1 .. m
    BY <1>4, <1>6
  <1>11. rows = <<>> => DOMAIN rows = {}
    OBVIOUS
  <1>12. IsFiniteSet(inside)
    BY <1>9, <1>10, FS_Subset
  <1>13. QED
    BY <1>4, <1>6, <1>7, <1>8, <1>10, <1>11, <1>12

LEMMA TwelveDataSound ==
  ASSUME NEW rows, NEW n \in Nat, Len(rows) = n, DOMAIN rows = 1 .. n, \A i \in 1 .. n : rows[i].open \in Int,
         NEW inside, inside = {i \in DOMAIN rows : rows[i].open \in 2 .. 4}, IsFiniteSet(inside),
         NEW supported, NEW outcome, outcome = "rows" \/ DOMAIN rows = {}
  PROVE  SoundAnswer(TwelveDataCandles(supported, outcome, rows, 2, 5, 0 .. 9), rows, inside)
  <1>1. PICK answer : answer = TwelveDataCandles(supported, outcome, rows, 2, 5, 0 .. 9)
    OBVIOUS
  <1>2. Kept(rows, 2, 5, 0 .. 9, n) = inside
    <2>1. \A i \in 1 .. n : InWindow(rows[i], 2, 5) /\ rows[i].open \in 0 .. 9 <=> rows[i].open \in 2 .. 4
      BY DEF InWindow
    <2>2. QED
      BY <2>1 DEF Kept
  <1>3. answer.ok => answer.opens = OpensOf(rows, Goods(rows, inside)) /\ Distinct(rows, inside)
    <2>1. CASE ~supported \/ outcome \notin {"no data", "rows"}
      BY <1>1, <2>1, AnswerKinds DEF TwelveDataCandles
    <2>2. CASE supported /\ outcome = "no data"
      <3>1. answer = Candles({})
        BY <1>1, <2>2 DEF TwelveDataCandles
      <3>2. answer.opens = {}
        BY <3>1, AnswerKinds
      <3>3. inside = {}
        BY <2>2
      <3>4. OpensOf(rows, Goods(rows, inside)) = {} /\ Distinct(rows, inside)
        BY <3>3 DEF OpensOf, Goods, Distinct
      <3>5. QED
        BY <3>2, <3>4
    <2>3. CASE supported /\ outcome = "rows"
      <3>1. answer = NormalizeTimeSeries(rows, 2, 5, 0 .. 9)
        BY <1>1, <2>3 DEF TwelveDataCandles
      <3>2. answer = TimeSeries(rows, 2, 5, 0 .. 9, n)
        BY <3>1, NormalizeTimeSeriesExact
      <3>3. answer = IF Parsed(rows, n) /\ AllGood(rows, inside) /\ Distinct(rows, inside)
                     THEN Candles(OpensOf(rows, inside)) ELSE Unavailable
        BY <1>2, <3>2 DEF TimeSeries
      <3>4. answer.ok => AllGood(rows, inside) /\ Distinct(rows, inside) /\ answer.opens = OpensOf(rows, inside)
        BY <3>3, AnswerKinds
      <3>5. AllGood(rows, inside) => Goods(rows, inside) = inside
        BY DEF AllGood, Goods
      <3>6. QED
        BY <3>4, <3>5
    <2>4. QED
      BY <2>1, <2>2, <2>3
  <1>4. QED
    BY <1>1, <1>3, SoundByParts

LEMMA BinanceSound ==
  ASSUME NEW rows, NEW n \in Nat, Len(rows) = n, DOMAIN rows = 1 .. n, \A i \in 1 .. n : rows[i].open \in Int,
         NEW inside, inside = {i \in DOMAIN rows : rows[i].open \in 2 .. 4}, IsFiniteSet(inside), NEW outcome
  PROVE  SoundAnswer(BinanceCandles(outcome, rows, 2, 5), rows, inside)
  <1>1. PICK answer : answer = BinanceCandles(outcome, rows, 2, 5)
    OBVIOUS
  <1>2. SUFFICES ASSUME answer.ok PROVE SoundAnswer(answer, rows, inside)
    BY <1>1 DEF SoundAnswer
  <1>3. outcome = "rows"
    BY <1>1, <1>2, AnswerKinds DEF BinanceCandles
  <1>4. PICK T : T = {row.open : row \in ToSet(rows)}
    OBVIOUS
  <1>5. /\ \A i \in DOMAIN rows : InWindow(rows[i], 2, 5) /\ rows[i].value = "good"
        /\ Cardinality(T) = n /\ answer.opens = T
    BY <1>1, <1>2, <1>3, <1>4, AnswerKinds DEF BinanceCandles, NormalizeKlines
  <1>6. \A i \in 1 .. n : rows[i].open \in 2 .. 4 /\ rows[i].value = "good"
    BY <1>5 DEF InWindow
  <1>7. inside = 1 .. n /\ {j \in inside : rows[j].value = "good"} = 1 .. n
    BY <1>6
  <1>8. T = {rows[i].open : i \in 1 .. n}
    BY <1>4 DEF ToSet
  <1>9. Cardinality(1 .. n) = n
    BY FS_Interval
  <1>10. QED
    BY <1>5, <1>7, <1>8, <1>9 DEF SoundAnswer

LEMMA YFinanceSound ==
  ASSUME NEW rows, NEW n \in Nat, Len(rows) = n, DOMAIN rows = 1 .. n, \A i \in 1 .. n : rows[i].open \in Int,
         NEW inside, inside = {i \in DOMAIN rows : rows[i].open \in 2 .. 4}, IsFiniteSet(inside),
         NEW supported, NEW outcome
  PROVE  SoundAnswer(YFinanceCandles(supported, HistoryRanges(2, 5, 2), outcome, [i \in 1 .. 2 |-> rows]), rows, inside)
  <1>1. PICK answer, ranges, payloads :
          /\ ranges = HistoryRanges(2, 5, 2) /\ payloads = [i \in 1 .. 2 |-> rows]
          /\ answer = YFinanceCandles(supported, ranges, outcome, payloads)
    OBVIOUS
  <1>2. PICK one, two : /\ ranges = <<one, two>>
                        /\ one.start = 2 /\ one.end = 4 /\ two.start = 4 /\ two.end = 5
    BY <1>1, TwoRanges
  <1>3. PICK first, second : first = NormalizeHistory(rows, 2, 4) /\ second = NormalizeHistory(rows, 4, 5)
    OBVIOUS
  <1>4. PICK parts : parts = {NormalizeHistory(payloads[i], ranges[i].start, ranges[i].end) : i \in DOMAIN ranges}
    OBVIOUS
  <1>5. parts = {first, second}
    <2>1. DOMAIN ranges = {1, 2} /\ ranges[1] = one /\ ranges[2] = two /\ payloads[1] = rows /\ payloads[2] = rows
      BY <1>1, <1>2
    <2>2. parts = {NormalizeHistory(payloads[1], ranges[1].start, ranges[1].end),
                   NormalizeHistory(payloads[2], ranges[2].start, ranges[2].end)}
      BY <1>4, <2>1
    <2>3. QED
      BY <1>2, <1>3, <2>1, <2>2
  <1>6. answer = IF ~supported \/ outcome # "rows" \/ (\E p \in parts : ~p.ok) THEN Unavailable
                 ELSE Candles(UNION {p.opens : p \in parts})
    BY <1>1, <1>4 DEF YFinanceCandles
  <1>7. SUFFICES ASSUME answer.ok PROVE SoundAnswer(answer, rows, inside)
    BY <1>1 DEF SoundAnswer
  <1>8. (\A p \in parts : p.ok) /\ answer.opens = UNION {p.opens : p \in parts}
    BY <1>6, <1>7, AnswerKinds
  <1>9. first.ok /\ second.ok /\ answer.opens = first.opens \cup second.opens
    BY <1>5, <1>8
  <1>10. PICK I, J : I = Inside(rows, 2, 4, n) /\ J = Inside(rows, 4, 5, n)
    OBVIOUS
  <1>11. Distinct(rows, I) /\ first.opens = OpensOf(rows, Goods(rows, I))
    <2>1. NormalizeHistory(rows, 2, 4) =
            IF /\ Parsed(rows, n) /\ NoneInvalid(rows, I) /\ Distinct(rows, I) /\ (I = {} \/ Goods(rows, I) # {})
            THEN Candles(OpensOf(rows, Goods(rows, I))) ELSE Unavailable
      BY <1>10, NormalizeHistoryExact
    <2>2. QED
      BY <1>3, <1>9, <2>1, AnswerKinds
  <1>12. Distinct(rows, J) /\ second.opens = OpensOf(rows, Goods(rows, J))
    <2>1. NormalizeHistory(rows, 4, 5) =
            IF /\ Parsed(rows, n) /\ NoneInvalid(rows, J) /\ Distinct(rows, J) /\ (J = {} \/ Goods(rows, J) # {})
            THEN Candles(OpensOf(rows, Goods(rows, J))) ELSE Unavailable
      BY <1>10, NormalizeHistoryExact
    <2>2. QED
      BY <1>3, <1>9, <2>1, AnswerKinds
  <1>13. inside = I \cup J
    <2>1. \A i \in 1 .. n : rows[i].open \in 2 .. 4 <=> InWindow(rows[i], 2, 4) \/ InWindow(rows[i], 4, 5)
      BY DEF InWindow
    <2>2. QED
      BY <1>10, <2>1 DEF Inside
  <1>14. \A i \in I, j \in J : rows[i].open # rows[j].open
    <2>1. \A i \in I : rows[i].open \in 2 .. 4 - 1
      BY <1>10 DEF Inside, InWindow
    <2>2. \A j \in J : rows[j].open \in 4 .. 5 - 1
      BY <1>10 DEF Inside, InWindow
    <2>3. QED
      BY <2>1, <2>2
  <1>15. Distinct(rows, inside)
    BY <1>11, <1>12, <1>13, <1>14 DEF Distinct
  <1>16. answer.opens = OpensOf(rows, Goods(rows, inside))
    BY <1>9, <1>11, <1>12, <1>13 DEF OpensOf, Goods
  <1>17. QED
    BY <1>15, <1>16, SoundByParts

LEMMA RowsAreSound ==
  ASSUME InputInit, OfKind("rows"), NEW rows, rows = input.rows,
         NEW inside, inside = {i \in DOMAIN rows : rows[i].open \in 2 .. 4}
  PROVE  /\ SoundAnswer(TwelveDataCandles(input.supported, input.outcome, rows, 2, 5, 0 .. 9), rows, inside)
         /\ SoundAnswer(BinanceCandles(input.outcome, rows, 2, 5), rows, inside)
         /\ SoundAnswer(YFinanceCandles(input.supported, HistoryRanges(2, 5, 2), input.outcome, [i \in 1 .. 2 |-> rows]),
                        rows, inside)
  <1>1. /\ Len(rows) \in Nat /\ DOMAIN rows = 1 .. Len(rows)
        /\ \A i \in DOMAIN rows : rows[i].open \in Int
        /\ input.outcome = "rows" \/ DOMAIN rows = {}
        /\ IsFiniteSet(inside)
    BY RowsInput
  <1>2. PICK n, supported, outcome :
          n \in Nat /\ n = Len(rows) /\ supported = input.supported /\ outcome = input.outcome
    BY <1>1
  <1>3. /\ Len(rows) = n /\ DOMAIN rows = 1 .. n
        /\ \A i \in 1 .. n : rows[i].open \in Int
        /\ outcome = "rows" \/ DOMAIN rows = {}
    BY <1>1, <1>2
  <1>4. SoundAnswer(TwelveDataCandles(supported, outcome, rows, 2, 5, 0 .. 9), rows, inside)
    BY <1>1, <1>3, TwelveDataSound
  <1>5. SoundAnswer(BinanceCandles(outcome, rows, 2, 5), rows, inside)
    BY <1>1, <1>3, BinanceSound
  <1>6. SoundAnswer(YFinanceCandles(supported, HistoryRanges(2, 5, 2), outcome, [i \in 1 .. 2 |-> rows]), rows, inside)
    BY <1>1, <1>3, YFinanceSound
  <1>7. QED
    BY <1>2, <1>4, <1>5, <1>6

(* The symbols that have been priced once, and well.                       *)
LEMMA ItemsInput ==
  ASSUME InputInit, OfKind("items")
  PROVE  Len(input.items) \in Nat /\ DOMAIN input.items = 1 .. Len(input.items)
  <1>1. InitPrices
    BY InputKinds
  <1>2. \E items \in BoundedSeq(Items, 3) : input.items = items
    <2>1. PICK requested \in SUBSET {"a", "b", "c"} :
            \/ \E items \in BoundedSeq(Items, 3) :
                 input = [kind |-> "items", requested |-> requested, items |-> items]
            \/ \E supported, good \in SUBSET {"a", "b", "c"} :
                 input = [kind |-> "prices", requested |-> requested, supported |-> supported, good |-> good]
      BY <1>1, Zenon DEF InitPrices
    <2>2. CASE \E supported, good \in SUBSET {"a", "b", "c"} :
                 input = [kind |-> "prices", requested |-> requested, supported |-> supported, good |-> good]
      <3>1. input.kind = "prices"
        BY <2>2
      <3>2. QED
        BY <3>1 DEF OfKind
    <2>3. CASE \E items \in BoundedSeq(Items, 3) :
                 input = [kind |-> "items", requested |-> requested, items |-> items]
      <3>1. PICK items \in BoundedSeq(Items, 3) : input = [kind |-> "items", requested |-> requested, items |-> items]
        BY <2>3
      <3>2. input.items = items
        BY <3>1
      <3>3. QED
        BY <3>2
    <2>4. QED
      BY <2>1, <2>2, <2>3
  <1>3. PICK items \in BoundedSeq(Items, 3) : input.items = items
    BY <1>2
  <1>4. PICK m \in Nat : items \in [1 .. m -> Items]
    <2>1. PICK k \in Nat : k = 3
      OBVIOUS
    <2>2. items \in BoundedSeq(Items, k)
      BY <2>1
    <2>3. QED
      BY <2>2 DEF BoundedSeq, SeqOf
  <1>5. DOMAIN items = 1 .. m /\ Len(items) = m
    BY <1>4
  <1>6. QED
    BY <1>3, <1>5

LEMMA ItemsAreSound ==
  ASSUME NEW items, Len(items) \in Nat, DOMAIN items = 1 .. Len(items), NEW requested,
         NEW batch, batch = BinancePrices(requested, items)
  PROVE  /\ batch.prices = {x \in requested : \E i \in {j \in DOMAIN items : items[j].symbol = x} :
                              {j \in DOMAIN items : items[j].symbol = x} = {i} /\ items[i].good}
         /\ batch.unavailable = requested \ batch.prices
  <1>1. PICK n \in Nat : n = Len(items)
    OBVIOUS
  <1>2. PICK P : P = Priceable(requested, items, n)
    OBVIOUS
  <1>3. batch = Batch(P, requested)
    BY <1>1, <1>2, BinancePricesExact
  <1>4. batch.prices = P /\ batch.unavailable = requested \ P
    BY <1>3 DEF Batch
  <1>5. \A x : {j \in DOMAIN items : items[j].symbol = x} = Named(items, x, n)
    BY <1>1 DEF Named
  <1>6. \A x : (\E j \in 1 .. n : Named(items, x, n) = {j} /\ items[j].good)
               <=> \E j \in Named(items, x, n) : Named(items, x, n) = {j} /\ items[j].good
    <2>1. \A x : Named(items, x, n) \subseteq 1 .. n
      BY DEF Named
    <2>2. QED
      BY <2>1, Zenon
  <1>7. P = {x \in requested : \E i \in Named(items, x, n) : Named(items, x, n) = {i} /\ items[i].good}
    BY <1>2, <1>6, Zenon DEF Priceable
  <1>8. ASSUME NEW x
        PROVE  (\E i \in {j \in DOMAIN items : items[j].symbol = x} :
                  {j \in DOMAIN items : items[j].symbol = x} = {i} /\ items[i].good)
               <=> \E i \in Named(items, x, n) : Named(items, x, n) = {i} /\ items[i].good
    <2>1. PICK T : T = {j \in DOMAIN items : items[j].symbol = x}
      OBVIOUS
    <2>2. T = Named(items, x, n)
      BY <1>5, <2>1
    <2>3. QED
      BY <2>1, <2>2, Zenon
  <1>9. P = {x \in requested : \E i \in {j \in DOMAIN items : items[j].symbol = x} :
                {j \in DOMAIN items : items[j].symbol = x} = {i} /\ items[i].good}
    BY <1>7, <1>8, Zenon
  <1>10. QED
    BY <1>4, <1>9, Zenon

LEMMA PricesAreSound ==
  ASSUME NEW requested, NEW supported, NEW good
  PROVE  LET priced == (requested \cap supported) \cap good IN
         /\ TwelveDataPrices(requested, supported, good) = Batch(priced, requested)
         /\ YFinancePrices(requested, supported, good) = Batch(priced, requested)
  <1>1. PICK priced : priced = (requested \cap supported) \cap good
    OBVIOUS
  <1>2. TwelveDataPrices(requested, supported, good) = Batch(priced, requested)
    BY <1>1 DEF TwelveDataPrices
  <1>3. (requested \ supported) \cup ((requested \cap supported) \ good) = requested \ priced
    BY <1>1
  <1>4. YFinancePrices(requested, supported, good) = Batch(priced, requested)
    BY <1>1, <1>3 DEF YFinancePrices, Batch
  <1>5. QED
    BY <1>1, <1>2, <1>4

LEMMA AnswersAreSoundNow == InputInit => AnswersAreSound
  <1> SUFFICES ASSUME InputInit PROVE AnswersAreSound
    OBVIOUS
  <1>1. ASSUME OfKind("rows")
        PROVE  LET rows   == input.rows
                   inside == {i \in DOMAIN rows : rows[i].open \in 2 .. 4}
                   good   == {rows[i].open : i \in {j \in inside : rows[j].value = "good"}}
                   half   == [i \in 1 .. 2 |-> rows]
                   Sound(answer) == answer.ok => /\ answer.opens = good
                                                 /\ Cardinality({rows[i].open : i \in inside}) = Cardinality(inside)
               IN  /\ Sound(TwelveDataCandles(input.supported, input.outcome, rows, 2, 5, 0 .. 9))
                   /\ Sound(BinanceCandles(input.outcome, rows, 2, 5))
                   /\ Sound(YFinanceCandles(input.supported, HistoryRanges(2, 5, 2), input.outcome, half))
    <2> DEFINE rows == input.rows
               inside == {i \in DOMAIN rows : rows[i].open \in 2 .. 4}
    <2>1. /\ SoundAnswer(TwelveDataCandles(input.supported, input.outcome, rows, 2, 5, 0 .. 9), rows, inside)
          /\ SoundAnswer(BinanceCandles(input.outcome, rows, 2, 5), rows, inside)
          /\ SoundAnswer(YFinanceCandles(input.supported, HistoryRanges(2, 5, 2), input.outcome, [i \in 1 .. 2 |-> rows]),
                         rows, inside)
      BY <1>1, RowsAreSound
    <2>2. QED
      BY <2>1, Zenon DEF SoundAnswer
  <1>2. ASSUME OfKind("items")
        PROVE  LET batch == BinancePrices(input.requested, input.items)
                   of(x) == {i \in DOMAIN input.items : input.items[i].symbol = x}
               IN  /\ batch.prices = {x \in input.requested : \E i \in of(x) : of(x) = {i} /\ input.items[i].good}
                   /\ batch.unavailable = input.requested \ batch.prices
    <2>1. Len(input.items) \in Nat /\ DOMAIN input.items = 1 .. Len(input.items)
      BY <1>2, ItemsInput
    <2>2. QED
      BY <2>1, ItemsAreSound, Zenon
  <1>3. ASSUME OfKind("prices")
        PROVE  LET priced == (input.requested \cap input.supported) \cap input.good IN
               /\ TwelveDataPrices(input.requested, input.supported, input.good) = Batch(priced, input.requested)
               /\ YFinancePrices(input.requested, input.supported, input.good) = Batch(priced, input.requested)
    BY PricesAreSound, Zenon
  <1>4. QED
    BY <1>1, <1>2, <1>3, Zenon DEF AnswersAreSound

(* What each provider makes of an answer has the sound rows of the window, *)
(* all of them and no others, and none from an answer with the same open   *)
(* twice; a quote batch splits what was asked for into prices and          *)
(* unavailable symbols (twelvedata_market_data.py:490,                     *)
(* yfinance_market_data.py:411, binance_spot.py:118, :359).                *)
THEOREM AnswersCorrect == InputSpec => []AnswersAreSound
  BY InputStays, AnswersAreSoundNow, PTL

-----------------------------------------------------------------------------
(* The k-th open of a grid that counts from EPOCH.                         *)
OpenAt(sch, k) == IF sch.month THEN MonthStart[k] ELSE k * Hour

LEMMA OpenAtIs ==
  ASSUME NEW sch \in {Hours, Months}
  PROVE  /\ \A k \in Int : OpenAt(sch, k) \in Int /\ OpenAt(sch, k) \in Opens(sch)
         /\ \A o \in Opens(sch) : \E k \in Int : o = OpenAt(sch, k)
  <1>1. CASE sch.month
    BY <1>1, MonthStartIs DEF OpenAt, Opens
  <1>2. CASE ~sch.month
    <2>1. sch = Hours /\ sch.offset = 0 /\ sch.duration = Hour /\ Hour \in Nat
      BY <1>2, HoursAndMonths
    <2>2. \A k \in Int : OpenAt(sch, k) = k * Hour /\ k * Hour \in Int /\ 0 + k * Hour = k * Hour
      BY <1>2, <2>1 DEF OpenAt
    <2>3. Opens(sch) = {0 + k * Hour : k \in Int}
      BY <1>2, <2>1 DEF Opens, FixedOpens
    <2>4. QED
      BY <2>2, <2>3
  <1>3. QED
    BY <1>1, <1>2

LEMMA OpenAtInOrder ==
  ASSUME NEW sch \in {Hours, Months}, NEW i \in Int, NEW j \in Int
  PROVE  i < j <=> OpenAt(sch, i) < OpenAt(sch, j)
  <1>1. CASE sch.month
    BY <1>1, MonthsInOrder DEF OpenAt
  <1>2. CASE ~sch.month
    <2>1. PICK d \in Nat \ {0} : d = Hour
      BY HoursAndMonths
    <2>2. ASSUME NEW a \in Int, NEW b \in Int, a < b PROVE a * d < b * d
      <3>1. PICK n \in Nat : b = (a + n) + 1
        <4>1. b - a - 1 \in Nat /\ b = (a + (b - a - 1)) + 1
          BY <2>2
        <4>2. QED
          BY <4>1
      <3>2. b * d = a * d + n * d + d
        BY <3>1
      <3>3. n * d >= 0
        OBVIOUS
      <3>4. QED
        BY <3>2, <3>3
    <2>3. i < j => i * d < j * d
      BY <2>2
    <2>4. j < i => j * d < i * d
      BY <2>2
    <2>5. i = j => i * d = j * d
      OBVIOUS
    <2>6. PICK x \in Int, y \in Int : x = i * d /\ y = j * d
      OBVIOUS
    <2>7. i < j <=> x < y
      BY <2>3, <2>4, <2>5, <2>6
    <2>8. QED
      BY <1>2, <2>1, <2>6, <2>7 DEF OpenAt
  <1>3. QED
    BY <1>1, <1>2

LEMMA OpenAtSteps ==
  ASSUME NEW sch \in {Hours, Months}, NEW k \in Int, NEW n \in Int
  PROVE  Step(sch, OpenAt(sch, k), n) = OpenAt(sch, k + n)
  <1>1. CASE sch.month
    BY <1>1, MonthStep DEF OpenAt, Step
  <1>2. CASE ~sch.month
    <2>1. sch.duration = Hour /\ Hour \in Nat
      BY <1>2, HoursAndMonths
    <2>2. k * Hour + n * Hour = (k + n) * Hour
      BY <2>1
    <2>3. QED
      BY <1>2, <2>1, <2>2 DEF OpenAt, Step
  <1>3. QED
    BY <1>1, <1>2

LEMMA LastOpenIs ==
  ASSUME NEW sch \in {Hours, Months}, NEW k \in Int
  PROVE  LastOpenBefore(sch, OpenAt(sch, k)) = OpenAt(sch, k - 1)
  <1>1. CASE sch.month
    <2>1. PICK e \in Int : e = MonthStart[k] /\ InMonth(e, k)
      BY MonthStartInMonth
    <2>2. MonthOf(e) = k
      BY <2>1, MonthOfIs, OnlyMonth
    <2>3. LastOpenBefore(sch, e) = IF e >= e THEN AddMonth(e, -1) ELSE e
      BY <1>1, <2>1, <2>2 DEF LastOpenBefore
    <2>4. -1 \in Int /\ e >= e /\ k + (-1) = k - 1
      BY <2>1
    <2>5. AddMonth(e, -1) = MonthStart[k - 1]
      BY <2>1, <2>4, MonthStep
    <2>6. QED
      BY <1>1, <2>1, <2>3, <2>4, <2>5 DEF OpenAt
  <1>2. CASE ~sch.month
    <2>1. sch.duration = Hour /\ Hour \in Nat
      BY <1>2, HoursAndMonths
    <2>2. k * Hour - Hour = (k - 1) * Hour
      BY <2>1
    <2>3. QED
      BY <1>2, <2>1, <2>2 DEF OpenAt, LastOpenBefore
  <1>3. QED
    BY <1>1, <1>2

LEMMA GridIs ==
  ASSUME NEW sch \in {Hours, Months}, NEW n \in Int
  PROVE  Grid(sch, n) = {OpenAt(sch, i) : i \in 0 .. n - 1}
  <1>1. CASE sch.month
    BY <1>1 DEF Grid, OpenAt
  <1>2. CASE ~sch.month
    <2>1. sch.duration = Hour /\ sch.offset = 0 /\ Hour \in Nat
      BY <1>2, HoursAndMonths
    <2>2. \A i \in 0 .. n - 1 : 0 + i * Hour = i * Hour
      BY <2>1
    <2>3. \A i \in 0 .. n - 1 : sch.offset + i * sch.duration = OpenAt(sch, i)
      BY <1>2, <2>1, <2>2 DEF OpenAt
    <2>4. QED
      BY <1>2, <2>3 DEF Grid
  <1>3. QED
    BY <1>1, <1>2

LEMMA GapsInput ==
  ASSUME InputInit, OfKind("gaps")
  PROVE  input.sch \in {Hours, Months} /\ input.El \in SUBSET Grid(input.sch, 6)
  <1>1. InitGaps
    BY InputKinds
  <1>2. PICK sch \in {Hours, Months}, El \in SUBSET Grid(Hours, 6), have \in SUBSET (0 .. 5) :
          input = [kind |-> "gaps", sch |-> sch, have |-> have,
                   El |-> IF sch.month THEN {MonthStart[t \div Hour] : t \in El} ELSE El]
    BY <1>1, Zenon DEF InitGaps
  <1>3. input.sch = sch /\ input.El = IF sch.month THEN {MonthStart[t \div Hour] : t \in El} ELSE El
    BY <1>2
  <1>4. ~Hours.month /\ Months.month
    BY HoursAndMonths
  <1>5. CASE ~sch.month
    BY <1>3, <1>4, <1>5
  <1>6. CASE sch.month
    <2>1. ASSUME NEW t \in El PROVE MonthStart[t \div Hour] \in Grid(sch, 6)
      <3>1. t \in {OpenAt(Hours, i) : i \in 0 .. 6 - 1}
        BY GridIs
      <3>2. PICK i \in 0 .. 6 - 1 : t = OpenAt(Hours, i)
        BY <3>1
      <3>3. PICK d \in Nat \ {0} : d = Hour
        BY HoursAndMonths
      <3>4. t = i * d
        BY <1>4, <3>2, <3>3 DEF OpenAt
      <3>5. t \div d = i
        <4>1. t \in Int
          BY <3>4
        <4>2. PICK q \in Int, r \in Int : q = t \div d /\ r = t % d /\ 0 <= r /\ r < d /\ t = q * d + r
          BY <4>1, Remainder
        <4>3. PICK j \in Int : j = i - q
          OBVIOUS
        <4>4. j * d = i * d - q * d
          BY <4>3
        <4>5. j * d = r
          BY <3>4, <4>2, <4>4
        <4>6. j = 0
          BY <4>2, <4>5, NoMultipleBetween
        <4>7. QED
          BY <4>2, <4>3, <4>6
      <3>6. MonthStart[i] \in Grid(sch, 6)
        BY <1>6 DEF Grid
      <3>7. QED
        BY <3>3, <3>5, <3>6
    <2>2. QED
      BY <1>3, <1>6, <2>1
  <1>7. QED
    BY <1>5, <1>6

(* The opens X of a run r.                                                 *)
RunHas(sch, El, M, r, X) ==
  /\ Cardinality(X) = r.count
  /\ X = {o \in El : r.start <= o /\ o <= LastOpenBefore(sch, r.end)}
  /\ X = {o \in Opens(sch) : r.start <= o /\ o < r.end}
  /\ X \subseteq M

LEMMA RunIs ==
  ASSUME NEW sch \in {Hours, Months}, NEW El \in SUBSET Opens(sch), NEW M \in SUBSET El, NEW r, RunOf(sch, M, r),
         NEW X, X = {o \in El : r.start <= o /\ o < r.end}
  PROVE  RunHas(sch, El, M, r, X)
  <1>1. PICK s \in Int, e \in Int, n \in Nat : s = r.start /\ e = r.end /\ n = r.count
    BY DEF RunOf, Run
  <1>2. s \in Opens(sch) /\ e \in Opens(sch) /\ s < e /\ e = Step(sch, s, n)
    BY <1>1 DEF RunOf
  <1>3. \A c \in Opens(sch) : s <= c /\ c < e => c \in M
    BY <1>1 DEF RunOf
  <1>4. PICK a \in Int : s = OpenAt(sch, a)
    BY <1>2, OpenAtIs
  <1>5. PICK b \in Int : b = a + n /\ n \in Int
    OBVIOUS
  <1>6. e = OpenAt(sch, b)
    BY <1>2, <1>4, <1>5, OpenAtSteps
  <1>7. X = {o \in El : s <= o /\ o < e}
    BY <1>1
  <1>8. X = {o \in Opens(sch) : s <= o /\ o < e} /\ X \subseteq M
    BY <1>3, <1>7
  <1>9. \A k \in Int : s <= OpenAt(sch, k) /\ OpenAt(sch, k) < e <=> k \in a .. b - 1
    <2>1. ASSUME NEW k \in Int PROVE s <= OpenAt(sch, k) /\ OpenAt(sch, k) < e <=> k \in a .. b - 1
      <3>1. OpenAt(sch, k) \in Int
        BY OpenAtIs
      <3>2. k < b <=> OpenAt(sch, k) < e
        BY <1>6, OpenAtInOrder
      <3>3. k < a <=> OpenAt(sch, k) < s
        BY <1>4, OpenAtInOrder
      <3>4. s <= OpenAt(sch, k) <=> ~(OpenAt(sch, k) < s)
        BY <3>1
      <3>5. k \in a .. b - 1 <=> ~(k < a) /\ k < b
        OBVIOUS
      <3>6. QED
        BY <3>2, <3>3, <3>4, <3>5
    <2>2. QED
      BY <2>1
  <1>10. X = {OpenAt(sch, k) : k \in a .. b - 1}
    <2>1. ASSUME NEW o \in X PROVE \E k \in a .. b - 1 : o = OpenAt(sch, k)
      <3>1. o \in Opens(sch) /\ s <= o /\ o < e
        BY <1>8
      <3>2. PICK k \in Int : o = OpenAt(sch, k)
        BY <3>1, OpenAtIs
      <3>3. QED
        BY <1>9, <3>1, <3>2
    <2>2. ASSUME NEW k \in a .. b - 1 PROVE OpenAt(sch, k) \in X
      <3>1. k \in Int /\ OpenAt(sch, k) \in Opens(sch)
        BY OpenAtIs
      <3>2. s <= OpenAt(sch, k) /\ OpenAt(sch, k) < e
        BY <1>9, <3>1
      <3>3. QED
        BY <1>8, <3>1, <3>2
    <2>3. QED
      BY <2>1, <2>2
  <1>11. Cardinality(X) = n
    <2>1. PICK J : J = a .. b - 1
      OBVIOUS
    <2>2. IsFiniteSet(J) /\ Cardinality(J) = n
      <3>1. IsFiniteSet(a .. b - 1) /\ Cardinality(a .. b - 1) = IF a > b - 1 THEN 0 ELSE (b - 1) - a + 1
        BY FS_Interval
      <3>2. a > b - 1 => n = 0
        BY <1>5
      <3>3. (b - 1) - a + 1 = n
        BY <1>5
      <3>4. QED
        BY <2>1, <3>1, <3>2, <3>3
    <2>3. PICK f : f = [k \in J |-> OpenAt(sch, k)]
      OBVIOUS
    <2>4. f \in Surjection(J, X)
      BY <1>10, <2>1, <2>3 DEF Surjection
    <2>5. \A i, j \in J : f[i] = f[j] => i = j
      <3>1. ASSUME NEW i \in J, NEW j \in J, OpenAt(sch, i) = OpenAt(sch, j) PROVE i = j
        <4>1. i \in Int /\ j \in Int /\ OpenAt(sch, i) \in Int
          <5>1. i \in Int /\ j \in Int
            BY <2>1
          <5>2. QED
            BY <5>1, OpenAtIs
        <4>2. ~(OpenAt(sch, i) < OpenAt(sch, j)) /\ ~(OpenAt(sch, j) < OpenAt(sch, i))
          BY <3>1, <4>1
        <4>3. ~(i < j) /\ ~(j < i)
          BY <4>1, <4>2, OpenAtInOrder
        <4>4. QED
          BY <4>1, <4>3
      <3>2. QED
        BY <2>3, <3>1
    <2>6. f \in Injection(J, X)
      BY <2>3, <2>4, <2>5 DEF Injection, IsInjective, Surjection
    <2>7. QED
      BY <2>2, <2>4, <2>6, FS_Surjection
  <1>12. PICK p \in Int : p = LastOpenBefore(sch, e) /\ p = OpenAt(sch, b - 1)
    BY <1>6, LastOpenIs, OpenAtIs
  <1>13. \A o \in Opens(sch) : o < e <=> o <= p
    <2>1. ASSUME NEW o \in Opens(sch) PROVE o < e <=> o <= p
      <3>1. PICK k \in Int : o = OpenAt(sch, k)
        BY OpenAtIs
      <3>2. o \in Int
        BY <3>1, OpenAtIs
      <3>3. k < b <=> o < e
        BY <1>6, <3>1, OpenAtInOrder
      <3>4. b - 1 < k <=> p < o
        BY <1>12, <3>1, OpenAtInOrder
      <3>5. k < b <=> ~(b - 1 < k)
        OBVIOUS
      <3>6. o <= p <=> ~(p < o)
        BY <3>2
      <3>7. QED
        BY <3>3, <3>4, <3>5, <3>6
    <2>2. QED
      BY <2>1
  <1>14. X = {o \in El : s <= o /\ o <= p}
    BY <1>7, <1>13
  <1>15. QED
    BY <1>1, <1>8, <1>11, <1>12, <1>14 DEF RunHas

(* The opens of a sequence of runs that cover what is missing.             *)
SectionsOf(sch, sections, El, have) ==
  LET opens(i) == {o \in El : sections[i].start <= o /\ o < sections[i].end}
  IN  /\ UNION {opens(i) : i \in DOMAIN sections} = El \ have
      /\ \A i, j \in DOMAIN sections : i < j => sections[i].end < sections[j].start
      /\ \A i \in DOMAIN sections :
           /\ Cardinality(opens(i)) = sections[i].count
           /\ opens(i) = {o \in El : sections[i].start <= o /\ o <= LastOpenBefore(sch, sections[i].end)}
           /\ Grid(sch, 7) \cap (sections[i].start .. sections[i].end - 1) = opens(i)

LEMMA CoversSections ==
  ASSUME NEW sch \in {Hours, Months}, NEW El \in SUBSET Grid(sch, 6), NEW have,
         NEW sections, Covers(sch, sections, El \ have)
  PROVE  SectionsOf(sch, sections, El, have)
  <1>1. PICK M \in SUBSET El : M = El \ have
    OBVIOUS
  <1>2. El \in SUBSET Opens(sch) /\ Grid(sch, 7) \subseteq Opens(sch)
    BY GridIsOpens
  <1>3. El \subseteq Grid(sch, 7)
    <2>1. Grid(sch, 6) = {OpenAt(sch, i) : i \in 0 .. 6 - 1} /\ Grid(sch, 7) = {OpenAt(sch, i) : i \in 0 .. 7 - 1}
      BY GridIs
    <2>2. 0 .. 6 - 1 \subseteq 0 .. 7 - 1
      OBVIOUS
    <2>3. QED
      BY <2>1, <2>2
  <1>4. PICK m \in Nat : m = Len(sections) /\ DOMAIN sections = 1 .. m
    BY DEF Covers
  <1>5. /\ \A i \in 1 .. m : RunOf(sch, M, sections[i])
        /\ \A i, j \in 1 .. m : i < j => sections[i].end < sections[j].start
        /\ \A o \in M : \E i \in 1 .. m : sections[i].start <= o /\ o < sections[i].end
    BY <1>1, <1>4 DEF Covers
  <1> DEFINE opens(i) == {o \in El : sections[i].start <= o /\ o < sections[i].end}
  <1>6. ASSUME NEW i \in 1 .. m
        PROVE  /\ Cardinality(opens(i)) = sections[i].count
               /\ opens(i) = {o \in El : sections[i].start <= o /\ o <= LastOpenBefore(sch, sections[i].end)}
               /\ Grid(sch, 7) \cap (sections[i].start .. sections[i].end - 1) = opens(i)
               /\ opens(i) \subseteq M
    <2>1. PICK r : r = sections[i]
      OBVIOUS
    <2>2. PICK X : X = {o \in El : r.start <= o /\ o < r.end}
      OBVIOUS
    <2>3. RunOf(sch, M, r)
      BY <1>5, <2>1
    <2>4. /\ Cardinality(X) = r.count
          /\ X = {o \in El : r.start <= o /\ o <= LastOpenBefore(sch, r.end)}
          /\ X = {o \in Opens(sch) : r.start <= o /\ o < r.end}
          /\ X \subseteq M
      <3>1. RunHas(sch, El, M, r, X)
        BY <1>2, <2>2, <2>3, RunIs
      <3>2. QED
        BY <3>1 DEF RunHas
    <2>5. PICK s \in Int, e \in Int : s = r.start /\ e = r.end
      BY <2>3 DEF RunOf, Run
    <2>6. \A o \in Opens(sch) : o \in s .. e - 1 <=> s <= o /\ o < e
      <3>1. \A o \in Opens(sch) : o \in Int
        BY OpenAtIs
      <3>2. QED
        BY <3>1
    <2>7. Grid(sch, 7) \cap (s .. e - 1) = X
      BY <1>2, <1>3, <2>2, <2>4, <2>5, <2>6
    <2>8. QED
      BY <2>1, <2>2, <2>4, <2>5, <2>7
  <1>7. UNION {opens(i) : i \in 1 .. m} = M
    <2>1. \A i \in 1 .. m : opens(i) \subseteq M
      BY <1>6
    <2>2. \A o \in M : \E i \in 1 .. m : o \in opens(i)
      BY <1>5
    <2> HIDE DEF opens
    <2>3. QED
      BY <2>1, <2>2
  <1>8. QED
    BY <1>1, <1>4, <1>5, <1>6, <1>7, Zenon DEF SectionsOf

LEMMA SectionsAreExactNow == InputInit => SectionsAreExact
  <1> SUFFICES ASSUME InputInit, OfKind("gaps") PROVE SectionsAreExact
    BY DEF SectionsAreExact
  <1> DEFINE have == {IF input.sch.month THEN MonthStart[i] ELSE i * Hour : i \in input.have}
             expected == ExpectedOpens(input.sch, 0, Step(input.sch, 0, 6), input.El)
             sections == FindGaps(input.sch, have, expected, {})
  <1>1. SectionsOf(input.sch, sections, input.El, have)
    <2>1. PICK sch, El : sch = input.sch /\ El = input.El /\ sch \in {Hours, Months} /\ El \in SUBSET Grid(sch, 6)
      BY GapsInput
    <2>2. PICK e \in Int : e = Step(sch, 0, 6) /\ e = OpenAt(sch, 6)
      <3>1. OpenAt(sch, 0) = 0
        <4>1. 0 * Hour = 0
          BY HoursAndMonths
        <4>2. QED
          BY <4>1, MonthStartIs DEF OpenAt
      <3>2. Step(sch, OpenAt(sch, 0), 6) = OpenAt(sch, 0 + 6)
        <4>1. 0 \in Int /\ 6 \in Int
          OBVIOUS
        <4>2. QED
          BY <2>1, <4>1, OpenAtSteps
      <3>3. 0 + 6 = 6
        OBVIOUS
      <3>4. OpenAt(sch, 6) \in Int
        BY <2>1, OpenAtIs
      <3>5. QED
        BY <3>1, <3>2, <3>3, <3>4
    <2>3. El \in SUBSET Opens(sch) /\ Schedule(sch)
      BY <2>1, GridIsOpens, HoursAndMonths
    <2>4. Lists(ExpectedOpens(sch, 0, e, El), OpensIn(El, 0, e))
      BY <2>3, ExpectedOpensExact
    <2>5. OpensIn(El, 0, e) = El
      <3>1. ASSUME NEW o \in El PROVE 0 <= o /\ o < e
        <4>1. o \in {OpenAt(sch, i) : i \in 0 .. 6 - 1}
          BY <2>1, GridIs
        <4>2. PICK i \in 0 .. 6 - 1 : o = OpenAt(sch, i)
          BY <4>1
        <4>3. i < 6 /\ ~(i < 0) /\ i \in Int
          OBVIOUS
        <4>4. OpenAt(sch, 0) = 0
          <5>1. 0 * Hour = 0
            BY HoursAndMonths
          <5>2. QED
            BY <5>1, MonthStartIs DEF OpenAt
        <4>5. o < e /\ ~(o < 0) /\ o \in Int
          <5>1. i < 6 <=> OpenAt(sch, i) < OpenAt(sch, 6)
            BY <2>1, OpenAtInOrder
          <5>2. i < 0 <=> OpenAt(sch, i) < OpenAt(sch, 0)
            BY <2>1, OpenAtInOrder
          <5>3. OpenAt(sch, i) \in Int
            BY <2>1, <4>3, OpenAtIs
          <5>4. QED
            BY <2>2, <4>2, <4>3, <4>4, <5>1, <5>2, <5>3
        <4>6. QED
          BY <4>5
      <3>2. QED
        BY <3>1 DEF OpensIn
    <2>6. PICK list : list = ExpectedOpens(sch, 0, e, El) /\ Lists(list, El)
      BY <2>4, <2>5
    <2>7. PICK h : h = have
      OBVIOUS
    <2>8. Covers(sch, FindGaps(sch, h, list, {}), El \ (h \cup {}))
      BY <2>3, <2>6, GapsAreWhatIsMissing
    <2>9. El \ (h \cup {}) = El \ h
      OBVIOUS
    <2>10. SectionsOf(sch, FindGaps(sch, h, list, {}), El, h)
      BY <2>1, <2>8, <2>9, CoversSections
    <2>11. QED
      BY <2>1, <2>2, <2>6, <2>7, <2>10
  <1>2. QED
    BY <1>1, Zenon DEF SectionsAreExact, SectionsOf

(* The sections that are fetched cover the missing opens, each once, and   *)
(* no open that is there already, and the window that each provider is     *)
(* asked for holds exactly the opens of its section                        *)
(* (candle_schedules.py:109, :206, twelvedata_market_data.py:262,          *)
(* binance_spot.py:184).                                                   *)
THEOREM SectionsCorrect == InputSpec => []SectionsAreExact
  BY InputStays, SectionsAreExactNow, PTL
=============================================================================
