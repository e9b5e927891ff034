--------------------------- MODULE Rewards_proofs ---------------------------
(***************************************************************************)
(* Proofs about Rewards, for every number of games, topics, rounds,        *)
(* requests and days and every offset of the time zone.                    *)
(***************************************************************************)
EXTENDS Rewards, FiniteSetTheorems, SequenceTheorems, WellFoundedInduction, TLAPS

-----------------------------------------------------------------------------
(* The largest and the smallest of a bounded set of integers.              *)

LEMMA LeastNat ==
  ASSUME NEW T \in SUBSET Nat, T # {}
  PROVE  \E m \in T : \A k \in T : m <= k
<1>1. PICK m \in T : \A k \in T : ~(<<k, m>> \in OpToRel(<, Nat))
  BY NatLessThanWellFounded, WFMin
<1>2. ASSUME NEW k \in T PROVE m <= k
  <2>1. k \in Nat /\ m \in Nat
    BY <1>1, <1>2
  <2>2. ~(k < m)
    BY <1>1, <1>2, <2>1 DEF OpToRel
  <2> QED
    BY <2>1, <2>2
<1> QED
  BY <1>1, <1>2

LEMMA MinIs ==
  ASSUME NEW S \in SUBSET Int, NEW lo \in Int, \A x \in S : lo <= x, S # {}
  PROVE  Min(S) \in S /\ \A x \in S : Min(S) <= x
<1> DEFINE T == {x - lo : x \in S}
<1>1. T \in SUBSET Nat
  OBVIOUS
<1>2. T # {}
  OBVIOUS
<1>3. PICK t \in T : \A y \in T : t <= y
  BY <1>1, <1>2, LeastNat
<1>4. PICK m \in S : t = m - lo
  BY <1>3
<1>5. ASSUME NEW x \in S PROVE m <= x
  <2>1. x - lo \in T
    OBVIOUS
  <2>2. t <= x - lo
    BY <1>3, <2>1
  <2> QED
    BY <1>4, <2>2
<1> QED
  BY <1>4, <1>5 DEF Min

LEMMA MaxIs ==
  ASSUME NEW S \in SUBSET Int, NEW hi \in Int, \A x \in S : x <= hi, S # {}
  PROVE  Max(S) \in S /\ \A x \in S : x <= Max(S)
<1> DEFINE T == {hi - x : x \in S}
<1>1. T \in SUBSET Nat
  OBVIOUS
<1>2. T # {}
  OBVIOUS
<1>3. PICK t \in T : \A y \in T : t <= y
  BY <1>1, <1>2, LeastNat
<1>4. PICK m \in S : t = hi - m
  BY <1>3
<1>5. ASSUME NEW x \in S PROVE m >= x
  <2>1. hi - x \in T
    OBVIOUS
  <2>2. t <= hi - x
    BY <1>3, <2>1
  <2> QED
    BY <1>4, <2>2
<1>6. Max(S) \in S /\ \A x \in S : Max(S) >= x
  BY <1>4, <1>5 DEF Max
<1> QED
  BY <1>6

(* The number that is in the set and bounds it is its maximum, or minimum. *)
LEMMA ThatIsMax ==
  ASSUME NEW S \in SUBSET Int, NEW m \in S, \A x \in S : x <= m
  PROVE  Max(S) = m
<1>1. Max(S) \in S /\ m <= Max(S)
  BY MaxIs
<1>2. Max(S) \in Int /\ m \in Int /\ Max(S) <= m
  BY <1>1
<1> QED
  BY <1>1, <1>2

LEMMA ThatIsMin ==
  ASSUME NEW S \in SUBSET Int, NEW m \in S, \A x \in S : m <= x
  PROVE  Min(S) = m
<1>1. Min(S) \in S /\ Min(S) <= m
  BY MinIs
<1>2. Min(S) \in Int /\ m \in Int /\ m <= Min(S)
  BY <1>1
<1> QED
  BY <1>1, <1>2

-----------------------------------------------------------------------------
(* Runs of consecutive days.                                               *)

(* n days up to d, and not the one before them. *)
IsRun(days, d, n) == n \in Nat \ {0} /\ (d - n + 1)..d \subseteq days /\ d - n \notin days

LEMMA RunIsOne ==
  ASSUME NEW days \in SUBSET Int, NEW d \in Int, NEW m, IsRun(days, d, m), NEW n, IsRun(days, d, n)
  PROVE  m = n
<1>1. ASSUME NEW i, NEW j, IsRun(days, d, i), IsRun(days, d, j) PROVE ~(i < j)
  <2>1. i < j => d - i \in (d - j + 1)..d
    BY <1>1 DEF IsRun
  <2> QED
    BY <1>1, <2>1 DEF IsRun
<1> QED
  BY <1>1 DEF IsRun

(* In a set of days that has a first one, every day is the last of a run. *)
LEMMA EveryDayHasARun ==
  ASSUME NEW days \in SUBSET Int, NEW lo \in Int, \A x \in days : lo <= x, NEW d \in days
  PROVE  \E n : IsRun(days, d, n)
<1> DEFINE T == {k \in Nat : d - k \notin days}
<1>1. d - lo + 1 \in T
  OBVIOUS
<1>2. PICK n \in T : \A k \in T : n <= k
  <2>1. T \in SUBSET Nat /\ T # {}
    BY <1>1
  <2> QED
    BY <2>1, LeastNat
<1>3. \A k \in Nat : k < n => d - k \in days
  BY <1>2
<1>4. n # 0
  BY <1>2
<1>5. (d - n + 1)..d \subseteq days
  <2> SUFFICES ASSUME NEW x \in (d - n + 1)..d PROVE x \in days
    OBVIOUS
  <2>1. d - x \in Nat /\ d - x < n /\ d - (d - x) = x
    BY <1>2
  <2> QED
    BY <1>3, <2>1
<1> QED
  BY <1>2, <1>4, <1>5 DEF IsRun

(* A day whose day before is there too ends a run that is one longer. *)
LEMMA RunGrows ==
  ASSUME NEW days \in SUBSET Int, NEW d \in days, d - 1 \in days, NEW n, IsRun(days, d - 1, n)
  PROVE  IsRun(days, d, n + 1)
<1>1. n \in Nat \ {0} /\ (d - 1 - n + 1)..(d - 1) \subseteq days /\ d - 1 - n \notin days
  BY DEF IsRun
<1>2. d - (n + 1) = d - 1 - n
  BY <1>1
<1>3. ASSUME NEW x \in (d - (n + 1) + 1)..d PROVE x \in days
  <2>1. x = d \/ x \in (d - 1 - n + 1)..(d - 1)
    BY <1>1
  <2> QED
    BY <1>1, <2>1
<1> QED
  BY <1>1, <1>2, <1>3 DEF IsRun

LEMMA RunStarts ==
  ASSUME NEW days \in SUBSET Int, NEW d \in days, d - 1 \notin days
  PROVE  IsRun(days, d, 1)
BY DEF IsRun

(* streak: what the loop over the sorted days counts for each of them is its run. *)
LEMMA RunsAreRuns ==
  ASSUME NEW days \in SUBSET Int, NEW lo \in Int, \A x \in days : lo <= x
  PROVE  /\ DOMAIN Runs(days) = days
         /\ \A d \in days : IsRun(days, d, Runs(days)[d])
<1> DEFINE Eq(run) == run = [d \in days |-> IF d - 1 \in days THEN run[d - 1] + 1 ELSE 1]
           E == [d \in days |-> CHOOSE n : IsRun(days, d, n)]
<1>1. \A d \in days : IsRun(days, d, E[d])
  BY EveryDayHasARun
<1>2. Eq(E)
  <2>1. ASSUME NEW d \in days
        PROVE  E[d] = IF d - 1 \in days THEN E[d - 1] + 1 ELSE 1
    <3>1. CASE d - 1 \in days
      BY <1>1, <3>1, RunGrows, RunIsOne
    <3>2. CASE d - 1 \notin days
      BY <1>1, <3>2, RunStarts, RunIsOne
    <3> QED
      BY <3>1, <3>2
  <2> QED
    BY <2>1
<1>3. Runs(days) = CHOOSE run : Eq(run)
  BY DEF Runs
<1> HIDE DEF E
<1>4. Eq(Runs(days))
  <2> HIDE DEF Eq
  <2> QED
    BY <1>2, <1>3
<1> DEFINE run == Runs(days)
<1>5. DOMAIN run = days /\ \A d \in days : run[d] = IF d - 1 \in days THEN run[d - 1] + 1 ELSE 1
  <2> HIDE DEF run
  <2>1. run = [d \in days |-> IF d - 1 \in days THEN run[d - 1] + 1 ELSE 1]
    BY <1>4 DEF run
  <2> QED
    BY <2>1
<1> HIDE DEF run
<1>6. ASSUME NEW d \in days, ~IsRun(days, d, run[d]) PROVE FALSE
  <2> DEFINE Bad == {x \in days : ~IsRun(days, x, run[x])}
  <2>1. Bad \in SUBSET Int /\ Bad # {} /\ \A x \in Bad : lo <= x
    BY <1>6
  <2>2. PICK b \in Bad : \A x \in Bad : b <= x
    BY <2>1, MinIs
  <2>3. b \in days /\ b - 1 \notin Bad
    BY <2>1, <2>2
  <2>4. CASE b - 1 \in days
    BY <1>5, <2>2, <2>3, <2>4, RunGrows
  <2>5. CASE b - 1 \notin days
    BY <1>5, <2>2, <2>3, <2>5, RunStarts
  <2> QED
    BY <2>4, <2>5
<1> QED
  BY <1>5, <1>6 DEF run

(* No longer stretch of days ends at d than its run. *)
LEMMA RunIsLongest ==
  ASSUME NEW days \in SUBSET Int, NEW d \in Int, NEW n, IsRun(days, d, n),
         NEW k \in Nat, (d - k + 1)..d \subseteq days
  PROVE  k <= n
<1>1. n < k => d - n \in (d - k + 1)..d
  BY DEF IsRun
<1> QED
  BY <1>1 DEF IsRun

(* A stretch of n days needs n of them. *)
LEMMA RunFits ==
  ASSUME NEW days \in SUBSET Int, IsFiniteSet(days), NEW d \in Int, NEW n \in Nat \ {0},
         (d - n + 1)..d \subseteq days
  PROVE  n \in 1..Cardinality(days)
<1>1. Cardinality((d - n + 1)..d) = n
  <2>1. d - n + 1 \in Int /\ ~(d - n + 1 > d) /\ d - (d - n + 1) + 1 = n
    OBVIOUS
  <2> QED
    BY <2>1, FS_Interval
<1>2. Cardinality(days) \in Nat /\ Cardinality((d - n + 1)..d) <= Cardinality(days)
  BY FS_CardinalityType, FS_Subset
<1> QED
  BY <1>1, <1>2

(* The lengths that StreakIsTheDays takes the longest of, for days that may end the run. *)
Lengths(days, last) ==
  {0} \cup {n \in 1..Cardinality(days) : \E d \in last : (d - n + 1)..d \subseteq days}

LEMMA RunIsALength ==
  ASSUME NEW days \in SUBSET Int, IsFiniteSet(days), NEW last, NEW d \in days \cap last,
         NEW n, IsRun(days, d, n)
  PROVE  n \in Lengths(days, last)
BY RunFits DEF IsRun, Lengths

LEMMA LengthHasARun ==
  ASSUME NEW days \in SUBSET Int, NEW lo \in Int, \A x \in days : lo <= x, IsFiniteSet(days),
         NEW last \in SUBSET days, NEW n \in Lengths(days, last), n # 0
  PROVE  \E d \in last : n <= Runs(days)[d]
<1>1. PICK d \in last : (d - n + 1)..d \subseteq days
  BY DEF Lengths
<1>2. n \in Nat
  BY FS_CardinalityType DEF Lengths
<1>3. IsRun(days, d, Runs(days)[d])
  BY RunsAreRuns
<1> QED
  BY <1>1, <1>2, <1>3, RunIsLongest

LEMMA LengthsAreInts ==
  ASSUME NEW days, NEW last, IsFiniteSet(days)
  PROVE  Lengths(days, last) \in SUBSET Int
BY FS_CardinalityType DEF Lengths

(* streak's best: the longest run. *)
LEMMA BestIsLongest ==
  ASSUME NEW days \in SUBSET Int, NEW lo \in Int, \A x \in days : lo <= x, IsFiniteSet(days)
  PROVE  Max({0} \cup Range(Runs(days))) = Max(Lengths(days, days))
<1> DEFINE run == Runs(days)  L == Lengths(days, days)  B == {0} \cup Range(run)
<1>1. DOMAIN run = days /\ \A d \in days : IsRun(days, d, run[d])
  BY RunsAreRuns
<1> HIDE DEF run
<1>2. B \subseteq L
  <2>1. 0 \in L
    BY DEF Lengths
  <2>2. \A d \in days : run[d] \in L
    BY <1>1, RunIsALength
  <2> QED
    BY <1>1, <2>1, <2>2 DEF Range
<1>3. \A n \in L : n = 0 \/ \E d \in days : n <= run[d]
  BY LengthHasARun DEF run
<1>4. L \in SUBSET Int /\ \A n \in L : n <= Cardinality(days)
  BY LengthsAreInts, FS_CardinalityType DEF Lengths
<1>5. B # {} /\ B \in SUBSET Int /\ \A n \in B : n <= Cardinality(days)
  BY <1>2, <1>4
<1>6. Max(B) \in B /\ \A n \in B : n <= Max(B)
  <2> HIDE DEF B
  <2>1. Cardinality(days) \in Int
    BY FS_CardinalityType
  <2> QED
    BY <1>5, <2>1, MaxIs
<1>7. ASSUME NEW n \in L PROVE n <= Max(B)
  <2>1. CASE n = 0
    BY <1>6, <2>1
  <2>2. CASE \E d \in days : n <= run[d]
    <3>1. PICK d \in days : n <= run[d]
      BY <2>2
    <3>2. run[d] \in B
      BY <1>1 DEF Range
    <3>3. n \in Int /\ run[d] \in Int /\ Max(B) \in Int /\ run[d] <= Max(B)
      BY <1>4, <1>5, <1>6, <3>2
    <3> QED
      BY <3>1, <3>3
  <2> QED
    BY <1>3, <2>1, <2>2
<1>8. Max(B) \in L
  BY <1>2, <1>6
<1> HIDE DEF B, L
<1>9. Max(L) = Max(B)
  BY <1>4, <1>7, <1>8, ThatIsMax
<1> QED
  BY <1>9 DEF B, L, run

(* streak's current: the longest stretch up to today or yesterday, 0 when there is none. *)
LEMMA CurrentIsLongest ==
  ASSUME NEW days \in SUBSET Int, NEW lo \in Int, NEW today \in Int,
         \A x \in days : lo <= x /\ x <= today, IsFiniteSet(days)
  PROVE  LET alive == days # {} /\ today - Max(days) <= 1 IN
         (IF alive THEN Runs(days)[Max(days)] ELSE 0) = Max(Lengths(days, days \cap {today, today - 1}))
<1> DEFINE run == Runs(days)  last == days \cap {today, today - 1}  L == Lengths(days, last)
           newest == Max(days)
<1>1. DOMAIN run = days /\ \A d \in days : IsRun(days, d, run[d])
  BY RunsAreRuns
<1>2. L \in SUBSET Int /\ 0 \in L
  BY LengthsAreInts DEF Lengths
<1>3. \A n \in L : n = 0 \/ \E d \in last : n <= run[d]
  BY LengthHasARun
<1>4. CASE last = {}
  <2>1. \A n \in L : n <= 0
    <3> HIDE DEF L, last, run
    <3>1. \A n \in L : n = 0
      BY <1>3, <1>4
    <3> QED
      BY <3>1
  <2>2. Max(L) = 0
    <3> HIDE DEF L
    <3> QED
      BY <1>2, <2>1, ThatIsMax
  <2>3. ~(days # {} /\ today - newest <= 1)
    <3> SUFFICES ASSUME days # {}, today - newest <= 1 PROVE FALSE
      OBVIOUS
    <3>1. newest \in days
      BY MaxIs
    <3>2. newest \in Int /\ newest <= today /\ today - newest <= 1
      BY <3>1
    <3> HIDE DEF newest
    <3>3. newest = today \/ newest = today - 1
      BY <3>2
    <3> QED
      BY <1>4, <3>1, <3>3
  <2> QED
    BY <2>2, <2>3
<1>5. CASE last # {}
  <2>1. newest \in days /\ (\A x \in days : x <= newest) /\ days # {}
    <3>1. days # {}
      BY <1>5
    <3> QED
      BY <3>1, MaxIs
  <2>2. newest \in last /\ today - newest <= 1
    <3>1. PICK d \in last : TRUE
      BY <1>5
    <3>2. d \in days /\ d <= newest /\ newest <= today /\ d \in {today, today - 1} /\ newest \in Int
      BY <2>1, <3>1
    <3>3. newest \in {today, today - 1}
      BY <3>2
    <3> QED
      BY <2>1, <3>2, <3>3
  <2> HIDE DEF newest
  <2>3. IsRun(days, newest, run[newest]) /\ run[newest] \in Nat
    BY <1>1, <2>1 DEF IsRun
  <2>4. run[newest] \in L
    BY <2>1, <2>2, <2>3, RunIsALength
  <2>5. \A d \in last : run[d] \in Nat /\ run[d] <= run[newest]
    <3> SUFFICES ASSUME NEW d \in last PROVE run[d] \in Nat /\ run[d] <= run[newest]
      OBVIOUS
    <3>1. IsRun(days, d, run[d]) /\ run[d] \in Nat
      BY <1>1 DEF IsRun
    <3>2. CASE d = newest
      BY <2>3, <3>2
    <3>3. CASE d # newest
      <4>1. d = newest - 1
        BY <2>1, <2>2, <3>3
      <4>2. IsRun(days, newest, run[d] + 1)
        BY <2>1, <3>1, <4>1, RunGrows
      <4>3. run[newest] = run[d] + 1
        BY <2>1, <2>3, <4>2, RunIsOne
      <4> QED
        BY <3>1, <4>3
    <3> QED
      BY <3>2, <3>3
  <2>6. \A n \in L : n <= run[newest]
    <3> SUFFICES ASSUME NEW n \in L PROVE n <= run[newest]
      OBVIOUS
    <3>1. n \in Int
      BY <1>2
    <3>2. CASE n = 0
      BY <2>3, <3>2
    <3>3. CASE n # 0
      <4>1. PICK d \in last : n <= run[d]
        BY <1>3, <3>3
      <4> HIDE DEF run, last, L
      <4> QED
        BY <2>3, <2>5, <3>1, <4>1
    <3> QED
      BY <3>2, <3>3
  <2>7. Max(L) = run[newest]
    <3> HIDE DEF L, run
    <3> QED
      BY <1>2, <2>4, <2>6, ThatIsMax
  <2> QED
    BY <2>1, <2>2, <2>7 DEF newest
<1> QED
  BY <1>4, <1>5

(* The days that end a run of three or more. *)
LEMMA ThirdDays ==
  ASSUME NEW days \in SUBSET Int, NEW lo \in Int, \A x \in days : lo <= x
  PROVE  {d \in days : Runs(days)[d] >= 3} = {d \in days : {d - 1, d - 2} \subseteq days}
<1> SUFFICES ASSUME NEW d \in days PROVE Runs(days)[d] >= 3 <=> {d - 1, d - 2} \subseteq days
  OBVIOUS
<1>1. PICK n : n = Runs(days)[d] /\ IsRun(days, d, n)
  BY RunsAreRuns
<1>2. n \in Nat \ {0} /\ (d - n + 1)..d \subseteq days /\ d - n \notin days
  BY <1>1 DEF IsRun
<1>3. ASSUME n >= 3 PROVE d - 1 \in days /\ d - 2 \in days
  <2>1. d - 1 \in (d - n + 1)..d /\ d - 2 \in (d - n + 1)..d
    BY <1>2, <1>3
  <2> QED
    BY <1>2, <2>1
<1>4. ASSUME ~(n >= 3) PROVE d - 1 \notin days \/ d - 2 \notin days
  <2>1. n = 1 \/ n = 2
    BY <1>2, <1>4
  <2> QED
    BY <1>2, <2>1
<1> QED
  BY <1>1, <1>3, <1>4

-----------------------------------------------------------------------------
(* Finite sets, and times.                                                 *)

(* A finite set has an element with none above it, whatever strict order is meant. *)
LEMMA FiniteHasTop ==
  ASSUME NEW S, S # {}, IsFiniteSet(S), NEW R, \A x \in S : <<x, x>> \notin R,
         \A x, y, z \in S : <<x, y>> \in R /\ <<y, z>> \in R => <<x, z>> \in R
  PROVE  \E m \in S : \A x \in S : <<m, x>> \notin R
<1> DEFINE Above(x) == {y \in S : <<x, y>> \in R}
           T == {Cardinality(Above(x)) : x \in S}
<1>1. \A x \in S : IsFiniteSet(Above(x)) /\ Cardinality(Above(x)) \in Nat
  BY FS_Subset, FS_CardinalityType
<1>2. PICK n \in T : \A k \in T : n <= k
  <2>1. T # {}
    <3>1. PICK x \in S : TRUE
      OBVIOUS
    <3>2. Cardinality(Above(x)) \in T
      OBVIOUS
    <3> QED
      BY <3>2
  <2>2. T \in SUBSET Nat
    <3> HIDE DEF Above
    <3> QED
      BY <1>1
  <2> QED
    BY <2>1, <2>2, LeastNat
<1>3. PICK m \in S : n = Cardinality(Above(m))
  BY <1>2
<1>4. ASSUME NEW x \in S, <<m, x>> \in R PROVE FALSE
  <2>1. Above(x) \in SUBSET (Above(m) \ {x}) /\ x \in Above(m)
    BY <1>3, <1>4
  <2> HIDE DEF Above
  <2>2. IsFiniteSet(Above(m) \ {x}) /\ Cardinality(Above(m) \ {x}) = n - 1
    BY <1>1, <1>3, <2>1, FS_RemoveElement
  <2>3. Cardinality(Above(x)) <= n - 1
    BY <2>1, <2>2, FS_Subset
  <2>4. n <= Cardinality(Above(x)) /\ n \in Nat /\ Cardinality(Above(x)) \in Nat
    BY <1>1, <1>2, <1>3
  <2> QED
    BY <2>3, <2>4
<1> QED
  BY <1>3, <1>4

LEMMA FiniteMax ==
  ASSUME NEW S \in SUBSET Int, S # {}, IsFiniteSet(S)
  PROVE  Max(S) \in S /\ \A x \in S : x <= Max(S)
<1> DEFINE R == {p \in S \X S : p[1] < p[2]}
<1>1. \A x, y \in S : <<x, y>> \in R <=> x < y
  OBVIOUS
<1>2. PICK m \in S : \A x \in S : <<m, x>> \notin R
  <2>1. \A x \in S : <<x, x>> \notin R
    BY <1>1
  <2>2. \A x, y, z \in S : <<x, y>> \in R /\ <<y, z>> \in R => <<x, z>> \in R
    BY <1>1
  <2> HIDE DEF R
  <2> QED
    BY <2>1, <2>2, FiniteHasTop
<1> HIDE DEF R
<1>3. ASSUME NEW x \in S PROVE x <= m
  <2>1. ~(m < x) /\ m \in Int /\ x \in Int
    BY <1>1, <1>2
  <2> QED
    BY <2>1
<1>4. Max(S) = m
  BY <1>3, ThatIsMax
<1> QED
  BY <1>3, <1>4

LEMMA MaxOfTwo ==
  ASSUME NEW a \in Int, NEW b \in Int
  PROVE  Max({a, b}) \in {a, b} /\ a <= Max({a, b}) /\ b <= Max({a, b})
<1>1. CASE a <= b
  <2>1. Max({a, b}) = b
    BY <1>1, ThatIsMax
  <2> QED
    BY <1>1, <2>1
<1>2. CASE b <= a
  <2>1. Max({a, b}) = a
    BY <1>2, ThatIsMax
  <2> QED
    BY <1>2, <2>1
<1> QED
  BY <1>1, <1>2

LEMMA PerDayIsPositive == PerDay \in Nat \ {0}
BY TimeAssumption DEF PerDay

LEMMA Quotient ==
  ASSUME NEW m \in Int, NEW p \in Nat \ {0}
  PROVE  m \div p \in Int /\ p * (m \div p) <= m /\ m < p * (m \div p) + p
OBVIOUS

(* A time stamp lies within its day, and a later one on no earlier day. *)
LEMMA WithinTheDay ==
  ASSUME NEW at \in Int, NEW zone \in Int
  PROVE  /\ LocalDay(at, zone) \in Int
         /\ PerDay * LocalDay(at, zone) <= at + zone
         /\ at + zone < PerDay * LocalDay(at, zone) + PerDay
BY PerDayIsPositive, Quotient DEF LocalDay

LEMMA DaysInOrder ==
  ASSUME NEW a \in Int, NEW b \in Int, a <= b, NEW zone \in Int
  PROVE  LocalDay(a, zone) <= LocalDay(b, zone)
<1> DEFINE c == LocalDay(a, zone)  d == LocalDay(b, zone)
<1>1. /\ c \in Int /\ d \in Int /\ PerDay \in Nat \ {0}
      /\ PerDay * c <= a + zone /\ b + zone < PerDay * d + PerDay
  BY WithinTheDay, PerDayIsPositive
<1> HIDE DEF c, d
<1>2. CASE d + 1 <= c
  <2>1. PICK k \in Nat : c = d + 1 + k
    <3>1. c - d - 1 \in Nat
      BY <1>1, <1>2
    <3> QED
      BY <1>1, <3>1
  <2>2. PerDay * c = PerDay * d + PerDay + PerDay * k /\ PerDay * k \in Nat
    BY <1>1, <2>1
  <2>3. PerDay * c \in Int /\ PerDay * d \in Int
    BY <1>1
  <2> QED
    BY <1>1, <2>2, <2>3
<1> QED
  BY <1>1, <1>2 DEF c, d
-----------------------------------------------------------------------------
(* The inductive invariant: what is stored is dated in the past, the rows  *)
(* have their fields, what a request has made of a row takes nothing away  *)
(* of what it read, and no round of a quiz has the time of another that is *)
(* still to be saved.                                                      *)

PracticeRow   == [game : Games, at : 1..clock, passed : BOOLEAN]
TopicRow      == [saved : BOOLEAN, lessonAt : 0..clock, passedAt : 0..clock, stars : 0..3]
CheckpointRow == [variant : Variants, at : 1..clock, graded : BOOLEAN]
Request ==
  [call : Calls, at : 1..clock, searched : BOOLEAN, found : SUBSET (PracticeRow \cup CheckpointRow),
   left : Seq(Topics), read : SUBSET Topics, old : [Topics -> TopicRow], new : [Topics -> TopicRow]]

(* What a handler may make of a row of topic_progress. *)
Improves(old, new) ==
  /\ old.lessonAt # None => new.lessonAt = old.lessonAt
  /\ old.passedAt # None => new.passedAt = old.passedAt
  /\ old.stars <= new.stars

Copies(r) ==
  /\ \A t \in r.read : Improves(r.old[t], r.new[t])
  /\ r.call.op # "grade" => \A t \in r.read : r.new[t].stars = r.old[t].stars
  /\ r.call.op = "grade" => \E t \in Topics : r.read \subseteq {t} /\ r.left \in Seq({t})

RowsInv ==
  /\ practice \subseteq PracticeRow
  /\ topics \in [Topics -> TopicRow]
  /\ checkpoints \subseteq CheckpointRow

RoundsInv ==
  /\ IsFiniteSet(quizzes)
  /\ \A q \in quizzes : Accepted(q) /\ q.at \in 1..clock

OpenInv ==
  /\ \A r \in open : r \in Request /\ Copies(r)
  /\ \A r \in open, q \in quizzes : r.at # q.at
  /\ \A r, s \in open : r.at = s.at => r = s

IInv == clock \in Nat /\ RowsInv /\ RoundsInv /\ OpenInv

(* As time passes, rows and requests remain what they are. *)
LEMMA TypesGrow ==
  ASSUME IInv, clock' \in Nat, clock <= clock'
  PROVE  /\ 0..clock \subseteq 0..clock' /\ 1..clock \subseteq 1..clock'
         /\ PracticeRow \subseteq PracticeRow' /\ TopicRow \subseteq TopicRow'
         /\ CheckpointRow \subseteq CheckpointRow'
         /\ \A r \in Request : r \in Request'
<1>1. 0..clock \subseteq 0..clock' /\ 1..clock \subseteq 1..clock'
  BY DEF IInv
<1>2. PracticeRow \subseteq PracticeRow' /\ TopicRow \subseteq TopicRow'
      /\ CheckpointRow \subseteq CheckpointRow'
  BY <1>1 DEF PracticeRow, TopicRow, CheckpointRow
<1>3. [Topics -> TopicRow] \subseteq [Topics -> TopicRow']
  BY <1>2
<1>4. SUBSET (PracticeRow \cup CheckpointRow) \subseteq SUBSET (PracticeRow' \cup CheckpointRow')
  BY <1>2
<1>5. ASSUME NEW A, NEW B, A \subseteq B, NEW C, NEW D, C \subseteq D, NEW E, NEW F, E \subseteq F
      PROVE  \A r \in [call : Calls, at : A, searched : BOOLEAN, found : C, left : Seq(Topics),
                       read : SUBSET Topics, old : E, new : E] :
               r \in [call : Calls, at : B, searched : BOOLEAN, found : D, left : Seq(Topics),
                      read : SUBSET Topics, old : F, new : F]
  BY <1>5
<1>6. \A r \in Request : r \in Request'
  BY <1>1, <1>3, <1>4, <1>5 DEF Request, Calls
<1> QED
  BY <1>1, <1>2, <1>6

(* A step in which the clock does not go back keeps what it leaves alone. *)
LEMMA Later ==
  ASSUME IInv, clock' \in Nat, clock <= clock'
  PROVE  /\ UNCHANGED <<practice, topics, checkpoints>> => RowsInv'
         /\ UNCHANGED quizzes => RoundsInv'
         /\ UNCHANGED <<quizzes, open>> => OpenInv'
         /\ 0..clock \subseteq 0..clock' /\ 1..clock \subseteq 1..clock'
<1>1. 0..clock \subseteq 0..clock' /\ 1..clock \subseteq 1..clock'
  BY TypesGrow
<1>2. ASSUME UNCHANGED <<practice, topics, checkpoints>> PROVE RowsInv'
  <2>1. topics \in [Topics -> TopicRow']
    BY TypesGrow DEF IInv, RowsInv
  <2> QED
    BY <1>2, <2>1, TypesGrow DEF IInv, RowsInv
<1>3. UNCHANGED quizzes => RoundsInv'
  BY <1>1 DEF IInv, RoundsInv
<1>4. ASSUME UNCHANGED <<quizzes, open>> PROVE OpenInv'
  <2>1. \A r \in open : r \in Request'
    BY TypesGrow DEF IInv, OpenInv
  <2> QED
    BY <1>4, <2>1 DEF IInv, OpenInv, Copies, Improves
<1> QED
  BY <1>1, <1>2, <1>3, <1>4

LEMMA ArrivesLater ==
  ASSUME IInv, Arrives
  PROVE  clock' = clock + 1 /\ clock' \in Nat /\ clock <= clock' /\ clock' \in 1..clock'
BY DEF Arrives, IInv

(* What a call makes of a row. *)
LEMMA CallsAre ==
  ASSUME NEW call \in Calls
  PROVE  /\ call.op \in {"practice", "lessons", "hint", "grade", "quiz"}
         /\ call.op = "practice" => call.game \in Games /\ call.passed \in BOOLEAN
         /\ call.op = "lessons" => call.topics \in Briefings
         /\ call.op = "hint" => call.variant \in Variants
         /\ call.op = "grade" => call.variant \in Variants /\ call.stars \in 0..3
         /\ call.op = "quiz" => Accepted(call.round)
<1>1. CASE call \in [op : {"practice"}, game : Games, passed : BOOLEAN]
  BY <1>1
<1>2. CASE call \in [op : {"lessons"}, topics : Briefings]
  BY <1>2
<1>3. CASE call \in [op : {"hint"}, variant : Variants]
  BY <1>3
<1>4. CASE call \in [op : {"grade"}, variant : Variants, stars : Stars]
  BY <1>4, RoundAssumption
<1>5. CASE call \in [op : {"quiz"}, round : Rounds]
  BY <1>5, RoundAssumption
<1> QED
  BY <1>1, <1>2, <1>3, <1>4, <1>5 DEF Calls

LEMMA ChangedImproves ==
  ASSUME IInv, NEW call \in Calls, NEW t, NEW row \in TopicRow, NEW new \in Changed(call, t, row)
  PROVE  new \in TopicRow /\ Improves(row, new) /\ (call.op # "grade" => new.stars = row.stars)
<1>1. /\ row.lessonAt \in 0..clock /\ row.passedAt \in 0..clock /\ row.stars \in 0..3
      /\ row.saved \in BOOLEAN /\ clock \in 0..clock
  BY DEF TopicRow, IInv
<1>2. CASE call.op = "lessons"
  <2>1. PICK p \in BOOLEAN : new = Mark(row, p)
    <3>1. new \in {Mark(row, published /\ t \in HasCheckpoint) : published \in BOOLEAN}
      BY <1>2 DEF Changed
    <3> QED
      BY <3>1
  <2> DEFINE now(at) == IF at = None THEN clock ELSE at
  <2>2. new = [row EXCEPT !.saved = TRUE, !.lessonAt = now(@), !.passedAt = IF p THEN @ ELSE now(@)]
    BY <2>1 DEF Mark
  <2>3. PICK a, b : a = now(row.lessonAt) /\ b = IF p THEN row.passedAt ELSE now(row.passedAt)
    OBVIOUS
  <2>4. a \in 0..clock /\ b \in 0..clock
        /\ (row.lessonAt # None => a = row.lessonAt) /\ (row.passedAt # None => b = row.passedAt)
    BY <1>1, <2>3
  <2>5. new = [row EXCEPT !.saved = TRUE, !.lessonAt = a, !.passedAt = b]
    BY <2>2, <2>3
  <2> HIDE DEF now
  <2>6. /\ new \in TopicRow /\ new.stars = row.stars
        /\ new.lessonAt = a /\ new.passedAt = b
    BY <1>1, <2>4, <2>5 DEF TopicRow
  <2>7. row.stars <= row.stars
    BY <1>1
  <2> QED
    BY <2>4, <2>6, <2>7 DEF Improves
<1>3. CASE call.op = "grade"
  <2>1. PICK most : most = Max({row.stars, call.stars})
    OBVIOUS
  <2>2. most \in 0..3 /\ row.stars <= most
    <3>1. call.stars \in 0..3
      BY <1>3, CallsAre
    <3>2. most \in {row.stars, call.stars} /\ row.stars <= most
      <4>1. row.stars \in Int /\ call.stars \in Int
        BY <1>1, <3>1
      <4> QED
        BY <2>1, <4>1, MaxOfTwo
    <3> QED
      BY <1>1, <3>1, <3>2
  <2>3. PICK passed : passed = IF call.stars > 0 /\ row.passedAt = None THEN clock ELSE row.passedAt
    OBVIOUS
  <2>4. passed \in 0..clock /\ (row.passedAt # None => passed = row.passedAt)
    BY <1>1, <2>3
  <2>5. new = [row EXCEPT !.saved = TRUE, !.stars = most, !.passedAt = passed]
    <3>1. new = Scored(row, call.stars)
      BY <1>3 DEF Changed
    <3> QED
      BY <2>1, <2>3, <3>1 DEF Scored
  <2> QED
    BY <1>1, <1>3, <2>2, <2>4, <2>5 DEF TopicRow, Improves
<1>4. CASE call.op \notin {"lessons", "grade"}
  <2>1. new = [row EXCEPT !.saved = TRUE]
    BY <1>4 DEF Changed
  <2>2. /\ new \in TopicRow /\ new.stars = row.stars
        /\ new.lessonAt = row.lessonAt /\ new.passedAt = row.passedAt
    BY <1>1, <2>1 DEF TopicRow
  <2>3. row.stars <= row.stars
    BY <1>1
  <2> QED
    BY <2>2, <2>3 DEF Improves
<1> QED
  BY <1>2, <1>3, <1>4

(* A request that gets on: it is the same one still. *)
LEMMA BecomesInv ==
  ASSUME IInv, NEW r \in open, NEW s \in Request, s.at = r.at, Copies(s), Becomes(r, s)
  PROVE  IInv'
<1>1. UNCHANGED <<practice, checkpoints, topics, quizzes, clock>> /\ clock \in Nat
      /\ open' = (open \ {r}) \cup {s}
  BY DEF Becomes, IInv
<1>2. \A u \in open' : u \in Request'
  <2>1. clock' \in Nat /\ clock <= clock'
    BY <1>1
  <2>2. \A u \in open' : u \in Request
    BY <1>1 DEF IInv, OpenInv
  <2> QED
    BY <2>1, <2>2, TypesGrow
<1>5. \A u \in open' : Copies(u)
  BY <1>1 DEF IInv, OpenInv
<1>3. \A u \in open', q \in quizzes' : u.at # q.at
  BY <1>1 DEF IInv, OpenInv
<1>4. \A u, v \in open' : u.at = v.at => u = v
  BY <1>1 DEF IInv, OpenInv
<1>6. OpenInv'
  BY <1>2, <1>3, <1>4, <1>5 DEF OpenInv, Copies, Improves
<1> QED
  BY <1>1, <1>6, Later DEF IInv

LEMMA BeginInv ==
  ASSUME IInv, Begin
  PROVE  IInv'
<1>1. UNCHANGED <<practice, checkpoints, topics, quizzes>> /\ Arrives
  BY DEF Begin, tables
<1>2. PICK call \in Calls :
        open' = open \cup {[call |-> call, at |-> clock', searched |-> FALSE, found |-> {},
                            left |-> TopicsOf(call), read |-> {},
                            old |-> [t \in Topics |-> NoRow], new |-> [t \in Topics |-> NoRow]]}
  BY DEF Begin
<1>3. /\ clock' = clock + 1 /\ clock \in Nat /\ clock' \in 1..clock' /\ 1..clock \subseteq 1..clock'
      /\ clock' \in Nat /\ clock <= clock'
  BY <1>1, ArrivesLater, Later DEF IInv
<1>4. PICK left : left = TopicsOf(call)
  OBVIOUS
<1>5. left \in Seq(Topics) /\ (call.op = "grade" => \E t \in Topics : left \in Seq({t}))
  <2>1. CASE call.op = "lessons"
    BY <1>4, <2>1, CallsAre, TopicAssumption DEF TopicsOf
  <2>2. CASE call.op \in {"practice", "grade"}
    <3>1. PICK t \in Topics : left = <<t>>
      BY <1>4, <2>2, CallsAre, TopicAssumption DEF TopicsOf
    <3> QED
      BY <3>1
  <2>3. CASE call.op \notin {"lessons", "practice", "grade"}
    BY <1>4, <2>3 DEF TopicsOf
  <2> QED
    BY <2>1, <2>2, <2>3
<1>6. PICK row : row = [t \in Topics |-> NoRow]
  OBVIOUS
<1>7. row \in [Topics -> TopicRow']
  BY <1>3, <1>6 DEF NoRow, TopicRow, None
<1>8. PICK new : new = [call |-> call, at |-> clock', searched |-> FALSE, found |-> {},
                        left |-> left, read |-> {}, old |-> row, new |-> row]
  OBVIOUS
<1>9. open' = open \cup {new} /\ new.at = clock'
  BY <1>2, <1>4, <1>6, <1>8
<1>10. new \in Request' /\ Copies(new)'
  <2>1. new \in Request'
    BY <1>3, <1>5, <1>7, <1>8 DEF Request, Calls
  <2>2. new.read = {} /\ new.call = call /\ new.left = left
    BY <1>8
  <2>3. Copies(new)
    BY <1>5, <2>2 DEF Copies
  <2> QED
    BY <2>1, <2>3 DEF Copies, Improves
<1>11. \A r \in open' : r \in Request' /\ Copies(r)'
  <2>1. \A r \in open : r \in Request' /\ Copies(r)
    BY <1>3, TypesGrow DEF IInv, OpenInv
  <2> QED
    BY <1>9, <1>10, <2>1 DEF Copies, Improves
<1>12. \A r \in open : r.at # clock' /\ r.at \in 1..clock
  BY <1>3 DEF IInv, OpenInv, Request
<1>13. \A q \in quizzes : q.at # clock'
  BY <1>3 DEF IInv, RoundsInv
<1>14. \A r \in open', q \in quizzes' : r.at # q.at
  BY <1>1, <1>9, <1>13 DEF IInv, OpenInv
<1>15. \A r, s \in open' : r.at = s.at => r = s
  BY <1>9, <1>12 DEF IInv, OpenInv
<1>16. OpenInv'
  BY <1>11, <1>14, <1>15 DEF OpenInv
<1> QED
  BY <1>1, <1>3, <1>16, Later DEF IInv

LEMMA FindInv ==
  ASSUME IInv, NEW r \in open, Find(r)
  PROVE  IInv'
<1>1. PICK rows : /\ rows \in IF r.call.op = "practice" THEN PracticeAttempts(r.call.game)
                              ELSE {OpenAttempt(r.call.variant)}
                  /\ Becomes(r, [r EXCEPT !.searched = TRUE, !.found = rows])
  BY DEF Find
<1>2. rows \in SUBSET (PracticeRow \cup CheckpointRow)
  <2>1. \A s \in PracticeAttempts(r.call.game) : s \subseteq practice
    BY DEF PracticeAttempts
  <2>2. OpenAttempt(r.call.variant) \subseteq checkpoints
    BY DEF OpenAttempt
  <2> QED
    BY <1>1, <2>1, <2>2 DEF IInv, RowsInv
<1>3. PICK s : s = [r EXCEPT !.searched = TRUE, !.found = rows]
  OBVIOUS
<1>4. r \in Request /\ Copies(r)
  BY DEF IInv, OpenInv
<1>5. s \in Request /\ s.at = r.at /\ s.read = r.read /\ s.old = r.old /\ s.new = r.new
      /\ s.call = r.call /\ s.left = r.left
  BY <1>2, <1>3, <1>4 DEF Request
<1>6. Copies(s)
  BY <1>4, <1>5 DEF Copies
<1> QED
  BY <1>1, <1>3, <1>5, <1>6, BecomesInv

LEMMA ReadInv ==
  ASSUME IInv, NEW r \in open, Read(r)
  PROVE  IInv'
<1>1. PICK t : t = Head(r.left)
  OBVIOUS
<1>2. PICK copy : copy = IF t \notin r.read THEN topics[t] ELSE r.new[t]
  OBVIOUS
<1>3. /\ r.left # <<>>
      /\ \E row \in Changed(r.call, t, copy) :
           Becomes(r, [r EXCEPT !.left = Tail(@), !.read = @ \cup {t}, !.new[t] = row,
                                !.old[t] = IF t \notin r.read THEN copy ELSE @])
  BY <1>1, <1>2 DEF Read
<1>4. PICK row \in Changed(r.call, t, copy) :
        Becomes(r, [r EXCEPT !.left = Tail(@), !.read = @ \cup {t}, !.new[t] = row,
                             !.old[t] = IF t \notin r.read THEN copy ELSE @])
  BY <1>3
<1>5. r \in Request /\ Copies(r) /\ topics \in [Topics -> TopicRow]
  BY DEF IInv, OpenInv, RowsInv
<1>6. /\ r.call \in Calls /\ r.left \in Seq(Topics) /\ r.read \in SUBSET Topics
      /\ r.old \in [Topics -> TopicRow] /\ r.new \in [Topics -> TopicRow]
  BY <1>5 DEF Request
<1>7. PICK tail : tail = Tail(r.left)
  OBVIOUS
<1>8. t \in Topics /\ tail \in Seq(Topics)
  BY <1>1, <1>3, <1>6, <1>7, HeadTailProperties
<1>9. copy \in TopicRow
  BY <1>2, <1>5, <1>6, <1>8
<1>10. row \in TopicRow /\ Improves(copy, row) /\ (r.call.op # "grade" => row.stars = copy.stars)
  BY <1>4, <1>6, <1>9, ChangedImproves
<1>11. PICK was : was = IF t \notin r.read THEN copy ELSE r.old[t]
  OBVIOUS
<1>12. was \in TopicRow /\ Improves(was, row) /\ (r.call.op # "grade" => row.stars = was.stars)
  <2>1. CASE t \notin r.read
    BY <1>9, <1>10, <1>11, <2>1
  <2>2. CASE t \in r.read
    <3>1. was = r.old[t] /\ copy = r.new[t]
      BY <1>2, <1>11, <2>2
    <3>2. Improves(was, copy) /\ (r.call.op # "grade" => copy.stars = was.stars)
      BY <1>5, <2>2, <3>1 DEF Copies
    <3>3. was \in TopicRow
      BY <1>6, <1>8, <3>1
    <3>4. was.stars \in Int /\ copy.stars \in Int /\ row.stars \in Int
      BY <1>9, <1>10, <3>3 DEF TopicRow
    <3> QED
      BY <1>10, <3>2, <3>3, <3>4 DEF Improves
  <2> QED
    BY <2>1, <2>2
<1>13. PICK read, old, new : read = r.read \cup {t} /\ old = [r.old EXCEPT ![t] = was]
                             /\ new = [r.new EXCEPT ![t] = row]
  OBVIOUS
<1>14. /\ read \in SUBSET Topics /\ old \in [Topics -> TopicRow] /\ new \in [Topics -> TopicRow]
       /\ old[t] = was /\ new[t] = row
       /\ \A u \in r.read \ {t} : old[u] = r.old[u] /\ new[u] = r.new[u]
  BY <1>6, <1>8, <1>10, <1>12, <1>13
<1>15. PICK s : s = [r EXCEPT !.left = tail, !.read = read, !.new = new, !.old = old]
  OBVIOUS
<1>16. /\ s \in Request /\ s.at = r.at /\ s.call = r.call
       /\ s.left = tail /\ s.read = read /\ s.old = old /\ s.new = new
  BY <1>5, <1>8, <1>14, <1>15 DEF Request
<1>17. Becomes(r, s)
  <2>1. s = [r EXCEPT !.left = Tail(@), !.read = @ \cup {t}, !.new[t] = row,
                      !.old[t] = IF t \notin r.read THEN copy ELSE @]
    <3>1. old = [r.old EXCEPT ![t] = IF t \notin r.read THEN copy ELSE @]
      BY <1>6, <1>8, <1>11, <1>13
    <3> QED
      BY <1>5, <1>7, <1>13, <1>15, <3>1 DEF Request
  <2> QED
    BY <1>4, <2>1
<1>18. Copies(s)
  <2>1. ASSUME NEW u \in read
        PROVE  Improves(old[u], new[u]) /\ (r.call.op # "grade" => new[u].stars = old[u].stars)
    <3>1. CASE u = t
      BY <1>12, <1>14, <3>1
    <3>2. CASE u # t
      <4>1. u \in r.read \ {t}
        BY <1>13, <2>1, <3>2
      <4> QED
        BY <1>5, <1>14, <4>1 DEF Copies
    <3> QED
      BY <3>1, <3>2
  <2>2. ASSUME r.call.op = "grade" PROVE \E u \in Topics : read \subseteq {u} /\ tail \in Seq({u})
    <3>1. PICK u \in Topics : r.read \subseteq {u} /\ r.left \in Seq({u})
      BY <1>5, <2>2 DEF Copies
    <3>2. t \in {u} /\ tail \in Seq({u})
      BY <1>1, <1>3, <1>7, <3>1, HeadTailProperties
    <3> QED
      BY <1>13, <3>1, <3>2
  <2> QED
    BY <1>16, <2>1, <2>2 DEF Copies
<1> QED
  BY <1>16, <1>17, <1>18, BecomesInv

(* A request that ends leaves the others as they are. *)
LEMMA EndsInv ==
  ASSUME IInv, NEW r \in open, Ends(r)
  PROVE  /\ clock' = clock /\ clock \in Nat /\ open' \subseteq open
         /\ PracticeRow' = PracticeRow /\ TopicRow' = TopicRow /\ CheckpointRow' = CheckpointRow
         /\ UNCHANGED quizzes => RoundsInv' /\ OpenInv'
<1>1. clock' = clock /\ clock \in Nat /\ open' \subseteq open
  BY DEF Ends, IInv
<1>2. PracticeRow' = PracticeRow /\ TopicRow' = TopicRow /\ CheckpointRow' = CheckpointRow
  BY <1>1 DEF PracticeRow, TopicRow, CheckpointRow
<1>3. \A s \in open' : s \in Request' /\ Copies(s)
  <2>1. clock' \in Nat /\ clock <= clock'
    BY <1>1
  <2>2. \A s \in open' : s \in Request /\ Copies(s)
    BY <1>1 DEF IInv, OpenInv
  <2> QED
    BY <2>1, <2>2, TypesGrow
<1>4. ASSUME UNCHANGED quizzes PROVE RoundsInv' /\ OpenInv'
  <2>1. \A s \in open', q \in quizzes' : s.at # q.at
    BY <1>1, <1>4 DEF IInv, OpenInv
  <2>2. \A s, u \in open' : s.at = u.at => s = u
    BY <1>1 DEF IInv, OpenInv
  <2>3. OpenInv'
    BY <1>3, <2>1, <2>2 DEF OpenInv, Copies, Improves
  <2> QED
    BY <1>1, <1>4, <2>3 DEF IInv, RoundsInv
<1> QED
  BY <1>1, <1>2, <1>4

LEMMA RefuseInv ==
  ASSUME IInv, NEW r \in open, Refuse(r)
  PROVE  IInv'
<1>1. Ends(r) /\ UNCHANGED <<practice, checkpoints, topics, quizzes>>
  BY DEF Refuse, tables
<1>2. clock' \in Nat /\ clock <= clock' /\ RoundsInv' /\ OpenInv'
  BY <1>1, EndsInv
<1> QED
  BY <1>1, <1>2, Later DEF IInv

LEMMA CommitInv ==
  ASSUME IInv, NEW r \in open, Commit(r)
  PROVE  topics' \in [Topics -> TopicRow]
<1>1. topics' = [t \in Topics |->
        IF t \in r.read THEN Merged(topics[t], r.old[t], r.new[t]) ELSE topics[t]]
  BY DEF Commit
<1>2. topics \in [Topics -> TopicRow] /\ r.old \in [Topics -> TopicRow] /\ r.new \in [Topics -> TopicRow]
  BY DEF IInv, RowsInv, OpenInv, Request
<1>3. ASSUME NEW row \in TopicRow, NEW old \in TopicRow, NEW new \in TopicRow
      PROVE  Merged(row, old, new) \in TopicRow
  BY DEF Merged, TopicRow
<1> QED
  BY <1>1, <1>2, <1>3

LEMMA RecordPracticeInv ==
  ASSUME IInv, NEW r \in open, RecordPractice(r)
  PROVE  IInv'
<1>1. PICK call : call = r.call
  OBVIOUS
<1>2. /\ call.op = "practice" /\ Commit(r) /\ Ends(r) /\ UNCHANGED <<checkpoints, quizzes>>
      /\ practice' \subseteq practice \cup {Practised(p, call.passed) : p \in practice}
                             \cup {[game |-> call.game, at |-> r.at, passed |-> call.passed]}
  BY <1>1 DEF RecordPractice, Commit
<1>3. call.game \in Games /\ call.passed \in BOOLEAN /\ r.at \in 1..clock
  <2>1. call \in Calls /\ r.at \in 1..clock
    BY <1>1 DEF IInv, OpenInv, Request
  <2> QED
    BY <1>2, <2>1, CallsAre
<1>4. practice' \subseteq PracticeRow
  <2>1. ASSUME NEW p \in practice PROVE p \in PracticeRow /\ Practised(p, call.passed) \in PracticeRow
    <3>1. p \in PracticeRow
      BY DEF IInv, RowsInv
    <3>2. PICK either \in BOOLEAN : either = (p.passed \/ call.passed)
      BY <1>3, <3>1 DEF PracticeRow
    <3>3. Practised(p, call.passed) = [p EXCEPT !.passed = either]
      BY <3>2 DEF Practised
    <3> QED
      BY <3>1, <3>3 DEF PracticeRow
  <2>2. [game |-> call.game, at |-> r.at, passed |-> call.passed] \in PracticeRow
    BY <1>3 DEF PracticeRow
  <2> QED
    BY <1>2, <2>1, <2>2
<1> QED
  BY <1>2, <1>4, EndsInv, CommitInv DEF IInv, RowsInv

LEMMA RecordLessonsInv ==
  ASSUME IInv, NEW r \in open, RecordLessons(r)
  PROVE  IInv'
<1>1. Commit(r) /\ Ends(r) /\ UNCHANGED <<practice, checkpoints, quizzes>>
  BY DEF RecordLessons, Commit
<1> QED
  BY <1>1, EndsInv, CommitInv DEF IInv, RowsInv

LEMMA RecordHintInv ==
  ASSUME IInv, NEW r \in open, RecordHint(r)
  PROVE  IInv'
<1>1. /\ r.call.op = "hint" /\ Commit(r) /\ Ends(r) /\ UNCHANGED <<practice, quizzes>>
      /\ checkpoints' \subseteq checkpoints \cup {NewRow(r.call.variant, r.at, FALSE)}
  BY DEF RecordHint, Commit
<1>2. r.call \in Calls /\ r.at \in 1..clock
  BY DEF IInv, OpenInv, Request
<1>3. NewRow(r.call.variant, r.at, FALSE) \in CheckpointRow
  BY <1>1, <1>2, CallsAre DEF NewRow, CheckpointRow
<1>4. checkpoints' \subseteq CheckpointRow
  BY <1>1, <1>3 DEF IInv, RowsInv
<1> QED
  BY <1>1, <1>4, EndsInv, CommitInv DEF IInv, RowsInv

LEMMA RecordCheckpointInv ==
  ASSUME IInv, NEW r \in open, RecordCheckpoint(r)
  PROVE  IInv'
<1>1. /\ r.call.op = "grade" /\ Commit(r) /\ Ends(r) /\ UNCHANGED <<practice, quizzes>>
      /\ checkpoints' \subseteq checkpoints \cup {[c EXCEPT !.graded = TRUE] : c \in checkpoints}
                                \cup {NewRow(r.call.variant, r.at, TRUE)}
  BY DEF RecordCheckpoint, Commit
<1>2. r.call \in Calls /\ r.at \in 1..clock
  BY DEF IInv, OpenInv, Request
<1>3. NewRow(r.call.variant, r.at, TRUE) \in CheckpointRow
  BY <1>1, <1>2, CallsAre DEF NewRow, CheckpointRow
<1>4. ASSUME NEW c \in checkpoints PROVE c \in CheckpointRow /\ [c EXCEPT !.graded = TRUE] \in CheckpointRow
  <2>1. c \in CheckpointRow
    BY DEF IInv, RowsInv
  <2> QED
    BY <2>1 DEF CheckpointRow
<1>5. checkpoints' \subseteq CheckpointRow
  BY <1>1, <1>3, <1>4
<1> QED
  BY <1>1, <1>5, EndsInv, CommitInv DEF IInv, RowsInv

LEMMA RecordRoundInv ==
  ASSUME IInv, NEW r \in open, RecordRound(r)
  PROVE  IInv'
<1>1. PICK new : new = Dated(r.call.round, r.at)
  OBVIOUS
<1>2. /\ r.call.op = "quiz" /\ quizzes' = quizzes \cup {new}
      /\ Commit(r) /\ Ends(r) /\ UNCHANGED <<practice, checkpoints>>
  BY <1>1 DEF RecordRound, Commit
<1>3. Accepted(new) /\ new.at = r.at /\ r.at \in 1..clock
  <2>1. r.call \in Calls /\ r.at \in 1..clock
    BY DEF IInv, OpenInv, Request
  <2>2. Accepted(r.call.round)
    BY <1>2, <2>1, CallsAre
  <2> QED
    BY <1>1, <2>1, <2>2 DEF Accepted, Dated
<1>4. clock' = clock /\ clock \in Nat /\ open' = open \ {r}
  BY <1>2 DEF Ends, IInv
<1>5. RoundsInv'
  <2>1. IsFiniteSet(quizzes')
    BY <1>2, FS_AddElement DEF IInv, RoundsInv
  <2>2. \A q \in quizzes' : Accepted(q) /\ q.at \in 1..clock'
    BY <1>2, <1>3, <1>4 DEF IInv, RoundsInv
  <2> QED
    BY <2>1, <2>2 DEF RoundsInv, Accepted
<1>6. OpenInv'
  <2>1. \A s \in open' : s \in open /\ s # r /\ s.at # r.at
    BY <1>4 DEF IInv, OpenInv
  <2>2. \A s \in open', q \in quizzes' : s.at # q.at
    BY <1>2, <1>3, <2>1 DEF IInv, OpenInv
  <2>3. \A s \in open' : s \in Request' /\ Copies(s)
    <3>1. clock' \in Nat /\ clock <= clock'
      BY <1>4
    <3>2. \A s \in open' : s \in Request /\ Copies(s)
      BY <2>1 DEF IInv, OpenInv
    <3> QED
      BY <3>1, <3>2, TypesGrow
  <2>4. \A s, u \in open' : s.at = u.at => s = u
    BY <2>1 DEF IInv, OpenInv
  <2> QED
    BY <2>2, <2>3, <2>4 DEF OpenInv, Copies, Improves
<1>7. RowsInv'
  BY <1>2, EndsInv, CommitInv DEF IInv, RowsInv
<1> QED
  BY <1>4, <1>5, <1>6, <1>7 DEF IInv

LEMMA ResetInv ==
  ASSUME IInv, Reset
  PROVE  IInv'
<1>1. UNCHANGED <<quizzes, clock, open, sent>> /\ clock \in Nat
  BY DEF Reset, IInv
<1>2. RoundsInv' /\ OpenInv'
  BY <1>1, Later DEF IInv
<1>3. NoRow \in TopicRow'
  BY <1>1 DEF NoRow, None, TopicRow
<1>4. practice' = {} /\ checkpoints' = {} /\ topics' \in [Topics -> TopicRow']
  BY <1>3 DEF Reset
<1> QED
  BY <1>1, <1>2, <1>4 DEF IInv, RowsInv

LEMMA SleepInv ==
  ASSUME IInv, Sleep
  PROVE  IInv'
<1>1. UNCHANGED <<practice, checkpoints, topics, quizzes, open>>
      /\ clock' \in Nat /\ clock' > clock /\ clock \in Nat
  BY TimeAssumption DEF Sleep, IInv
<1>2. clock <= clock'
  BY <1>1
<1> QED
  BY <1>1, <1>2, Later DEF IInv

LEMMA InitInv ==
  ASSUME Init
  PROVE  IInv
<1>1. quizzes \in History /\ clock = Max({None} \cup {q.at : q \in quizzes}) /\ open = {}
      /\ practice = {} /\ checkpoints = {} /\ topics = [t \in Topics |-> NoRow]
  BY DEF Init
<1> DEFINE A == {q.at : q \in quizzes}
<1>2. IsFiniteSet(quizzes) /\ \A q \in quizzes : Accepted(q) /\ q.at \in Nat \ {None}
  BY <1>1, HistoryAssumption
<1>3. IsFiniteSet({None} \cup A) /\ {None} \cup A \in SUBSET Int
  <2>1. IsFiniteSet(A)
    <3> DEFINE f == [q \in quizzes |-> q.at]
    <3>1. f \in Surjection(quizzes, A)
      BY DEF Surjection
    <3> QED
      BY <1>2, <3>1, FS_Surjection
  <2>2. IsFiniteSet(A \cup {None})
    BY <2>1, FS_AddElement
  <2>3. A \cup {None} = {None} \cup A
    OBVIOUS
  <2> QED
    BY <1>2, <2>2, <2>3 DEF None
<1>4. clock \in {None} \cup A /\ \A x \in {None} \cup A : x <= clock
  <2> HIDE DEF A
  <2> QED
    BY <1>1, <1>3, FiniteMax DEF A
<1>5. clock \in Nat /\ \A q \in quizzes : q.at \in 1..clock
  BY <1>2, <1>4 DEF None
<1>6. NoRow \in TopicRow
  BY <1>5 DEF None, NoRow, TopicRow
<1>7. RowsInv
  BY <1>1, <1>6 DEF RowsInv
<1>8. RoundsInv /\ OpenInv
  BY <1>1, <1>2, <1>5 DEF RoundsInv, OpenInv
<1> QED
  BY <1>5, <1>7, <1>8 DEF IInv

LEMMA Inductive ==
  ASSUME IInv, [Next]_vars
  PROVE  IInv'
<1>1. CASE UNCHANGED vars
  BY <1>1, Later DEF IInv, vars
<1>2. ASSUME NEW r \in open, Find(r) \/ Read(r) \/ Refuse(r) PROVE IInv'
  BY <1>2, FindInv, ReadInv, RefuseInv
<1>3. ASSUME NEW r \in open, RecordPractice(r) \/ RecordLessons(r) \/ RecordHint(r) PROVE IInv'
  BY <1>3, RecordPracticeInv, RecordLessonsInv, RecordHintInv
<1>4. ASSUME NEW r \in open, RecordCheckpoint(r) \/ RecordRound(r) PROVE IInv'
  BY <1>4, RecordCheckpointInv, RecordRoundInv
<1>5. CASE Begin \/ Reset \/ Sleep
  BY <1>5, BeginInv, ResetInv, SleepInv
<1> QED
  BY <1>1, <1>2, <1>3, <1>4, <1>5 DEF Next

THEOREM RowsAreDated == Spec => []IInv
<1>1. Init => IInv
  BY InitInv
<1>2. IInv /\ [Next]_vars => IInv'
  BY Inductive
<1> QED
  BY <1>1, <1>2, PTL DEF Spec

-----------------------------------------------------------------------------
(* Streaks.                                                                *)

LEMMA StampsArePast ==
  ASSUME IInv
  PROVE  ActivityStamps \subseteq 0..clock
<1>1. \A p \in practice : p.at \in 0..clock
  BY DEF IInv, RowsInv, PracticeRow
<1>2. \A c \in checkpoints : c.at \in 0..clock
  BY DEF IInv, RowsInv, CheckpointRow
<1>3. \A q \in quizzes : q.at \in 0..clock
  BY DEF IInv, RoundsInv
<1>4. \A t \in Topics : topics[t].lessonAt \in 0..clock
  BY DEF IInv, RowsInv, TopicRow
<1> QED
  BY <1>1, <1>2, <1>3, <1>4 DEF ActivityStamps

(* Every day with activity lies between the first moment's and now's. *)
LEMMA DaysInRange ==
  ASSUME IInv, NEW z \in Int
  PROVE  /\ LocalDay(1, z) \in Int /\ LocalDay(clock, z) \in Int
         /\ ActivityDays(z) \subseteq LocalDay(1, z)..LocalDay(clock, z)
         /\ IsFiniteSet(ActivityDays(z)) /\ ActivityDays(z) \in SUBSET Int
<1>1. clock \in Nat /\ 1 \in Int /\ clock \in Int
  BY DEF IInv
<1>2. LocalDay(1, z) \in Int /\ LocalDay(clock, z) \in Int
  BY <1>1, WithinTheDay
<1>3. ActivityStamps \subseteq 0..clock
  BY StampsArePast
<1>4. ASSUME NEW at \in ActivityStamps \ {None}
      PROVE  LocalDay(at, z) \in LocalDay(1, z)..LocalDay(clock, z)
  <2>1. at \in Int /\ 1 <= at /\ at <= clock
    BY <1>1, <1>3 DEF None
  <2>2. LocalDay(at, z) \in Int
    BY <2>1, WithinTheDay
  <2>3. LocalDay(1, z) <= LocalDay(at, z) /\ LocalDay(at, z) <= LocalDay(clock, z)
    BY <1>1, <2>1, DaysInOrder
  <2> QED
    BY <1>2, <2>2, <2>3
<1>5. ActivityDays(z) \subseteq LocalDay(1, z)..LocalDay(clock, z)
  BY <1>4 DEF ActivityDays
<1>6. IsFiniteSet(LocalDay(1, z)..LocalDay(clock, z))
  BY <1>2, FS_Interval
<1> QED
  BY <1>2, <1>5, <1>6, FS_Subset

LEMMA StreakInv ==
  ASSUME IInv
  PROVE  StreakIsTheDays
<1> SUFFICES ASSUME NEW z \in Zones
             PROVE  LET days  == ActivityDays(z)
                        today == LocalDay(clock, z)
                        s     == Streak(days, today)
                        thirds == {d \in days : {d - 1, d - 2} \subseteq days}
                    IN  /\ s.best = Max(Lengths(days, days))
                        /\ s.current = Max(Lengths(days, days \cap {today, today - 1}))
                        /\ s.active <=> today \in days
                        /\ StreakReached(z, 3) = IF thirds = {} THEN None ELSE Min(thirds) * PerDay - z
  BY DEF StreakIsTheDays, Lengths
<1> DEFINE days == ActivityDays(z)  today == LocalDay(clock, z)  lo == LocalDay(1, z)
<1>1. z \in Int
  BY TimeAssumption
<1>2. /\ lo \in Int /\ today \in Int /\ days \in SUBSET Int /\ IsFiniteSet(days)
      /\ \A x \in days : lo <= x /\ x <= today
  BY <1>1, DaysInRange
<1> HIDE DEF days, today, lo
<1>3. Streak(days, today).best = Max(Lengths(days, days))
  BY <1>2, BestIsLongest DEF Streak
<1>4. Streak(days, today).current = Max(Lengths(days, days \cap {today, today - 1}))
  BY <1>2, CurrentIsLongest DEF Streak
<1>5. Streak(days, today).active <=> today \in days
  <2>1. ASSUME days # {} PROVE Max(days) = today <=> today \in days
    <3>1. Max(days) \in days /\ \A x \in days : x <= Max(days)
      BY <1>2, <2>1, MaxIs
    <3>2. today \in days => Max(days) = today
      BY <1>2, ThatIsMax
    <3> QED
      BY <3>1, <3>2
  <2> QED
    BY <2>1 DEF Streak
<1>6. StreakReached(z, 3) = LET thirds == {d \in days : {d - 1, d - 2} \subseteq days} IN
                            IF thirds = {} THEN None ELSE Min(thirds) * PerDay - z
  BY <1>2, ThirdDays DEF StreakReached, days
<1> QED
  BY <1>3, <1>4, <1>5, <1>6 DEF days, today

(* The streak is what its name says, in every time zone: the best one is the longest run of *)
(* days that all have activity; the current one is the run up to today or yesterday; and    *)
(* the three-day badge is dated by the third day of the first run of three.                 *)
THEOREM StreaksAreRuns == Spec => []StreakIsTheDays
<1>1. IInv => StreakIsTheDays
  BY StreakInv
<1> QED
  BY <1>1, RowsAreDated, PTL

-----------------------------------------------------------------------------
(* Badges.                                                                 *)

(* What a step that is not a reset keeps of the rows. *)
Grows ==
  /\ \A p \in practice : \E q \in practice' :
       q.game = p.game /\ q.at = p.at /\ (p.passed => q.passed)
  /\ \A c \in checkpoints : c.graded => \E d \in checkpoints' : d.graded /\ d.at = c.at
  /\ quizzes \subseteq quizzes'
  /\ \A t \in Topics :
       /\ topics[t].lessonAt # None => topics'[t].lessonAt # None
       /\ topics[t].passedAt # None => topics'[t].passedAt # None

(* Stars fall in one topic at the most, and by two at the most. *)
StarsKeep ==
  /\ \A t \in Topics : topics[t].stars <= topics'[t].stars + 2
  /\ \A t, u \in Topics :
       topics'[t].stars < topics[t].stars /\ topics'[u].stars < topics[u].stars => t = u

(* ... and what a stale write does not. *)
TopicsImprove == \A t \in Topics : Improves(topics[t], topics'[t])

(* The row that a commit leaves. *)
LEMMA MergedRow ==
  ASSUME NEW row \in TopicRow, NEW old \in TopicRow, NEW new \in TopicRow, Improves(old, new)
  PROVE  LET m == Merged(row, old, new) IN
         /\ row.lessonAt # None => m.lessonAt # None
         /\ row.passedAt # None => m.passedAt # None
         /\ row.stars <= m.stars + 2
         /\ new.stars = old.stars => m.stars = row.stars
         /\ row = old => Improves(row, m)
<1> DEFINE m == Merged(row, old, new)
<1>1. /\ m.lessonAt = IF new.lessonAt # old.lessonAt THEN new.lessonAt ELSE row.lessonAt
      /\ m.passedAt = IF new.passedAt # old.passedAt THEN new.passedAt ELSE row.passedAt
      /\ m.stars = IF new.stars # old.stars THEN new.stars ELSE row.stars
  BY DEF Merged
<1>2. row.stars \in 0..3 /\ old.stars \in 0..3 /\ new.stars \in 0..3
  BY DEF TopicRow
<1> HIDE DEF m
<1>3. row.stars <= m.stars + 2 /\ (row = old => row.stars <= m.stars)
  BY <1>1, <1>2 DEF Improves
<1>4. /\ row.lessonAt # None => m.lessonAt # None
      /\ row.passedAt # None => m.passedAt # None
      /\ row = old /\ row.lessonAt # None => m.lessonAt = row.lessonAt
      /\ row = old /\ row.passedAt # None => m.passedAt = row.passedAt
  BY <1>1 DEF Improves
<1>5. row = old => Improves(row, m)
  BY <1>3, <1>4 DEF Improves
<1> QED
  BY <1>1, <1>3, <1>4, <1>5 DEF m

LEMMA RowsImprove ==
  ASSUME IInv, NEW t \in Topics
  PROVE  topics[t].stars \in 0..3 /\ Improves(topics[t], topics[t])
<1>1. topics[t].stars \in 0..3
  BY DEF IInv, RowsInv, TopicRow
<1> QED
  BY <1>1 DEF Improves

LEMMA CommitGrows ==
  ASSUME IInv, NEW r \in open, Commit(r)
  PROVE  /\ \A t \in Topics : topics[t].lessonAt # None => topics'[t].lessonAt # None
         /\ \A t \in Topics : topics[t].passedAt # None => topics'[t].passedAt # None
         /\ StarsKeep
         /\ StaleWrite \/ TopicsImprove
<1>1. topics' = [t \in Topics |->
        IF t \in r.read THEN Merged(topics[t], r.old[t], r.new[t]) ELSE topics[t]]
  BY DEF Commit
<1>2. /\ topics \in [Topics -> TopicRow] /\ r.read \subseteq Topics /\ Copies(r)
      /\ r.old \in [Topics -> TopicRow] /\ r.new \in [Topics -> TopicRow]
  BY DEF IInv, RowsInv, OpenInv, Request
<1>3. ASSUME NEW t \in Topics
      PROVE  /\ topics[t].lessonAt # None => topics'[t].lessonAt # None
             /\ topics[t].passedAt # None => topics'[t].passedAt # None
             /\ topics[t].stars <= topics'[t].stars + 2
             /\ topics[t] = r.old[t] \/ t \notin r.read => Improves(topics[t], topics'[t])
             /\ t \notin r.read \/ r.call.op # "grade" => topics'[t].stars = topics[t].stars
  <2>1. CASE t \in r.read
    <3>1. PICK row, old, new : row = topics[t] /\ old = r.old[t] /\ new = r.new[t]
      OBVIOUS
    <3>2. row \in TopicRow /\ old \in TopicRow /\ new \in TopicRow /\ Improves(old, new)
      BY <1>2, <2>1, <3>1 DEF Copies
    <3>3. topics'[t] = Merged(row, old, new)
      BY <1>1, <2>1, <3>1
    <3>4. r.call.op # "grade" => new.stars = old.stars
      BY <1>2, <2>1, <3>1 DEF Copies
    <3> QED
      BY <2>1, <3>1, <3>2, <3>3, <3>4, MergedRow
  <2>2. CASE t \notin r.read
    <3>1. topics'[t] = topics[t]
      BY <1>1, <2>2
    <3>2. topics[t].stars \in 0..3 /\ Improves(topics[t], topics[t])
      BY RowsImprove
    <3> QED
      BY <3>1, <3>2
  <2> QED
    BY <2>1, <2>2
<1>4. ASSUME NEW t \in Topics, NEW u \in Topics,
             topics'[t].stars < topics[t].stars, topics'[u].stars < topics[u].stars
      PROVE  t = u
  <2>1. topics[t].stars \in Int /\ topics[u].stars \in Int
    BY RowsImprove
  <2>2. t \in r.read /\ u \in r.read /\ r.call.op = "grade"
    BY <1>3, <1>4, <2>1
  <2>3. PICK v \in Topics : r.read \subseteq {v}
    BY <1>2, <2>2 DEF Copies
  <2> QED
    BY <2>2, <2>3
<1>5. StarsKeep
  BY <1>3, <1>4 DEF StarsKeep
<1>6. ASSUME ~StaleWrite, NEW t \in Topics PROVE Improves(topics[t], topics'[t])
  <2>1. r \in open \ open'
    BY DEF Commit, Ends
  <2>2. t \in r.read => r.old[t] = topics[t] \/ topics'[t] = topics[t]
    BY <1>6, <2>1 DEF StaleWrite
  <2> QED
    BY <1>3, <2>2, RowsImprove
<1> QED
  BY <1>3, <1>5, <1>6 DEF TopicsImprove

LEMMA RecordPracticeGrows ==
  ASSUME IInv, NEW r \in open, RecordPractice(r)
  PROVE  Grows
<1>1. PICK call, found : call = r.call /\ found = r.found
  OBVIOUS
<1>2. /\ Commit(r) /\ UNCHANGED <<checkpoints, quizzes>>
      /\ {IF IsRow(p, found) THEN Practised(p, call.passed) ELSE p : p \in practice} \subseteq practice'
  BY <1>1 DEF RecordPractice
<1>3. ASSUME NEW p \in practice
      PROVE  \E q \in practice' : q.game = p.game /\ q.at = p.at /\ (p.passed => q.passed)
  <2>1. p \in PracticeRow
    BY DEF IInv, RowsInv
  <2>2. PICK q : q = IF IsRow(p, found) THEN Practised(p, call.passed) ELSE p
    OBVIOUS
  <2>3. q \in practice'
    BY <1>2, <2>2
  <2>4. q.game = p.game /\ q.at = p.at /\ (p.passed => q.passed)
    <3>1. PICK either : either = (p.passed \/ call.passed)
      OBVIOUS
    <3>2. q = [p EXCEPT !.passed = either] \/ q = p
      BY <2>2, <3>1 DEF Practised
    <3> QED
      BY <2>1, <3>1, <3>2 DEF PracticeRow
  <2> QED
    BY <2>3, <2>4
<1> QED
  BY <1>2, <1>3, CommitGrows DEF Grows

LEMMA RecordCheckpointGrows ==
  ASSUME IInv, NEW r \in open, RecordCheckpoint(r)
  PROVE  Grows
<1>1. PICK found : found = r.found
  OBVIOUS
<1>2. /\ Commit(r) /\ UNCHANGED <<practice, quizzes>>
      /\ {IF IsRow(c, found) THEN [c EXCEPT !.graded = TRUE] ELSE c : c \in checkpoints} \subseteq checkpoints'
  BY <1>1 DEF RecordCheckpoint
<1>3. ASSUME NEW c \in checkpoints, c.graded PROVE \E d \in checkpoints' : d.graded /\ d.at = c.at
  <2>1. c \in CheckpointRow
    BY DEF IInv, RowsInv
  <2>2. PICK d : d = IF IsRow(c, found) THEN [c EXCEPT !.graded = TRUE] ELSE c
    OBVIOUS
  <2>3. d \in checkpoints'
    BY <1>2, <2>2
  <2>4. d.graded /\ d.at = c.at
    BY <1>3, <2>1, <2>2 DEF CheckpointRow
  <2> QED
    BY <2>3, <2>4
<1> QED
  BY <1>2, <1>3, CommitGrows DEF Grows

LEMMA StepGrows ==
  ASSUME IInv, Next, ~Reset
  PROVE  Grows /\ StarsKeep /\ (StaleWrite \/ TopicsImprove)
<1>1. ASSUME UNCHANGED topics PROVE StarsKeep /\ TopicsImprove
  <2>1. \A t \in Topics : ~(topics[t].stars < topics[t].stars) /\ topics[t].stars <= topics[t].stars + 2
    BY RowsImprove
  <2> QED
    BY <1>1, <2>1, RowsImprove DEF StarsKeep, TopicsImprove
<1>2. ASSUME UNCHANGED <<practice, topics>>, checkpoints \subseteq checkpoints', quizzes \subseteq quizzes'
      PROVE  Grows
  BY <1>2 DEF Grows
<1>3. ASSUME NEW r \in open, Commit(r), practice \subseteq practice', checkpoints \subseteq checkpoints',
             quizzes \subseteq quizzes'
      PROVE  Grows
  BY <1>3, CommitGrows DEF Grows
<1>4. ASSUME NEW r \in open, Find(r) \/ Read(r) \/ Refuse(r) PROVE Grows /\ UNCHANGED topics
  <2>1. UNCHANGED <<practice, checkpoints, topics, quizzes>>
    BY <1>4 DEF Find, Read, Refuse, Becomes, tables
  <2> QED
    BY <1>2, <2>1
<1>5. ASSUME NEW r \in open, RecordPractice(r) PROVE Grows /\ Commit(r)
  BY <1>5, RecordPracticeGrows DEF RecordPractice
<1>6. ASSUME NEW r \in open, RecordLessons(r) PROVE Grows /\ Commit(r)
  BY <1>3, <1>6 DEF RecordLessons
<1>7. ASSUME NEW r \in open, RecordHint(r) PROVE Grows /\ Commit(r)
  BY <1>3, <1>7 DEF RecordHint
<1>8. ASSUME NEW r \in open, RecordCheckpoint(r) PROVE Grows /\ Commit(r)
  BY <1>8, RecordCheckpointGrows DEF RecordCheckpoint
<1>9. ASSUME NEW r \in open, RecordRound(r) PROVE Grows /\ Commit(r)
  BY <1>3, <1>9 DEF RecordRound
<1>10. CASE Begin \/ Sleep
  <2>1. UNCHANGED <<practice, checkpoints, topics, quizzes>>
    BY <1>10 DEF Begin, Sleep, tables
  <2> QED
    BY <1>1, <1>2, <2>1
<1> QED
  BY <1>1, <1>4, <1>5, <1>6, <1>7, <1>8, <1>9, <1>10, CommitGrows DEF Next

(* Of two times of a badge: the first is kept, or an earlier one replaces it; or at least *)
(* it is not lost.                                                                         *)
Stays(now, next)   == now # None => next # None /\ ~(next > now)
Remains(now, next) == now # None => next # None
Times == Nat \ {None}

LEMMA FirstStays ==
  ASSUME NEW A \in SUBSET Times, NEW B \in SUBSET Times, A \subseteq B
  PROVE  Stays(First(A), First(B))
<1>1. CASE A = {}
  BY <1>1 DEF First, Stays
<1>2. CASE A # {}
  <2>1. A \in SUBSET Int /\ B \in SUBSET Int /\ (\A x \in A : 0 <= x) /\ (\A x \in B : 0 <= x)
    BY DEF Times
  <2>2. Min(A) \in A
    BY <1>2, <2>1, MinIs
  <2>3. Min(B) \in B /\ \A x \in B : Min(B) <= x
    <3>1. B # {}
      BY <1>2
    <3> QED
      BY <2>1, <3>1, MinIs
  <2>4. Min(B) # None /\ ~(Min(B) > Min(A))
    <3>1. PICK a, b : a = Min(A) /\ b = Min(B)
      OBVIOUS
    <3>2. b <= a /\ a \in Int /\ b \in Int /\ b # None
      BY <2>1, <2>2, <2>3, <3>1 DEF Times
    <3> QED
      BY <3>1, <3>2
  <2> QED
    BY <1>2, <2>1, <2>4 DEF First, Stays
<1> QED
  BY <1>1, <1>2

LEMMA FirstRemains ==
  ASSUME NEW A, NEW B \in SUBSET Times, A # {} => B # {}
  PROVE  Remains(First(A), First(B))
<1>1. CASE B = {}
  BY <1>1 DEF First, Remains
<1>2. CASE B # {}
  <2>1. B \in SUBSET Int /\ \A x \in B : 0 <= x
    BY DEF Times
  <2>2. Min(B) \in B
    BY <1>2, <2>1, MinIs
  <2>3. Min(B) # None
    BY <2>2 DEF Times
  <2> QED
    BY <1>2, <2>3 DEF First, Remains
<1> QED
  BY <1>1, <1>2

(* The times at which n or more of the events of f have happened. *)
Reached(f, n) == {x \in Range(f) : Cardinality({i \in DOMAIN f : f[i] <= x}) >= n}

(* Some subset of the events has n of them: the latest time of these is such a time. *)
LEMMA ReachedBy ==
  ASSUME NEW f, IsFiniteSet(DOMAIN f), \A i \in DOMAIN f : f[i] \in Times,
         NEW J \in SUBSET DOMAIN f, NEW n \in Nat \ {0}, Cardinality(J) >= n
  PROVE  \E x \in Reached(f, n) : \E j \in J : x = f[j]
<1> DEFINE V == {f[j] : j \in J}
<1>1. IsFiniteSet(J) /\ Cardinality(J) \in Nat
  BY FS_Subset, FS_CardinalityType
<1>2. J # {}
  BY FS_EmptySet, <1>1
<1>3. IsFiniteSet(V) /\ V \in SUBSET Int /\ V # {}
  <2> DEFINE h == [j \in J |-> f[j]]
  <2>1. h \in Surjection(J, V)
    BY DEF Surjection
  <2>2. IsFiniteSet(V)
    BY <1>1, <2>1, FS_Surjection
  <2>3. V \in SUBSET Int
    BY DEF Times
  <2>4. V # {}
    BY <1>2
  <2> QED
    BY <2>2, <2>3, <2>4
<1>4. Max(V) \in V /\ \A x \in V : x <= Max(V)
  <2> HIDE DEF V
  <2> QED
    BY <1>3, FiniteMax
<1>5. PICK j \in J : Max(V) = f[j]
  BY <1>4
<1>6. \A i \in J : f[i] <= f[j]
  BY <1>4, <1>5
<1> DEFINE K == {i \in DOMAIN f : f[i] <= f[j]}
<1>7. J \subseteq K /\ K \subseteq DOMAIN f
  BY <1>6
<1>8. Cardinality(K) \in Nat /\ Cardinality(J) <= Cardinality(K)
  <2> HIDE DEF K
  <2> QED
    BY <1>7, FS_Subset, FS_CardinalityType
<1>9. Cardinality(K) >= n
  <2> HIDE DEF K
  <2> QED
    BY <1>1, <1>8
<1>10. f[j] \in Reached(f, n)
  BY <1>9 DEF Reached, Range
<1> QED
  BY <1>10

LEMMA NthIs ==
  ASSUME NEW f, IsFiniteSet(DOMAIN f), \A i \in DOMAIN f : f[i] \in Times,
         NEW n \in Nat \ {0}, Cardinality(DOMAIN f) >= n
  PROVE  /\ Nth(f, n) \in Reached(f, n)
         /\ \A x \in Reached(f, n) : Nth(f, n) <= x
         /\ Reached(f, n) \subseteq Times
<1>1. Reached(f, n) # {}
  BY ReachedBy
<1>2. Reached(f, n) \in SUBSET Int /\ Reached(f, n) \subseteq Times /\ \A x \in Reached(f, n) : 0 <= x
  BY DEF Reached, Range, Times
<1>3. Nth(f, n) = Min(Reached(f, n))
  <2>1. Cardinality(DOMAIN f) \in Nat
    BY FS_CardinalityType
  <2>2. ~(Cardinality(DOMAIN f) < n)
    BY <2>1
  <2> QED
    BY <2>2 DEF Nth, Reached
<1>4. Min(Reached(f, n)) \in Reached(f, n) /\ \A x \in Reached(f, n) : Min(Reached(f, n)) <= x
  BY <1>1, <1>2, MinIs
<1> QED
  BY <1>2, <1>3, <1>4

(* More events, or earlier ones, do not put off the n-th. *)
LEMMA NthStays ==
  ASSUME NEW f, NEW g, DOMAIN f \subseteq DOMAIN g, IsFiniteSet(DOMAIN g),
         \A i \in DOMAIN g : g[i] \in Times,
         \A i \in DOMAIN f : f[i] \in Times /\ g[i] <= f[i],
         NEW n \in Nat \ {0}
  PROVE  Stays(Nth(f, n), Nth(g, n))
<1>1. IsFiniteSet(DOMAIN f) /\ Cardinality(DOMAIN f) \in Nat
  BY FS_Subset, FS_CardinalityType
<1>2. CASE Cardinality(DOMAIN f) < n
  BY <1>2 DEF Nth, Stays
<1>3. CASE Cardinality(DOMAIN f) >= n
  <2>1. PICK x : x = Nth(f, n)
    OBVIOUS
  <2>2. x \in Reached(f, n) /\ x \in Times
    BY <1>1, <1>3, <2>1, NthIs
  <2> DEFINE J == {i \in DOMAIN f : f[i] <= x}
  <2>3. Cardinality(J) >= n /\ J \in SUBSET DOMAIN g
    BY <2>2 DEF Reached
  <2>4. PICK y \in Reached(g, n), j \in J : y = g[j]
    <3> HIDE DEF J
    <3> QED
      BY <2>3, ReachedBy
  <2>5. y \in Int /\ x \in Int /\ y <= x
    BY <2>2, <2>4 DEF Times
  <2>6. Cardinality(DOMAIN g) >= n
    <3>1. Cardinality(DOMAIN f) <= Cardinality(DOMAIN g) /\ Cardinality(DOMAIN g) \in Nat
      BY FS_Subset, FS_CardinalityType
    <3> QED
      BY <1>1, <1>3, <3>1
  <2>7. PICK z : z = Nth(g, n)
    OBVIOUS
  <2>8. z \in Times /\ z <= y
    BY <2>4, <2>6, <2>7, NthIs
  <2>9. z # None /\ ~(z > x)
    BY <2>5, <2>8 DEF Times
  <2> QED
    BY <2>1, <2>7, <2>9 DEF Stays
<1> QED
  BY <1>1, <1>2, <1>3

LEMMA NthRemains ==
  ASSUME NEW f, NEW g, DOMAIN f \subseteq DOMAIN g, IsFiniteSet(DOMAIN g),
         \A i \in DOMAIN g : g[i] \in Times, NEW n \in Nat \ {0}
  PROVE  Remains(Nth(f, n), Nth(g, n))
<1>1. IsFiniteSet(DOMAIN f) /\ Cardinality(DOMAIN f) \in Nat /\ Cardinality(DOMAIN g) \in Nat
      /\ Cardinality(DOMAIN f) <= Cardinality(DOMAIN g)
  BY FS_Subset, FS_CardinalityType
<1>2. CASE Cardinality(DOMAIN f) < n
  BY <1>2 DEF Nth, Remains
<1>3. CASE Cardinality(DOMAIN f) >= n
  <2>1. Cardinality(DOMAIN g) >= n
    BY <1>1, <1>3
  <2>2. Nth(g, n) \in Times
    BY <2>1, NthIs
  <2> QED
    BY <2>2 DEF Times, Remains
<1> QED
  BY <1>1, <1>2, <1>3

(* DailyFirsts, of the rounds Q. *)
FirstsOf(Q, zone) ==
  [d \in {LocalDay(at, zone) : at \in Stamps(Q)} |->
     Min({q.at : q \in {q \in Q : LocalDay(q.at, zone) = d}})]

LEMMA FirstsOfIs ==
  ASSUME NEW Q, \A q \in Q : q.at \in Times, NEW z \in Int, NEW d \in DOMAIN FirstsOf(Q, z)
  PROVE  /\ FirstsOf(Q, z)[d] \in Times
         /\ \E q \in Q : LocalDay(q.at, z) = d /\ FirstsOf(Q, z)[d] = q.at
         /\ \A q \in Q : LocalDay(q.at, z) = d => FirstsOf(Q, z)[d] <= q.at
<1> DEFINE On == {q.at : q \in {q \in Q : LocalDay(q.at, z) = d}}
<1>1. \E q \in Q : LocalDay(q.at, z) = d
  BY DEF FirstsOf, Stamps
<1>2. On # {} /\ On \in SUBSET Int /\ (\A x \in On : 0 <= x)
  <2>1. On # {}
    BY <1>1
  <2>2. On \in SUBSET Int /\ \A x \in On : 0 <= x
    BY DEF Times
  <2> QED
    BY <2>1, <2>2
<1>3. Min(On) \in On /\ \A x \in On : Min(On) <= x
  <2> HIDE DEF On
  <2> QED
    BY <1>2, MinIs
<1>4. FirstsOf(Q, z)[d] = Min(On)
  BY DEF FirstsOf
<1> QED
  BY <1>3, <1>4

LEMMA DailyStays ==
  ASSUME NEW R, IsFiniteSet(R), \A q \in R : q.at \in Times, NEW Q \in SUBSET R, NEW z \in Int
  PROVE  Stays(Nth(FirstsOf(Q, z), 5), Nth(FirstsOf(R, z), 5))
<1> DEFINE f == FirstsOf(Q, z)  g == FirstsOf(R, z)
<1>1. DOMAIN f \subseteq DOMAIN g
  BY DEF FirstsOf, Stamps
<1>2. IsFiniteSet(DOMAIN g)
  <2> DEFINE h == [q \in R |-> LocalDay(q.at, z)]
  <2>1. h \in Surjection(R, DOMAIN g)
    BY DEF Surjection, FirstsOf, Stamps
  <2> QED
    BY <2>1, FS_Surjection
<1>3. \A d \in DOMAIN g : g[d] \in Times
  BY FirstsOfIs
<1>4. ASSUME NEW d \in DOMAIN f PROVE f[d] \in Times /\ g[d] <= f[d]
  <2>1. f[d] \in Times /\ \E q \in Q : LocalDay(q.at, z) = d /\ f[d] = q.at
    BY FirstsOfIs
  <2>2. PICK q \in Q : LocalDay(q.at, z) = d /\ f[d] = q.at
    BY <2>1
  <2>3. \A p \in R : LocalDay(p.at, z) = d => g[d] <= p.at
    BY <1>1, FirstsOfIs
  <2> HIDE DEF f, g
  <2> QED
    BY <2>1, <2>2, <2>3
<1> HIDE DEF f, g
<1>5. Stays(Nth(f, 5), Nth(g, 5))
  BY <1>1, <1>2, <1>3, <1>4, NthStays
<1> QED
  BY <1>5 DEF f, g

(* StreakReached, of a set of days. *)
ReachedOn(days, zone, length) ==
  LET long == {d \in days : Runs(days)[d] >= length}
  IN  IF long = {} THEN None ELSE Min(long) * PerDay - zone

LEMMA LongRunsStay ==
  ASSUME NEW more \in SUBSET Int, NEW days \in SUBSET more, NEW lo \in Int, \A x \in more : lo <= x,
         NEW n \in Nat, NEW d \in days, Runs(days)[d] >= n
  PROVE  Runs(more)[d] >= n
<1>1. PICK k : k = Runs(days)[d] /\ IsRun(days, d, k)
  BY RunsAreRuns
<1>2. PICK m : m = Runs(more)[d] /\ IsRun(more, d, m)
  BY RunsAreRuns
<1>3. k \in Nat /\ (d - k + 1)..d \subseteq more /\ m \in Nat
  BY <1>1, <1>2 DEF IsRun
<1>4. k <= m
  BY <1>2, <1>3, RunIsLongest
<1> QED
  BY <1>1, <1>2, <1>3, <1>4

(* The midnight before the third day of a run comes after the first moment. *)
LEMMA MidnightIsATime ==
  ASSUME NEW days \in SUBSET Int, NEW lo \in Int, \A x \in days : lo <= x, NEW z \in Int,
         \A x \in days : \E at \in Times : x = LocalDay(at, z),
         NEW d \in days, Runs(days)[d] >= 3
  PROVE  d * PerDay - z # None
<1>1. d - 2 \in days /\ d \in Int
  BY ThirdDays
<1>2. PICK at \in Times : d - 2 = LocalDay(at, z)
  BY <1>1
<1>3. at \in Int /\ at > 0
  BY DEF Times, None
<1>4. at + z < PerDay * (d - 2) + PerDay /\ PerDay \in Nat
  BY <1>2, <1>3, WithinTheDay, PerDayIsPositive
<1>5. PerDay * (d - 2) = d * PerDay - 2 * PerDay /\ d * PerDay \in Int
  BY <1>1, <1>4
<1> QED
  BY <1>3, <1>4, <1>5 DEF None

LEMMA StreakStays ==
  ASSUME NEW more \in SUBSET Int, NEW days \in SUBSET more, NEW lo \in Int, \A x \in more : lo <= x,
         NEW z \in Int, \A x \in more : \E at \in Times : x = LocalDay(at, z),
         NEW n \in Nat, n >= 3
  PROVE  Stays(ReachedOn(days, z, n), ReachedOn(more, z, n))
<1> DEFINE long == {d \in days : Runs(days)[d] >= n}  longer == {d \in more : Runs(more)[d] >= n}
<1>1. long \subseteq longer
  BY LongRunsStay
<1>2. long \in SUBSET Int /\ longer \in SUBSET Int /\ (\A x \in long : lo <= x) /\ (\A x \in longer : lo <= x)
  OBVIOUS
<1>3. CASE long = {}
  BY <1>3 DEF ReachedOn, Stays
<1>4. CASE long # {}
  <2>1. PICK a : a = Min(long)
    OBVIOUS
  <2>2. PICK b : b = Min(longer)
    OBVIOUS
  <2> HIDE DEF long, longer
  <2>3. a \in long
    BY <1>2, <1>4, <2>1, MinIs
  <2>4. b \in longer /\ b <= a
    <3>1. longer # {} /\ a \in longer
      BY <1>1, <2>3
    <3> QED
      BY <1>2, <2>2, <3>1, MinIs
  <2>5. a \in Int /\ b \in Int
    BY <1>2, <2>3, <2>4
  <2>6. b * PerDay - z # None
    <3>1. b \in more /\ Runs(more)[b] >= n
      BY <2>4 DEF longer
    <3>2. Runs(more)[b] >= 3
      <4>1. Runs(more)[b] \in Nat
        BY <3>1, RunsAreRuns DEF IsRun
      <4> QED
        BY <3>1, <4>1
    <3> QED
      BY <3>1, <3>2, MidnightIsATime
  <2>7. ~(b * PerDay - z > a * PerDay - z)
    <3>1. PICK k \in Nat : a = b + k
      <4>1. a - b \in Nat /\ a = b + (a - b)
        BY <2>4, <2>5
      <4> QED
        BY <4>1
    <3>2. PerDay \in Nat
      BY PerDayIsPositive
    <3>3. a * PerDay = b * PerDay + k * PerDay /\ k * PerDay \in Nat /\ b * PerDay \in Int
      BY <2>5, <3>1, <3>2
    <3> QED
      BY <3>3
  <2>8. ReachedOn(days, z, n) = a * PerDay - z /\ ReachedOn(more, z, n) = b * PerDay - z
    BY <1>4, <2>1, <2>2, <2>4 DEF ReachedOn, long, longer
  <2> QED
    BY <2>6, <2>7, <2>8 DEF Stays
<1> QED
  BY <1>3, <1>4

(* The times that badges are dated by are times. *)
LEMMA BadgeTimes ==
  IInv =>
    /\ \A date \in PracticeDates : \A g \in PassedPractice : date[g] \in Times
    /\ \A t \in Briefed : topics[t].lessonAt \in Times
    /\ \A t \in Cleared : ClearedAt(t) \in Times /\ topics[t].passedAt = ClearedAt(t)
                          /\ topics[t].stars \in 0..3
    /\ IsFiniteSet(quizzes) /\ \A q \in quizzes : q.at \in Times
    /\ IsFiniteSet(Briefed) /\ IsFiniteSet(Cleared)
<1> SUFFICES ASSUME IInv PROVE BadgeTimes!2
  OBVIOUS
<1>1. clock \in Nat
  BY DEF IInv
<1>2. ASSUME NEW date \in PracticeDates, NEW g \in PassedPractice PROVE date[g] \in Times
  <2>1. PICK p \in practice : p.at = date[g]
    BY DEF PracticeDates
  <2> QED
    BY <1>1, <2>1 DEF IInv, RowsInv, PracticeRow, Times, None
<1>3. \A t \in Topics : topics[t] \in TopicRow
  BY DEF IInv, RowsInv
<1>4. \A t \in Briefed : topics[t].lessonAt \in Times
  BY <1>1, <1>3 DEF Briefed, TopicRow, Times
<1>5. \A t \in Cleared : ClearedAt(t) \in Times /\ topics[t].passedAt = ClearedAt(t)
                         /\ topics[t].stars \in 0..3
  BY <1>1, <1>3 DEF Cleared, ClearedAt, TopicRow, Times
<1>6. IsFiniteSet(quizzes) /\ \A q \in quizzes : q.at \in Times
  BY <1>1 DEF IInv, RoundsInv, Times, None
<1>7. IsFiniteSet(Briefed) /\ IsFiniteSet(Cleared)
  BY TopicAssumption, FS_Subset DEF Briefed, Cleared
<1> QED
  BY <1>2, <1>4, <1>5, <1>6, <1>7

LEMMA ActivityTimes ==
  IInv => \A z \in Int :
    /\ \A d \in ActivityDays(z) : \E at \in Times : d = LocalDay(at, z)
    /\ ActivityDays(z) \in SUBSET Int
    /\ LocalDay(1, z) \in Int /\ \A d \in ActivityDays(z) : LocalDay(1, z) <= d
<1> SUFFICES ASSUME IInv, NEW z \in Int
             PROVE  /\ \A d \in ActivityDays(z) : \E at \in Times : d = LocalDay(at, z)
                    /\ ActivityDays(z) \in SUBSET Int
                    /\ LocalDay(1, z) \in Int /\ \A d \in ActivityDays(z) : LocalDay(1, z) <= d
  OBVIOUS
<1>1. ActivityStamps \subseteq 0..clock
  BY StampsArePast
<1>2. \A d \in ActivityDays(z) : \E at \in Times : d = LocalDay(at, z)
  BY <1>1 DEF ActivityDays, Times
<1>3. /\ LocalDay(1, z) \in Int /\ LocalDay(clock, z) \in Int
      /\ ActivityDays(z) \subseteq LocalDay(1, z)..LocalDay(clock, z) /\ ActivityDays(z) \in SUBSET Int
  BY DaysInRange
<1>4. \A d \in ActivityDays(z) : LocalDay(1, z) <= d
  BY <1>3
<1> QED
  BY <1>2, <1>3, <1>4

(* Of what the badges are computed from, a step that is not a reset takes nothing away ... *)
LEMMA KeepsEvents ==
  ASSUME Grows
  PROVE  /\ PassedPractice \subseteq PassedPractice' /\ Briefed \subseteq Briefed'
         /\ Cleared \subseteq Cleared'
         /\ \A kinds : RoundsOf(kinds) \subseteq RoundsOf(kinds)'
<1>1. PassedPractice \subseteq PassedPractice'
  BY DEF PassedPractice, Grows
<1>2. Briefed \subseteq Briefed' /\ Cleared \subseteq Cleared'
  BY DEF Briefed, Cleared, ClearedAt, Grows
<1>3. \A kinds : RoundsOf(kinds) \subseteq RoundsOf(kinds)'
  BY DEF RoundsOf, Grows
<1> QED
  BY <1>1, <1>2, <1>3

(* ... a practice game that is passed in one row keeps its date ... *)
LEMMA KeepsDates ==
  ASSUME Grows, ~PassedTwice', NEW date \in PracticeDates, NEW next \in PracticeDates',
         NEW g \in PassedPractice
  PROVE  next[g] = date[g]
<1>1. PICK p \in practice : p.game = g /\ p.passed /\ p.at = date[g]
  BY DEF PracticeDates
<1>2. PICK q \in practice' : q.game = g /\ q.passed /\ q.at = date[g]
  BY <1>1 DEF Grows
<1>3. g \in PassedPractice'
  BY KeepsEvents
<1>4. PICK r \in practice' : r.game = g /\ r.passed /\ r.at = next[g]
  BY <1>3 DEF PracticeDates
<1>5. q = r
  BY <1>2, <1>4 DEF PassedTwice
<1> QED
  BY <1>2, <1>4, <1>5

(* ... and unless it is a stale write, what topics' rows date keeps its date. *)
LEMMA KeepsTimes ==
  ASSUME IInv, IInv', Grows, TopicsImprove
  PROVE  /\ \A t \in Briefed : topics'[t].lessonAt = topics[t].lessonAt
         /\ \A t \in Cleared : /\ ClearedAt(t)' = ClearedAt(t)
                               /\ topics[t].stars = 3 => topics'[t].stars = 3
         /\ \A z \in Int : ActivityDays(z) \subseteq ActivityDays(z)'
<1>1. \A t \in Briefed : topics'[t].lessonAt = topics[t].lessonAt
  BY DEF Briefed, TopicsImprove, Improves
<1>2. ASSUME NEW t \in Cleared
      PROVE  ClearedAt(t)' = ClearedAt(t) /\ (topics[t].stars = 3 => topics'[t].stars = 3)
  <2>1. t \in Topics /\ t \in HasCheckpoint /\ topics[t].passedAt # None
    BY DEF Cleared, ClearedAt
  <2>2. topics'[t].passedAt = topics[t].passedAt /\ topics[t].stars <= topics'[t].stars
    BY <2>1 DEF TopicsImprove, Improves
  <2>3. topics'[t].stars \in 0..3
    BY <2>1 DEF IInv, RowsInv, TopicRow
  <2> QED
    BY <2>1, <2>2, <2>3 DEF ClearedAt
<1>3. ASSUME NEW at \in ActivityStamps \ {None} PROVE at \in ActivityStamps'
  <2>1. CASE \E p \in practice : at = p.at
    BY <2>1 DEF ActivityStamps, Grows
  <2>2. CASE \E c \in checkpoints : c.graded /\ at = c.at
    BY <2>2 DEF ActivityStamps, Grows
  <2>3. CASE \E q \in quizzes : at = q.at
    BY <2>3 DEF ActivityStamps, Grows
  <2>4. CASE \E t \in Topics : at = topics[t].lessonAt
    BY <2>4 DEF ActivityStamps, TopicsImprove, Improves
  <2> QED
    BY <2>1, <2>2, <2>3, <2>4 DEF ActivityStamps
<1>4. \A z \in Int : ActivityDays(z) \subseteq ActivityDays(z)'
  BY <1>3 DEF ActivityDays
<1> QED
  BY <1>1, <1>2, <1>4

(* Each badge, in the terms of the lemmas above. *)
BadgesAre(z, date) ==
  /\ DOMAIN Badges(z, date) = {"first200", "briefed", "warmedUp", "cleared", "noHintHero", "threeCleared",
                         "combo5", "sharpEye", "daily5", "foundStart", "streak3", "streak7"}
  /\ Badges(z, date).first200 = First({date[g] : g \in PassedPractice})
  /\ Badges(z, date).briefed = Nth([t \in Briefed |-> topics[t].lessonAt], 3)
  /\ Badges(z, date).warmedUp = IF {"front-desk", "score-board"} \subseteq PassedPractice
                          THEN Max({date[g] : g \in {"front-desk", "score-board"}}) ELSE None
  /\ Badges(z, date).cleared = First({ClearedAt(t) : t \in Cleared})
  /\ Badges(z, date).noHintHero = First({ClearedAt(t) : t \in {t \in Cleared : topics[t].stars = 3}})
  /\ Badges(z, date).threeCleared = Nth([t \in Cleared |-> ClearedAt(t)], 3)
  /\ Badges(z, date).combo5 = First(Stamps({q \in RoundsOf({"status-speed-round"}) : q.combo >= 5}))
  /\ Badges(z, date).sharpEye = First(Stamps({q \in RoundsOf(PickTheLine) : q.score = q.total}))
  /\ Badges(z, date).daily5 = Nth(FirstsOf(RoundsOf({"daily"}), z), 5)
  /\ Badges(z, date).foundStart = First(Stamps(RoundsOf({"placement"})))
  /\ Badges(z, date).streak3 = ReachedOn(ActivityDays(z), z, 3)
  /\ Badges(z, date).streak7 = ReachedOn(ActivityDays(z), z, 7)

EveryBadgeIs == \A z \in Int : \A date : BadgesAre(z, date)

LEMMA BadgeFields == EveryBadgeIs
<1> SUFFICES ASSUME NEW z \in Int, NEW date PROVE BadgesAre(z, date)
  BY DEF EveryBadgeIs
<1>1. Badges(z, date).daily5 = Nth(FirstsOf(RoundsOf({"daily"}), z), 5)
  BY DEF Badges, DailyFirsts, FirstsOf
<1>2. /\ Badges(z, date).streak3 = ReachedOn(ActivityDays(z), z, 3)
      /\ Badges(z, date).streak7 = ReachedOn(ActivityDays(z), z, 7)
  BY DEF Badges, StreakReached, ReachedOn
<1> QED
  BY <1>1, <1>2 DEF Badges, BadgesAre

LEMMA BadgesKept ==
  ASSUME IInv, IInv', Grows, NEW z \in Int, NEW now \in PracticeDates, NEW next \in PracticeDates'
  PROVE  /\ DOMAIN Badges(z, now) = {"first200", "briefed", "warmedUp", "cleared", "noHintHero",
                "threeCleared", "combo5", "sharpEye", "daily5", "foundStart", "streak3", "streak7"}
         /\ \A key \in {"combo5", "sharpEye", "daily5", "foundStart"} :
              Stays(Badges(z, now)[key], Badges(z, next)'[key])
         /\ \A key \in {"first200", "briefed", "warmedUp", "cleared", "threeCleared"} :
              Remains(Badges(z, now)[key], Badges(z, next)'[key])
         /\ ~PassedTwice' => \A key \in {"first200", "warmedUp"} :
              Stays(Badges(z, now)[key], Badges(z, next)'[key])
         /\ TopicsImprove => \A key \in {"briefed", "cleared", "noHintHero", "threeCleared",
                                         "streak3", "streak7"} :
              Stays(Badges(z, now)[key], Badges(z, next)'[key])
<1>1. BadgesAre(z, now) /\ BadgesAre(z, next)'
  <2>1. EveryBadgeIs'
    BY BadgeFields, PTL
  <2> QED
    BY <2>1, BadgeFields DEF EveryBadgeIs
<1>2. BadgeTimes!2 /\ BadgeTimes!2'
  <2>1. (IInv => BadgeTimes!2)'
    BY BadgeTimes, PTL
  <2> QED
    BY <2>1, BadgeTimes
<1>3. /\ PassedPractice \subseteq PassedPractice' /\ Briefed \subseteq Briefed' /\ Cleared \subseteq Cleared'
      /\ \A kinds : RoundsOf(kinds) \subseteq RoundsOf(kinds)'
  BY KeepsEvents
<1>4. TopicsImprove =>
        /\ \A t \in Briefed : topics'[t].lessonAt = topics[t].lessonAt
        /\ \A t \in Cleared : /\ ClearedAt(t)' = ClearedAt(t)
                              /\ topics[t].stars = 3 => topics'[t].stars = 3
        /\ ActivityDays(z) \subseteq ActivityDays(z)'
  BY KeepsTimes
<1>5. ~PassedTwice' => \A g \in PassedPractice : next[g] = now[g]
  BY KeepsDates
(* Practice. *)
<1>6. /\ Remains(Badges(z, now).first200, Badges(z, next)'.first200)
      /\ ~PassedTwice' => Stays(Badges(z, now).first200, Badges(z, next)'.first200)
  <2>1. PICK A : A = {now[g] : g \in PassedPractice}
    OBVIOUS
  <2>2. PICK B : B = {next[g] : g \in PassedPractice'}
    OBVIOUS
  <2>3. A \in SUBSET Times /\ B \in SUBSET Times
    BY <1>2, <2>1, <2>2
  <2>4. (A # {} => B # {}) /\ (~PassedTwice' => A \subseteq B)
    BY <1>3, <1>5, <2>1, <2>2
  <2>5. Badges(z, now).first200 = First(A) /\ Badges(z, next)'.first200 = First(B)
    BY <1>1, <2>1, <2>2 DEF BadgesAre
  <2> QED
    BY <2>3, <2>4, <2>5, FirstStays, FirstRemains
<1>7. /\ Remains(Badges(z, now).warmedUp, Badges(z, next)'.warmedUp)
      /\ ~PassedTwice' => Stays(Badges(z, now).warmedUp, Badges(z, next)'.warmedUp)
  <2>1. PICK W : W = {"front-desk", "score-board"}
    OBVIOUS
  <2>2. PICK A : A = {now[g] : g \in W}
    OBVIOUS
  <2>3. PICK B : B = {next[g] : g \in W}
    OBVIOUS
  <2>4. /\ Badges(z, now).warmedUp = IF W \subseteq PassedPractice THEN Max(A) ELSE None
        /\ Badges(z, next)'.warmedUp = IF W \subseteq PassedPractice' THEN Max(B) ELSE None
    BY <1>1, <2>1, <2>2, <2>3 DEF BadgesAre
  <2>5. CASE W \subseteq PassedPractice
    <3>1. W \subseteq PassedPractice'
      BY <1>3, <2>5
    <3>2. PICK a, b : B = {a, b} /\ a \in Times /\ b \in Times
      <4>1. B = {next["front-desk"], next["score-board"]}
        BY <2>1, <2>3
      <4>2. next["front-desk"] \in Times /\ next["score-board"] \in Times
        BY <1>2, <2>1, <3>1
      <4> QED
        BY <4>1, <4>2
    <3>3. PICK m : m = Max(B)
      OBVIOUS
    <3>4. m \in Times
      <4>1. a \in Int /\ b \in Int
        BY <3>2 DEF Times
      <4>2. Max({a, b}) \in {a, b}
        BY <4>1, MaxOfTwo
      <4> QED
        BY <3>2, <3>3, <4>2
    <3>5. m # None /\ ~(m > m)
      BY <3>4 DEF Times
    <3>6. ~PassedTwice' => Max(A) = m
      <4>1. ASSUME ~PassedTwice' PROVE \A g \in W : next[g] = now[g]
        BY <1>5, <2>5, <4>1
      <4>2. ~PassedTwice' => A = B
        BY <2>2, <2>3, <4>1, Zenon
      <4> QED
        BY <3>3, <4>2
    <3> QED
      BY <2>4, <2>5, <3>1, <3>3, <3>5, <3>6 DEF Stays, Remains
  <2>6. CASE ~(W \subseteq PassedPractice)
    BY <2>4, <2>6 DEF Stays, Remains
  <2> QED
    BY <2>5, <2>6
(* Topics. *)
<1>8. /\ Remains(Badges(z, now).briefed, Badges(z, next)'.briefed)
      /\ TopicsImprove => Stays(Badges(z, now).briefed, Badges(z, next)'.briefed)
  <2>1. PICK f : f = [t \in Briefed |-> topics[t].lessonAt]
    OBVIOUS
  <2>2. PICK g : g = [t \in Briefed' |-> topics'[t].lessonAt]
    OBVIOUS
  <2>3. /\ DOMAIN f \subseteq DOMAIN g /\ IsFiniteSet(DOMAIN g) /\ \A i \in DOMAIN g : g[i] \in Times
        /\ \A i \in DOMAIN f : f[i] \in Times
    BY <1>2, <1>3, <2>1, <2>2
  <2>4. TopicsImprove => \A i \in DOMAIN f : g[i] <= f[i]
    <3>1. TopicsImprove => \A i \in DOMAIN f : g[i] = f[i]
      BY <1>3, <1>4, <2>1, <2>2
    <3> QED
      BY <2>3, <3>1 DEF Times
  <2>5. Badges(z, now).briefed = Nth(f, 3) /\ Badges(z, next)'.briefed = Nth(g, 3)
    BY <1>1, <2>1, <2>2 DEF BadgesAre
  <2> QED
    BY <2>3, <2>4, <2>5, NthStays, NthRemains
<1>9. /\ Remains(Badges(z, now).cleared, Badges(z, next)'.cleared)
      /\ TopicsImprove => Stays(Badges(z, now).cleared, Badges(z, next)'.cleared)
  <2>1. PICK A : A = {ClearedAt(t) : t \in Cleared}
    OBVIOUS
  <2>2. PICK B : B = {ClearedAt(t)' : t \in Cleared'}
    OBVIOUS
  <2>3. A \in SUBSET Times /\ B \in SUBSET Times
    BY <1>2, <2>1, <2>2
  <2>4. (A # {} => B # {}) /\ (TopicsImprove => A \subseteq B)
    BY <1>3, <1>4, <2>1, <2>2
  <2>5. Badges(z, now).cleared = First(A) /\ Badges(z, next)'.cleared = First(B)
    BY <1>1, <2>1, <2>2 DEF BadgesAre
  <2> QED
    BY <2>3, <2>4, <2>5, FirstStays, FirstRemains
<1>10. TopicsImprove => Stays(Badges(z, now).noHintHero, Badges(z, next)'.noHintHero)
  <2>1. PICK A : A = {ClearedAt(t) : t \in {t \in Cleared : topics[t].stars = 3}}
    OBVIOUS
  <2>2. PICK B : B = {ClearedAt(t)' : t \in {t \in Cleared' : topics'[t].stars = 3}}
    OBVIOUS
  <2>3. A \in SUBSET Times /\ B \in SUBSET Times /\ (TopicsImprove => A \subseteq B)
    BY <1>2, <1>3, <1>4, <2>1, <2>2
  <2>4. Badges(z, now).noHintHero = First(A) /\ Badges(z, next)'.noHintHero = First(B)
    BY <1>1, <2>1, <2>2 DEF BadgesAre
  <2> QED
    BY <2>3, <2>4, FirstStays
<1>11. /\ Remains(Badges(z, now).threeCleared, Badges(z, next)'.threeCleared)
       /\ TopicsImprove => Stays(Badges(z, now).threeCleared, Badges(z, next)'.threeCleared)
  <2>1. PICK f : f = [t \in Cleared |-> ClearedAt(t)]
    OBVIOUS
  <2>2. PICK g : g = [t \in Cleared' |-> ClearedAt(t)']
    OBVIOUS
  <2>3. /\ DOMAIN f \subseteq DOMAIN g /\ IsFiniteSet(DOMAIN g) /\ \A i \in DOMAIN g : g[i] \in Times
        /\ \A i \in DOMAIN f : f[i] \in Times
    BY <1>2, <1>3, <2>1, <2>2
  <2>4. TopicsImprove => \A i \in DOMAIN f : g[i] <= f[i]
    <3>1. TopicsImprove => \A i \in DOMAIN f : g[i] = f[i]
      BY <1>3, <1>4, <2>1, <2>2
    <3> QED
      BY <2>3, <3>1 DEF Times
  <2>5. Badges(z, now).threeCleared = Nth(f, 3) /\ Badges(z, next)'.threeCleared = Nth(g, 3)
    BY <1>1, <2>1, <2>2 DEF BadgesAre
  <2> QED
    BY <2>3, <2>4, <2>5, NthStays, NthRemains
(* The badges of rounds: of those that a condition on the round picks. *)
<1>12. ASSUME NEW Q \in SUBSET quizzes, NEW R \in SUBSET quizzes', Q \subseteq R
       PROVE  Stays(First(Stamps(Q)), First(Stamps(R)))
  <2>1. Stamps(Q) \in SUBSET Times /\ Stamps(R) \in SUBSET Times /\ Stamps(Q) \subseteq Stamps(R)
    BY <1>2, <1>12 DEF Stamps
  <2> QED
    BY <2>1, FirstStays
<1>13. \A kinds : RoundsOf(kinds) \subseteq quizzes /\ RoundsOf(kinds)' \subseteq quizzes'
  BY DEF RoundsOf
<1>14. Stays(Badges(z, now).combo5, Badges(z, next)'.combo5)
  <2>1. PICK Q : Q = {q \in RoundsOf({"status-speed-round"}) : q.combo >= 5}
    OBVIOUS
  <2>2. PICK R : R = {q \in RoundsOf({"status-speed-round"})' : q.combo >= 5}
    OBVIOUS
  <2>3. Q \subseteq R /\ Q \in SUBSET quizzes /\ R \in SUBSET quizzes'
    BY <1>3, <1>13, <2>1, <2>2
  <2>4. Badges(z, now).combo5 = First(Stamps(Q)) /\ Badges(z, next)'.combo5 = First(Stamps(R))
    BY <1>1, <2>1, <2>2 DEF BadgesAre
  <2> QED
    BY <1>12, <2>3, <2>4
<1>15. Stays(Badges(z, now).sharpEye, Badges(z, next)'.sharpEye)
  <2>1. PICK Q : Q = {q \in RoundsOf(PickTheLine) : q.score = q.total}
    OBVIOUS
  <2>2. PICK R : R = {q \in RoundsOf(PickTheLine)' : q.score = q.total}
    OBVIOUS
  <2>3. Q \subseteq R /\ Q \in SUBSET quizzes /\ R \in SUBSET quizzes'
    BY <1>3, <1>13, <2>1, <2>2
  <2>4. Badges(z, now).sharpEye = First(Stamps(Q)) /\ Badges(z, next)'.sharpEye = First(Stamps(R))
    BY <1>1, <2>1, <2>2 DEF BadgesAre
  <2> QED
    BY <1>12, <2>3, <2>4
<1>16. Stays(Badges(z, now).daily5, Badges(z, next)'.daily5)
  <2>1. PICK Q : Q = RoundsOf({"daily"})
    OBVIOUS
  <2>2. PICK R : R = RoundsOf({"daily"})'
    OBVIOUS
  <2>3. Q \in SUBSET R /\ IsFiniteSet(R) /\ \A q \in R : q.at \in Times
    <3>1. R \subseteq quizzes' /\ Q \subseteq R
      BY <1>3, <1>13, <2>1, <2>2
    <3> QED
      BY <1>2, <3>1, FS_Subset
  <2>4. Badges(z, now).daily5 = Nth(FirstsOf(Q, z), 5) /\ Badges(z, next)'.daily5 = Nth(FirstsOf(R, z), 5)
    BY <1>1, <2>1, <2>2 DEF BadgesAre
  <2> QED
    BY <2>3, <2>4, DailyStays
<1>17. Stays(Badges(z, now).foundStart, Badges(z, next)'.foundStart)
  <2>1. PICK Q : Q = RoundsOf({"placement"})
    OBVIOUS
  <2>2. PICK R : R = RoundsOf({"placement"})'
    OBVIOUS
  <2>3. Q \subseteq R /\ Q \in SUBSET quizzes /\ R \in SUBSET quizzes'
    BY <1>3, <1>13, <2>1, <2>2
  <2>4. Badges(z, now).foundStart = First(Stamps(Q)) /\ Badges(z, next)'.foundStart = First(Stamps(R))
    BY <1>1, <2>1, <2>2 DEF BadgesAre
  <2> QED
    BY <1>12, <2>3, <2>4
<1>18. TopicsImprove =>
         /\ Stays(Badges(z, now).streak3, Badges(z, next)'.streak3)
         /\ Stays(Badges(z, now).streak7, Badges(z, next)'.streak7)
  <2> SUFFICES ASSUME TopicsImprove
               PROVE  /\ Stays(Badges(z, now).streak3, Badges(z, next)'.streak3)
                      /\ Stays(Badges(z, now).streak7, Badges(z, next)'.streak7)
    OBVIOUS
  <2>1. PICK days : days = ActivityDays(z)
    OBVIOUS
  <2>2. PICK more : more = ActivityDays(z)'
    OBVIOUS
  <2>3. /\ days \subseteq more /\ more \in SUBSET Int
        /\ \A d \in more : \E at \in Times : d = LocalDay(at, z)
        /\ LocalDay(1, z) \in Int /\ \A d \in more : LocalDay(1, z) <= d
    <3>1. (IInv => ActivityTimes!2)'
      BY ActivityTimes, PTL
    <3> QED
      BY <1>4, <2>1, <2>2, <3>1 DEF LocalDay
  <2>4. /\ Badges(z, now).streak3 = ReachedOn(days, z, 3) /\ Badges(z, next)'.streak3 = ReachedOn(more, z, 3)
        /\ Badges(z, now).streak7 = ReachedOn(days, z, 7) /\ Badges(z, next)'.streak7 = ReachedOn(more, z, 7)
    BY <1>1, <2>1, <2>2 DEF BadgesAre
  <2>5. ASSUME NEW n \in Nat, n >= 3 PROVE Stays(ReachedOn(days, z, n), ReachedOn(more, z, n))
    BY <2>3, <2>5, StreakStays
  <2> QED
    BY <2>4, <2>5
<1>19. DOMAIN Badges(z, now) = {"first200", "briefed", "warmedUp", "cleared", "noHintHero",
                "threeCleared", "combo5", "sharpEye", "daily5", "foundStart", "streak3", "streak7"}
  BY <1>1 DEF BadgesAre
<1> QED
  BY <1>6, <1>7, <1>8, <1>9, <1>10, <1>11, <1>14, <1>15, <1>16, <1>17, <1>18, <1>19

(* A badge that was earned is not lost, and its time never moves to a later one, in any time *)
(* zone, unless the progress is reset; only a stale write takes back the badge for three     *)
(* stars or for a streak, and it may date later what a topic's row dates; and only where a   *)
(* game has been passed in two rows may a badge for practice get a later time.               *)
THEOREM BadgesAreKept == Spec => BadgesStay
<1>1. ASSUME IInv, IInv', [Next]_vars, tables' # tables, ~Reset, NEW z \in Zones,
             NEW date \in PracticeDates, NEW later \in PracticeDates',
             NEW key \in DOMAIN Badges(z, date), Badges(z, date)[key] # None
      PROVE  /\ Badges(z, later)'[key] = None =>
                  StaleWrite /\ key \in {"noHintHero", "streak3", "streak7"}
             /\ Badges(z, later)'[key] > Badges(z, date)[key] =>
                  \/ StaleWrite /\ key \in {"briefed", "cleared", "noHintHero", "threeCleared", "streak3", "streak7"}
                  \/ PassedTwice' /\ key \in {"first200", "warmedUp"}
  <2>1. Next
    BY <1>1 DEF vars, tables
  <2>2. Grows /\ (StaleWrite \/ TopicsImprove)
    BY <1>1, <2>1, StepGrows
  <2>3. z \in Int
    BY TimeAssumption
  <2>4. PICK now, next : now = Badges(z, date)[key] /\ next = Badges(z, later)'[key]
    OBVIOUS
  <2>5. /\ key \in {"first200", "briefed", "warmedUp", "cleared", "noHintHero", "threeCleared",
                    "combo5", "sharpEye", "daily5", "foundStart", "streak3", "streak7"}
        /\ key \in {"combo5", "sharpEye", "daily5", "foundStart"} => Stays(now, next)
        /\ key \in {"first200", "briefed", "warmedUp", "cleared", "threeCleared"} => Remains(now, next)
        /\ ~PassedTwice' /\ key \in {"first200", "warmedUp"} => Stays(now, next)
        /\ TopicsImprove /\ key \in {"briefed", "cleared", "noHintHero", "threeCleared", "streak3", "streak7"}
             => Stays(now, next)
    BY <1>1, <2>2, <2>3, <2>4, BadgesKept
  <2>6. now # None
    BY <1>1, <2>4
  <2> QED
    BY <2>2, <2>4, <2>5, <2>6 DEF Stays, Remains
<1>2. IInv /\ IInv' /\ [Next]_vars =>
        [tables' # tables /\ ~Reset => \A z \in Zones : \A now \in Looks(z), next \in Looks(z)' :
           \A key \in DOMAIN now : now[key] # None =>
             /\ next[key] = None => StaleWrite /\ key \in {"noHintHero", "streak3", "streak7"}
             /\ next[key] > now[key] =>
                  \/ StaleWrite /\ key \in {"briefed", "cleared", "noHintHero", "threeCleared", "streak3", "streak7"}
                  \/ PassedTwice' /\ key \in {"first200", "warmedUp"}]_vars
  BY <1>1 DEF Looks
<1> QED
  BY <1>2, RowsAreDated, PTL DEF Spec, BadgesStay

-----------------------------------------------------------------------------
(* Sums over finite sets.                                                  *)

(* f[x] units for each x of s: their number is the sum. *)
Units(f, s) == UNION {{x} \X (1..f[x]) : x \in s}

LEMMA UnitsOfOne ==
  ASSUME NEW x, NEW n \in Nat
  PROVE  IsFiniteSet({x} \X (1..n)) /\ Cardinality({x} \X (1..n)) = n
<1>1. IsFiniteSet({x}) /\ Cardinality({x}) = 1
  BY FS_Singleton
<1>2. IsFiniteSet(1..n) /\ Cardinality(1..n) = n
  <2>1. IsFiniteSet(1..n) /\ Cardinality(1..n) = IF 1 > n THEN 0 ELSE n - 1 + 1
    BY FS_Interval
  <2> QED
    BY <2>1
<1> DEFINE N == 1..n
<1>3. IsFiniteSet({x} \X N) /\ Cardinality({x} \X N) = 1 * n
  <2> HIDE DEF N
  <2>1. IsFiniteSet({x} \X N) /\ Cardinality({x} \X N) = Cardinality({x}) * Cardinality(N)
    BY <1>1, <1>2, FS_Product DEF N
  <2> QED
    BY <1>1, <1>2, <2>1 DEF N
<1> QED
  BY <1>3

LEMMA UnitsAreFinite ==
  ASSUME NEW S, IsFiniteSet(S), NEW f \in [S -> Nat], NEW s \in SUBSET S
  PROVE  IsFiniteSet(Units(f, s)) /\ Cardinality(Units(f, s)) \in Nat
<1> DEFINE parts == {{x} \X (1..f[x]) : x \in s}
<1>1. IsFiniteSet(s)
  BY FS_Subset
<1>2. IsFiniteSet(parts)
  <2> DEFINE h == [x \in s |-> {x} \X (1..f[x])]
  <2>1. h \in Surjection(s, parts)
    BY DEF Surjection
  <2> QED
    BY <1>1, <2>1, FS_Surjection
<1>3. ASSUME NEW T \in parts PROVE IsFiniteSet(T)
  <2>1. PICK x \in s : T = {x} \X (1..f[x])
    OBVIOUS
  <2>2. f[x] \in Nat
    OBVIOUS
  <2> QED
    BY <2>1, <2>2, UnitsOfOne
<1>4. IsFiniteSet(UNION parts)
  <2> HIDE DEF parts
  <2> QED
    BY <1>2, <1>3, FS_UNION
<1> QED
  BY <1>4, FS_CardinalityType DEF Units

LEMMA UnitsAddUp ==
  ASSUME NEW S, IsFiniteSet(S), NEW f \in [S -> Nat], NEW s \in SUBSET S, NEW x \in s
  PROVE  Cardinality(Units(f, s)) = f[x] + Cardinality(Units(f, s \ {x}))
<1> DEFINE A == {x} \X (1..f[x])  B == Units(f, s \ {x})
<1>1. Units(f, s) = A \cup B
  BY DEF Units
<1>2. A \cap B = {}
  BY DEF Units
<1>3. IsFiniteSet(A) /\ Cardinality(A) = f[x] /\ f[x] \in Nat
  BY UnitsOfOne
<1>4. IsFiniteSet(B) /\ Cardinality(B) \in Nat
  BY UnitsAreFinite
<1>5. Cardinality({}) = 0
  BY FS_EmptySet
<1> HIDE DEF A, B
<1>6. Cardinality(A \cup B) = Cardinality(A) + Cardinality(B) - Cardinality({})
  BY <1>2, <1>3, <1>4, FS_Union
<1>7. Cardinality(A \cup B) = f[x] + Cardinality(B)
  BY <1>3, <1>4, <1>5, <1>6
<1> QED
  BY <1>1, <1>7 DEF B

(* What the fold over a finite set computes is the number of units. *)
LEMMA FoldIsUnits ==
  ASSUME NEW S, IsFiniteSet(S), NEW f \in [S -> Nat],
         NEW iter, iter = [s \in SUBSET S |-> IF s = {} THEN 0
                           ELSE f[CHOOSE x \in s : TRUE] + iter[s \ {CHOOSE x \in s : TRUE}]]
  PROVE  iter[S] = Cardinality(Units(f, S))
<1> DEFINE Wrong == {s \in SUBSET S : iter[s] # Cardinality(Units(f, s))}
           Sizes == {Cardinality(s) : s \in Wrong}
<1>1. \A s \in SUBSET S : IsFiniteSet(s) /\ Cardinality(s) \in Nat
  BY FS_Subset, FS_CardinalityType
<1>2. ASSUME NEW s \in Wrong PROVE \E t \in Wrong : Cardinality(t) < Cardinality(s)
  <2>1. s # {}
    <3>1. iter[{}] = 0
      OBVIOUS
    <3>2. Cardinality(Units(f, {})) = 0
      BY FS_EmptySet DEF Units
    <3> QED
      BY <3>1, <3>2
  <2>2. PICK x : x = CHOOSE y \in s : TRUE
    OBVIOUS
  <2>3. x \in s
    BY <2>1, <2>2
  <2>4. iter[s] = f[x] + iter[s \ {x}]
    BY <2>1, <2>2
  <2>5. Cardinality(Units(f, s)) = f[x] + Cardinality(Units(f, s \ {x}))
    BY <2>3, UnitsAddUp
  <2>6. s \ {x} \in Wrong
    BY <2>4, <2>5
  <2>7. Cardinality(s \ {x}) = Cardinality(s) - 1 /\ Cardinality(s) \in Nat
    BY <1>1, <2>3, FS_RemoveElement
  <2>8. Cardinality(s \ {x}) < Cardinality(s)
    BY <2>7
  <2> QED
    BY <2>6, <2>8
<1>3. Wrong = {}
  <2> SUFFICES ASSUME Wrong # {} PROVE FALSE
    OBVIOUS
  <2>1. Sizes \in SUBSET Nat
    BY <1>1
  <2>2. PICK s \in Wrong : TRUE
    OBVIOUS
  <2>3. Cardinality(s) \in Sizes
    BY <2>2
  <2>4. PICK n \in Sizes : \A k \in Sizes : n <= k
    <3> HIDE DEF Sizes
    <3>1. Sizes # {}
      BY <2>3
    <3> QED
      BY <2>1, <3>1, LeastNat
  <2>5. PICK t \in Wrong : n = Cardinality(t)
    BY <2>4
  <2>6. PICK u \in Wrong : Cardinality(u) < Cardinality(t)
    BY <1>2
  <2>7. n <= Cardinality(u) /\ Cardinality(u) \in Nat /\ Cardinality(t) \in Nat
    BY <1>1, <2>4
  <2> QED
    BY <2>5, <2>6, <2>7
<1> QED
  BY <1>3

LEMMA MoreUnits ==
  ASSUME NEW T, IsFiniteSet(T), NEW S \in SUBSET T, NEW f \in [S -> Nat], NEW g \in [T -> Nat],
         \A x \in S : f[x] <= g[x]
  PROVE  Cardinality(Units(f, S)) <= Cardinality(Units(g, T))
<1>1. \A x \in S : 1..f[x] \subseteq 1..g[x]
  OBVIOUS
<1>2. Units(f, S) \subseteq Units(g, T)
  BY <1>1 DEF Units
<1>3. IsFiniteSet(Units(g, T))
  BY UnitsAreFinite
<1> QED
  BY <1>2, <1>3, FS_Subset

LEMMA FewerUnits ==
  ASSUME NEW T, IsFiniteSet(T), NEW S \in SUBSET T, NEW f \in [S -> Nat], NEW g \in [T -> Nat],
         NEW d \in Nat, NEW u \in S, f[u] <= g[u] + d, \A x \in S \ {u} : f[x] <= g[x]
  PROVE  Cardinality(Units(f, S)) <= Cardinality(Units(g, T)) + d
<1>1. IsFiniteSet(S)
  BY FS_Subset
<1>2. Cardinality(Units(f, S)) = f[u] + Cardinality(Units(f, S \ {u}))
  BY <1>1, UnitsAddUp
<1>3. Cardinality(Units(g, T)) = g[u] + Cardinality(Units(g, T \ {u}))
  BY UnitsAddUp
<1>4. \A x \in S \ {u} : 1..f[x] \subseteq 1..g[x]
  OBVIOUS
<1>5. Units(f, S \ {u}) \subseteq Units(g, T \ {u})
  BY <1>4 DEF Units
<1>6. IsFiniteSet(Units(g, T \ {u})) /\ Cardinality(Units(g, T \ {u})) \in Nat
  BY UnitsAreFinite
<1>7. Cardinality(Units(f, S \ {u})) \in Nat
  BY <1>1, UnitsAreFinite
<1>8. Cardinality(Units(f, S \ {u})) <= Cardinality(Units(g, T \ {u}))
  BY <1>5, <1>6, FS_Subset
<1>9. f[u] \in Nat /\ g[u] \in Nat
  OBVIOUS
<1> QED
  BY <1>2, <1>3, <1>6, <1>7, <1>8, <1>9

LEMMA RoundsSum ==
  ASSUME IsFiniteSet(quizzes), \A q \in quizzes : RoundXp(q) \in Nat
  PROVE  MapThenSumSet(RoundXp, quizzes) = Cardinality(Units([q \in quizzes |-> RoundXp(q)], quizzes))
<1> DEFINE f == [q \in quizzes |-> RoundXp(q)]
           Eq(iter) == iter = [s \in SUBSET quizzes |-> IF s = {} THEN 0
             ELSE RoundXp(CHOOSE x \in s : TRUE) + iter[s \ {CHOOSE x \in s : TRUE}]]
           E == [s \in SUBSET quizzes |-> Cardinality(Units(f, s))]
           sum == CHOOSE iter : Eq(iter)
<1>1. MapThenSumSet(RoundXp, quizzes) = sum[quizzes]
  BY DEF MapThenSumSet, MapThenFoldSet
<1>2. f \in [quizzes -> Nat] /\ \A q \in quizzes : f[q] = RoundXp(q)
  OBVIOUS
<1> HIDE DEF f
<1>3. Eq(E)
  <2>1. ASSUME NEW s \in SUBSET quizzes, NEW x \in s PROVE E[s] = RoundXp(x) + E[s \ {x}]
    <3>1. E[s] = f[x] + E[s \ {x}]
      BY <1>2, UnitsAddUp
    <3> QED
      BY <1>2, <3>1
  <2>2. E[{}] = 0
    BY FS_EmptySet DEF Units
  <2>3. \A s \in SUBSET quizzes : s # {} => (CHOOSE x \in s : TRUE) \in s
    OBVIOUS
  <2>4. DOMAIN E = SUBSET quizzes /\ E = [s \in DOMAIN E |-> E[s]]
    OBVIOUS
  <2> HIDE DEF E
  <2> QED
    BY <2>1, <2>2, <2>3, <2>4
<1>4. Eq(sum)
  <2> HIDE DEF Eq, E
  <2> QED
    BY <1>3
<1> HIDE DEF sum
<1>5. sum = [s \in SUBSET quizzes |-> IF s = {} THEN 0
               ELSE f[CHOOSE x \in s : TRUE] + sum[s \ {CHOOSE x \in s : TRUE}]]
  BY <1>2, <1>4
<1>6. sum[quizzes] = Cardinality(Units(f, quizzes))
  BY <1>2, <1>5, FoldIsUnits
<1> QED
  BY <1>1, <1>6 DEF f

LEMMA ClearsSum ==
  ASSUME IsFiniteSet(Cleared), \A t \in Cleared : ClearXp(t) \in Nat
  PROVE  MapThenSumSet(ClearXp, Cleared) = Cardinality(Units([t \in Cleared |-> ClearXp(t)], Cleared))
<1> DEFINE f == [t \in Cleared |-> ClearXp(t)]
           Eq(iter) == iter = [s \in SUBSET Cleared |-> IF s = {} THEN 0
             ELSE ClearXp(CHOOSE x \in s : TRUE) + iter[s \ {CHOOSE x \in s : TRUE}]]
           E == [s \in SUBSET Cleared |-> Cardinality(Units(f, s))]
           sum == CHOOSE iter : Eq(iter)
<1>1. MapThenSumSet(ClearXp, Cleared) = sum[Cleared]
  BY DEF MapThenSumSet, MapThenFoldSet
<1>2. f \in [Cleared -> Nat] /\ \A t \in Cleared : f[t] = ClearXp(t)
  OBVIOUS
<1> HIDE DEF f
<1>3. Eq(E)
  <2>1. ASSUME NEW s \in SUBSET Cleared, NEW x \in s PROVE E[s] = ClearXp(x) + E[s \ {x}]
    <3>1. E[s] = f[x] + E[s \ {x}]
      BY <1>2, UnitsAddUp
    <3> QED
      BY <1>2, <3>1
  <2>2. E[{}] = 0
    BY FS_EmptySet DEF Units
  <2>3. \A s \in SUBSET Cleared : s # {} => (CHOOSE x \in s : TRUE) \in s
    OBVIOUS
  <2>4. DOMAIN E = SUBSET Cleared /\ E = [s \in DOMAIN E |-> E[s]]
    OBVIOUS
  <2> HIDE DEF E
  <2> QED
    BY <2>1, <2>2, <2>3, <2>4
<1>4. Eq(sum)
  <2> HIDE DEF Eq, E
  <2> QED
    BY <1>3
<1> HIDE DEF sum
<1>5. sum = [s \in SUBSET Cleared |-> IF s = {} THEN 0
               ELSE f[CHOOSE x \in s : TRUE] + sum[s \ {CHOOSE x \in s : TRUE}]]
  BY <1>2, <1>4
<1>6. sum[Cleared] = Cardinality(Units(f, Cleared))
  BY <1>2, <1>5, FoldIsUnits
<1> QED
  BY <1>1, <1>6 DEF f

-----------------------------------------------------------------------------
(* Levels.                                                                 *)

(* The XP that levels 1 to n - 1 take. *)
Below(n) == 25 * ((n - 1) * (n + 2))

LEMMA BelowNext ==
  ASSUME NEW n \in Nat
  PROVE  Below(n) \in Int /\ Below(n + 1) = Below(n) + (50 * n + 50)
BY DEF Below

LEMMA BelowFar ==
  ASSUME NEW n \in Nat, NEW k \in Nat
  PROVE  Below(n) \in Int /\ Below(n) <= Below(n + k) /\ (n # 0 => Below(n) + k <= Below(n + k))
<1>1. Below(n + k) = Below(n) + 25 * (k * (2 * n + 1 + k))
  BY DEF Below
<1>2. Below(n) \in Int
  BY DEF Below
<1>3. k * (2 * n + 1 + k) = k + k * (2 * n + k) /\ k * (2 * n + k) \in Nat
  OBVIOUS
<1> QED
  BY <1>1, <1>2, <1>3

(* From level l, xp more XP reach level n. *)
IsLevel(xp, l, n) == n \in Nat /\ l <= n /\ Below(n) - Below(l) <= xp /\ xp < Below(n + 1) - Below(l)

LEMMA LevelIsOne ==
  ASSUME NEW l \in Nat, NEW xp \in Nat, NEW more \in Nat, xp <= more,
         NEW n, IsLevel(xp, l, n), NEW m, IsLevel(more, l, m)
  PROVE  n <= m
<1>1. n \in Nat /\ m \in Nat
  BY DEF IsLevel
<1>2. CASE m + 1 <= n
  <2>1. PICK k \in Nat : n = m + 1 + k
    <3>1. n - (m + 1) \in Nat /\ n = m + 1 + (n - (m + 1))
      BY <1>1, <1>2
    <3> QED
      BY <3>1
  <2>2. Below(m + 1) <= Below(n)
    <3>1. m + 1 \in Nat
      BY <1>1
    <3> QED
      BY <2>1, <3>1, BelowFar
  <2>3. Below(m + 1) \in Int /\ Below(n) \in Int /\ Below(l) \in Int
    BY <1>1, BelowFar
  <2> QED
    BY <2>2, <2>3 DEF IsLevel
<1> QED
  BY <1>1, <1>2

LEMMA EveryXpHasALevel ==
  ASSUME NEW l \in Nat, NEW xp \in Nat
  PROVE  \E n : IsLevel(xp, l, n)
<1> DEFINE T == {n \in Nat : l <= n /\ xp < Below(n + 1) - Below(l)}
<1>1. \A n \in Nat : Below(n) \in Int
  BY BelowNext
<1>2. l + xp \in T
  <2>1. Below(l) + (50 * l + 50) = Below(l + 1)
    BY BelowNext
  <2>2. Below(l + 1) + xp <= Below(l + 1 + xp)
    BY BelowFar
  <2>3. l + 1 + xp = l + xp + 1 /\ l + xp \in Nat
    OBVIOUS
  <2> QED
    BY <1>1, <2>1, <2>2, <2>3
<1>3. PICK n \in T : \A k \in T : n <= k
  <2>1. T \in SUBSET Nat
    OBVIOUS
  <2>2. T # {}
    BY <1>2
  <2> HIDE DEF T
  <2> QED
    BY <2>1, <2>2, LeastNat
<1>4. n \in Nat /\ l <= n /\ xp < Below(n + 1) - Below(l)
  BY <1>3
<1>5. Below(n) - Below(l) <= xp
  <2>1. CASE n = l
    BY <1>1, <2>1
  <2>2. CASE n # l
    <3>1. n - 1 \in Nat /\ l <= n - 1 /\ n - 1 \notin T /\ n - 1 + 1 = n
      BY <1>3, <1>4, <2>2
    <3>2. ~(xp < Below(n - 1 + 1) - Below(l))
      BY <3>1
    <3> QED
      BY <1>1, <1>4, <3>1, <3>2
  <2> QED
    BY <2>1, <2>2
<1> QED
  BY <1>4, <1>5 DEF IsLevel

(* One step of the loop of level_for. *)
LEMMA Climbs ==
  ASSUME NEW l \in Nat, NEW xp \in Nat
  PROVE  LET need == 100 + 50 * (l - 1) IN
         /\ need \in Nat \ {0}
         /\ \A n : xp >= need /\ IsLevel(xp - need, l + 1, n) => IsLevel(xp, l, n)
         /\ ~(xp >= need) => IsLevel(xp, l, l)
<1>1. 100 + 50 * (l - 1) = Below(l + 1) - Below(l) /\ Below(l) \in Int /\ Below(l + 1) \in Int
      /\ 100 + 50 * (l - 1) \in Nat \ {0}
  BY BelowNext
<1>2. \A n \in Nat : Below(n) \in Int /\ Below(n + 1) \in Int
  BY BelowNext
<1> QED
  BY <1>1, <1>2 DEF IsLevel

LEMMA LevelForIs ==
  ASSUME NEW total \in Nat
  PROVE  IsLevel(total, 1, LevelFor(total).level)
<1> DEFINE Eq(climb) ==
             climb = [at \in Nat \X Nat |->
               LET need == 100 + 50 * (at[2] - 1)
               IN  IF at[1] >= need THEN climb[<<at[1] - need, at[2] + 1>>]
                   ELSE [level |-> at[2], into |-> at[1], needed |-> need]]
           top(xp, l) == CHOOSE n : IsLevel(xp, l, n)
           E == [at \in Nat \X Nat |->
                  [level |-> top(at[1], at[2]),
                   into |-> at[1] - (Below(top(at[1], at[2])) - Below(at[2])),
                   needed |-> 100 + 50 * (top(at[1], at[2]) - 1)]]
           climb == CHOOSE climb : Eq(climb)
<1>1. LevelFor(total) = climb[<<total, 1>>]
  BY DEF LevelFor
<1>2. ASSUME NEW xp \in Nat, NEW l \in Nat PROVE IsLevel(xp, l, top(xp, l))
  BY EveryXpHasALevel
<1> HIDE DEF top
<1>3. Eq(E)
  <2>1. ASSUME NEW xp \in Nat, NEW l \in Nat, NEW need, need = 100 + 50 * (l - 1)
        PROVE  E[<<xp, l>>] = IF xp >= need THEN E[<<xp - need, l + 1>>]
                          ELSE [level |-> l, into |-> xp, needed |-> need]
    <3>1. need \in Nat \ {0} /\ l + 1 \in Nat
      BY <2>1, Climbs
    <3>2. CASE xp >= need
      <4>1. xp - need \in Nat
        BY <3>1, <3>2
      <4>2. IsLevel(xp, l, top(xp - need, l + 1))
        BY <1>2, <2>1, <3>1, <3>2, <4>1, Climbs
      <4>3. top(xp, l) = top(xp - need, l + 1)
        <5>1. IsLevel(xp, l, top(xp, l))
          BY <1>2
        <5>2. top(xp, l) \in Nat /\ top(xp - need, l + 1) \in Nat
          BY <4>2, <5>1 DEF IsLevel
        <5>3. top(xp, l) <= top(xp - need, l + 1) /\ top(xp - need, l + 1) <= top(xp, l)
          BY <4>2, <5>1, LevelIsOne
        <5> QED
          BY <5>2, <5>3
      <4>4. xp - (Below(top(xp, l)) - Below(l)) = xp - need - (Below(top(xp, l)) - Below(l + 1))
        <5>1. top(xp, l) \in Nat
          BY <1>2 DEF IsLevel
        <5>2. Below(l) \in Int /\ Below(l + 1) = Below(l) + need /\ Below(top(xp, l)) \in Int
          BY <2>1, <5>1, BelowNext
        <5> QED
          BY <3>1, <5>2
      <4> QED
        BY <3>1, <3>2, <4>1, <4>3, <4>4
    <3>3. CASE ~(xp >= need)
      <4>1. IsLevel(xp, l, l) /\ IsLevel(xp, l, top(xp, l))
        BY <1>2, <2>1, <3>3, Climbs
      <4>2. top(xp, l) = l
        <5>1. top(xp, l) \in Nat /\ top(xp, l) <= l /\ l <= top(xp, l)
          BY <4>1, LevelIsOne DEF IsLevel
        <5> QED
          BY <5>1
      <4>3. xp - (Below(l) - Below(l)) = xp
        BY BelowNext
      <4> QED
        BY <2>1, <3>3, <4>2, <4>3
    <3> QED
      BY <3>2, <3>3
  <2>2. \A at \in Nat \X Nat : at[1] \in Nat /\ at[2] \in Nat /\ at = <<at[1], at[2]>>
    OBVIOUS
  <2>3. DOMAIN E = Nat \X Nat /\ E = [at \in Nat \X Nat |-> E[at]]
    OBVIOUS
  <2> HIDE DEF E
  <2>4. ASSUME NEW at \in Nat \X Nat
        PROVE  E[at] = LET need == 100 + 50 * (at[2] - 1)
                       IN  IF at[1] >= need THEN E[<<at[1] - need, at[2] + 1>>]
                           ELSE [level |-> at[2], into |-> at[1], needed |-> need]
    <3>1. PICK xp \in Nat, l \in Nat : at = <<xp, l>>
      BY <2>2
    <3>2. at[1] = xp /\ at[2] = l
      BY <3>1
    <3> QED
      BY <2>1, <3>1, <3>2
  <2> QED
    BY <2>3, <2>4
<1>4. Eq(climb)
  <2> HIDE DEF Eq, E
  <2> QED
    BY <1>3
<1> HIDE DEF climb
<1>5. ASSUME NEW xp \in Nat, NEW l \in Nat, NEW need, need = 100 + 50 * (l - 1)
      PROVE  /\ xp >= need => climb[<<xp, l>>] = climb[<<xp - need, l + 1>>]
             /\ ~(xp >= need) => climb[<<xp, l>>].level = l
  BY <1>4, <1>5
<1> HIDE DEF Eq
<1>6. ASSUME NEW xp \in Nat, NEW l \in Nat, ~IsLevel(xp, l, climb[<<xp, l>>].level)
      PROVE  \E less \in Nat, m \in Nat : less < xp /\ ~IsLevel(less, m, climb[<<less, m>>].level)
  <2>1. PICK need : need = 100 + 50 * (l - 1)
    OBVIOUS
  <2>2. need \in Nat \ {0}
    BY <2>1, Climbs
  <2>3. xp >= need
    <3> SUFFICES ASSUME ~(xp >= need) PROVE FALSE
      OBVIOUS
    <3>1. climb[<<xp, l>>].level = l
      BY <1>5, <2>1
    <3>2. IsLevel(xp, l, l)
      BY <2>1, Climbs
    <3> QED
      BY <1>6, <3>1, <3>2
  <2>4. climb[<<xp, l>>] = climb[<<xp - need, l + 1>>]
    BY <1>5, <2>1, <2>3
  <2>5. xp - need \in Nat /\ xp - need < xp /\ l + 1 \in Nat
    BY <2>2, <2>3
  <2>6. ~IsLevel(xp - need, l + 1, climb[<<xp - need, l + 1>>].level)
    BY <1>6, <2>1, <2>3, <2>4, Climbs
  <2> QED
    BY <2>5, <2>6
<1> DEFINE Bad == {xp \in Nat : \E l \in Nat : ~IsLevel(xp, l, climb[<<xp, l>>].level)}
<1>7. Bad = {}
  <2> SUFFICES ASSUME Bad # {} PROVE FALSE
    OBVIOUS
  <2>1. Bad \in SUBSET Nat
    OBVIOUS
  <2>2. PICK b \in Bad : \A k \in Bad : b <= k
    <3> HIDE DEF Bad
    <3> QED
      BY <2>1, LeastNat
  <2>3. PICK less \in Bad : less < b
    <3>1. PICK l \in Nat : ~IsLevel(b, l, climb[<<b, l>>].level)
      OBVIOUS
    <3>2. PICK less \in Nat, m \in Nat : less < b /\ ~IsLevel(less, m, climb[<<less, m>>].level)
      BY <1>6, <3>1
    <3> QED
      BY <3>2
  <2> HIDE DEF Bad
  <2>4. b <= less /\ b \in Nat /\ less \in Nat
    BY <2>1, <2>2
  <2> QED
    BY <2>3, <2>4
<1> QED
  BY <1>1, <1>7

(* More XP are not a lower level. *)
LEMMA LevelsGrow ==
  ASSUME NEW before \in Nat, NEW after \in Nat, before <= after
  PROVE  LevelFor(before).level <= LevelFor(after).level
<1>1. IsLevel(before, 1, LevelFor(before).level) /\ IsLevel(after, 1, LevelFor(after).level)
  BY LevelForIs
<1> QED
  BY <1>1, LevelIsOne

-----------------------------------------------------------------------------
(* The best round of a quiz.                                               *)

LEMMA Multiplied ==
  ASSUME NEW x \in Int, NEW y \in Int, NEW k \in Nat \ {0}
  PROVE  /\ x * k \in Int /\ y * k \in Int
         /\ x <= y <=> x * k <= y * k
         /\ x < y <=> x * k < y * k
<1>1. ASSUME NEW a \in Int, NEW b \in Int, a < b PROVE a * k < b * k
  <2>1. PICK j \in Nat : b = a + 1 + j
    <3>1. b - a - 1 \in Nat /\ b = a + 1 + (b - a - 1)
      BY <1>1
    <3> QED
      BY <3>1
  <2>2. b * k = a * k + k + j * k /\ j * k \in Nat /\ a * k \in Int
    BY <2>1
  <2> QED
    BY <2>2
<1>2. x * k \in Int /\ y * k \in Int
  OBVIOUS
<1>3. (x < y => x * k < y * k) /\ (y < x => y * k < x * k) /\ (x = y => x * k = y * k)
  BY <1>1
<1> QED
  BY <1>2, <1>3

(* a / b >= c / d >= e / f *)
LEMMA CrossMultiplied ==
  ASSUME NEW a \in Nat, NEW c \in Nat, NEW e \in Nat,
         NEW b \in Nat \ {0}, NEW d \in Nat \ {0}, NEW f \in Nat \ {0},
         a * d >= c * b, c * f >= e * d
  PROVE  /\ a * f \in Int /\ e * b \in Int
         /\ a * f >= e * b
         /\ a * d > c * b \/ c * f > e * d => a * f > e * b
<1>1. a * d \in Int /\ c * b \in Int /\ c * f \in Int /\ e * d \in Int /\ a * f \in Int /\ e * b \in Int
  OBVIOUS
<1>2. (c * b) * f <= (a * d) * f /\ (c * b < a * d => (c * b) * f < (a * d) * f)
  BY <1>1, Multiplied
<1>3. (e * d) * b <= (c * f) * b /\ (e * d < c * f => (e * d) * b < (c * f) * b)
  BY <1>1, Multiplied
<1>4. (c * b) * f = (c * f) * b /\ (a * d) * f = (a * f) * d /\ (e * d) * b = (e * b) * d
  OBVIOUS
<1>5. (e * b) * d \in Int /\ (a * f) * d \in Int /\ (c * f) * b \in Int
  OBVIOUS
<1>6. (e * b) * d <= (a * f) * d /\ (c * b < a * d \/ e * d < c * f => (e * b) * d < (a * f) * d)
  BY <1>2, <1>3, <1>4, <1>5
<1>7. (e * b <= a * f <=> (e * b) * d <= (a * f) * d) /\ (e * b < a * f <=> (e * b) * d < (a * f) * d)
  BY <1>1, Multiplied
<1> QED
  BY <1>1, <1>6, <1>7

LEMMA BeatsIsStrict ==
  ASSUME NEW p, Accepted(p), NEW q, Accepted(q), NEW r, Accepted(r)
  PROVE  ~Beats(p, p) /\ (Beats(p, q) /\ Beats(q, r) => Beats(p, r))
<1>1. /\ p.score \in Nat /\ p.total \in Nat \ {0} /\ p.combo \in Nat
      /\ q.score \in Nat /\ q.total \in Nat \ {0} /\ q.combo \in Nat
      /\ r.score \in Nat /\ r.total \in Nat \ {0} /\ r.combo \in Nat
  BY DEF Accepted
<1>2. /\ p.score * q.total \in Int /\ q.score * p.total \in Int /\ q.score * r.total \in Int
      /\ r.score * q.total \in Int /\ p.score * p.total \in Int
  BY <1>1
<1>3. ~Beats(p, p)
  BY <1>1, <1>2 DEF Beats
<1>4. ASSUME Beats(p, q), Beats(q, r) PROVE Beats(p, r)
  <2>1. p.score * q.total >= q.score * p.total /\ q.score * r.total >= r.score * q.total
    BY <1>2, <1>4 DEF Beats
  <2>2. /\ p.score * r.total \in Int /\ r.score * p.total \in Int
        /\ p.score * r.total >= r.score * p.total
        /\ p.score * q.total > q.score * p.total \/ q.score * r.total > r.score * q.total
             => p.score * r.total > r.score * p.total
    BY <1>1, <2>1, CrossMultiplied
  <2>3. CASE p.score * q.total > q.score * p.total \/ q.score * r.total > r.score * q.total
    BY <2>2, <2>3 DEF Beats
  <2>4. CASE ~(p.score * q.total > q.score * p.total \/ q.score * r.total > r.score * q.total)
    <3>1. p.combo > r.combo
      BY <1>1, <1>4, <2>4 DEF Beats
    <3>2. p.score * r.total > r.score * p.total \/ p.score * r.total = r.score * p.total
      BY <2>2
    <3> QED
      BY <3>1, <3>2 DEF Beats
  <2> QED
    BY <2>3, <2>4
<1> QED
  BY <1>3, <1>4

(* Some round of a quiz that was played is beaten by none, and Best is one. *)
LEMMA BestIsUnbeaten ==
  RoundsInv => \A quiz : RoundsOf({quiz}) # {} =>
    Best(quiz).round \in RoundsOf({quiz}) /\ \A p \in RoundsOf({quiz}) : ~Beats(p, Best(quiz).round)
<1> SUFFICES ASSUME RoundsInv, NEW quiz, RoundsOf({quiz}) # {}
             PROVE  /\ Best(quiz).round \in RoundsOf({quiz})
                    /\ \A p \in RoundsOf({quiz}) : ~Beats(p, Best(quiz).round)
  OBVIOUS
<1>1. PICK played : played = RoundsOf({quiz})
  OBVIOUS
<1>2. IsFiniteSet(played) /\ played # {} /\ \A q \in played : Accepted(q)
  <2>1. played \subseteq quizzes
    BY <1>1 DEF RoundsOf
  <2> QED
    BY <1>1, <2>1, FS_Subset DEF RoundsInv
<1> DEFINE R == {pair \in played \X played : Beats(pair[2], pair[1])}
<1>3. \A p, q \in played : <<q, p>> \in R <=> Beats(p, q)
  OBVIOUS
<1>4. PICK m \in played : \A p \in played : <<m, p>> \notin R
  <2>1. \A q \in played : <<q, q>> \notin R
    BY <1>2, <1>3, BeatsIsStrict
  <2>2. \A p, q, r \in played : <<r, q>> \in R /\ <<q, p>> \in R => <<r, p>> \in R
    BY <1>2, <1>3, BeatsIsStrict
  <2> HIDE DEF R
  <2> QED
    BY <1>2, <2>1, <2>2, FiniteHasTop
<1>5. m \in played /\ \A p \in played : ~Beats(p, m)
  BY <1>3, <1>4
<1>6. Best(quiz).round = CHOOSE q \in played : \A p \in played : ~Beats(p, q)
  BY <1>1 DEF Best
<1> QED
  BY <1>1, <1>5, <1>6

-----------------------------------------------------------------------------
(* XP.                                                                     *)

(* The sums of XpTotal are numbers of units. *)
XpIs ==
  /\ \A q \in quizzes : RoundXp(q) \in Nat
  /\ \A t \in Cleared : ClearXp(t) \in Nat
  /\ XpTotal = 20 * Cardinality(Briefed) + 30 * Cardinality(PassedPractice)
               + Cardinality(Units([t \in Cleared |-> ClearXp(t)], Cleared))
               + Cardinality(Units([q \in quizzes |-> RoundXp(q)], quizzes))
  /\ IsFiniteSet(Briefed) /\ IsFiniteSet(PassedPractice) /\ IsFiniteSet(Cleared) /\ IsFiniteSet(quizzes)

LEMMA XpInv == IInv => XpIs
<1> SUFFICES ASSUME IInv PROVE XpIs
  OBVIOUS
<1>1. IsFiniteSet(Briefed) /\ IsFiniteSet(Cleared) /\ IsFiniteSet(quizzes)
  BY BadgeTimes
<1>2. IsFiniteSet(PassedPractice)
  <2>1. PassedPractice \subseteq Games
    BY DEF PassedPractice, IInv, RowsInv, PracticeRow
  <2> QED
    BY <2>1, TopicAssumption, FS_Subset
<1>3. ASSUME NEW q \in quizzes PROVE RoundXp(q) \in Nat
  <2>1. q.score \in Nat
    BY DEF IInv, RoundsInv, Accepted
  <2>2. Place(q) \in Nat
    BY <1>1, FS_Subset, FS_CardinalityType DEF Place
  <2> QED
    BY <2>1, <2>2 DEF RoundXp, XP_DAILY_BONUS, XP_PER_QUIZ_ANSWER, QUIZ_ROUNDS_PER_DAY
<1>4. ASSUME NEW t \in Cleared PROVE ClearXp(t) \in Nat
  <2>1. topics[t].stars \in 0..3
    BY BadgeTimes
  <2> QED
    BY <2>1 DEF ClearXp, XP_CHECKPOINT, XP_PER_STAR
<1>5. MapThenSumSet(ClearXp, Cleared) = Cardinality(Units([t \in Cleared |-> ClearXp(t)], Cleared))
  BY <1>1, <1>4, ClearsSum
<1>6. MapThenSumSet(RoundXp, quizzes) = Cardinality(Units([q \in quizzes |-> RoundXp(q)], quizzes))
  BY <1>1, <1>3, RoundsSum
<1>7. XpTotal = 20 * Cardinality(Briefed) + 30 * Cardinality(PassedPractice)
                + MapThenSumSet(ClearXp, Cleared) + MapThenSumSet(RoundXp, quizzes)
  BY DEF XpTotal, XP_LESSON, XP_PRACTICE
<1>8. XpTotal = 20 * Cardinality(Briefed) + 30 * Cardinality(PassedPractice)
               + Cardinality(Units([t \in Cleared |-> ClearXp(t)], Cleared))
               + Cardinality(Units([q \in quizzes |-> RoundXp(q)], quizzes))
  BY <1>5, <1>6, <1>7
<1> QED
  BY <1>1, <1>2, <1>3, <1>4, <1>8 DEF XpIs

(* A round that is saved began at another moment than each that is there. *)
LEMMA RoundsApart ==
  ASSUME IInv, Next, NEW q \in quizzes' \ quizzes, NEW p \in quizzes
  PROVE  q.at # p.at
<1>1. ASSUME UNCHANGED quizzes PROVE FALSE
  BY <1>1
<1>2. ASSUME NEW r \in open, RecordRound(r) PROVE q.at # p.at
  <2>1. q = Dated(r.call.round, r.at)
    BY <1>2 DEF RecordRound
  <2>2. q.at = r.at
    BY <2>1 DEF Dated
  <2> QED
    BY <2>2 DEF IInv, OpenInv
<1>3. ASSUME NEW r \in open, Find(r) \/ Read(r) \/ Refuse(r) PROVE UNCHANGED quizzes
  BY <1>3 DEF Find, Read, Refuse, Becomes, tables
<1>4. ASSUME NEW r \in open,
             RecordPractice(r) \/ RecordLessons(r) \/ RecordHint(r) \/ RecordCheckpoint(r)
      PROVE  UNCHANGED quizzes
  BY <1>4 DEF RecordPractice, RecordLessons, RecordHint, RecordCheckpoint
<1>5. Begin \/ Reset \/ Sleep => UNCHANGED quizzes
  BY DEF Begin, Reset, Sleep, tables
<1> QED
  BY <1>1, <1>2, <1>3, <1>4, <1>5 DEF Next

(* What a saved round is worth does not change any more. *)
LEMMA RoundKeepsItsXp ==
  ASSUME IInv, IInv', Next, Grows, ~LateRound, NEW q \in quizzes
  PROVE  RoundXp(q)' = RoundXp(q)
<1>1. quizzes \subseteq quizzes'
  BY DEF Grows
<1>2. ASSUME NEW p \in quizzes' \ quizzes, p.quiz = q.quiz, Day(p.at) = Day(q.at), p.at <= q.at
      PROVE  FALSE
  <2>1. ~(p.at < q.at)
    BY <1>2 DEF LateRound
  <2>2. p.at # q.at
    BY RoundsApart
  <2>3. p.at \in Int /\ q.at \in Int
    BY <1>1 DEF IInv, RoundsInv
  <2> QED
    BY <1>2, <2>1, <2>2, <2>3
<1>3. {p \in quizzes' : p.quiz = q.quiz /\ Day(p.at) = Day(q.at) /\ p.at <= q.at}
       = {p \in quizzes : p.quiz = q.quiz /\ Day(p.at) = Day(q.at) /\ p.at <= q.at}
  BY <1>1, <1>2
<1>4. Place(q)' = Place(q)
  BY <1>3 DEF Place, Day, LocalDay
<1> QED
  BY <1>4 DEF RoundXp, XP_DAILY_BONUS, XP_PER_QUIZ_ANSWER, QUIZ_ROUNDS_PER_DAY

LEMMA XpGrows ==
  ASSUME IInv, IInv', Next, Grows, StarsKeep, StaleWrite \/ TopicsImprove, ~LateRound
  PROVE  /\ XpTotal \in Nat /\ XpTotal' \in Nat /\ XpTotal <= XpTotal' + 50
         /\ ~StaleWrite => XpTotal <= XpTotal'
<1>1. XpIs /\ XpIs'
  <2>1. (IInv => XpIs)'
    BY XpInv, PTL
  <2> QED
    BY <2>1, XpInv
<1>2. PICK b : b = Briefed
  OBVIOUS
<1>3. PICK c : c = Briefed'
  OBVIOUS
<1>4. PICK p : p = PassedPractice
  OBVIOUS
<1>5. PICK r : r = PassedPractice'
  OBVIOUS
<1>6. PICK f : f = [t \in Cleared |-> ClearXp(t)]
  OBVIOUS
<1>7. PICK g : g = [t \in Cleared' |-> ClearXp(t)']
  OBVIOUS
<1>8. PICK h : h = [q \in quizzes |-> RoundXp(q)]
  OBVIOUS
<1>9. PICK k : k = [q \in quizzes' |-> RoundXp(q)']
  OBVIOUS
<1>10. PICK C : C = Cleared
  OBVIOUS
<1>11. PICK D : D = Cleared'
  OBVIOUS
<1>12. PICK Q : Q = quizzes
  OBVIOUS
<1>13. PICK R : R = quizzes'
  OBVIOUS
<1>14. XpTotal = 20 * Cardinality(b) + 30 * Cardinality(p)
                 + Cardinality(Units(f, C)) + Cardinality(Units(h, Q))
  BY <1>1, <1>2, <1>4, <1>6, <1>8, <1>10, <1>12 DEF XpIs
<1>15. XpTotal' = 20 * Cardinality(c) + 30 * Cardinality(r)
                  + Cardinality(Units(g, D)) + Cardinality(Units(k, R))
  BY <1>1, <1>3, <1>5, <1>7, <1>9, <1>11, <1>13 DEF XpIs
<1>16. Cardinality(b) <= Cardinality(c) /\ Cardinality(b) \in Nat /\ Cardinality(c) \in Nat
  <2>1. b \in SUBSET c /\ IsFiniteSet(c)
    BY <1>1, <1>2, <1>3, KeepsEvents DEF XpIs
  <2> QED
    BY <2>1, FS_Subset, FS_CardinalityType
<1>17. Cardinality(p) <= Cardinality(r) /\ Cardinality(p) \in Nat /\ Cardinality(r) \in Nat
  <2>1. p \in SUBSET r /\ IsFiniteSet(r)
    BY <1>1, <1>4, <1>5, KeepsEvents DEF XpIs
  <2> QED
    BY <2>1, FS_Subset, FS_CardinalityType
<1>18. /\ Cardinality(Units(f, C)) <= Cardinality(Units(g, D)) + 50
       /\ ~StaleWrite => Cardinality(Units(f, C)) <= Cardinality(Units(g, D))
       /\ Cardinality(Units(f, C)) \in Nat /\ Cardinality(Units(g, D)) \in Nat
  <2>1. C \in SUBSET D /\ IsFiniteSet(C) /\ IsFiniteSet(D) /\ f \in [C -> Nat] /\ g \in [D -> Nat]
    BY <1>1, <1>6, <1>7, <1>10, <1>11, KeepsEvents DEF XpIs
  <2>2. ASSUME NEW t \in C
        PROVE  /\ f[t] <= g[t] + 50
               /\ t \in Topics /\ (~(topics'[t].stars < topics[t].stars) => f[t] <= g[t])
    <3>1. f[t] = ClearXp(t) /\ g[t] = ClearXp(t)'
      BY <1>6, <1>7, <1>10, <1>11, <2>1
    <3>2. t \in Topics
      BY <1>10 DEF Cleared
    <3>3. PICK m, n : m = topics[t].stars /\ n = topics'[t].stars
      OBVIOUS
    <3>4. m <= n + 2 /\ m \in Int /\ n \in Int
      BY <3>2, <3>3 DEF StarsKeep, IInv, RowsInv, TopicRow
    <3>5. f[t] = 100 + 25 * m /\ g[t] = 100 + 25 * n
      BY <3>1, <3>3 DEF ClearXp, XP_CHECKPOINT, XP_PER_STAR
    <3> QED
      BY <3>2, <3>3, <3>4, <3>5
  <2>3. /\ Cardinality(Units(f, C)) \in Nat /\ Cardinality(Units(g, D)) \in Nat
    BY <2>1, UnitsAreFinite
  <2>4. CASE \A t \in C : ~(topics'[t].stars < topics[t].stars)
    <3>1. Cardinality(Units(f, C)) <= Cardinality(Units(g, D))
      BY <2>1, <2>2, <2>4, MoreUnits
    <3> QED
      BY <2>3, <3>1
  <2>5. ASSUME NEW u \in C, topics'[u].stars < topics[u].stars
        PROVE  StaleWrite /\ Cardinality(Units(f, C)) <= Cardinality(Units(g, D)) + 50
    <3>1. \A t \in C \ {u} : f[t] <= g[t]
      BY <2>2, <2>5 DEF StarsKeep
    <3>2. f[u] <= g[u] + 50 /\ u \in Topics
      BY <2>2, <2>5
    <3>3. ~TopicsImprove
      <4>1. topics[u].stars \in Int /\ topics'[u].stars \in Int
        BY <3>2 DEF IInv, RowsInv, TopicRow
      <4> QED
        BY <2>5, <3>2, <4>1 DEF TopicsImprove, Improves
    <3>4. Cardinality(Units(f, C)) <= Cardinality(Units(g, D)) + 50
      BY <2>1, <2>5, <3>1, <3>2, FewerUnits
    <3> QED
      BY <3>3, <3>4
  <2> QED
    BY <2>3, <2>4, <2>5
<1>19. /\ Cardinality(Units(h, Q)) <= Cardinality(Units(k, R))
       /\ Cardinality(Units(h, Q)) \in Nat /\ Cardinality(Units(k, R)) \in Nat
  <2>1. Q \in SUBSET R /\ IsFiniteSet(Q) /\ IsFiniteSet(R) /\ h \in [Q -> Nat] /\ k \in [R -> Nat]
    BY <1>1, <1>8, <1>9, <1>12, <1>13 DEF XpIs, Grows
  <2>2. ASSUME NEW q \in Q PROVE h[q] <= k[q]
    <3>1. h[q] = RoundXp(q) /\ k[q] = RoundXp(q)' /\ q \in quizzes
      BY <1>8, <1>9, <1>12, <1>13, <2>1
    <3>2. h[q] = k[q] /\ h[q] \in Nat
      BY <2>1, <3>1, RoundKeepsItsXp
    <3> QED
      BY <3>2
  <2> QED
    BY <2>1, <2>2, MoreUnits, UnitsAreFinite
<1>20. PICK i, j : i = XpTotal /\ j = XpTotal'
  OBVIOUS
<1>21. i \in Nat /\ j \in Nat /\ i <= j + 50 /\ (~StaleWrite => i <= j)
  BY <1>14, <1>15, <1>16, <1>17, <1>18, <1>19, <1>20
<1> QED
  BY <1>20, <1>21

(* XP and the level never fall, and no quiz best gets worse, except by a progress reset, by  *)
(* a late round, which can push a better one out of the rounds that count, and by a stale    *)
(* write: it may put fewer stars in the place of more, and costs two stars at the most.      *)
THEOREM XpNeverFalls == Spec => XpOnlyGrows
<1>1. ASSUME IInv, IInv', [Next]_vars, tables' # tables, ~Reset, ~LateRound
      PROVE  /\ \A before \in {XpTotal}, after \in {XpTotal'} :
                  /\ before <= after + IF StaleWrite THEN 2 * XP_PER_STAR ELSE 0
                  /\ ~StaleWrite => LevelFor(before).level <= LevelFor(after).level
             /\ \A q \in quizzes : ~Beats(Best(q.quiz).round, Best(q.quiz).round')
  <2>1. Next
    BY <1>1 DEF vars, tables
  <2>2. Grows /\ StarsKeep /\ (StaleWrite \/ TopicsImprove)
    BY <1>1, <2>1, StepGrows
  <2>3. ASSUME NEW before, before = XpTotal, NEW after, after = XpTotal'
        PROVE  /\ before <= after + IF StaleWrite THEN 2 * XP_PER_STAR ELSE 0
               /\ ~StaleWrite => LevelFor(before).level <= LevelFor(after).level
    <3>1. before \in Nat /\ after \in Nat /\ before <= after + 50 /\ (~StaleWrite => before <= after)
      BY <1>1, <2>1, <2>2, <2>3, XpGrows
    <3>2. before <= after + IF StaleWrite THEN 2 * XP_PER_STAR ELSE 0
      BY <3>1 DEF XP_PER_STAR
    <3> QED
      BY <3>1, <3>2, LevelsGrow
  <2>4. ASSUME NEW q \in quizzes PROVE ~Beats(Best(q.quiz).round, Best(q.quiz).round')
    <3>1. PICK quiz : quiz = q.quiz
      OBVIOUS
    <3>2. q \in RoundsOf({quiz})
      BY <3>1 DEF RoundsOf
    <3>3. Best(quiz).round \in RoundsOf({quiz})
      BY <1>1, <3>2, BestIsUnbeaten DEF IInv
    <3>4. Best(quiz).round \in RoundsOf({quiz})'
      BY <2>2, <3>3, KeepsEvents
    <3>5. (RoundsInv => BestIsUnbeaten!2)'
      BY BestIsUnbeaten, PTL
    <3>6. ~Beats(Best(quiz).round, Best(quiz).round')
      BY <1>1, <3>4, <3>5 DEF IInv
    <3> QED
      BY <3>1, <3>6
  <2> QED
    BY <2>3, <2>4
<1>2. IInv /\ IInv' /\ [Next]_vars =>
        [tables' # tables /\ ~Reset /\ ~LateRound =>
           /\ \A before \in {XpTotal}, after \in {XpTotal'} :
                /\ before <= after + IF StaleWrite THEN 2 * XP_PER_STAR ELSE 0
                /\ ~StaleWrite => LevelFor(before).level <= LevelFor(after).level
           /\ \A q \in quizzes : ~Beats(Best(q.quiz).round, Best(q.quiz).round')]_vars
  BY <1>1
<1> QED
  BY <1>2, RowsAreDated, PTL DEF Spec, XpOnlyGrows
=============================================================================
