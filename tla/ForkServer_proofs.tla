-------------------------- MODULE ForkServer_proofs --------------------------
(***************************************************************************)
(* Proofs about ForkServer, for any number of jobs and of children at once.*)
(***************************************************************************)
EXTENDS MCForkServer, FiniteSetTheorems, SequenceTheorems, WellFoundedInduction, TLAPS

-----------------------------------------------------------------------------
(* The inductive invariant.                                                *)

NoneTwice(s) == \A i, k \in DOMAIN s : s[i] = s[k] => i = k

(* Each queue names a job once, and no job is in two places. *)
Apart ==
  /\ NoneTwice(stdin) /\ NoneTwice(waiting) /\ NoneTwice(running)
  /\ Unread \cap Members(waiting) = {} /\ Unread \cap Members(running) = {} /\ Unread \cap Answered = {}
  /\ Members(waiting) \cap Members(running) = {} /\ Members(waiting) \cap Answered = {}
  /\ Members(running) \cap Answered = {}
  /\ awaited \cap (Unread \cup Members(waiting) \cup Members(running) \cup Answered) = {}
  /\ Unread \cup Members(waiting) \cup Members(running) \cup awaited \cup Answered \subseteq sent

(* The loop waits for one child at a time, and for none elsewhere in the loop. *)
OneAwaited ==
  /\ awaited = {} \/ \E j \in Jobs : awaited = {j}
  /\ pc = "await" <=> awaited # {}

(* Nothing is left of a round when the next begins; who is to be killed is late. *)
RoundInv ==
  /\ pc = "fill" => ready = {}
  /\ pc = "kill" => ready \subseteq Members(running) \cap due

IInv == /\ TypeOK /\ IsFiniteSet(sent) /\ Apart /\ OneAwaited /\ RoundInv
        /\ InOnePlace /\ ChildrenAreWatched /\ ReadyIsWatched

-----------------------------------------------------------------------------
(* Lemmas about sequences.                                                 *)

LEMMA MembersAreElements ==
  ASSUME NEW S, NEW s \in Seq(S)
  PROVE  Members(s) \subseteq S /\ (Members(s) = {} <=> s = <<>>)
<1>1. DOMAIN s = 1..Len(s) /\ Len(s) \in Nat /\ \A i \in 1..Len(s) : s[i] \in S
  OBVIOUS
<1>2. s # <<>> => s[1] \in Members(s)
  <2>1. s # <<>> => 1 \in 1..Len(s)
    BY <1>1
  <2> QED
    BY <2>1, <1>1 DEF Members
<1>3. s = <<>> => Members(s) = {}
  BY DEF Members
<1> QED
  BY <1>1, <1>2, <1>3 DEF Members

LEMMA ElementsAreMembers ==
  ASSUME NEW S, NEW s \in Seq(S)
  PROVE  \A i \in 1..Len(s) : i \in DOMAIN s /\ s[i] \in Members(s)
<1>1. DOMAIN s = 1..Len(s)
  OBVIOUS
<1> QED
  BY <1>1 DEF Members

LEMMA AfterAppend ==
  ASSUME NEW S, NEW s \in Seq(S), NEW x \in S
  PROVE  /\ Append(s, x) \in Seq(S) /\ Len(Append(s, x)) = Len(s) + 1
         /\ Members(Append(s, x)) = Members(s) \cup {x}
         /\ NoneTwice(s) /\ x \notin Members(s) => NoneTwice(Append(s, x))
<1> DEFINE t == Append(s, x)
<1>1. t \in Seq(S) /\ Len(t) = Len(s) + 1 /\ t[Len(s) + 1] = x
  OBVIOUS
<1>2. \A i \in 1..Len(s) : t[i] = s[i]
  OBVIOUS
<1>3. DOMAIN t = 1..Len(s) + 1 /\ DOMAIN s = 1..Len(s) /\ Len(s) \in Nat
  BY <1>1
<1> HIDE DEF t
<1>4. Members(t) = Members(s) \cup {x}
  BY <1>1, <1>2, <1>3 DEF Members
<1>5. ASSUME NoneTwice(s), x \notin Members(s) PROVE NoneTwice(t)
  BY <1>1, <1>2, <1>3, <1>5 DEF Members, NoneTwice
<1> QED
  BY <1>1, <1>4, <1>5 DEF t

LEMMA AfterTail ==
  ASSUME NEW S, NEW s \in Seq(S), s # <<>>, NoneTwice(s)
  PROVE  /\ Tail(s) \in Seq(S) /\ Len(Tail(s)) = Len(s) - 1 /\ Head(s) \in S
         /\ Head(s) \in Members(s) /\ Members(Tail(s)) = Members(s) \ {Head(s)}
         /\ NoneTwice(Tail(s))
<1> DEFINE t == Tail(s)
<1>1. /\ t \in Seq(S) /\ Len(t) = Len(s) - 1 /\ Head(s) \in S
      /\ \A i \in 1..Len(t) : t[i] = s[i + 1]
  BY HeadTailProperties
<1>2. Head(s) = s[1] /\ Len(s) \in Nat /\ Len(s) > 0
  OBVIOUS
<1>3. DOMAIN t = 1..Len(s) - 1 /\ DOMAIN s = 1..Len(s)
  BY <1>1
<1> HIDE DEF t
<1>4. Head(s) \in Members(s)
  BY <1>2, <1>3 DEF Members
<1>5. \A i \in 1..Len(s) - 1 : t[i] = s[i + 1] /\ i + 1 \in 1..Len(s) /\ i + 1 # 1
  BY <1>1, <1>2
<1>6. NoneTwice(t)
  <2>1. ASSUME NEW i \in 1..Len(s) - 1, NEW k \in 1..Len(s) - 1, t[i] = t[k] PROVE i = k
    <3>1. s[i + 1] = s[k + 1] /\ i + 1 \in DOMAIN s /\ k + 1 \in DOMAIN s
      BY <2>1, <1>3, <1>5
    <3>2. i + 1 = k + 1
      BY <3>1 DEF NoneTwice
    <3> QED
      BY <3>2
  <2> QED
    BY <2>1, <1>3 DEF NoneTwice
<1>7. Members(t) \subseteq Members(s) \ {Head(s)}
  <2>1. ASSUME NEW i \in 1..Len(s) - 1 PROVE t[i] \in Members(s) \ {Head(s)}
    <3>1. t[i] = s[i + 1] /\ i + 1 \in DOMAIN s /\ 1 \in DOMAIN s /\ i + 1 # 1
      BY <1>2, <1>3, <1>5
    <3> QED
      BY <3>1, <1>2 DEF Members, NoneTwice
  <2> QED
    BY <2>1, <1>3 DEF Members
<1>8. ASSUME NEW y \in Members(s), y # Head(s) PROVE y \in Members(t)
  <2>1. PICK i \in 1..Len(s) : s[i] = y
    BY <1>3 DEF Members
  <2>2. i # 1 /\ i - 1 \in 1..Len(s) - 1
    BY <2>1, <1>2, <1>8
  <2>3. t[i - 1] = y
    BY <2>1, <2>2, <1>5
  <2> QED
    BY <2>2, <2>3, <1>3 DEF Members
<1> QED
  BY <1>1, <1>4, <1>6, <1>7, <1>8 DEF t

(* What a read takes from stdin, and what it leaves there. *)
LEMMA Split ==
  ASSUME NEW S, NEW s \in Seq(S), NoneTwice(s), NEW n \in 1..Len(s)
  PROVE  LET a == SubSeq(s, 1, n)
             b == SubSeq(s, n + 1, Len(s))
         IN  /\ a \in Seq(S) /\ b \in Seq(S) /\ Len(a) + Len(b) = Len(s)
             /\ NoneTwice(a) /\ NoneTwice(b)
             /\ Members(a) \cap Members(b) = {} /\ Members(a) \cup Members(b) = Members(s)
<1> DEFINE a == SubSeq(s, 1, n)
           b == SubSeq(s, n + 1, Len(s))
<1>1. DOMAIN s = 1..Len(s) /\ Len(s) \in Nat /\ n \in Nat /\ n <= Len(s) /\ \A i \in 1..Len(s) : s[i] \in S
  OBVIOUS
<1>2. a \in Seq(S) /\ Len(a) = n /\ \A i \in 1..n : a[i] = s[i]
  <2>1. \A i \in 1..n : s[i] \in S
    BY <1>1
  <2>2. /\ a \in Seq(S) /\ Len(a) = IF 1 <= n THEN n - 1 + 1 ELSE 0
        /\ \A i \in 1..n - 1 + 1 : a[i] = s[1 + i - 1]
    <3>1. 1 \in Int /\ n \in Int
      BY <1>1
    <3> QED
      BY <2>1, <3>1, SubSeqProperties
  <2> HIDE DEF a
  <2> QED
    BY <2>2, <1>1
<1>3. b \in Seq(S) /\ Len(b) = Len(s) - n /\ \A i \in 1..Len(s) - n : b[i] = s[i + n]
  <2>1. \A i \in n + 1..Len(s) : s[i] \in S
    BY <1>1
  <2>2. /\ b \in Seq(S) /\ Len(b) = IF n + 1 <= Len(s) THEN Len(s) - (n + 1) + 1 ELSE 0
        /\ \A i \in 1..Len(s) - (n + 1) + 1 : b[i] = s[n + 1 + i - 1]
    <3>1. n + 1 \in Int /\ Len(s) \in Int
      BY <1>1
    <3> QED
      BY <2>1, <3>1, SubSeqProperties
  <2> HIDE DEF b
  <2>3. Len(b) = Len(s) - n
    <3>1. CASE n + 1 <= Len(s)
      BY <3>1, <2>2, <1>1
    <3>2. CASE ~(n + 1 <= Len(s))
      <4>1. Len(b) = 0
        BY <3>2, <2>2
      <4>2. n = Len(s)
        <5>1. \A k, l \in Nat : k <= l /\ ~(k + 1 <= l) => k = l
          OBVIOUS
        <5> QED
          BY <5>1, <3>2, <1>1, Zenon
      <4> QED
        BY <4>1, <4>2, <1>1
    <3> QED
      BY <3>1, <3>2, <1>1
  <2>4. ASSUME NEW i \in 1..Len(s) - n PROVE b[i] = s[i + n]
    <3>1. i \in 1..Len(s) - (n + 1) + 1 /\ n + 1 + i - 1 = i + n
      BY <1>1
    <3> QED
      BY <2>2, <3>1
  <2> QED
    BY <2>2, <2>3, <2>4
<1> HIDE DEF a, b
<1>4. DOMAIN a = 1..n /\ DOMAIN b = 1..Len(s) - n
  BY <1>2, <1>3
<1>5. /\ \A i \in 1..n : i \in 1..Len(s)
      /\ \A i \in 1..Len(s) - n : i + n \in 1..Len(s) /\ i + n \notin 1..n
  BY <1>1
<1>6. NoneTwice(a) /\ NoneTwice(b)
  <2>1. ASSUME NEW i \in 1..n, NEW k \in 1..n, a[i] = a[k] PROVE i = k
    BY <2>1, <1>1, <1>2, <1>5 DEF NoneTwice
  <2>2. ASSUME NEW i \in 1..Len(s) - n, NEW k \in 1..Len(s) - n, b[i] = b[k] PROVE i = k
    <3>1. i + n = k + n
      BY <2>2, <1>1, <1>3, <1>5 DEF NoneTwice
    <3> QED
      BY <3>1, <1>1
  <2> QED
    BY <2>1, <2>2, <1>4 DEF NoneTwice
<1>7. Members(a) \cap Members(b) = {}
  <2>1. ASSUME NEW i \in 1..n, NEW k \in 1..Len(s) - n, a[i] = b[k] PROVE FALSE
    <3>1. s[i] = s[k + n]
      BY <2>1, <1>2, <1>3
    <3>2. i = k + n
      BY <3>1, <1>1, <1>5 DEF NoneTwice
    <3> QED
      BY <3>2, <1>5
  <2> QED
    BY <2>1, <1>4 DEF Members
<1>8. Members(a) \cup Members(b) \subseteq Members(s)
  <2>1. \A i \in 1..n : a[i] \in Members(s)
    BY <1>1, <1>2, <1>5 DEF Members
  <2>2. \A i \in 1..Len(s) - n : b[i] \in Members(s)
    BY <1>1, <1>3, <1>5 DEF Members
  <2> QED
    BY <2>1, <2>2, <1>4 DEF Members
<1>9. ASSUME NEW i \in 1..Len(s) PROVE s[i] \in Members(a) \cup Members(b)
  <2>1. CASE i <= n
    BY <2>1, <1>2, <1>4 DEF Members
  <2>2. CASE i > n
    <3>1. i - n \in 1..Len(s) - n /\ b[i - n] = s[i]
      BY <2>2, <1>1, <1>3
    <3> QED
      BY <3>1, <1>4 DEF Members
  <2> QED
    BY <2>1, <2>2, <1>1
<1>10. Members(s) \subseteq Members(a) \cup Members(b)
  BY <1>9, <1>1 DEF Members
<1>11. Len(a) + Len(b) = Len(s)
  BY <1>1, <1>2, <1>3
<1> QED
  BY <1>2, <1>3, <1>6, <1>7, <1>8, <1>10, <1>11 DEF a, b

LEMMA Joined ==
  ASSUME NEW S, NEW s \in Seq(S), NEW t \in Seq(S)
  PROVE  /\ s \o t \in Seq(S) /\ Len(s \o t) = Len(s) + Len(t)
         /\ Members(s \o t) = Members(s) \cup Members(t)
         /\ NoneTwice(s) /\ NoneTwice(t) /\ Members(s) \cap Members(t) = {} => NoneTwice(s \o t)
<1> DEFINE u == s \o t
<1>1. /\ u \in Seq(S) /\ Len(u) = Len(s) + Len(t)
      /\ \A i \in 1..Len(s) + Len(t) : u[i] = IF i <= Len(s) THEN s[i] ELSE t[i - Len(s)]
  BY ConcatProperties
<1>2. /\ DOMAIN u = 1..Len(s) + Len(t) /\ DOMAIN s = 1..Len(s) /\ DOMAIN t = 1..Len(t)
      /\ Len(s) \in Nat /\ Len(t) \in Nat
  BY <1>1
<1> HIDE DEF u
<1>3. Members(u) \subseteq Members(s) \cup Members(t)
  <2>1. ASSUME NEW i \in 1..Len(s) + Len(t) PROVE u[i] \in Members(s) \cup Members(t)
    <3>1. CASE i <= Len(s)
      <4>1. i \in 1..Len(s) /\ u[i] = s[i]
        BY <3>1, <1>1, <1>2
      <4> QED
        BY <4>1, ElementsAreMembers
    <3>2. CASE i > Len(s)
      <4>1. i - Len(s) \in 1..Len(t) /\ u[i] = t[i - Len(s)]
        BY <3>2, <1>1, <1>2
      <4> QED
        BY <4>1, ElementsAreMembers
    <3> QED
      BY <3>1, <3>2, <1>2
  <2> QED
    BY <2>1, <1>2 DEF Members
<1>4. ASSUME NEW i \in 1..Len(s) PROVE s[i] \in Members(u)
  <2>1. i \in 1..Len(s) + Len(t) /\ u[i] = s[i]
    BY <1>1, <1>2
  <2> QED
    BY <2>1, <1>2 DEF Members
<1>5. ASSUME NEW i \in 1..Len(t) PROVE t[i] \in Members(u)
  <2>1. i + Len(s) \in 1..Len(s) + Len(t) /\ u[i + Len(s)] = t[i]
    BY <1>1, <1>2
  <2> QED
    BY <2>1, <1>2 DEF Members
<1>6. Members(s) \cup Members(t) \subseteq Members(u)
  BY <1>4, <1>5, <1>2 DEF Members
<1>7. ASSUME NoneTwice(s), NoneTwice(t), Members(s) \cap Members(t) = {} PROVE NoneTwice(u)
  <2>1. \A i \in 1..Len(s), k \in 1..Len(t) : s[i] # t[k]
    BY <1>7, <1>2 DEF Members
  <2>2. SUFFICES ASSUME NEW i \in 1..Len(s) + Len(t), NEW k \in 1..Len(s) + Len(t), u[i] = u[k]
                 PROVE  i = k
    BY <1>2 DEF NoneTwice
  <2>3. CASE i <= Len(s) /\ k <= Len(s)
    <3>1. i \in 1..Len(s) /\ k \in 1..Len(s) /\ s[i] = s[k]
      BY <2>2, <2>3, <1>1, <1>2
    <3> QED
      BY <3>1, <1>2, <1>7 DEF NoneTwice
  <2>4. CASE i > Len(s) /\ k > Len(s)
    <3>1. /\ i - Len(s) \in 1..Len(t) /\ k - Len(s) \in 1..Len(t)
          /\ t[i - Len(s)] = t[k - Len(s)]
      BY <2>2, <2>4, <1>1, <1>2
    <3>2. i - Len(s) = k - Len(s)
      BY <3>1, <1>2, <1>7 DEF NoneTwice
    <3> QED
      BY <3>2, <1>2
  <2>5. CASE i <= Len(s) /\ k > Len(s)
    <3>1. i \in 1..Len(s) /\ k - Len(s) \in 1..Len(t) /\ s[i] = t[k - Len(s)]
      BY <2>2, <2>5, <1>1, <1>2
    <3> QED
      BY <3>1, <2>1
  <2>6. CASE i > Len(s) /\ k <= Len(s)
    <3>1. k \in 1..Len(s) /\ i - Len(s) \in 1..Len(t) /\ s[k] = t[i - Len(s)]
      BY <2>2, <2>6, <1>1, <1>2
    <3> QED
      BY <3>1, <2>1
  <2> QED
    BY <2>3, <2>4, <2>5, <2>6, <1>2
<1> QED
  BY <1>1, <1>3, <1>6, <1>7 DEF u

(* One element less. *)
LEMMA AfterWithout ==
  ASSUME NEW S, NEW s \in Seq(S), NoneTwice(s), NEW x \in Members(s)
  PROVE  /\ Without(s, x) \in Seq(S) /\ Len(Without(s, x)) = Len(s) - 1
         /\ Members(Without(s, x)) = Members(s) \ {x} /\ NoneTwice(Without(s, x))
<1> DEFINE p == Place(s, x)
           t == Without(s, x)
<1>1. DOMAIN s = 1..Len(s) /\ Len(s) \in Nat /\ \A i \in 1..Len(s) : s[i] \in S
  OBVIOUS
<1>2. p \in 1..Len(s) /\ s[p] = x
  BY <1>1 DEF Members, Place
<1>3. t = [i \in 1..Len(s) - 1 |-> IF i < p THEN s[i] ELSE s[i + 1]]
  BY DEF Without
<1> HIDE DEF p, t
<1>4. \A i \in 1..Len(s) - 1 : t[i] = IF i < p THEN s[i] ELSE s[i + 1]
  BY <1>3
<1>5. Len(s) - 1 \in Nat
  BY <1>1, <1>2
<1>6. t \in Seq(S) /\ Len(t) = Len(s) - 1 /\ DOMAIN t = 1..Len(s) - 1
  <2>1. \A i \in 1..Len(s) - 1 : (IF i < p THEN s[i] ELSE s[i + 1]) \in S
    BY <1>1, <1>2
  <2>2. t \in Seq(S)
    BY <2>1, <1>3, <1>5
  <2>3. DOMAIN t = 1..Len(s) - 1
    BY <1>3
  <2> QED
    BY <2>2, <2>3, <1>5, LenProperties
<1> DEFINE At(i) == IF i < p THEN i ELSE i + 1
<1>7. \A i \in 1..Len(s) - 1 : t[i] = s[At(i)] /\ At(i) \in DOMAIN s /\ At(i) # p
  BY <1>1, <1>2, <1>4
<1>8. \A i, k \in 1..Len(s) - 1 : At(i) = At(k) => i = k
  BY <1>1, <1>2
<1> HIDE DEF At
<1>9. NoneTwice(t)
  BY <1>6, <1>7, <1>8 DEF NoneTwice
<1>10. Members(t) \subseteq Members(s) \ {x}
  <2>1. ASSUME NEW i \in 1..Len(s) - 1 PROVE t[i] \in Members(s) \ {x}
    BY <1>1, <1>2, <1>7 DEF NoneTwice, Members
  <2> QED
    BY <2>1, <1>6 DEF Members
<1>11. ASSUME NEW i \in 1..Len(s), s[i] # x PROVE s[i] \in Members(t)
  <2>1. CASE i < p
    <3>1. i \in 1..Len(s) - 1 /\ t[i] = s[i]
      BY <2>1, <1>1, <1>2, <1>4
    <3> QED
      BY <3>1, <1>6 DEF Members
  <2>2. CASE i > p
    <3>1. i - 1 \in 1..Len(s) - 1 /\ t[i - 1] = s[i]
      BY <2>2, <1>1, <1>2, <1>4
    <3> QED
      BY <3>1, <1>6 DEF Members
  <2> QED
    BY <2>1, <2>2, <1>1, <1>2, <1>11
<1>12. Members(s) \ {x} \subseteq Members(t)
  BY <1>11, <1>1 DEF Members
<1> QED
  BY <1>6, <1>9, <1>10, <1>12 DEF t

(* Among descriptors that are watched one is the earliest. *)
LEMMA EarliestIsOne ==
  ASSUME running \in Seq(Jobs), NEW fds, fds \subseteq Members(running), fds # {}
  PROVE  Earliest(fds) \in fds
<1> DEFINE Places == {Place(running, j) : j \in fds}
           Below  == OpToRel(<, Nat)
<1>1. IsWellFoundedOn(Below, Nat)
  BY NatLessThanWellFounded
<1>2. \A x, y \in Nat : x < y => <<x, y>> \in Below
  BY DEF OpToRel
<1>3. \A j \in fds : Place(running, j) \in Nat
  <2>1. DOMAIN running = 1..Len(running) /\ Len(running) \in Nat
    OBVIOUS
  <2> QED
    BY <2>1 DEF Place, Members
<1>4. Places \subseteq Nat /\ Places # {}
  BY <1>3
<1> HIDE DEF Below
<1>5. PICK p \in Places : \A q \in Places : ~(<<q, p>> \in Below)
  <2> HIDE DEF Places
  <2> QED
    BY <1>1, <1>4, WFMin
<1>6. \A q \in Places : p <= q
  <2> HIDE DEF Places
  <2>1. ASSUME NEW q \in Places PROVE ~(q < p)
    <3>1. q \in Nat /\ p \in Nat /\ ~(<<q, p>> \in Below)
      BY <1>4, <1>5
    <3> QED
      BY <3>1, <1>2
  <2>2. ASSUME NEW q \in Places PROVE p <= q
    BY <2>1, <1>4
  <2> QED
    BY <2>2
<1>7. \E fd \in fds : \A j \in fds : Place(running, fd) <= Place(running, j)
  BY <1>5, <1>6
<1> QED
  BY <1>7 DEF Earliest

-----------------------------------------------------------------------------
(* Lemmas about the queues of a state.                                     *)

LEMMA SizesAreNat ==
  ASSUME IInv
  PROVE  /\ Len(stdin) \in Nat /\ Len(waiting) \in Nat /\ Len(running) \in Nat /\ Len(replies) \in Nat
         /\ Cardinality(sent) \in Nat /\ Cardinality(awaited) \in Nat
<1>1. Cardinality(sent) \in Nat
  BY FS_CardinalityType DEF IInv
<1>2. IsFiniteSet(awaited)
  <2>1. CASE awaited = {}
    BY <2>1, FS_EmptySet
  <2>2. CASE \E j \in Jobs : awaited = {j}
    BY <2>2, FS_Singleton
  <2> QED
    BY <2>1, <2>2 DEF IInv, OneAwaited
<1>3. Cardinality(awaited) \in Nat
  BY <1>2, FS_CardinalityType
<1> QED
  BY <1>1, <1>3 DEF IInv, TypeOK

(* A reply is written, or it ends the server. *)
LEMMA ReplyEffect ==
  ASSUME TypeOK, NEW j \in Jobs, NEW outcome \in Outcomes, NEW next, next # "exited", Reply(j, outcome, next)
  PROVE  /\ replies' \in Seq([job : Jobs, outcome : Outcomes])
         /\ \/ closed /\ pc' = "exited" /\ Answered' = Answered /\ Len(replies') = Len(replies)
            \/ ~closed /\ pc' = next /\ Answered' = Answered \cup {j} /\ Len(replies') = Len(replies) + 1
<1> DEFINE new == [job |-> j, outcome |-> outcome]
           Line == [job : Jobs, outcome : Outcomes]
<1>1. replies \in Seq(Line) /\ new \in Line /\ new.job = j
  BY DEF TypeOK
<1>2. CASE closed
  <2>1. pc' = "exited" /\ replies' = replies
    BY <1>2 DEF Reply
  <2> QED
    BY <1>1, <1>2, <2>1 DEF Answered
<1>3. CASE ~closed
  <2>1. pc' = next /\ replies' = Append(replies, new)
    BY <1>3 DEF Reply
  <2> HIDE DEF new, Line
  <2>2. /\ replies' \in Seq(Line) /\ Len(replies') = Len(replies) + 1
        /\ Members(replies') = Members(replies) \cup {new}
    BY <2>1, <1>1, AfterAppend
  <2>3. \A x : x \in Answered <=> \E l \in Members(replies) : x = l.job
    BY DEF Answered, Members
  <2>4. \A x : x \in Answered' <=> \E l \in Members(replies') : x = l.job
    BY DEF Answered, Members
  <2>5. Answered' = Answered \cup {j}
    BY <2>2, <2>3, <2>4, <1>1
  <2> QED
    BY <1>3, <2>1, <2>2, <2>5 DEF Line
<1> QED
  BY <1>2, <1>3

LEMMA OutcomeType ==
  ASSUME NEW end
  PROVE  Outcome(end) \in Outcomes
BY DEF Outcome, Outcomes

-----------------------------------------------------------------------------
(* Init and the steps of the loop.                                         *)

LEMMA InitInv == Init => IInv
<1> SUFFICES ASSUME Init PROVE IInv
  OBVIOUS
<1>1. Members(stdin) = {} /\ Members(waiting) = {} /\ Members(running) = {} /\ Answered = {}
  BY DEF Init, Members, Answered
<1>2. TypeOK
  <2>1. child \in [Jobs -> Child]
    BY DEF Init, Child
  <2>2. \A S : <<>> \in Seq(S)
    OBVIOUS
  <2> QED
    BY <2>1, <2>2 DEF Init, TypeOK
<1>3. IsFiniteSet(sent) /\ Cardinality(sent) = 0
  BY FS_EmptySet DEF Init
<1>4. Apart
  <2>1. NoneTwice(stdin) /\ NoneTwice(waiting) /\ NoneTwice(running)
    BY DEF Init, NoneTwice
  <2> QED
    BY <1>1, <2>1 DEF Init, Apart, Unread
<1>5. RoundInv /\ ReadyIsWatched /\ OneAwaited
  BY DEF Init, RoundInv, ReadyIsWatched, OneAwaited
<1>6. InOnePlace
  <2>1. Len(stdin) + Len(waiting) + Len(running) + Cardinality(awaited) + Len(replies) = 0
    BY FS_EmptySet DEF Init
  <2> QED
    BY <2>1, <1>3 DEF Init, InOnePlace
<1>7. ChildrenAreWatched
  <2>1. Len(running) + Cardinality(awaited) = 0 /\ awaited = {}
    BY FS_EmptySet DEF Init
  <2>2. \A j \in Jobs : child[j] = "none"
    BY DEF Init
  <2> QED
    BY <2>1, <2>2, <1>1, ParallelAssumption DEF ChildrenAreWatched
<1> QED
  BY <1>2, <1>3, <1>4, <1>5, <1>6, <1>7 DEF IInv

LEMMA StartInv ==
  ASSUME IInv, StartJob
  PROVE  IInv'
<1> DEFINE j == Head(waiting)
<1>1. TypeOK /\ Apart /\ pc = "fill" /\ waiting # <<>> /\ Len(running) < Parallel /\ ready = {} /\ awaited = {}
  BY DEF IInv, StartJob, CanStart, RoundInv, OneAwaited
<1>2. /\ waiting' \in Seq(Jobs) /\ Len(waiting') = Len(waiting) - 1 /\ NoneTwice(waiting')
      /\ j \in Jobs /\ j \in Members(waiting) /\ Members(waiting') = Members(waiting) \ {j}
  <2>1. waiting \in Seq(Jobs) /\ NoneTwice(waiting) /\ waiting' = Tail(waiting)
    BY <1>1 DEF TypeOK, Apart, StartJob
  <2> QED
    BY <1>1, <2>1, AfterTail
<1>3. /\ Len(stdin) \in Nat /\ Len(waiting) \in Nat /\ Len(running) \in Nat /\ Len(replies) \in Nat
      /\ Cardinality(sent) \in Nat /\ Cardinality(awaited) \in Nat
  BY SizesAreNat
<1>4. sent' = sent /\ stdin' = stdin /\ closed' = closed /\ stdinOpen' = stdinOpen /\ due' = due /\ ready' = ready /\ awaited' = awaited
  BY DEF StartJob
<1>5. \/ /\ running' = Append(running, j) /\ child' = [child EXCEPT ![j] = "busy"]
         /\ UNCHANGED <<pc, replies>>
      \/ Reply(j, "crashed", "fill") /\ UNCHANGED <<running, child>>
  BY DEF StartJob
<1> HIDE DEF j
<1>6. CASE /\ running' = Append(running, j) /\ child' = [child EXCEPT ![j] = "busy"]
           /\ UNCHANGED <<pc, replies>>
  <2>1. j \notin Members(running)
    BY <1>1, <1>2 DEF Apart
  <2>2. /\ running' \in Seq(Jobs) /\ Len(running') = Len(running) + 1 /\ NoneTwice(running')
        /\ Members(running') = Members(running) \cup {j}
    <3>1. running \in Seq(Jobs) /\ NoneTwice(running)
      BY <1>1 DEF TypeOK, Apart
    <3> QED
      BY <1>2, <1>6, <2>1, <3>1, AfterAppend
  <2>3. Answered' = Answered
    BY <1>6 DEF Answered
  <2>4. child \in [Jobs -> Child] /\ child' \in [Jobs -> Child]
    BY <1>1, <1>2, <1>6 DEF TypeOK, Child, Alive
  <2>5. TypeOK'
    BY <1>1, <1>2, <1>4, <1>6, <2>2, <2>4 DEF TypeOK
  <2>6. Apart'
    BY <1>1, <1>2, <1>4, <2>2, <2>3 DEF Apart, Unread
  <2>7. InOnePlace'
    <3>1. sent' \subseteq Members(stdin') \cup Members(waiting') \cup Members(running') \cup awaited' \cup Answered'
      BY <1>1, <1>2, <1>4, <2>2, <2>3 DEF IInv, InOnePlace, Unread
    <3>2. Len(stdin') + Len(waiting') + Len(running') + Cardinality(awaited') + Len(replies') <= Cardinality(sent')
      BY <1>2, <1>3, <1>4, <1>6, <2>2 DEF IInv, InOnePlace
    <3> QED
      BY <3>1, <3>2 DEF InOnePlace, Unread
  <2>8. ChildrenAreWatched'
    <3>1. Len(running') + Cardinality(awaited') <= Parallel
      BY <1>1, <1>3, <1>4, <2>2, ParallelAssumption, FS_EmptySet
    <3>2. \A k \in Jobs : child[k] \notin {"none", "reaped"} <=> k \in Members(running)
      BY <1>1 DEF IInv, ChildrenAreWatched
    <3>3. \A k \in Jobs : child'[k] = IF k = j THEN "busy" ELSE child[k]
      BY <1>2, <1>6, <2>4
    <3> QED
      BY <3>1, <3>2, <3>3, <1>1, <1>4, <2>2 DEF ChildrenAreWatched
  <2>9. RoundInv' /\ ReadyIsWatched' /\ OneAwaited'
    BY <1>1, <1>4, <1>6 DEF RoundInv, ReadyIsWatched, OneAwaited
  <2> QED
    BY <1>4, <2>5, <2>6, <2>7, <2>8, <2>9 DEF IInv
<1>7. CASE Reply(j, "crashed", "fill") /\ UNCHANGED <<running, child>>
  <2>1. /\ replies' \in Seq([job : Jobs, outcome : Outcomes])
        /\ \/ closed /\ pc' = "exited" /\ Answered' = Answered /\ Len(replies') = Len(replies)
           \/ ~closed /\ pc' = "fill" /\ Answered' = Answered \cup {j} /\ Len(replies') = Len(replies) + 1
    <3>1. "crashed" \in Outcomes
      BY DEF Outcomes
    <3> QED
      BY <1>1, <1>2, <1>7, <3>1, ReplyEffect
  <2>2. TypeOK'
    BY <1>1, <1>2, <1>4, <1>7, <2>1 DEF TypeOK
  <2>3. Apart'
    BY <1>1, <1>2, <1>4, <1>7, <2>1 DEF Apart, Unread
  <2>4. InOnePlace'
    <3>1. pc' # "exited" => sent' \subseteq Members(stdin') \cup Members(waiting') \cup Members(running') \cup awaited' \cup Answered'
      BY <1>1, <1>2, <1>4, <1>7, <2>1 DEF IInv, InOnePlace, Unread
    <3>2. Len(stdin') + Len(waiting') + Len(running') + Cardinality(awaited') + Len(replies') <= Cardinality(sent')
      BY <1>2, <1>3, <1>4, <1>7, <2>1 DEF IInv, InOnePlace
    <3> QED
      BY <3>1, <3>2 DEF InOnePlace, Unread
  <2>5. ChildrenAreWatched' /\ RoundInv' /\ ReadyIsWatched' /\ OneAwaited'
    BY <1>1, <1>4, <1>7, <2>1 DEF IInv, ChildrenAreWatched, RoundInv, ReadyIsWatched, OneAwaited
  <2> QED
    BY <1>4, <2>2, <2>3, <2>4, <2>5 DEF IInv
<1> QED
  BY <1>5, <1>6, <1>7

(* select(), the deadlines, the end of a round and the passing of time leave the queues alone. *)
LEMMA QueuesAlone ==
  ASSUME IInv, UNCHANGED <<sent, stdin, waiting, running, awaited, child, replies>>,
         pc = "exited" => pc' = "exited"
  PROVE  Apart' /\ InOnePlace' /\ ChildrenAreWatched' /\ Answered' = Answered
<1>1. Answered' = Answered
  BY DEF Answered
<1> QED
  BY <1>1 DEF IInv, Apart, InOnePlace, ChildrenAreWatched, Unread

LEMMA SelectInv ==
  ASSUME IInv, Select
  PROVE  IInv'
<1>1. Apart' /\ InOnePlace' /\ ChildrenAreWatched'
  BY QueuesAlone DEF Select
<1>2. Members(running) \subseteq Jobs
  BY MembersAreElements DEF IInv, TypeOK
<1>3. ready' \subseteq Members(running) \cup {Stdin}
  BY DEF Select, Readable
<1> QED
  BY <1>1, <1>2, <1>3 DEF IInv, Select, TypeOK, RoundInv, ReadyIsWatched, OneAwaited

LEMMA CheckInv ==
  ASSUME IInv, CheckDeadlines
  PROVE  IInv'
<1>1. Apart' /\ InOnePlace' /\ ChildrenAreWatched'
  BY QueuesAlone DEF CheckDeadlines
<1>2. Members(running) \subseteq Jobs
  BY MembersAreElements DEF IInv, TypeOK
<1> QED
  BY <1>1, <1>2 DEF IInv, CheckDeadlines, TypeOK, RoundInv, ReadyIsWatched, OneAwaited

LEMMA AgainInv ==
  ASSUME IInv, Again
  PROVE  IInv'
<1>1. Apart' /\ InOnePlace' /\ ChildrenAreWatched'
  BY QueuesAlone DEF Again
<1> QED
  BY <1>1 DEF IInv, Again, TypeOK, RoundInv, ReadyIsWatched, OneAwaited

LEMMA OverdueInv ==
  ASSUME IInv, NEW j \in Jobs, Overdue(j)
  PROVE  IInv'
<1>1. Apart' /\ InOnePlace' /\ ChildrenAreWatched'
  BY QueuesAlone DEF Overdue, loop
<1> QED
  BY <1>1 DEF IInv, Overdue, loop, TypeOK, RoundInv, ReadyIsWatched, OneAwaited

LEMMA CloseInv ==
  ASSUME IInv, Close
  PROVE  IInv'
<1>1. Apart' /\ InOnePlace' /\ ChildrenAreWatched'
  BY QueuesAlone DEF Close, loop
<1> QED
  BY <1>1 DEF IInv, Close, loop, TypeOK, RoundInv, ReadyIsWatched, OneAwaited

LEMMA StutterInv ==
  ASSUME IInv, UNCHANGED vars
  PROVE  IInv'
<1>1. Apart' /\ InOnePlace' /\ ChildrenAreWatched'
  BY QueuesAlone DEF vars
<1> QED
  BY <1>1 DEF IInv, vars, TypeOK, RoundInv, ReadyIsWatched, OneAwaited

LEMMA ReadStdinInv ==
  ASSUME IInv, ReadStdin
  PROVE  IInv'
<1>1. CASE stdin = <<>>
  <2>1. UNCHANGED <<sent, stdin, waiting, running, awaited, child, replies, pc, due, closed>> /\ ready' = ready \ {Stdin}
        /\ stdinOpen' = FALSE /\ pc = "handle"
    BY <1>1 DEF ReadStdin
  <2>2. Apart' /\ InOnePlace' /\ ChildrenAreWatched'
    BY <2>1, QueuesAlone
  <2> QED
    BY <2>1, <2>2 DEF IInv, TypeOK, RoundInv, ReadyIsWatched, OneAwaited
<1>2. CASE stdin # <<>>
  <2>1. PICK n \in 1..Len(stdin) : ReadLines(n)
    BY <1>2 DEF ReadStdin
  <2> DEFINE a == SubSeq(stdin, 1, n)
             b == SubSeq(stdin, n + 1, Len(stdin))
  <2>2. UNCHANGED <<sent, closed, stdinOpen, running, awaited, child, due, pc, replies>> /\ ready' = ready \ {Stdin}
        /\ pc = "handle" /\ stdin' = b /\ waiting' = waiting \o a
    BY <1>2, <2>1 DEF ReadStdin, ReadLines
  <2>3. TypeOK /\ Apart /\ stdin \in Seq(Jobs) /\ NoneTwice(stdin) /\ waiting \in Seq(Jobs) /\ NoneTwice(waiting)
    BY DEF IInv, TypeOK, Apart
  <2>4. /\ a \in Seq(Jobs) /\ b \in Seq(Jobs) /\ Len(a) + Len(b) = Len(stdin)
        /\ NoneTwice(a) /\ NoneTwice(b)
        /\ Members(a) \cap Members(b) = {} /\ Members(a) \cup Members(b) = Members(stdin)
    BY <2>3, Split
  <2> HIDE DEF a, b
  <2>5. /\ waiting' \in Seq(Jobs) /\ Len(waiting') = Len(waiting) + Len(a)
        /\ Members(waiting') = Members(waiting) \cup Members(a) /\ NoneTwice(waiting')
    <3>1. Members(waiting) \cap Members(a) = {}
      BY <2>3, <2>4 DEF Apart, Unread
    <3> QED
      BY <2>2, <2>3, <2>4, <3>1, Joined
  <2>6. Answered' = Answered
    BY <2>2 DEF Answered
  <2>7. TypeOK'
    BY <2>2, <2>3, <2>4, <2>5 DEF TypeOK
  <2>8. Apart'
    BY <2>2, <2>3, <2>4, <2>5, <2>6 DEF Apart, Unread
  <2>9. InOnePlace'
    <3>1. sent' \subseteq Members(stdin') \cup Members(waiting') \cup Members(running') \cup awaited' \cup Answered'
      BY <2>2, <2>4, <2>5, <2>6 DEF IInv, InOnePlace, Unread
    <3>2. Len(a) \in Nat /\ Len(b) \in Nat
      BY <2>4
    <3>3. Len(stdin') + Len(waiting') + Len(running') + Cardinality(awaited') + Len(replies') <= Cardinality(sent')
      <4>1. Len(stdin) + Len(waiting) + Len(running) + Cardinality(awaited) + Len(replies) <= Cardinality(sent)
        BY DEF IInv, InOnePlace
      <4>2. /\ Len(stdin) \in Nat /\ Len(waiting) \in Nat /\ Len(running) \in Nat /\ Len(replies) \in Nat
            /\ Cardinality(sent) \in Nat /\ Cardinality(awaited) \in Nat
        BY SizesAreNat
      <4>3. Len(stdin') = Len(b) /\ Len(waiting') = Len(waiting) + Len(a) /\ Len(running') = Len(running)
            /\ Len(replies') = Len(replies) /\ Cardinality(sent') = Cardinality(sent)
            /\ Cardinality(awaited') = Cardinality(awaited)
        BY <2>2, <2>5
      <4> QED
        BY <4>1, <4>2, <4>3, <3>2, <2>4
    <3> QED
      BY <3>1, <3>3 DEF InOnePlace, Unread
  <2>10. ChildrenAreWatched' /\ RoundInv' /\ ReadyIsWatched' /\ OneAwaited'
    BY <2>2 DEF IInv, ChildrenAreWatched, RoundInv, ReadyIsWatched, OneAwaited
  <2> QED
    BY <2>2, <2>7, <2>8, <2>9, <2>10 DEF IInv
<1> QED
  BY <1>1, <1>2

(* A child leaves the table: where its job goes is left to the steps that use this. *)
LEMMA AfterPop ==
  ASSUME IInv, NEW j \in Members(running), Pop(j)
  PROVE  /\ j \in Jobs /\ running' \in Seq(Jobs) /\ Len(running') = Len(running) - 1 /\ NoneTwice(running')
         /\ Members(running') = Members(running) \ {j} /\ due' = due \ {j}
<1>1. running \in Seq(Jobs) /\ NoneTwice(running)
  BY DEF IInv, TypeOK, Apart
<1>2. j \in Jobs
  BY <1>1, MembersAreElements
<1> QED
  BY <1>1, <1>2, AfterWithout DEF Pop

(* A job is finished: its child is killed and reaped, its answer is written or the server ends. *)
LEMMA FinishInv ==
  ASSUME IInv, NEW j \in Members(running), NEW outcome \in Outcomes, pc \in {"handle", "kill"},
         Pop(j), ReapAndReply(j, outcome, pc), ready' = ready \ {j},
         UNCHANGED <<sent, stdin, closed, stdinOpen, waiting, awaited>>
  PROVE  IInv'
<1>1. TypeOK /\ Apart /\ awaited = {} /\ awaited' = {}
  BY DEF IInv, OneAwaited
<1>2. /\ j \in Jobs /\ running' \in Seq(Jobs) /\ Len(running') = Len(running) - 1 /\ NoneTwice(running')
      /\ Members(running') = Members(running) \ {j} /\ due' = due \ {j}
  BY AfterPop
<1>3. /\ replies' \in Seq([job : Jobs, outcome : Outcomes])
      /\ \/ closed /\ pc' = "exited" /\ Answered' = Answered /\ Len(replies') = Len(replies)
         \/ ~closed /\ pc' = pc /\ Answered' = Answered \cup {j} /\ Len(replies') = Len(replies) + 1
  BY <1>1, <1>2, ReplyEffect DEF ReapAndReply
<1>4. child \in [Jobs -> Child] /\ child' \in [Jobs -> Child]
  BY <1>1, <1>2 DEF TypeOK, Child, ReapAndReply
<1>5. TypeOK'
  BY <1>1, <1>2, <1>3, <1>4 DEF TypeOK
<1>6. Apart'
  BY <1>1, <1>2, <1>3 DEF Apart, Unread
<1>7. InOnePlace'
  <2>1. pc' # "exited" => sent' \subseteq Members(stdin') \cup Members(waiting') \cup Members(running') \cup awaited' \cup Answered'
    BY <1>1, <1>2, <1>3 DEF IInv, InOnePlace, Unread
  <2>2. Len(stdin') + Len(waiting') + Len(running') + Cardinality(awaited') + Len(replies') <= Cardinality(sent')
    <3>1. Len(stdin) + Len(waiting) + Len(running) + Cardinality(awaited) + Len(replies) <= Cardinality(sent)
      BY DEF IInv, InOnePlace
    <3>2. /\ Len(stdin) \in Nat /\ Len(waiting) \in Nat /\ Len(running) \in Nat /\ Len(replies) \in Nat
          /\ Cardinality(sent) \in Nat /\ Cardinality(awaited) \in Nat
      BY SizesAreNat
    <3> QED
      BY <3>1, <3>2, <1>2, <1>3
  <2> QED
    BY <2>1, <2>2 DEF InOnePlace, Unread
<1>8. ChildrenAreWatched'
  <2>1. Len(running') + Cardinality(awaited') <= Parallel
    <3>1. /\ Len(running) \in Nat /\ Cardinality(awaited) \in Nat
          /\ Len(running) + Cardinality(awaited) <= Parallel
      BY SizesAreNat DEF IInv, ChildrenAreWatched
    <3> QED
      BY <3>1, <1>1, <1>2, ParallelAssumption
  <2>2. \A k \in Jobs : child[k] \notin {"none", "reaped"} <=> k \in Members(running)
    BY <1>1 DEF IInv, ChildrenAreWatched
  <2>3. \A k \in Jobs : child'[k] = IF k = j THEN "reaped" ELSE child[k]
    BY <1>2, <1>4 DEF ReapAndReply
  <2> QED
    BY <2>1, <2>2, <2>3, <1>1, <1>2 DEF ChildrenAreWatched
<1>9. RoundInv' /\ ReadyIsWatched' /\ OneAwaited'
  BY <1>1, <1>2, <1>3 DEF IInv, RoundInv, ReadyIsWatched, OneAwaited
<1> QED
  BY <1>5, <1>6, <1>7, <1>8, <1>9 DEF IInv

(* The end of a pipe moves the job from the table to the child that is waited for. *)
LEMMA AwaitInv ==
  ASSUME IInv, NEW j \in Members(running), pc = "handle", Stdin \notin ready, AwaitEnd(j),
         UNCHANGED <<sent, stdin, closed, stdinOpen, waiting>>
  PROVE  IInv'
<1>1. TypeOK /\ Apart /\ awaited = {} /\ Cardinality(awaited) = 0
  BY FS_EmptySet DEF IInv, OneAwaited
<1>2. /\ j \in Jobs /\ running' \in Seq(Jobs) /\ Len(running') = Len(running) - 1 /\ NoneTwice(running')
      /\ Members(running') = Members(running) \ {j} /\ due' = due \ {j}
  BY AfterPop DEF AwaitEnd
<1>3. /\ awaited' = {j} /\ Cardinality(awaited') = 1 /\ pc' = "await" /\ ready' = ready \ {j}
      /\ child' = child /\ replies' = replies /\ Answered' = Answered
  BY FS_Singleton DEF AwaitEnd, Answered
<1>4. TypeOK'
  BY <1>1, <1>2, <1>3 DEF TypeOK
<1>5. Apart'
  BY <1>1, <1>2, <1>3 DEF Apart, Unread
<1>6. /\ Len(stdin) \in Nat /\ Len(waiting) \in Nat /\ Len(running) \in Nat /\ Len(replies) \in Nat
      /\ Cardinality(sent) \in Nat
  BY SizesAreNat
<1>7. InOnePlace'
  <2>1. sent' \subseteq Members(stdin') \cup Members(waiting') \cup Members(running') \cup awaited' \cup Answered'
    BY <1>1, <1>2, <1>3 DEF IInv, InOnePlace, Unread
  <2>2. Len(stdin') + Len(waiting') + Len(running') + Cardinality(awaited') + Len(replies') <= Cardinality(sent')
    BY <1>1, <1>2, <1>3, <1>6 DEF IInv, InOnePlace
  <2> QED
    BY <2>1, <2>2 DEF InOnePlace, Unread
<1>8. ChildrenAreWatched'
  <2>1. Len(running') + Cardinality(awaited') <= Parallel
    BY <1>1, <1>2, <1>3, <1>6 DEF IInv, ChildrenAreWatched
  <2>2. \A k \in Jobs : child[k] \notin {"none", "reaped"} <=> k \in Members(running)
    BY <1>1 DEF IInv, ChildrenAreWatched
  <2> QED
    BY <2>1, <2>2, <1>2, <1>3 DEF ChildrenAreWatched
<1>9. RoundInv' /\ ReadyIsWatched' /\ OneAwaited'
  BY <1>2, <1>3 DEF IInv, RoundInv, ReadyIsWatched, OneAwaited
<1> QED
  BY <1>4, <1>5, <1>7, <1>8, <1>9 DEF IInv

(* waitpid() returns: the job goes from the child that was waited for to the answers. *)
LEMMA ReapInv ==
  ASSUME IInv, Reap
  PROVE  IInv'
<1>1. /\ TypeOK /\ Apart /\ pc = "await"
      /\ UNCHANGED <<sent, stdin, closed, stdinOpen, waiting, running, due, ready>> /\ awaited' = {}
  BY DEF IInv, Reap
<1>2. PICK j \in awaited : child[j] \in Ends /\ ReapAndReply(j, Outcome(child[j]), "handle")
  BY DEF Reap
<1>3. j \in Jobs /\ awaited = {j} /\ Cardinality(awaited) = 1 /\ Cardinality(awaited') = 0
  <2>1. j \in Jobs /\ awaited = {j}
    BY <1>1 DEF TypeOK, IInv, OneAwaited
  <2> QED
    BY <2>1, <1>1, FS_Singleton, FS_EmptySet
<1>4. /\ replies' \in Seq([job : Jobs, outcome : Outcomes])
      /\ \/ closed /\ pc' = "exited" /\ Answered' = Answered /\ Len(replies') = Len(replies)
         \/ ~closed /\ pc' = "handle" /\ Answered' = Answered \cup {j} /\ Len(replies') = Len(replies) + 1
  BY <1>1, <1>2, <1>3, ReplyEffect, OutcomeType DEF ReapAndReply
<1>5. child \in [Jobs -> Child] /\ child' \in [Jobs -> Child]
  BY <1>1, <1>2, <1>3 DEF TypeOK, Child, ReapAndReply
<1>6. TypeOK'
  BY <1>1, <1>4, <1>5 DEF TypeOK
<1>7. Apart'
  BY <1>1, <1>3, <1>4 DEF Apart, Unread
<1>8. /\ Len(stdin) \in Nat /\ Len(waiting) \in Nat /\ Len(running) \in Nat /\ Len(replies) \in Nat
      /\ Cardinality(sent) \in Nat
  BY SizesAreNat
<1>9. InOnePlace'
  <2>1. pc' # "exited" => sent' \subseteq Members(stdin') \cup Members(waiting') \cup Members(running') \cup awaited' \cup Answered'
    BY <1>1, <1>3, <1>4 DEF IInv, InOnePlace, Unread
  <2>2. Len(stdin') + Len(waiting') + Len(running') + Cardinality(awaited') + Len(replies') <= Cardinality(sent')
    BY <1>1, <1>3, <1>4, <1>8 DEF IInv, InOnePlace
  <2> QED
    BY <2>1, <2>2 DEF InOnePlace, Unread
<1>10. ChildrenAreWatched'
  <2>1. Len(running') + Cardinality(awaited') <= Parallel
    BY <1>1, <1>3, <1>8, ParallelAssumption DEF IInv, ChildrenAreWatched
  <2>2. \A k \in Jobs : child[k] \notin {"none", "reaped"} <=> k \in Members(running) \cup {j}
    BY <1>3 DEF IInv, ChildrenAreWatched
  <2>3. \A k \in Jobs : child'[k] = IF k = j THEN "reaped" ELSE child[k]
    BY <1>2, <1>3, <1>5 DEF ReapAndReply
  <2>4. j \notin Members(running)
    BY <1>1, <1>3 DEF Apart
  <2> QED
    BY <2>1, <2>2, <2>3, <2>4, <1>1, <1>3 DEF ChildrenAreWatched
<1>11. RoundInv' /\ ReadyIsWatched' /\ OneAwaited'
  BY <1>1, <1>4 DEF IInv, RoundInv, ReadyIsWatched, OneAwaited
<1> QED
  BY <1>1, <1>6, <1>7, <1>9, <1>10, <1>11 DEF IInv

(* A child does something that leaves it among the running ones. *)
LEMMA ChildInv ==
  ASSUME IInv, NEW j \in Jobs, NEW to \in Alive \cup Ends, child[j] \in Alive,
         child' = [child EXCEPT ![j] = to],
         UNCHANGED <<sent, stdin, closed, stdinOpen, waiting, running, awaited, due, pc, replies>>,
         ready' \subseteq ready
  PROVE  IInv'
<1>1. Answered' = Answered
  BY DEF Answered
<1>2. child \in [Jobs -> Child] /\ child' \in [Jobs -> Child]
  BY DEF IInv, TypeOK, Child
<1>3. TypeOK'
  BY <1>2 DEF IInv, TypeOK
<1>4. Apart' /\ InOnePlace'
  BY <1>1 DEF IInv, Apart, InOnePlace, Unread
<1>5. ChildrenAreWatched'
  <2>1. \A k \in Jobs : child'[k] = IF k = j THEN to ELSE child[k]
    BY <1>2
  <2>2. \A k \in Jobs : child[k] \notin {"none", "reaped"} <=> k \in Members(running) \cup awaited
    BY DEF IInv, ChildrenAreWatched
  <2>3. child[j] \notin {"none", "reaped"} /\ to \notin {"none", "reaped"}
    BY DEF Alive, Ends
  <2> QED
    BY <2>1, <2>2, <2>3 DEF IInv, ChildrenAreWatched
<1>6. RoundInv' /\ ReadyIsWatched' /\ OneAwaited'
  BY DEF IInv, RoundInv, ReadyIsWatched, OneAwaited
<1> QED
  BY <1>3, <1>4, <1>5, <1>6 DEF IInv

LEMMA ReadIsOfAChild ==
  ASSUME IInv, ready # {}, Stdin \notin ready
  PROVE  Earliest(ready) \in ready /\ Earliest(ready) \in Members(running) /\ Earliest(ready) \in Jobs
<1>1. ready \subseteq Members(running) /\ running \in Seq(Jobs)
  BY DEF IInv, ReadyIsWatched, TypeOK
<1>2. Members(running) \subseteq Jobs
  BY <1>1, MembersAreElements
<1> QED
  BY <1>1, <1>2, EarliestIsOne

LEMMA ReadChildInv ==
  ASSUME IInv, ReadChild
  PROVE  IInv'
<1> DEFINE j == Earliest(ready)
<1>1. /\ j \in Members(running) /\ j \in Jobs /\ pc = "handle" /\ Stdin \notin ready
      /\ UNCHANGED <<sent, stdin, closed, stdinOpen, waiting>>
  BY ReadIsOfAChild DEF ReadChild
<1>2. \/ /\ child[j] = "writing" /\ ready' = ready \ {j}
         /\ child' = [child EXCEPT ![j] = "busy"]
         /\ UNCHANGED <<running, awaited, due, pc, replies>>
      \/ /\ ready' = ready \ {j} /\ Pop(j) /\ ReapAndReply(j, "crashed", pc)
         /\ UNCHANGED awaited
      \/ AwaitEnd(j)
  BY DEF ReadChild
<1> HIDE DEF j
<1>3. CASE /\ child[j] = "writing" /\ ready' = ready \ {j}
           /\ child' = [child EXCEPT ![j] = "busy"]
           /\ UNCHANGED <<running, awaited, due, pc, replies>>
  <2>1. "busy" \in Alive \cup Ends /\ child[j] \in Alive
    BY <1>3 DEF Alive
  <2> QED
    BY <1>1, <1>3, <2>1, ChildInv
<1>4. CASE /\ ready' = ready \ {j} /\ Pop(j) /\ ReapAndReply(j, "crashed", pc)
           /\ UNCHANGED awaited
  <2>1. "crashed" \in Outcomes
    BY DEF Outcomes
  <2> QED
    BY <1>1, <1>4, <2>1, FinishInv
<1>5. CASE AwaitEnd(j)
  BY <1>1, <1>5, AwaitInv
<1> QED
  BY <1>2, <1>3, <1>4, <1>5

LEMMA KillInv ==
  ASSUME IInv, KillLate
  PROVE  IInv'
<1>1. pc = "kill" /\ ready # {} /\ ready \subseteq Members(running) /\ running \in Seq(Jobs)
  BY DEF IInv, KillLate, RoundInv, TypeOK
<1>2. Earliest(ready) \in Members(running)
  BY <1>1, EarliestIsOne
<1>3. "timeout" \in Outcomes
  BY DEF Outcomes
<1> QED
  BY <1>1, <1>2, <1>3, FinishInv DEF KillLate

-----------------------------------------------------------------------------
(* The API and the children.                                               *)

LEMMA SendInv ==
  ASSUME IInv, NEW j \in Jobs, Send(j)
  PROVE  IInv'
<1>1. /\ TypeOK /\ Apart /\ stdin \in Seq(Jobs) /\ NoneTwice(stdin) /\ pc # "exited"
      /\ j \notin sent /\ sent' = sent \cup {j} /\ stdin' = Append(stdin, j)
      /\ UNCHANGED <<closed, stdinOpen, waiting, running, awaited, pc, ready, replies, child, due>>
  BY DEF IInv, TypeOK, Apart, Send, loop
<1>2. j \notin Members(stdin)
  BY <1>1 DEF Apart, Unread
<1>3. /\ stdin' \in Seq(Jobs) /\ Len(stdin') = Len(stdin) + 1 /\ NoneTwice(stdin')
      /\ Members(stdin') = Members(stdin) \cup {j}
  BY <1>1, <1>2, AfterAppend
<1>4. IsFiniteSet(sent') /\ Cardinality(sent') = Cardinality(sent) + 1
  BY <1>1, FS_AddElement DEF IInv
<1>5. Answered' = Answered
  BY <1>1 DEF Answered
<1>6. TypeOK'
  BY <1>1, <1>3 DEF TypeOK
<1>7. Apart'
  BY <1>1, <1>3, <1>5 DEF Apart, Unread
<1>8. InOnePlace'
  <2>1. sent' \subseteq Members(stdin') \cup Members(waiting') \cup Members(running') \cup awaited' \cup Answered'
    BY <1>1, <1>3, <1>5 DEF IInv, InOnePlace, Unread
  <2>2. Len(stdin') + Len(waiting') + Len(running') + Cardinality(awaited') + Len(replies') <= Cardinality(sent')
    <3>1. Len(stdin) + Len(waiting) + Len(running) + Cardinality(awaited) + Len(replies) <= Cardinality(sent)
      BY DEF IInv, InOnePlace
    <3>2. /\ Len(stdin) \in Nat /\ Len(waiting) \in Nat /\ Len(running) \in Nat /\ Len(replies) \in Nat
          /\ Cardinality(sent) \in Nat /\ Cardinality(awaited) \in Nat
      BY SizesAreNat
    <3> QED
      BY <3>1, <3>2, <1>1, <1>3, <1>4
  <2> QED
    BY <2>1, <2>2 DEF InOnePlace, Unread
<1>9. ChildrenAreWatched' /\ RoundInv' /\ ReadyIsWatched' /\ OneAwaited'
  BY <1>1 DEF IInv, ChildrenAreWatched, RoundInv, ReadyIsWatched, OneAwaited
<1> QED
  BY <1>4, <1>6, <1>7, <1>8, <1>9 DEF IInv

LEMMA BecomesInv ==
  ASSUME IInv, NEW j \in Jobs, NEW from, from \subseteq Alive, NEW to \in Alive \cup Ends, Becomes(j, from, to)
  PROVE  IInv'
<1>1. /\ child[j] \in Alive /\ child' = [child EXCEPT ![j] = to] /\ ready' \subseteq ready
      /\ UNCHANGED <<sent, stdin, closed, stdinOpen, waiting, running, awaited, due, pc, replies>>
  BY DEF Becomes, loop
<1> QED
  BY <1>1, ChildInv

LEMMA LearnerInv ==
  ASSUME IInv, NEW j \in Jobs, Writes(j) \/ Floods(j) \/ Shuts(j) \/ Stops(j)
  PROVE  IInv'
<1>1. /\ {"busy"} \subseteq Alive /\ {"busy", "writing"} \subseteq Alive /\ {"busy", "writing", "shut"} \subseteq Alive
      /\ "writing" \in Alive /\ "flooding" \in Alive /\ "shut" \in Alive
  BY DEF Alive
<1>2. CASE Writes(j)
  BY <1>1, <1>2, BecomesInv DEF Writes
<1>3. CASE Floods(j)
  BY <1>1, <1>3, BecomesInv DEF Floods
<1>4. CASE Shuts(j)
  BY <1>1, <1>4, BecomesInv DEF Shuts
<1>5. CASE Stops(j)
  <2> DEFINE From(end) == {"busy", "writing"} \cup (IF end = "reported" THEN {} ELSE {"shut"})
  <2>1. PICK end \in Endings : Becomes(j, From(end), end)
    BY <1>5 DEF Stops
  <2>2. end \in Alive \cup Ends /\ From(end) \subseteq Alive
    BY EndingsAssumption DEF Alive
  <2> HIDE DEF From
  <2> QED
    BY <2>1, <2>2, BecomesInv
<1> QED
  BY <1>2, <1>3, <1>4, <1>5

(* Every step of the loop, of the children, of the API and of time keeps the invariant. *)
THEOREM Inductive == IInv /\ [Next]_vars => IInv'
<1> SUFFICES ASSUME IInv, [Next]_vars PROVE IInv'
  OBVIOUS
<1>1. CASE Serve
  BY <1>1, StartInv, SelectInv, ReadStdinInv, ReadChildInv, ReapInv, CheckInv, KillInv, AgainInv DEF Serve
<1>2. CASE Close
  BY <1>2, CloseInv
<1>3. ASSUME NEW j \in Jobs, Send(j) \/ Writes(j) \/ Floods(j) \/ Shuts(j) \/ Stops(j) \/ Overdue(j)
      PROVE  IInv'
  BY <1>3, SendInv, LearnerInv, OverdueInv
<1>4. CASE UNCHANGED vars
  BY <1>4, StutterInv
<1> QED
  BY <1>1, <1>2, <1>3, <1>4 DEF Next

(* The inductive invariant holds in every state that serve() can reach. *)
THEOREM Invariant == Spec => []IInv
BY InitInv, Inductive, PTL DEF Spec

(* The types of the variables, for any number of jobs and children. *)
THEOREM Typed == Spec => []TypeOK
<1>1. IInv => TypeOK
  BY DEF IInv
<1> QED
  BY <1>1, Invariant, PTL

(* No job that reached the server is lost, held twice or answered twice. *)
THEOREM JobsAreInOnePlace == Spec => []InOnePlace
<1>1. IInv => InOnePlace
  BY DEF IInv
<1> QED
  BY <1>1, Invariant, PTL

(* The children that are alive or unreaped are those that the loop watches, and not too many. *)
THEOREM NoChildIsForgotten == Spec => []ChildrenAreWatched
<1>1. IInv => ChildrenAreWatched
  BY DEF IInv
<1> QED
  BY <1>1, Invariant, PTL

(* No descriptor is read after it was closed. *)
THEOREM NoClosedDescriptor == Spec => []ReadyIsWatched
<1>1. IInv => ReadyIsWatched
  BY DEF IInv
<1> QED
  BY <1>1, Invariant, PTL

-----------------------------------------------------------------------------
(* What is written to stdout.                                              *)

Honest(j, outcome) ==
  /\ outcome = "ok" => child[j] = "reported"
  /\ outcome = "timeout" => j \in due \/ child[j] \in {"alarmed", "outOfCpu"}
  /\ child[j] = "reported" => outcome = "ok" \/ j \in due

(* The step writes one line, for a job that has no answer yet. *)
Answers(j, outcome) ==
  /\ replies' = Append(replies, [job |-> j, outcome |-> outcome])
  /\ j \in sent \ Answered /\ sent' = sent
  /\ pc # "exited" /\ pc' # "exited" /\ Honest(j, outcome)

LEMMA AReply ==
  ASSUME IInv, NEW j \in Members(waiting) \cup Members(running) \cup awaited, NEW outcome, Honest(j, outcome),
         NEW next, next # "exited", pc # "exited", Reply(j, outcome, next), replies' # replies, sent' = sent
  PROVE  Answers(j, outcome)
<1>1. j \in sent \ Answered
  BY DEF IInv, Apart
<1> QED
  BY <1>1 DEF Reply, Answers

LEMMA AnswerStep ==
  ASSUME IInv, [Next]_vars, replies' # replies
  PROVE  \E j \in Jobs, outcome \in Outcomes : Answers(j, outcome)
<1>1. /\ "crashed" \in Outcomes /\ "timeout" \in Outcomes
      /\ waiting \in Seq(Jobs) /\ running \in Seq(Jobs)
  BY DEF Outcomes, IInv, TypeOK
<1>2. Members(waiting) \subseteq Jobs /\ Members(running) \subseteq Jobs
  BY <1>1, MembersAreElements
<1>3. StartJob \/ ReadChild \/ Reap \/ KillLate
  BY DEF Next, vars, Serve, Select, ReadStdin, CheckDeadlines, Again, Close, Send, Writes, Floods, Shuts, Stops,
         Becomes, Overdue, loop
<1>4. CASE StartJob
  <2> DEFINE j == Head(waiting)
  <2>1. /\ pc = "fill" /\ waiting # <<>> /\ Reply(j, "crashed", "fill") /\ sent' = sent
    BY <1>4 DEF StartJob, CanStart
  <2>2. j \in Members(waiting)
    <3>1. NoneTwice(waiting)
      BY DEF IInv, Apart
    <3> QED
      BY <3>1, <2>1, <1>1, AfterTail
  <2>3. j \notin Members(running) \cup awaited /\ j \in Jobs
    BY <2>2, <1>2 DEF IInv, Apart
  <2>4. child[j] \in {"none", "reaped"}
    BY <2>3 DEF IInv, ChildrenAreWatched
  <2>5. Honest(j, "crashed")
    BY <2>4 DEF Honest
  <2> HIDE DEF j
  <2>6. Answers(j, "crashed")
    BY <2>1, <2>2, <2>5, AReply
  <2> QED
    BY <2>6, <2>3, <1>1
<1>5. CASE ReadChild
  <2> DEFINE j == Earliest(ready)
  <2>1. /\ j \in Members(running) /\ j \in Jobs /\ pc = "handle" /\ sent' = sent
        /\ child[j] = "flooding" /\ ReapAndReply(j, "crashed", pc)
    BY <1>5, ReadIsOfAChild DEF ReadChild, AwaitEnd
  <2> HIDE DEF j
  <2>2. Honest(j, "crashed") /\ Reply(j, "crashed", pc)
    BY <2>1 DEF Honest, ReapAndReply
  <2>3. Answers(j, "crashed")
    BY <2>1, <2>2, AReply
  <2> QED
    BY <2>1, <2>3, <1>1
<1>7. CASE Reap
  <2>1. PICK j \in awaited : child[j] \in Ends /\ ReapAndReply(j, Outcome(child[j]), "handle")
    BY <1>7 DEF Reap
  <2>2. j \in Jobs /\ pc = "await" /\ sent' = sent
    BY <1>7 DEF Reap, IInv, TypeOK
  <2>3. Honest(j, Outcome(child[j])) /\ Reply(j, Outcome(child[j]), "handle")
    BY <2>1 DEF Honest, Outcome, ReapAndReply
  <2>4. Answers(j, Outcome(child[j]))
    BY <2>1, <2>2, <2>3, AReply
  <2> QED
    BY <2>2, <2>4, OutcomeType
<1>6. CASE KillLate
  <2> DEFINE j == Earliest(ready)
  <2>1. /\ pc = "kill" /\ ready # {} /\ ready \subseteq Members(running) \cap due
        /\ ReapAndReply(j, "timeout", pc) /\ sent' = sent
    BY <1>6 DEF KillLate, IInv, RoundInv
  <2>2. j \in ready
    BY <2>1, <1>1, EarliestIsOne
  <2> HIDE DEF j
  <2>3. j \in Members(running) /\ j \in Jobs /\ j \in due
    BY <2>1, <2>2, <1>2
  <2>4. Honest(j, "timeout")
    BY <2>3 DEF Honest
  <2>5. Reply(j, "timeout", pc)
    BY <2>1 DEF ReapAndReply
  <2>6. Answers(j, "timeout")
    BY <2>1, <2>3, <2>4, <2>5, AReply
  <2> QED
    BY <2>3, <2>6, <1>1
<1> QED
  BY <1>3, <1>4, <1>5, <1>6, <1>7

LEMMA LastReply ==
  ASSUME TypeOK, NEW j \in Jobs, NEW outcome \in Outcomes, Answers(j, outcome)
  PROVE  /\ Answered' = Answered \cup {j} /\ replies'[Len(replies')].outcome = outcome
         /\ Members(replies') = Members(replies) \cup {[job |-> j, outcome |-> outcome]}
<1> DEFINE new == [job |-> j, outcome |-> outcome]
           Line == [job : Jobs, outcome : Outcomes]
<1>1. replies \in Seq(Line) /\ new \in Line /\ replies' = Append(replies, new) /\ new.job = j /\ new.outcome = outcome
  BY DEF TypeOK, Answers
<1> HIDE DEF new, Line
<1>2. Members(replies') = Members(replies) \cup {new} /\ Len(replies') = Len(replies) + 1
  BY <1>1, AfterAppend
<1>3. replies'[Len(replies')] = new
  BY <1>1
<1>4. \A x : x \in Answered <=> \E l \in Members(replies) : x = l.job
  BY DEF Answered, Members
<1>5. \A x : x \in Answered' <=> \E l \in Members(replies') : x = l.job
  BY DEF Answered, Members
<1>6. Answered' = Answered \cup {j}
  BY <1>1, <1>2, <1>4, <1>5
<1> QED
  BY <1>1, <1>2, <1>3, <1>6 DEF new

(* "ok" is said only of a report that a child wrote before it ended by itself, "timeout" *)
(* only at a limit, however the reads, the deadlines and the ends of children interleave. *)
THEOREM AnswersAreHonest == Spec => HonestAnswers
<1> DEFINE Step ==
      \A j \in Jobs : j \in Answered' \ Answered =>
        LET outcome == replies'[Len(replies')].outcome IN
        /\ outcome = "ok" => child[j] = "reported"
        /\ outcome = "timeout" => j \in due \/ child[j] \in {"alarmed", "outOfCpu"}
        /\ child[j] = "reported" => outcome = "ok" \/ j \in due
<1>1. IInv /\ [Next]_vars => [Step]_vars
  <2> SUFFICES ASSUME IInv, [Next]_vars PROVE Step
    OBVIOUS
  <2>1. CASE replies' = replies
    BY <2>1 DEF Answered
  <2>2. CASE replies' # replies
    <3>1. PICK j \in Jobs, outcome \in Outcomes : Answers(j, outcome)
      BY <2>2, AnswerStep
    <3>2. Answered' = Answered \cup {j} /\ replies'[Len(replies')].outcome = outcome
      BY <3>1, LastReply DEF IInv
    <3> QED
      BY <3>1, <3>2 DEF Answers, Honest
  <2> QED
    BY <2>1, <2>2
<1> QED
  BY <1>1, Invariant, PTL DEF Spec, HonestAnswers

-----------------------------------------------------------------------------
(* The refinement.                                                         *)

(* Once the loop has ended it stays so, and only the API hands in a job. *)
LEMMA QuietStep ==
  ASSUME IInv, [Next]_vars
  PROVE  /\ pc = "exited" => pc' = "exited"
         /\ sent' = sent \/ (\E j \in Jobs \ sent : sent' = sent \cup {j} /\ UNCHANGED <<replies, pc>>)
<1>1. CASE Serve
  BY <1>1 DEF Serve, StartJob, Select, ReadStdin, ReadChild, AwaitEnd, Reap, CheckDeadlines, KillLate, Again
<1>2. CASE Close \/ UNCHANGED vars
  BY <1>2 DEF Close, loop, vars
<1>3. ASSUME NEW j \in Jobs, Send(j) \/ Writes(j) \/ Floods(j) \/ Shuts(j) \/ Stops(j) \/ Overdue(j)
      PROVE  /\ pc' = pc /\ replies' = replies
             /\ sent' = sent \/ (j \notin sent /\ sent' = sent \cup {j})
  BY <1>3 DEF Send, Writes, Floods, Shuts, Stops, Becomes, Overdue, loop
<1> QED
  BY <1>1, <1>2, <1>3 DEF Next

(* serve() is a JobServer, for any number of jobs and of children at once: the API may *)
(* rely on at most one answer per job, for jobs handed in, and none after the exit.    *)
THEOREM ServeIsAJobServer == Spec => IsAJobServer
<1> DEFINE written == {replies[i] : i \in DOMAIN replies}
<1>1. Init => sent = {} /\ written = {} /\ (pc = "exited") = FALSE
  BY DEF Init
<1>2. IInv /\ [Next]_vars =>
        [Service!Submit \/ Service!Answer \/ Service!Stop]_<<sent, written, pc = "exited">>
  <2> SUFFICES ASSUME IInv, [Next]_vars
               PROVE  [Service!Submit \/ Service!Answer \/ Service!Stop]_<<sent, written, pc = "exited">>
    OBVIOUS
  <2>1. CASE replies' # replies
    <3>1. PICK j \in Jobs, outcome \in Outcomes : Answers(j, outcome)
      BY <2>1, AnswerStep
    <3>2. written' = written \cup {[job |-> j, outcome |-> outcome]}
      BY <3>1, LastReply DEF IInv, Members
    <3>3. j \in Service!Unanswered
      BY <3>1 DEF Answers, Answered, Service!Unanswered
    <3>4. sent' = sent /\ (pc = "exited") = FALSE /\ (pc' = "exited") = FALSE
      BY <3>1 DEF Answers
    <3>5. Service!Answer
      BY <3>2, <3>3, <3>4 DEF Service!Answer
    <3> QED
      BY <3>5
  <2>2. CASE replies' = replies
    <3>1. written' = written
      BY <2>2
    <3>2. CASE \E j \in Jobs \ sent : sent' = sent \cup {j} /\ UNCHANGED <<replies, pc>>
      <4>1. Service!Submit
        BY <3>1, <3>2 DEF Service!Submit
      <4> QED
        BY <4>1
    <3>3. CASE sent' = sent /\ pc' = "exited"
      <4>1. Service!Stop
        BY <3>1, <3>3 DEF Service!Stop
      <4> QED
        BY <4>1
    <3>4. CASE sent' = sent /\ pc' # "exited"
      <4>1. (pc = "exited") = FALSE /\ (pc' = "exited") = FALSE
        BY <3>4, QuietStep
      <4> QED
        BY <3>1, <3>4, <4>1
    <3> QED
      BY <3>2, <3>3, <3>4, QuietStep
  <2> QED
    BY <2>1, <2>2
<1> QED
  BY <1>1, <1>2, Invariant, PTL DEF Spec, IsAJobServer, Service!Spec
=============================================================================
