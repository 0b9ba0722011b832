------------------------------- MODULE Induction -------------------------------
(***************************************************************************)
(* Induction over numbers, and over the steps of a loop, from the          *)
(* well-foundedness of "is a strict subset of" on finite sets.             *)
(***************************************************************************)
EXTENDS Integers, Sequences, FiniteSets, FiniteSetTheorems, SequenceTheorems,
        WellFoundedInduction, TLAPS

-------------------------------------------------------------------------------

\* Of a set of numbers one is the least.
LEMMA LeastNumber ==
  ASSUME NEW S, S \subseteq Nat, S # {}
  PROVE  \E m \in S : \A n \in S : m <= n
  <1> DEFINE Below(n) == 0..n
             belows == {Below(n) : n \in S}
             R == StrictSubsetOrdering(Nat)
  <1>1. belows \subseteq FiniteSubsetsOf(Nat)
    <2> SUFFICES ASSUME NEW n \in S PROVE 0..n \in FiniteSubsetsOf(Nat)
      OBVIOUS
    <2>1. n \in Nat /\ IsFiniteSet(0..n)
      BY FS_Interval
    <2>2. 0..n \in SUBSET Nat
      BY <2>1
    <2> QED
      BY <2>1, <2>2 DEF FiniteSubsetsOf
  <1>2. belows # {}
    OBVIOUS
  <1>3. IsWellFoundedOn(R, FiniteSubsetsOf(Nat))
    BY FS_StrictSubsetOrderingWellFounded
  <1>4. \A s : s \in belows <=> \E n \in S : s = 0..n
    OBVIOUS
  <1> HIDE DEF belows, R
  <1>5. \E s \in belows : \A t \in belows : ~(<<t, s>> \in R)
    BY <1>1, <1>2, <1>3, WFMin
  <1>6. PICK m \in S : \A t \in belows : ~(<<t, 0..m>> \in R)
    BY <1>4, <1>5
  <1>7. ASSUME NEW n \in S, n < m
        PROVE  FALSE
    <2>1. m \in Nat /\ n \in Nat
      OBVIOUS
    <2>2. 0..n \in SUBSET Nat /\ 0..m \in SUBSET Nat /\ 0..n \subseteq 0..m
      BY <1>7, <2>1
    <2>3. m \in 0..m /\ m \notin 0..n
      BY <1>7, <2>1
    <2>4. <<0..n, 0..m>> \in R
      BY <2>2, <2>3 DEF R, StrictSubsetOrdering
    <2> QED
      BY <1>4, <1>6, <2>4
  <1> QED
    BY <1>7

\* What holds of 0 and goes from a number to the next holds of all.
LEMMA AllNumbers ==
  ASSUME NEW S, 0 \in S, \A n \in Nat : n \in S => n + 1 \in S
  PROVE  Nat \subseteq S
  <1> SUFFICES ASSUME Nat \ S # {} PROVE FALSE
    OBVIOUS
  <1>1. PICK m \in Nat \ S : \A n \in Nat \ S : m <= n
    BY LeastNumber
  <1>2. m - 1 \in Nat /\ m - 1 \in S
    BY <1>1
  <1> QED
    BY <1>1, <1>2

\* What a recursive function is after each of its steps.
Runs(g, m, x0, step) ==
  g[0] = x0 /\ \A n \in 1..m : g[n] = step[<<g[n - 1], n>>]

\* Whoever steps from a member of X to a member of X, m times, gets somewhere.
LEMMA Recursion ==
  ASSUME NEW m \in Nat, NEW X, NEW x0 \in X, NEW step \in [X \X (1..m) -> X]
  PROVE  \E g \in [0..m -> X] : Runs(g, m, x0, step)
  <1> USE DEF Runs
  <1> DEFINE S == {k \in Nat : k <= m => \E g \in [0..k -> X] : Runs(g, k, x0, step)}
  <1>1. 0 \in S
    <2> DEFINE h == [n \in 0..0 |-> x0]
    <2>1. h \in [0..0 -> X] /\ Runs(h, 0, x0, step)
      OBVIOUS
    <2> QED
      BY <2>1
  <1>2. ASSUME NEW k \in Nat, k \in S
        PROVE  k + 1 \in S
    <2> SUFFICES ASSUME k + 1 <= m PROVE \E g \in [0..(k + 1) -> X] : Runs(g, k + 1, x0, step)
      OBVIOUS
    <2>1. PICK g \in [0..k -> X] : Runs(g, k, x0, step)
      BY <1>2
    <2> DEFINE h == [n \in 0..(k + 1) |-> IF n = k + 1 THEN step[<<g[k], k + 1>>] ELSE g[n]]
    <2>2. step[<<g[k], k + 1>>] \in X
      <3>1. k \in 0..k /\ k + 1 \in 1..m
        OBVIOUS
      <3>2. g[k] \in X
        BY <3>1
      <3>3. <<g[k], k + 1>> \in X \X (1..m)
        BY <3>1, <3>2
      <3> QED
        BY <3>3
    <2>3. h \in [0..(k + 1) -> X]
      BY <2>2
    <2>4. h[0] = x0
      BY <2>1
    <2>5. ASSUME NEW n \in 1..(k + 1)
          PROVE  h[n] = step[<<h[n - 1], n>>]
      <3>1. h[n - 1] = g[n - 1]
        OBVIOUS
      <3>2. n # k + 1 => h[n] = g[n] /\ n \in 1..k
        OBVIOUS
      <3>3. n = k + 1 => h[n] = step[<<g[k], k + 1>>] /\ n - 1 = k
        OBVIOUS
      <3> QED
        BY <2>1, <3>1, <3>2, <3>3
    <2> QED
      BY <2>3, <2>4, <2>5
  <1>3. Nat \subseteq S
    <2> HIDE DEF S
    <2> QED
      BY <1>1, <1>2, AllNumbers
  <1>4. PICK g \in [0..m -> X] : Runs(g, m, x0, step)
    <2>1. m \in S
      BY <1>3
    <2> QED
      BY <2>1
  <1> QED
    BY <1>4

LEMMA EntryType ==
  ASSUME NEW S, NEW q \in Seq(S)
  PROVE  Len(q) \in Nat /\ \A i \in 1..Len(q) : q[i] \in S
  OBVIOUS

\* What was appended is at its place, and what was there stays.
LEMMA AppendedEntries ==
  ASSUME NEW S, NEW q \in Seq(S), NEW x \in S
  PROVE  /\ Append(q, x) \in Seq(S)
         /\ Len(q) \in Nat /\ Len(Append(q, x)) = Len(q) + 1
         /\ DOMAIN q = 1..Len(q) /\ DOMAIN Append(q, x) = 1..(Len(q) + 1)
         /\ Append(q, x)[Len(q) + 1] = x
         /\ \A k \in 1..Len(q) : Append(q, x)[k] = q[k] /\ q[k] \in S
  OBVIOUS

\* What is left of a list when the entry at k is cut out.
CutAt(list, k) == SubSeq(list, 1, k - 1) \o SubSeq(list, k + 1, Len(list))

LEMMA CutOut ==
  ASSUME NEW S, NEW list \in Seq(S), NEW k \in 1..Len(list)
  PROVE  /\ CutAt(list, k) \in Seq(S)
         /\ Len(CutAt(list, k)) = Len(list) - 1
         /\ \A i \in 1..(Len(list) - 1) :
               CutAt(list, k)[i] = IF i < k THEN list[i] ELSE list[i + 1]
  <1> DEFINE front == SubSeq(list, 1, k - 1)
             back  == SubSeq(list, k + 1, Len(list))
  <1>1. /\ front \in Seq(S) /\ Len(front) = k - 1
        /\ \A i \in 1..(k - 1) : front[i] = list[i]
    OBVIOUS
  <1>2. /\ back \in Seq(S) /\ Len(back) = Len(list) - k
        /\ \A i \in 1..(Len(list) - k) : back[i] = list[k + i]
    OBVIOUS
  <1>3. Len(list) \in Nat
    OBVIOUS
  <1> HIDE DEF front, back
  <1>4. /\ front \o back \in Seq(S) /\ Len(front \o back) = Len(list) - 1
        /\ \A i \in 1..(Len(list) - 1) :
              (front \o back)[i] = IF i <= k - 1 THEN front[i] ELSE back[i - (k - 1)]
    BY <1>1, <1>2, <1>3
  <1>5. ASSUME NEW i \in 1..(Len(list) - 1)
        PROVE  (front \o back)[i] = IF i < k THEN list[i] ELSE list[i + 1]
    <2>1. CASE i < k
      BY <1>1, <1>4, <2>1
    <2>2. CASE ~(i < k)
      <3>1. i - (k - 1) \in 1..(Len(list) - k) /\ k + (i - (k - 1)) = i + 1
        BY <2>2
      <3>2. back[i - (k - 1)] = list[i + 1]
        BY <1>2, <3>1
      <3> QED
        BY <1>4, <2>2, <3>2
    <2> QED
      BY <2>1, <2>2
  <1> QED
    BY <1>4, <1>5 DEF CutAt, front, back

===============================================================================
