-------------------------- MODULE PerfClientProofs --------------------------
(***************************************************************************)
(* Proofs about the load generator: the arithmetic of its schedule and its *)
(* histogram, for every rate, duration, number of workers and set of bins; *)
(* no slot is used twice or before its deadline, and what main reports of  *)
(* the requests, the traffic and the latencies is true.                    *)
(***************************************************************************)
EXTENDS PerfClient, FiniteSetTheorems, WellFoundedInduction, TLAPS

-----------------------------------------------------------------------------
(* Whole numbers *)

\* What a quotient that is rounded down says of its dividend.
LEMMA Quotient ==
    ASSUME NEW a \in Nat, NEW b \in Nat \ {0}, NEW k \in Nat
    PROVE  a \div b \in Nat /\ (a \div b < k <=> a < b * k)
  OBVIOUS

LEMMA Monotone ==
    ASSUME NEW a \in Nat, NEW b \in Nat, NEW c \in Nat \ {0}
    PROVE  a * c \in Nat /\ (a < b <=> a * c < b * c)
  OBVIOUS

\* Max of two.
LEMMA Larger ==
    ASSUME NEW a \in Nat, NEW b \in Nat
    PROVE  /\ Max({a, b}) \in Nat
           /\ \A n \in Nat : n >= Max({a, b}) <=> n >= a /\ n >= b
  <1>1. \E x \in {a, b} : \A y \in {a, b} : x >= y
    OBVIOUS
  <1>2. /\ Max({a, b}) \in {a, b}
        /\ \A y \in {a, b} : Max({a, b}) >= y
    BY <1>1 DEF Max
  <1> QED BY <1>2

\* The least member of a set, once it is known.
LEMMA Smallest ==
    ASSUME NEW S \in SUBSET Nat, NEW n \in S, \A m \in S : n <= m
    PROVE  Min(S) = n
  <1>1. \E x \in S : \A y \in S : x <= y
    OBVIOUS
  <1>2. Min(S) \in S /\ \A y \in S : Min(S) <= y
    BY <1>1 DEF Min
  <1>3. Min(S) <= n /\ n <= Min(S) /\ Min(S) \in Nat /\ n \in Nat
    BY <1>2
  <1> QED BY <1>3

-----------------------------------------------------------------------------
(* Sums *)

\* A set of numbers that holds 0 and with each number the next one holds all.
LEMMA Induction ==
    ASSUME NEW G, 0 \in G, \A n \in Nat : n \in G => n + 1 \in G
    PROVE  \A n \in Nat : n \in G
  <1> SUFFICES ASSUME NEW m \in Nat, m \notin G PROVE FALSE
    OBVIOUS
  <1>1. IsWellFoundedOn(OpToRel(<, Nat), Nat)
    BY NatLessThanWellFounded
  <1> DEFINE B == {n \in Nat : n \notin G}
  <1>2. PICK x \in B : \A y \in B : <<y, x>> \notin OpToRel(<, Nat)
    <2>1. B # {} /\ B \subseteq Nat
      OBVIOUS
    <2> QED BY <1>1, <2>1, WFMin
  <1>3. x # 0 /\ x \in Nat
    OBVIOUS
  <1>4. x - 1 \in B
    BY <1>3
  <1>5. <<x - 1, x>> \in OpToRel(<, Nat)
    BY <1>3 DEF OpToRel
  <1> QED BY <1>2, <1>4, <1>5

\* A sum, one number at a time.
LEMMA SumSteps ==
    ASSUME NEW f
    PROVE  /\ SumFirst(f, 0) = 0
           /\ \A k \in Nat : SumFirst(f, k + 1) = SumFirst(f, k) + f[k]
  <1> DEFINE IsS(h, k) == h = [i \in 0 .. k |-> IF i = 0 THEN 0 ELSE h[i - 1] + f[i - 1]]
             S(k) == CHOOSE h : IsS(h, k)
  <1>1. ASSUME NEW k \in Nat PROVE SumFirst(f, k) = S(k)[k]
    BY DEF SumFirst
  <1>2. ASSUME NEW k \in Nat PROVE IsS(S(k), k)
    <2> DEFINE G == {n \in Nat : \E h : IsS(h, n)}
    <2>1. 0 \in G
      <3>1. IsS([i \in 0 .. 0 |-> 0], 0)
        OBVIOUS
      <3> HIDE DEF IsS
      <3> QED BY <3>1
    <2>2. ASSUME NEW n \in Nat, n \in G PROVE n + 1 \in G
      <3>1. PICK h : IsS(h, n)
        BY <2>2
      <3> DEFINE e == [i \in 0 .. n + 1 |-> IF i = n + 1 THEN h[n] + f[n] ELSE h[i]]
      <3>2. ASSUME NEW i \in 0 .. n + 1
            PROVE  e[i] = IF i = 0 THEN 0 ELSE e[i - 1] + f[i - 1]
        <4>1. CASE i = n + 1
          BY <4>1
        <4>2. CASE i # n + 1
          <5>1. i \in 0 .. n /\ e[i] = h[i]
            BY <4>2
          <5>2. h[i] = IF i = 0 THEN 0 ELSE h[i - 1] + f[i - 1]
            BY <3>1, <5>1
          <5>3. i # 0 => e[i - 1] = h[i - 1]
            BY <5>1
          <5> QED BY <5>1, <5>2, <5>3
        <4> QED BY <4>1, <4>2
      <3>3. e = [i \in 0 .. n + 1 |-> e[i]]
        OBVIOUS
      <3>4. IsS(e, n + 1)
        <4> HIDE DEF e
        <4> QED BY <3>2, <3>3
      <3> HIDE DEF IsS, e
      <3> QED BY <3>4
    <2> HIDE DEF G
    <2>3. k \in G
      BY <2>1, <2>2, Induction
    <2> HIDE DEF IsS
    <2> QED BY <2>3 DEF G
  <1>3. ASSUME NEW k \in Nat, NEW i \in 0 .. k PROVE S(k)[i] = S(k + 1)[i]
    <2> HIDE DEF S
    <2> DEFINE G == {n \in Nat : n <= k => S(k)[n] = S(k + 1)[n]}
    <2>0. IsS(S(k), k) /\ IsS(S(k + 1), k + 1)
      <3>1. k + 1 \in Nat
        OBVIOUS
      <3> HIDE DEF IsS
      <3> QED BY <1>2, <3>1
    <2>1. \A n \in 0 .. k : S(k)[n] = IF n = 0 THEN 0 ELSE S(k)[n - 1] + f[n - 1]
      BY <2>0
    <2>2. \A n \in 0 .. k + 1 :
              S(k + 1)[n] = IF n = 0 THEN 0 ELSE S(k + 1)[n - 1] + f[n - 1]
      BY <2>0
    <2>3. 0 \in G
      BY <2>1, <2>2
    <2>4. ASSUME NEW n \in Nat, n \in G PROVE n + 1 \in G
      <3> SUFFICES ASSUME n + 1 <= k PROVE S(k)[n + 1] = S(k + 1)[n + 1]
        OBVIOUS
      <3>1. S(k)[n] = S(k + 1)[n]
        BY <2>4
      <3>2. n + 1 \in 0 .. k /\ n + 1 \in 0 .. k + 1 /\ n + 1 # 0 /\ (n + 1) - 1 = n
        OBVIOUS
      <3> QED BY <2>1, <2>2, <3>1, <3>2
    <2> HIDE DEF G
    <2>5. i \in G
      BY <2>3, <2>4, Induction
    <2> QED BY <2>5 DEF G
  <1>4. SumFirst(f, 0) = 0
    <2> HIDE DEF S
    <2>1. SumFirst(f, 0) = S(0)[0] /\ IsS(S(0), 0)
      BY <1>1, <1>2
    <2> QED BY <2>1
  <1>5. ASSUME NEW k \in Nat PROVE SumFirst(f, k + 1) = SumFirst(f, k) + f[k]
    <2> HIDE DEF S
    <2>1. k + 1 \in Nat /\ k \in 0 .. k
      OBVIOUS
    <2>2. SumFirst(f, k) = S(k)[k] /\ SumFirst(f, k + 1) = S(k + 1)[k + 1]
      BY <1>1, <2>1
    <2>3. S(k)[k] = S(k + 1)[k]
      BY <1>3, <2>1
    <2>4. S(k + 1) = [i \in 0 .. k + 1 |-> IF i = 0 THEN 0
                                           ELSE S(k + 1)[i - 1] + f[i - 1]]
      BY <1>2, <2>1
    <2>5. S(k + 1)[k + 1] = S(k + 1)[k] + f[k]
      BY <2>4
    <2> QED BY <2>2, <2>3, <2>5
  <1> QED BY <1>4, <1>5

\* The sum of numbers is a number, none if they are all 0.
LEMMA SumType ==
    ASSUME NEW n \in Nat, NEW f, \A i \in 0 .. n - 1 : f[i] \in Nat
    PROVE  /\ SumFirst(f, n) \in Nat
           /\ (\A i \in 0 .. n - 1 : f[i] = 0) => SumFirst(f, n) = 0
  <1> DEFINE G == {k \in Nat : k <= n =>
                     /\ SumFirst(f, k) \in Nat
                     /\ (\A i \in 0 .. n - 1 : f[i] = 0) => SumFirst(f, k) = 0}
  <1>1. 0 \in G
    BY SumSteps
  <1>2. ASSUME NEW k \in Nat, k \in G PROVE k + 1 \in G
    <2> SUFFICES ASSUME k + 1 <= n
                 PROVE  /\ SumFirst(f, k + 1) \in Nat
                        /\ (\A i \in 0 .. n - 1 : f[i] = 0) => SumFirst(f, k + 1) = 0
      OBVIOUS
    <2>1. SumFirst(f, k + 1) = SumFirst(f, k) + f[k] /\ k \in 0 .. n - 1 /\ k <= n
      BY SumSteps
    <2> QED BY <1>2, <2>1
  <1> HIDE DEF G
  <1>3. n \in G
    BY <1>1, <1>2, Induction
  <1> QED BY <1>3 DEF G

\* Smaller numbers have a smaller sum, ...
LEMMA SumBelow ==
    ASSUME NEW n \in Nat, NEW f, NEW g,
           \A i \in 0 .. n - 1 : f[i] \in Nat /\ g[i] \in Nat /\ f[i] <= g[i]
    PROVE  SumFirst(f, n) <= SumFirst(g, n)
  <1> DEFINE G == {k \in Nat : k <= n =>
                     /\ SumFirst(f, k) \in Nat /\ SumFirst(g, k) \in Nat
                     /\ SumFirst(f, k) <= SumFirst(g, k)}
  <1>1. 0 \in G
    BY SumSteps
  <1>2. ASSUME NEW k \in Nat, k \in G PROVE k + 1 \in G
    <2> SUFFICES ASSUME k + 1 <= n
                 PROVE  /\ SumFirst(f, k + 1) \in Nat /\ SumFirst(g, k + 1) \in Nat
                        /\ SumFirst(f, k + 1) <= SumFirst(g, k + 1)
      OBVIOUS
    <2>1. /\ SumFirst(f, k + 1) = SumFirst(f, k) + f[k] /\ k \in 0 .. n - 1 /\ k <= n
          /\ SumFirst(g, k + 1) = SumFirst(g, k) + g[k]
      BY SumSteps
    <2> QED BY <1>2, <2>1
  <1> HIDE DEF G
  <1>3. n \in G
    BY <1>1, <1>2, Induction
  <1> QED BY <1>3 DEF G

\* ... equal numbers the same, ...
LEMMA SumSame ==
    ASSUME NEW n \in Nat, NEW f, NEW g, \A i \in 0 .. n - 1 : f[i] = g[i]
    PROVE  SumFirst(f, n) = SumFirst(g, n)
  <1> DEFINE G == {k \in Nat : k <= n => SumFirst(f, k) = SumFirst(g, k)}
  <1>1. 0 \in G
    BY SumSteps
  <1>2. ASSUME NEW k \in Nat, k \in G PROVE k + 1 \in G
    <2> SUFFICES ASSUME k + 1 <= n PROVE SumFirst(f, k + 1) = SumFirst(g, k + 1)
      OBVIOUS
    <2>1. /\ SumFirst(f, k + 1) = SumFirst(f, k) + f[k] /\ k \in 0 .. n - 1 /\ k <= n
          /\ SumFirst(g, k + 1) = SumFirst(g, k) + g[k]
      BY SumSteps
    <2> QED BY <1>2, <2>1
  <1> HIDE DEF G
  <1>3. n \in G
    BY <1>1, <1>2, Induction
  <1> QED BY <1>3 DEF G

\* ... and d more in one place is d more in all.
LEMMA SumAdd ==
    ASSUME NEW n \in Nat, NEW j \in Nat, NEW d \in Nat, NEW f, NEW g,
           \A i \in 0 .. n - 1 : f[i] \in Nat /\ (i # j => g[i] = f[i]),
           j < n => g[j] = f[j] + d
    PROVE  SumFirst(g, n) = IF j < n THEN SumFirst(f, n) + d ELSE SumFirst(f, n)
  <1> DEFINE G == {k \in Nat : k <= n =>
                     /\ SumFirst(f, k) \in Nat
                     /\ SumFirst(g, k) = IF j < k THEN SumFirst(f, k) + d ELSE SumFirst(f, k)}
  <1>1. 0 \in G
    BY SumSteps
  <1>2. ASSUME NEW k \in Nat, k \in G PROVE k + 1 \in G
    <2> SUFFICES ASSUME k + 1 <= n
                 PROVE  /\ SumFirst(f, k + 1) \in Nat
                        /\ SumFirst(g, k + 1) = IF j < k + 1 THEN SumFirst(f, k + 1) + d
                                                             ELSE SumFirst(f, k + 1)
      OBVIOUS
    <2>1. /\ SumFirst(f, k + 1) = SumFirst(f, k) + f[k] /\ k \in 0 .. n - 1 /\ k <= n
          /\ SumFirst(g, k + 1) = SumFirst(g, k) + g[k]
      BY SumSteps
    <2>2. f[k] \in Nat /\ g[k] = IF k = j THEN f[k] + d ELSE f[k]
      BY <2>1
    <2> QED BY <1>2, <2>1, <2>2
  <1> HIDE DEF G
  <1>3. n \in G
    BY <1>1, <1>2, Induction
  <1> QED BY <1>3 DEF G

LEMMA SumBump ==
    ASSUME NEW n \in Nat, NEW j \in Nat, NEW f, NEW g,
           \A i \in 0 .. n - 1 : f[i] \in Nat /\ g[i] = IF i = j THEN f[i] + 1 ELSE f[i]
    PROVE  SumFirst(g, n) = IF j < n THEN SumFirst(f, n) + 1 ELSE SumFirst(f, n)
  <1>1. \A i \in 0 .. n - 1 : f[i] \in Nat /\ (i # j => g[i] = f[i])
    OBVIOUS
  <1>2. j < n => j \in 0 .. n - 1
    OBVIOUS
  <1>3. j < n => g[j] = f[j] + 1
    BY <1>2
  <1> QED BY <1>1, <1>3, SumAdd

-----------------------------------------------------------------------------
(* The schedule *)

\* Two workers share no slot, and a worker has each of its slots once.
LEMMA OwnSlots ==
    ASSUME NEW c \in Nat \ {0}, NEW w \in 0 .. c - 1, NEW v \in 0 .. c - 1,
           NEW o \in Nat, NEW p \in Nat, SlotOf(w, o, c) = SlotOf(v, p, c)
    PROVE  w = v /\ o = p
  <1>1. o * c \in Nat /\ p * c \in Nat /\ w + o * c = v + p * c
    BY Monotone DEF SlotOf
  <1>2. ~ (o < p)
    <2> SUFFICES ASSUME o < p PROVE FALSE
      OBVIOUS
    <2>1. (o + 1) * c <= p * c /\ (o + 1) * c = o * c + c
      OBVIOUS
    <2> QED BY <1>1, <2>1
  <1>3. ~ (p < o)
    <2> SUFFICES ASSUME p < o PROVE FALSE
      OBVIOUS
    <2>1. (p + 1) * c <= o * c /\ (p + 1) * c = p * c + c
      OBVIOUS
    <2> QED BY <1>1, <2>1
  <1> QED BY <1>1, <1>2, <1>3

\* The slots whose deadline lies before the end are the planned ones.
LEMMA PlannedSlots ==
    ASSUME NEW rps \in Nat \ {0}, NEW s \in Nat, NEW d \in Nat
    PROVE  /\ Offset(rps, s) \in Nat
           /\ Offset(rps, s) < d * Second <=> s < rps * d
  <1> USE PacerAssumption
  <1>1. s * Second \in Nat /\ d * Second \in Nat /\ rps * d \in Nat
    OBVIOUS
  <1>2. /\ Offset(rps, s) \in Nat
        /\ Offset(rps, s) < d * Second <=> s * Second < rps * (d * Second)
    BY <1>1, Quotient DEF Offset
  <1>3. rps * (d * Second) = (rps * d) * Second
    OBVIOUS
  <1>4. s * Second < (rps * d) * Second <=> s < rps * d
    BY <1>1, Monotone
  <1> QED BY <1>2, <1>3, <1>4

\* The rounding up of current_slot: exactly the slots from there on have a
\* deadline that is not over.
LEMMA CurrentSlots ==
    ASSUME NEW rps \in Nat \ {0}, NEW s \in Nat, NEW e \in Nat
    PROVE  /\ CurrentSlot(rps, e) \in Nat
           /\ Offset(rps, s) >= e <=> s >= CurrentSlot(rps, e)
  <1> USE PacerAssumption
  <1> DEFINE a == e * rps
             b == s * Second
  <1>1. a \in Nat /\ b \in Nat /\ rps * e = a
    OBVIOUS
  <1>2. Second * (s + 1) = b + Second
    OBVIOUS
  <1> HIDE DEF a, b
  <1>3. Offset(rps, s) \in Nat /\ (Offset(rps, s) < e <=> b < a)
    BY <1>1, Quotient DEF Offset, b
  <1>4. a + Second - 1 \in Nat
    BY <1>1
  <1>5. /\ CurrentSlot(rps, e) \in Nat
        /\ CurrentSlot(rps, e) < s + 1 <=> a + Second - 1 < Second * (s + 1)
    <2>1. s + 1 \in Nat /\ Second \in Nat \ {0}
      OBVIOUS
    <2> QED BY <1>4, <2>1, Quotient DEF CurrentSlot, a
  <1> QED BY <1>1, <1>2, <1>3, <1>5

\* The rounding up of desired_ordinal, for one worker.
LEMMA DesiredOrdinals ==
    ASSUME NEW c \in Nat \ {0}, NEW w \in 0 .. c - 1, NEW current \in Nat,
           NEW o \in Nat
    PROVE  /\ DesiredOrdinal(current, c, w) \in Nat
           /\ SlotOf(w, o, c) >= current <=> o >= DesiredOrdinal(current, c, w)
  <1> DEFINE b == o * c
  <1>1. b \in Nat /\ c * (o + 1) = b + c
    OBVIOUS
  <1> HIDE DEF b
  <1>2. SlotOf(w, o, c) = w + b
    BY DEF SlotOf, b
  <1>3. CASE current > w
    <2>1. current - w + c - 1 \in Nat
      BY <1>3
    <2>2. /\ DesiredOrdinal(current, c, w) \in Nat
          /\ DesiredOrdinal(current, c, w) < o + 1 <=>
                 current - w + c - 1 < c * (o + 1)
      BY <1>3, <2>1, Quotient DEF DesiredOrdinal
    <2> QED BY <1>1, <1>2, <2>2
  <1>4. CASE ~ (current > w)
    BY <1>1, <1>2, <1>4 DEF DesiredOrdinal
  <1> QED BY <1>3, <1>4

\* A worker's slots are its residue class.
LEMMA Residues ==
    ASSUME NEW c \in Nat \ {0}, NEW w \in 0 .. c - 1
    PROVE  /\ \A o \in Nat : SlotOf(w, o, c) \in Nat /\ SlotOf(w, o, c) % c = w
           /\ \A s \in Nat : s % c = w => \E o \in Nat : s = SlotOf(w, o, c)
           /\ \A o, p \in Nat : SlotOf(w, o, c) >= SlotOf(w, p, c) <=> o >= p
  <1>1. ASSUME NEW o \in Nat
        PROVE  SlotOf(w, o, c) \in Nat /\ SlotOf(w, o, c) % c = w
    <2> DEFINE s == w + o * c
    <2>1. s \in Nat /\ s = SlotOf(w, o, c)
      BY DEF SlotOf
    <2>2. /\ s \div c \in Nat /\ s % c \in 0 .. c - 1
          /\ s = SlotOf(s % c, s \div c, c)
      BY <2>1 DEF SlotOf
    <2>3. s % c = w
      BY <2>1, <2>2, OwnSlots
    <2> QED BY <2>1, <2>3
  <1>2. ASSUME NEW s \in Nat, s % c = w PROVE \E o \in Nat : s = SlotOf(w, o, c)
    <2>1. s \div c \in Nat /\ s = SlotOf(w, s \div c, c)
      BY <1>2 DEF SlotOf
    <2> QED BY <2>1
  <1>3. ASSUME NEW o \in Nat, NEW p \in Nat
        PROVE  SlotOf(w, o, c) >= SlotOf(w, p, c) <=> o >= p
    <2>1. o * c \in Nat /\ p * c \in Nat /\ (o < p <=> o * c < p * c)
      BY Monotone
    <2> QED BY <2>1 DEF SlotOf
  <1> QED BY <1>1, <1>2, <1>3

-----------------------------------------------------------------------------
(* The histogram *)

\* The number of bins of the two upper ranges.
LEMMA BinCounts ==
    /\ Bins.fine \in Nat /\ Bins.mid \in Nat /\ Bins.top \in Nat
    /\ Bins.midWidth \in Nat \ {0} /\ Bins.topWidth \in Nat \ {0}
    /\ Bins.fine <= Bins.mid /\ Bins.mid <= Bins.top
    /\ MidBins \in Nat /\ MidBins * Bins.midWidth = Bins.mid - Bins.fine
    /\ TopBins \in Nat /\ TopBins * Bins.topWidth = Bins.top - Bins.mid
    /\ Overflow \in Nat /\ Overflow = Bins.fine + MidBins + TopBins
  <1>1. /\ Bins.fine \in Nat /\ Bins.mid \in Nat /\ Bins.top \in Nat
        /\ Bins.midWidth \in Nat \ {0} /\ Bins.topWidth \in Nat \ {0}
        /\ Bins.fine <= Bins.mid /\ Bins.mid <= Bins.top
        /\ (Bins.mid - Bins.fine) % Bins.midWidth = 0
        /\ (Bins.top - Bins.mid) % Bins.topWidth = 0
    BY PacerAssumption
  <1>2. ASSUME NEW a \in Nat, NEW b \in Nat \ {0}, a % b = 0
        PROVE  a \div b \in Nat /\ (a \div b) * b = a
    BY <1>2
  <1>3. Bins.mid - Bins.fine \in Nat /\ Bins.top - Bins.mid \in Nat
    BY <1>1
  <1>4. MidBins \in Nat /\ MidBins * Bins.midWidth = Bins.mid - Bins.fine
    BY <1>1, <1>2, <1>3 DEF MidBins
  <1>5. TopBins \in Nat /\ TopBins * Bins.topWidth = Bins.top - Bins.mid
    BY <1>1, <1>2, <1>3 DEF TopBins
  <1> QED BY <1>1, <1>4, <1>5 DEF Overflow

\* Where the buckets of each range end.
LEMMA UpperEnds ==
    /\ \A b \in Nat : b < Bins.fine => perf_latency_bucket_upper_us(b) = b + 1
    /\ \A q \in Nat : q < MidBins =>
           perf_latency_bucket_upper_us(Bins.fine + q)
               = Bins.fine + (q + 1) * Bins.midWidth
    /\ \A q \in Nat : q < TopBins =>
           perf_latency_bucket_upper_us(Bins.fine + MidBins + q)
               = Bins.mid + (q + 1) * Bins.topWidth
  <1> USE BinCounts
  <1>1. ASSUME NEW b \in Nat, b < Bins.fine
        PROVE  perf_latency_bucket_upper_us(b) = b + 1
    BY <1>1 DEF perf_latency_bucket_upper_us
  <1>2. ASSUME NEW q \in Nat, q < MidBins
        PROVE  perf_latency_bucket_upper_us(Bins.fine + q)
                   = Bins.fine + (q + 1) * Bins.midWidth
    <2> DEFINE b == Bins.fine + q
    <2>1. /\ b \in Nat /\ ~ (b < Bins.fine) /\ b >= Bins.fine
          /\ b < Bins.fine + MidBins /\ ~ (b >= Bins.fine + MidBins)
          /\ b - Bins.fine + 1 = q + 1
      BY <1>2
    <2> HIDE DEF b
    <2>2. perf_latency_bucket_upper_us(b) = Bins.fine + (q + 1) * Bins.midWidth
      BY <2>1 DEF perf_latency_bucket_upper_us
    <2> QED BY <2>2 DEF b
  <1>3. ASSUME NEW q \in Nat, q < TopBins
        PROVE  perf_latency_bucket_upper_us(Bins.fine + MidBins + q)
                   = Bins.mid + (q + 1) * Bins.topWidth
    <2> DEFINE b == Bins.fine + MidBins + q
    <2>1. /\ b \in Nat /\ ~ (b < Bins.fine) /\ ~ (b < Bins.fine + MidBins)
          /\ b >= Bins.fine + MidBins /\ b < Overflow
          /\ b - Bins.fine - MidBins + 1 = q + 1
      BY <1>3
    <2> HIDE DEF b
    <2>2. perf_latency_bucket_upper_us(b) = Bins.mid + (q + 1) * Bins.topWidth
      BY <2>1 DEF perf_latency_bucket_upper_us
    <2> QED BY <2>2 DEF b
  <1> QED BY <1>1, <1>2, <1>3

\* The buckets below a bucket end where its range, or the one before, says.
LEMMA LowerEnds ==
    /\ \A q \in Nat : q <= MidBins /\ Bins.fine + q > 0 =>
           perf_latency_bucket_upper_us(Bins.fine + q - 1)
               = Bins.fine + q * Bins.midWidth
    /\ \A q \in Nat : q <= TopBins /\ Bins.fine + MidBins + q > 0 =>
           perf_latency_bucket_upper_us(Bins.fine + MidBins + q - 1)
               = Bins.mid + q * Bins.topWidth
  <1> USE BinCounts
  <1>1. ASSUME NEW q \in Nat, q <= MidBins, Bins.fine + q > 0
        PROVE  perf_latency_bucket_upper_us(Bins.fine + q - 1)
                   = Bins.fine + q * Bins.midWidth
    <2>1. CASE q = 0
      <3>1. Bins.fine - 1 \in Nat /\ Bins.fine - 1 < Bins.fine
        BY <1>1, <2>1
      <3>2. perf_latency_bucket_upper_us(Bins.fine - 1) = (Bins.fine - 1) + 1
        BY <3>1, UpperEnds
      <3> QED BY <2>1, <3>2
    <2>2. CASE q > 0
      <3>1. q - 1 \in Nat /\ q - 1 < MidBins /\ (q - 1) + 1 = q
            /\ Bins.fine + (q - 1) = Bins.fine + q - 1
        BY <1>1, <2>2
      <3>2. perf_latency_bucket_upper_us(Bins.fine + (q - 1))
                = Bins.fine + ((q - 1) + 1) * Bins.midWidth
        BY <3>1, UpperEnds
      <3> QED BY <3>1, <3>2
    <2> QED BY <2>1, <2>2
  <1>2. ASSUME NEW q \in Nat, q <= TopBins, Bins.fine + MidBins + q > 0
        PROVE  perf_latency_bucket_upper_us(Bins.fine + MidBins + q - 1)
                   = Bins.mid + q * Bins.topWidth
    <2>1. CASE q = 0
      <3>1. perf_latency_bucket_upper_us(Bins.fine + MidBins - 1)
                = Bins.fine + MidBins * Bins.midWidth
        <4>1. MidBins \in Nat /\ MidBins <= MidBins /\ Bins.fine + MidBins > 0
          BY <1>2, <2>1
        <4> QED BY <1>1, <4>1
      <3>2. \A x \in Nat, y \in Nat : x + y + q - 1 = x + y - 1
        BY <2>1
      <3>3. Bins.fine + MidBins + q - 1 = Bins.fine + MidBins - 1
        BY <3>2
      <3> QED BY <2>1, <3>1, <3>3
    <2>2. CASE q > 0
      <3>1. q - 1 \in Nat /\ q - 1 < TopBins /\ (q - 1) + 1 = q
            /\ Bins.fine + MidBins + (q - 1) = Bins.fine + MidBins + q - 1
        BY <1>2, <2>2
      <3>2. perf_latency_bucket_upper_us(Bins.fine + MidBins + (q - 1))
                = Bins.mid + ((q - 1) + 1) * Bins.topWidth
        BY <3>1, UpperEnds
      <3> QED BY <3>1, <3>2
    <2> QED BY <2>1, <2>2
  <1> QED BY <1>1, <1>2

\* The bin of a range that a latency falls into.
LEMMA BinOf ==
    ASSUME NEW us \in Nat, NEW low \in Nat, NEW high \in Nat,
           NEW width \in Nat \ {0}, NEW bins \in Nat,
           bins * width = high - low, low <= us, us < high
    PROVE  LET q == (us - low) \div width
           IN  /\ q \in Nat /\ q < bins
               /\ us - low < (q + 1) * width /\ q * width <= us - low
  <1> DEFINE a == us - low
             q == a \div width
  <1>1. a \in Nat /\ a < bins * width
    OBVIOUS
  <1> HIDE DEF a
  <1>2. q \in Nat /\ (q < bins <=> a < width * bins)
    BY <1>1, Quotient
  <1>3. q < q + 1 /\ q + 1 \in Nat /\ (q < q + 1 <=> a < width * (q + 1))
    BY <1>1, <1>2, Quotient
  <1>4. (q < q <=> a < width * q)
    BY <1>1, <1>2, Quotient
  <1> HIDE DEF q
  <1>5. width * bins = bins * width /\ width * (q + 1) = (q + 1) * width
        /\ width * q = q * width /\ q * width \in Nat
    BY <1>2
  <1> QED BY <1>1, <1>2, <1>3, <1>4, <1>5 DEF q, a

(* A latency below the last bin lies below the upper end of its bucket,    *)
(* which is what perf_latency_percentile_upper_us prints, and not below    *)
(* that of the bucket before: the buckets tile the range, without a gap    *)
(* where the widths change, for all bins whose widths divide their ranges. *)
THEOREM BucketHoldsLatency ==
    ASSUME NEW us \in Nat
    PROVE  /\ perf_latency_bucket(us) \in Bucket
           /\ us < Bins.top =>
                  us < perf_latency_bucket_upper_us(perf_latency_bucket(us))
           /\ perf_latency_bucket(us) > 0 =>
                  perf_latency_bucket_upper_us(perf_latency_bucket(us) - 1) <= us
  <1> USE BinCounts
  <1> DEFINE b == perf_latency_bucket(us)
  <1>1. CASE us < Bins.fine
    <2>1. b = us
      BY <1>1 DEF perf_latency_bucket
    <2>2. perf_latency_bucket_upper_us(us) = us + 1
      BY <1>1, UpperEnds
    <2>3. us > 0 => perf_latency_bucket_upper_us(us - 1) = (us - 1) + 1
      BY <1>1, UpperEnds
    <2>4. us \in Bucket
      BY <1>1 DEF Bucket
    <2> QED BY <2>1, <2>2, <2>3, <2>4
  <1>2. CASE us >= Bins.fine /\ us < Bins.mid
    <2> DEFINE q == (us - Bins.fine) \div Bins.midWidth
    <2>1. b = Bins.fine + q
      BY <1>2 DEF perf_latency_bucket
    <2>2. /\ q \in Nat /\ q < MidBins
          /\ us - Bins.fine < (q + 1) * Bins.midWidth
          /\ q * Bins.midWidth <= us - Bins.fine
      BY <1>2, BinOf
    <2> HIDE DEF q, b
    <2>3. perf_latency_bucket_upper_us(b) = Bins.fine + (q + 1) * Bins.midWidth
      BY <2>1, <2>2, UpperEnds
    <2>4. b > 0 => perf_latency_bucket_upper_us(b - 1) = Bins.fine + q * Bins.midWidth
      BY <2>1, <2>2, LowerEnds
    <2>5. b \in Bucket
      BY <2>1, <2>2 DEF Bucket
    <2>6. (q + 1) * Bins.midWidth \in Nat /\ q * Bins.midWidth \in Nat
      BY <2>2
    <2> QED BY <2>2, <2>3, <2>4, <2>5, <2>6 DEF b
  <1>3. CASE us >= Bins.mid /\ us < Bins.top
    <2> DEFINE q == (us - Bins.mid) \div Bins.topWidth
    <2>1. b = Bins.fine + MidBins + q
      BY <1>3 DEF perf_latency_bucket
    <2>2. /\ q \in Nat /\ q < TopBins
          /\ us - Bins.mid < (q + 1) * Bins.topWidth
          /\ q * Bins.topWidth <= us - Bins.mid
      BY <1>3, BinOf
    <2> HIDE DEF q, b
    <2>3. perf_latency_bucket_upper_us(b) = Bins.mid + (q + 1) * Bins.topWidth
      BY <2>1, <2>2, UpperEnds
    <2>4. b > 0 => perf_latency_bucket_upper_us(b - 1) = Bins.mid + q * Bins.topWidth
      BY <2>1, <2>2, LowerEnds
    <2>5. b \in Bucket
      BY <2>1, <2>2 DEF Bucket
    <2>6. (q + 1) * Bins.topWidth \in Nat /\ q * Bins.topWidth \in Nat
      BY <2>2
    <2> QED BY <2>2, <2>3, <2>4, <2>5, <2>6 DEF b
  <1>4. CASE us >= Bins.top
    <2>1. b = Overflow
      BY <1>4 DEF perf_latency_bucket
    <2>2. b \in Bucket
      BY <2>1 DEF Bucket
    <2>3. b > 0 => perf_latency_bucket_upper_us(b - 1) = Bins.mid + TopBins * Bins.topWidth
      BY <2>1, LowerEnds
    <2> QED BY <1>4, <2>2, <2>3
  <1> QED BY <1>1, <1>2, <1>3, <1>4

-----------------------------------------------------------------------------
(* The invariant: steps that take no slot and complete no request *)

\* Counting the workers that wait.
LEMMA Waiters ==
    /\ Waiting \subseteq Worker
    /\ Cardinality(Waiting) \in Nat
    /\ Waiting = {} => Cardinality(Waiting) = 0
    /\ \A w \in Worker : w \notin Waiting =>
           Cardinality(Waiting \cup {w}) = Cardinality(Waiting) + 1
    /\ \A w \in Waiting : Cardinality(Waiting \ {w}) = Cardinality(Waiting) - 1
  <1>1. IsFiniteSet(Worker) /\ Waiting \subseteq Worker
    BY PerfAssumption, FS_Interval DEF Worker, Waiting
  <1>2. IsFiniteSet(Waiting)
    BY <1>1, FS_Subset
  <1> QED BY <1>1, <1>2, FS_CardinalityType, FS_EmptySet, FS_AddElement, FS_RemoveElement

LEMMA Workers == \A w \in Worker : w \in Nat
  BY PerfAssumption DEF Worker

LEMMA Steps ==
    /\ SettingUp \cup {"loop", "sleep", "wait", "ended"} = WorkerStep \ {None}
    /\ None \in WorkerStep /\ "setup" \in WorkerStep
    /\ \A step \in SettingUp : step \notin {None, "loop", "sleep", "wait", "ended"}
  BY DEF WorkerStep, SettingUp, None

\* A slot that was taken stays taken, and time does not go back.
LEMMA SlotsKept ==
    ASSUME TypeOK, SlotInv, UNCHANGED cfg, UNCHANGED slots,
           clock' \in Nat, clock' >= clock,
           \A w \in Worker : Past(w) \in Int /\ Past(w)' \in Int /\ Past(w) <= Past(w)'
    PROVE  SlotInv'
  <1>1. Paced(cfg)' = Paced(cfg) /\ Planned' = Planned /\ PacedStart' = PacedStart
    BY DEF Paced, Planned, PacedStart
  <1>2. ~ Paced(cfg)' => slots' = {}
    BY <1>1 DEF SlotInv
  <1>3. ASSUME NEW s \in slots
        PROVE  /\ s < Planned' /\ clock' >= PacedStart' + Offset(cfg'.rps, s)
               /\ \E w \in Worker : \E o \in 0 .. (Past(w)' - 1) :
                      w < cfg'.clients /\ s = SlotOf(w, o, cfg'.clients)
    <2>0. PICK w \in Worker : \E o \in 0 .. Past(w) - 1 :
              w < cfg.clients /\ s = SlotOf(w, o, cfg.clients)
      BY DEF SlotInv
    <2>1. PICK o \in 0 .. Past(w) - 1 :
              w < cfg.clients /\ s = SlotOf(w, o, cfg.clients)
      BY <2>0
    <2>2. o \in 0 .. Past(w)' - 1
      <3>1. Past(w) \in Int /\ Past(w)' \in Int /\ Past(w) <= Past(w)'
        OBVIOUS
      <3> QED BY <2>1, <3>1
    <2>3. s < Planned /\ clock >= PacedStart + Offset(cfg.rps, s)
      BY DEF SlotInv
    <2>4. PacedStart + Offset(cfg.rps, s) \in Int
      <3>1. Paced(cfg) /\ cfg.rps \in Nat \ {0} /\ s \in Nat
        BY DEF SlotInv, TypeOK, Paced
      <3>2. Offset(cfg.rps, s) \in Nat
        BY <3>1, PlannedSlots
      <3>3. PacedStart \in Nat
        BY PacerAssumption DEF PacedStart
      <3> QED BY <3>2, <3>3
    <2>5. clock' >= PacedStart' + Offset(cfg'.rps, s)
      BY <1>1, <2>3, <2>4 DEF TypeOK
    <2> QED BY <1>1, <2>1, <2>2, <2>3, <2>5
  <1> QED BY <1>2, <1>3 DEF SlotInv

\* A worker that goes on sleeping sleeps for the same slot.
LEMMA SleepKept ==
    ASSUME SleepInv, UNCHANGED cfg,
           \A w \in Worker :
               /\ wpc'[w] = "sleep" => wpc[w] = "sleep" /\ ordinal'[w] = ordinal[w]
                                         /\ due'[w] = due[w]
               /\ wpc'[w] # "sleep" => due'[w] = NoSlot
    PROVE  SleepInv'
  BY DEF SleepInv, Planned, Paced

LEMMA InitIInv == Init => IInv
  <1> SUFFICES ASSUME Init PROVE IInv
    OBVIOUS
  <1>1. Waiting = {}
    BY DEF Init, Waiting, None
  <1>2. IsFiniteSet({}) /\ Cardinality({}) = 0
    BY FS_EmptySet
  <1>3. TypeOK
    BY <1>2 DEF Init, TypeOK, NoSlot, None, MainStep, BeforeWorkers, WorkerStep
  <1>4. PhaseInv /\ SleepInv /\ SlotInv
    BY Workers DEF Init, PhaseInv, SleepInv, SlotInv, Paced, None, StatField
  <1>5. CountInv
    BY <1>1, <1>2, Waiters DEF Init, CountInv, StatField, Granted, Denied, Failed
  <1> QED BY <1>3, <1>4, <1>5 DEF IInv

LEMMA ParseArgsIInv ==
    ASSUME IInv, NEW clients \in ClientsArg, NEW requests \in RequestsArg,
           NEW duration \in DurationArg, NEW rps \in RpsArg,
           ParseArgs(clients, requests, duration, rps)
    PROVE  IInv'
  <1>1. /\ mpc = "args" /\ mpc' \in {"dns", "exit"}
        /\ clock' = clock /\ next' = next /\ started' = started /\ wpc' = wpc
        /\ ordinal' = ordinal /\ due' = due /\ stats' = stats /\ slots' = slots
        /\ mpc' = "exit" => cfg' = cfg
        /\ mpc' = "dns" => /\ StrictEnough(clients, duration, rps)
                           /\ cfg' = ConfigOf(clients, requests, duration, rps)
    BY DEF ParseArgs, loops, records
  <1>2. /\ slots = {} /\ stats.starts = 0 /\ Cardinality({}) = 0
        /\ \A w \in Worker : wpc[w] = None /\ due[w] = NoSlot
    BY <1>1, FS_EmptySet DEF IInv, PhaseInv, BeforeWorkers
  <1>3. ASSUME NEW a \in ClientsArg \cup RequestsArg \cup DurationArg \cup RpsArg
        PROVE  /\ a.n \in Nat
               /\ \A fallback \in Nat : perf_parse_u64(a, fallback) \in Nat
    <2>1. a.n \in 0 .. U64 - 1 /\ U64 \in Nat \ {0}
      BY PerfAssumption
    <2>2. (U64 - a.n) % U64 \in Nat
      BY <2>1
    <2> QED BY <2>1, <2>2 DEF perf_parse_u64
  <1>4. /\ cfg' \in [clients : Nat, requests : Nat, hasDuration : BOOLEAN,
                     duration : Nat, rps : Nat]
        /\ Paced(cfg') => cfg'.duration > 0 /\ cfg'.clients > 0
    <2>1. CASE mpc' = "exit"
      BY <1>1, <2>1 DEF IInv, TypeOK, PhaseInv
    <2>2. CASE mpc' = "dns"
      <3>1. /\ perf_parse_u64(clients, DefaultClients) \in Nat
            /\ perf_parse_u64(requests, DefaultRequests) \in Nat
            /\ perf_parse_u64(duration, 0) \in Nat
            /\ rps.n \in Nat
            /\ perf_find_arg(duration) \in BOOLEAN
        BY <1>3 DEF DefaultClients, DefaultRequests, perf_find_arg
      <3>2. cfg' \in [clients : Nat, requests : Nat, hasDuration : BOOLEAN,
                      duration : Nat, rps : Nat]
        BY <1>1, <2>2, <3>1 DEF ConfigOf
      <3>3. ASSUME Paced(cfg') PROVE cfg'.duration > 0 /\ cfg'.clients > 0
        <4>1. perf_find_arg(rps)
          BY <1>1, <2>2, <3>3 DEF ConfigOf, Paced
        <4>2. /\ duration.form = "number" /\ duration.n > 0
              /\ perf_find_arg(clients) => clients.form = "number" /\ clients.n > 0
          BY <1>1, <2>2, <4>1 DEF StrictEnough, perf_parse_positive_u64
        <4>3. perf_parse_u64(duration, 0) = duration.n
          BY <4>2 DEF perf_parse_u64
        <4>4. perf_parse_u64(clients, DefaultClients) > 0
          <5>1. CASE perf_find_arg(clients)
            BY <4>2, <5>1 DEF perf_parse_u64
          <5>2. CASE ~ perf_find_arg(clients)
            <6>1. clients.form \in {"absent", "bare"}
              BY <5>2 DEF perf_find_arg
            <6>2. perf_parse_u64(clients, DefaultClients) = DefaultClients
              BY <6>1 DEF perf_parse_u64
            <6> QED BY <6>2 DEF DefaultClients
          <5> QED BY <5>1, <5>2
        <4> QED BY <1>1, <2>2, <4>2, <4>3, <4>4 DEF ConfigOf
      <3> QED BY <3>2, <3>3
    <2> QED BY <1>1, <2>1, <2>2
  <1>5. TypeOK'
    BY <1>1, <1>4 DEF IInv, TypeOK, MainStep, BeforeWorkers
  <1>6. PhaseInv'
    BY <1>1, <1>2, <1>4 DEF IInv, PhaseInv
  <1>7. SleepInv'
    BY <1>1, <1>2 DEF SleepInv, None
  <1>8. SlotInv'
    BY <1>1, <1>2 DEF SlotInv
  <1>9. CountInv'
    BY <1>1, <1>2 DEF IInv, CountInv, Waiting
  <1> QED BY <1>5, <1>6, <1>7, <1>8, <1>9 DEF IInv

\* The steps of main, of the progress thread and of the clock touch neither
\* the schedule nor the counters.
LEMMA QuietIInv ==
    ASSUME IInv, UNCHANGED <<cfg, started, wpc, ordinal, due, stats, slots>>,
           clock' \in Nat, clock' >= clock, next' \in Nat,
           mpc' \in MainStep,
           mpc' \in BeforeWorkers => mpc \in BeforeWorkers,
           mpc' = "spawn" => next' = 0,
           \A w \in Worker : w < next' => w < next \/ wpc[w] \in {None, "ended"},
           mpc' \in {"progress", "report"} => next' = cfg.clients
    PROVE  IInv'
  <1>1. TypeOK'
    BY DEF IInv, TypeOK
  <1>2. PhaseInv'
    BY DEF IInv, PhaseInv
  <1>3. SleepInv'
    BY SleepKept DEF IInv, SleepInv
  <1>4. \A w \in Worker : Past(w) \in Int /\ Past(w)' = Past(w)
    BY DEF Past, IInv, TypeOK
  <1>5. SlotInv'
    BY <1>4, SlotsKept DEF IInv
  <1>6. CountInv'
    BY DEF IInv, CountInv, Waiting
  <1> QED BY <1>1, <1>2, <1>3, <1>5, <1>6 DEF IInv

LEMMA MainIInv ==
    ASSUME IInv,
           \/ Tick \/ Join \/ StopProgress \/ JoinProgress \/ ProgressEnds
           \/ PrepareStep \/ Cleanup
           \/ \E ok \in BOOLEAN : Report(ok)
    PROVE  IInv'
  <1> USE DEF clocks, mains, loops, records
  <1>1. /\ UNCHANGED <<cfg, started, wpc, ordinal, due, stats, slots>>
        /\ clock' = clock \/ clock' = clock + 1
    <2>1. CASE PrepareStep
      BY <2>1 DEF PrepareStep, PrepareDns, AllocateTables, NoTables, Preparing,
                  AllocateHistogram, HistogramFails, Prepared
    <2>2. CASE ~ PrepareStep
      BY <2>2 DEF Tick, Join, StopProgress, JoinProgress, ProgressEnds, Report,
                  Cleanup
    <2> QED BY <2>1, <2>2
  <1>2. clock' \in Nat /\ clock' >= clock
    BY <1>1 DEF IInv, TypeOK
  <1>3. next \in Nat /\ cfg.clients \in Nat /\ (mpc = "spawn" => next = 0)
        /\ (mpc \in {"progress", "report"} => next = cfg.clients)
        /\ mpc \in MainStep
    BY DEF IInv, TypeOK, PhaseInv
  <1>4. /\ mpc' \in MainStep
        /\ mpc' \in BeforeWorkers => mpc \in BeforeWorkers
        /\ mpc' = "spawn" => next' = 0
        /\ mpc' \in {"progress", "report"} => next' = cfg.clients
        /\ \/ next' = next \/ Join
           \/ mpc \in BeforeWorkers /\ next' \in {0, next + 1}
    <2>1. CASE PrepareStep
      BY <1>3, <2>1 DEF PrepareStep, PrepareDns, AllocateTables, NoTables,
             AllocateHistogram, HistogramFails, Prepared, GiveUp, BeforeWorkers,
             MainStep
    <2>2. CASE ~ PrepareStep
      BY <1>3, <2>2 DEF Tick, Join, StopProgress, JoinProgress, ProgressEnds,
             Report, Cleanup, GiveUp, BeforeWorkers, MainStep
    <2> QED BY <2>1, <2>2
  <1>5. Join => /\ next' = next + 1
                /\ next \in Worker => (started[next] => wpc[next] = "ended")
    BY DEF Join
  <1>6. next' \in Nat
    BY <1>3, <1>4, <1>5
  <1>7. ASSUME NEW w \in Worker, w < next'
        PROVE  w < next \/ wpc[w] \in {None, "ended"}
    <2>1. CASE Join
      <3>1. w \in Nat /\ next \in Nat /\ next' = next + 1
        BY <1>3, <1>5, <2>1, Workers
      <3>2. w < next \/ w = next
        BY <1>7, <3>1
      <3>3. wpc[w] # None => started[w]
        BY DEF IInv, PhaseInv
      <3> QED BY <1>5, <2>1, <3>2, <3>3
    <2>2. CASE mpc \in BeforeWorkers
      BY <2>2 DEF IInv, PhaseInv
    <2> QED BY <1>4, <1>7, <2>1, <2>2
  <1> QED BY <1>1, <1>2, <1>4, <1>6, <1>7, QuietIInv

LEMMA SpawnIInv ==
    ASSUME IInv, NEW up \in SUBSET Worker, NEW progress \in BOOLEAN,
           Spawn(up, progress)
    PROVE  IInv'
  <1>1. /\ mpc = "spawn" /\ mpc' = "join"
        /\ up \subseteq 0 .. cfg.clients - 1
        /\ started' = [w \in Worker |-> w \in up]
        /\ wpc' = [w \in Worker |-> IF w \in up THEN "setup" ELSE None]
        /\ clock' = clock /\ cfg' = cfg /\ next' = next /\ ordinal' = ordinal
        /\ due' = due /\ stats' = stats /\ slots' = slots
    BY DEF Spawn, clocks, loops, records
  <1>2. /\ \A w \in Worker : wpc[w] = None /\ due[w] = NoSlot
        /\ slots = {} /\ next = 0 /\ stats.starts = 0
    BY <1>1 DEF IInv, PhaseInv, BeforeWorkers
  <1>3. Waiting = {} /\ Waiting' = {}
    BY <1>1, <1>2 DEF Waiting, None
  <1>4. TypeOK'
    <2>1. wpc' \in [Worker -> WorkerStep]
      BY <1>1, Steps
    <2>2. started' \in [Worker -> BOOLEAN]
      BY <1>1
    <2> QED BY <1>1, <2>1, <2>2 DEF IInv, TypeOK, MainStep
  <1>5. PhaseInv'
    <2>1. \A w \in Worker : wpc'[w] # None => w < cfg'.clients /\ started'[w]
      <3> SUFFICES ASSUME NEW w \in Worker, wpc'[w] # None
                   PROVE  w < cfg'.clients /\ started'[w]
        OBVIOUS
      <3>1. w \in up
        BY <1>1
      <3>2. w \in 0 .. cfg.clients - 1 /\ cfg.clients \in Nat
        BY <1>1, <3>1 DEF IInv, TypeOK
      <3>3. w < cfg'.clients
        BY <1>1, <3>2
      <3>4. started'[w]
        BY <1>1, <3>1, Zenon
      <3> QED BY <3>3, <3>4
    <2>2. \A w \in Worker : ~ (w < next')
      BY <1>1, <1>2, Workers
    <2> QED BY <1>1, <2>1, <2>2 DEF IInv, PhaseInv, BeforeWorkers
  <1>6. SleepInv'
    BY <1>1, <1>2 DEF SleepInv, None
  <1>7. SlotInv'
    BY <1>1, <1>2 DEF SlotInv
  <1>8. CountInv'
    BY <1>1, <1>3 DEF IInv, CountInv, Paced
  <1> QED BY <1>4, <1>5, <1>6, <1>7, <1>8 DEF IInv

-----------------------------------------------------------------------------
(* The workers *)

\* A step of worker w alone, between the joins of main.
Alone(w) ==
    /\ UNCHANGED <<clock, cfg, mpc, next, started>>
    /\ wpc[w] # None /\ wpc[w] # "ended"
    /\ \E to \in WorkerStep \ {None} :
           wpc' = [wpc EXCEPT ![w] = to]

\* What such a step leaves of the phases.
LEMMA AlonePhase ==
    ASSUME IInv, NEW w \in Worker, Alone(w)
    PROVE  /\ PhaseInv'
           /\ w < cfg.clients /\ w \in Nat /\ cfg.clients \in Nat
           /\ mpc \notin BeforeWorkers
           /\ wpc' \in [Worker -> WorkerStep]
           /\ \A v \in Worker : v # w => wpc'[v] = wpc[v]
           /\ UNCHANGED clock /\ UNCHANGED cfg /\ UNCHANGED mpc /\ UNCHANGED next
           /\ UNCHANGED started
           /\ clock' \in Nat /\ clock' >= clock
  <1>1. PICK to \in WorkerStep \ {None} :
            wpc' = [wpc EXCEPT ![w] = to]
    BY DEF Alone
  <1>2. /\ wpc[w] # None /\ wpc[w] # "ended" /\ clock' = clock /\ cfg' = cfg
        /\ mpc' = mpc /\ next' = next /\ started' = started
    BY DEF Alone
  <1>3. wpc \in [Worker -> WorkerStep]
        /\ clock \in Nat
    BY DEF IInv, TypeOK
  <1>4. wpc' \in [Worker -> WorkerStep]
        /\ \A v \in Worker : v # w => wpc'[v] = wpc[v]
    BY <1>1, <1>3
  <1>5. w < cfg.clients /\ started[w] /\ mpc \notin BeforeWorkers /\ ~ (w < next)
    BY <1>2 DEF IInv, PhaseInv
  <1>6. PhaseInv'
    BY <1>2, <1>4, <1>5 DEF IInv, PhaseInv
  <1>7. w \in Nat /\ cfg.clients \in Nat
    BY Workers DEF IInv, TypeOK
  <1>8. clock' \in Nat /\ clock' >= clock
    BY <1>2, <1>3
  <1> QED BY <1>2, <1>4, <1>5, <1>6, <1>7, <1>8

\* Set-up, and the end of the loop: no slot, no count.
LEMMA LeaveIInv ==
    ASSUME IInv, NEW w \in Worker, Setup(w) \/ LeaveLoop(w) \/ SleepFails(w)
    PROVE  IInv'
  <1> USE DEF clocks, mains
  <1>1. /\ Alone(w) /\ wpc[w] # "wait" /\ wpc'[w] \notin {"sleep", "wait"}
        /\ ordinal' = ordinal /\ stats' = stats /\ slots' = slots
        /\ due' = due \/ due' = [due EXCEPT ![w] = NoSlot]
        /\ wpc[w] = "sleep" => due' = [due EXCEPT ![w] = NoSlot]
    <2>1. CASE Setup(w)
      <3>1. /\ wpc[w] \in SettingUp /\ ordinal' = ordinal /\ due' = due
            /\ stats' = stats /\ slots' = slots
            /\ UNCHANGED <<clock, cfg, mpc, next, started>>
            /\ \E to \in SettingUp \cup {"loop", "ended"} :
                   wpc' = [wpc EXCEPT ![w] = to]
        BY <2>1 DEF Setup, OpenSocket, BindSocket, CreateClient, NamingFails,
                    SetsUp, SetupFails, SettingUp
      <3> QED BY <3>1, Steps DEF Alone, IInv, TypeOK
    <2>2. CASE LeaveLoop(w) \/ SleepFails(w)
      <3>1. /\ wpc[w] \in {"loop", "sleep"} /\ ordinal' = ordinal
            /\ due' = [due EXCEPT ![w] = NoSlot]
            /\ stats' = stats /\ slots' = slots
            /\ UNCHANGED <<clock, cfg, mpc, next, started>>
            /\ wpc' = [wpc EXCEPT ![w] = "ended"]
        BY <2>2 DEF LeaveLoop, SleepFails, Leaves, Close
      <3> QED BY <3>1, Steps DEF Alone, IInv, TypeOK, None
    <2> QED BY <2>1, <2>2
  <1>2. /\ PhaseInv' /\ cfg' = cfg /\ clock' \in Nat /\ clock' >= clock
        /\ mpc' = mpc /\ next' = next /\ started' = started /\ clock' = clock
        /\ wpc' \in [Worker -> WorkerStep]
        /\ \A v \in Worker : v # w => wpc'[v] = wpc[v]
    BY <1>1, AlonePhase
  <1>3. due' \in [Worker -> Nat \cup {NoSlot}] /\ \A v \in Worker : v # w => due'[v] = due[v]
    BY <1>1 DEF IInv, TypeOK
  <1>4. TypeOK'
    BY <1>1, <1>2, <1>3 DEF IInv, TypeOK
  <1>5. due'[w] = NoSlot
    <2>1. due \in [Worker -> Nat \cup {NoSlot}]
      BY DEF IInv, TypeOK
    <2>2. wpc[w] # "sleep" => due[w] = NoSlot
      BY DEF IInv, SleepInv
    <2> QED BY <1>1, <2>1, <2>2
  <1>6. SleepInv'
    <2>1. ASSUME NEW v \in Worker
          PROVE  /\ wpc'[v] = "sleep" => wpc[v] = "sleep" /\ ordinal'[v] = ordinal[v]
                                           /\ due'[v] = due[v]
                 /\ wpc'[v] # "sleep" => due'[v] = NoSlot
      <3>1. CASE v = w
        BY <1>1, <1>5, <3>1
      <3>2. CASE v # w
        BY <1>1, <1>2, <1>3, <3>2 DEF IInv, SleepInv
      <3> QED BY <3>1, <3>2
    <2> QED BY <1>2, <2>1, SleepKept DEF IInv
  <1>7. \A v \in Worker : Past(v) \in Int /\ Past(v)' \in Int /\ Past(v) <= Past(v)'
    <2> SUFFICES ASSUME NEW v \in Worker
                 PROVE  Past(v) \in Int /\ Past(v)' \in Int /\ Past(v) <= Past(v)'
      OBVIOUS
    <2>1. ordinal[v] \in Nat
      BY DEF IInv, TypeOK
    <2>2. wpc'[v] = "sleep" => wpc[v] = "sleep"
      BY <1>1, <1>2
    <2> QED BY <1>1, <2>1, <2>2 DEF Past
  <1>8. SlotInv'
    BY <1>1, <1>2, <1>7, SlotsKept DEF IInv
  <1>9. Waiting' = Waiting
    BY <1>1, <1>2 DEF Waiting
  <1>10. CountInv'
    BY <1>1, <1>2, <1>9 DEF IInv, CountInv
  <1> QED BY <1>2, <1>4, <1>6, <1>8, <1>10 DEF IInv

\* perf_pacer_next: the ordinal it settles on, and what is from there on.
LEMMA Settled ==
    ASSUME TypeOK, Paced(cfg), cfg.clients > 0, NEW w \in Worker, w < cfg.clients
    PROVE  /\ SettledOrdinal(w) \in Nat /\ SettledOrdinal(w) >= ordinal[w]
           /\ cfg.clients \in Nat \ {0} /\ w \in 0 .. cfg.clients - 1
           /\ cfg.rps \in Nat \ {0}
           /\ \A o \in Nat :
                  o >= SettledOrdinal(w) <=>
                      /\ o >= ordinal[w]
                      /\ PacedStart + Offset(cfg.rps, SlotOf(w, o, cfg.clients)) >= clock
  <1>1. /\ cfg.clients \in Nat \ {0} /\ w \in 0 .. cfg.clients - 1
        /\ cfg.rps \in Nat \ {0} /\ ordinal[w] \in Nat /\ clock \in Nat
        /\ PacedStart \in Nat
    BY Workers, PacerAssumption DEF TypeOK, Paced, PacedStart
  <1>2. Elapsed \in Nat
    BY <1>1 DEF Elapsed
  <1> DEFINE current == CurrentSlot(cfg.rps, Elapsed)
             desired == DesiredOrdinal(current, cfg.clients, w)
  <1>3. current \in Nat
    BY <1>1, <1>2, CurrentSlots
  <1> HIDE DEF current
  <1>4. desired \in Nat
    BY <1>1, <1>3, DesiredOrdinals
  <1>5. SettledOrdinal(w) = Max({ordinal[w], desired})
    BY DEF SettledOrdinal, PacerOrdinal, current
  <1> HIDE DEF desired
  <1>6. /\ SettledOrdinal(w) \in Nat
        /\ \A n \in Nat : n >= SettledOrdinal(w) <=> n >= ordinal[w] /\ n >= desired
    BY <1>1, <1>4, <1>5, Larger
  <1>7. SettledOrdinal(w) >= ordinal[w]
    BY <1>6
  <1>8. ASSUME NEW o \in Nat
        PROVE  o >= desired <=>
                   PacedStart + Offset(cfg.rps, SlotOf(w, o, cfg.clients)) >= clock
    <2> DEFINE s == SlotOf(w, o, cfg.clients)
    <2>1. s \in Nat
      BY <1>1, Residues
    <2>2. o >= desired <=> s >= current
      BY <1>1, <1>3, DesiredOrdinals DEF desired
    <2>3. s >= current <=> Offset(cfg.rps, s) >= Elapsed
      BY <1>1, <1>2, <2>1, CurrentSlots DEF current
    <2>4. Offset(cfg.rps, s) \in Nat
      BY <1>1, <2>1, PlannedSlots
    <2> HIDE DEF s
    <2>5. Offset(cfg.rps, s) >= Elapsed <=> PacedStart + Offset(cfg.rps, s) >= clock
      BY <1>1, <2>4 DEF Elapsed
    <2> QED BY <2>2, <2>3, <2>5 DEF s
  <1> QED BY <1>1, <1>6, <1>7, <1>8
LEMMA PaceNextIInv ==
    ASSUME IInv, NEW w \in Worker, PaceNext(w)
    PROVE  IInv'
  <1> USE DEF clocks, mains, records
  <1> DEFINE o == SettledOrdinal(w)
             s == SlotOf(w, o, cfg.clients)
  <1>1. /\ wpc[w] = "loop" /\ Paced(cfg) /\ HasSlot(w)
        /\ ordinal' = [ordinal EXCEPT ![w] = o + 1]
        /\ due' = [due EXCEPT ![w] = s]
        /\ wpc' = [wpc EXCEPT ![w] = "sleep"]
        /\ stats' = stats /\ slots' = slots
        /\ UNCHANGED <<clock, cfg, mpc, next, started>>
    BY DEF PaceNext, SettledSlot
  <1>2. Alone(w)
    BY <1>1, Steps DEF Alone, None
  <1>3. /\ PhaseInv' /\ cfg' = cfg /\ clock' \in Nat /\ clock' >= clock
        /\ mpc' = mpc /\ next' = next /\ started' = started /\ clock' = clock
        /\ wpc' \in [Worker -> WorkerStep]
        /\ \A v \in Worker : v # w => wpc'[v] = wpc[v]
        /\ w < cfg.clients
    BY <1>2, AlonePhase
  <1>4. /\ o \in Nat /\ o >= ordinal[w] /\ ordinal[w] \in Nat
        /\ cfg.clients \in Nat \ {0} /\ w \in 0 .. cfg.clients - 1
        /\ cfg.rps \in Nat \ {0} /\ cfg.duration \in Nat
    <2>1. TypeOK /\ cfg.clients > 0
      BY <1>1 DEF IInv, PhaseInv
    <2>2. ordinal[w] \in Nat /\ cfg.duration \in Nat
      BY DEF IInv, TypeOK
    <2> QED BY <1>1, <1>3, <2>1, <2>2, Settled
  <1>5. s \in Nat
    BY <1>4, Residues
  <1>6. s < Planned
    <2>1. Offset(cfg.rps, s) < cfg.duration * Second
      BY <1>1 DEF HasSlot, SettledSlot
    <2> QED BY <1>4, <1>5, <2>1, PlannedSlots DEF Planned
  <1> HIDE DEF s, o
  <1>7. /\ ordinal' \in [Worker -> Nat] /\ due' \in [Worker -> Nat \cup {NoSlot}]
        /\ ordinal'[w] = o + 1 /\ due'[w] = s /\ wpc'[w] = "sleep"
        /\ \A v \in Worker : v # w => ordinal'[v] = ordinal[v] /\ due'[v] = due[v]
    BY <1>1, <1>4, <1>5 DEF IInv, TypeOK
  <1>8. TypeOK'
    BY <1>1, <1>3, <1>7 DEF IInv, TypeOK
  <1>9. SleepInv'
    <2> SUFFICES ASSUME NEW v \in Worker
                 PROVE  /\ wpc'[v] # "sleep" => due'[v] = NoSlot
                        /\ wpc'[v] = "sleep" =>
                               /\ Paced(cfg) /\ ordinal'[v] > 0
                               /\ due'[v] = SlotOf(v, ordinal'[v] - 1, cfg.clients)
                               /\ due'[v] < Planned
      BY <1>3 DEF SleepInv, Paced, Planned
    <2>1. CASE v = w
      <3>1. (o + 1) - 1 = o /\ o + 1 > 0
        BY <1>4
      <3> QED BY <1>1, <1>6, <1>7, <2>1, <3>1 DEF s
    <2>2. CASE v # w
      BY <1>3, <1>7, <2>2 DEF IInv, SleepInv
    <2> QED BY <2>1, <2>2
  <1>10. \A v \in Worker : Past(v) \in Int /\ Past(v)' \in Int /\ Past(v) <= Past(v)'
    <2> SUFFICES ASSUME NEW v \in Worker
                 PROVE  Past(v) \in Int /\ Past(v)' \in Int /\ Past(v) <= Past(v)'
      OBVIOUS
    <2>1. ordinal[v] \in Nat
      BY DEF IInv, TypeOK
    <2>2. CASE v = w
      BY <1>1, <1>4, <1>7, <2>2 DEF Past
    <2>3. CASE v # w
      BY <1>3, <1>7, <2>1, <2>3 DEF Past
    <2> QED BY <2>2, <2>3
  <1>11. SlotInv'
    BY <1>1, <1>3, <1>10, SlotsKept DEF IInv
  <1>12. Waiting' = Waiting
    BY <1>1, <1>3, <1>7 DEF Waiting
  <1>13. CountInv'
    BY <1>1, <1>3, <1>12 DEF IInv, CountInv
  <1> QED BY <1>3, <1>8, <1>9, <1>11, <1>13 DEF IInv

\* What atomic_fetch_add leaves, counter by counter.
LEMMA Bumped ==
    ASSUME TypeOK, NEW fields \in SUBSET StatField, stats' = Bump(fields)
    PROVE  /\ stats' \in [StatField -> Nat]
           /\ \A f \in StatField :
                  stats'[f] = IF f \in fields THEN stats[f] + 1 ELSE stats[f]
  <1>1. stats \in [StatField -> Nat]
    BY DEF TypeOK
  <1>2. \A f \in StatField :
            (IF f \in fields THEN stats[f] + 1 ELSE stats[f]) \in Nat
    BY <1>1
  <1> QED BY <1>2 DEF Bump

\* The counters of a request that is over.
LEMMA Recorded ==
    ASSUME TypeOK, NEW w \in Worker, NEW o \in {Granted, Denied, Failed},
           NEW from, RecordStats(w, o, from),
           stats.sent = stats.received + stats.error,
           stats.received = stats.granted + stats.denied
    PROVE  /\ stats' \in [StatField -> Nat]
           /\ stats'.sent = stats.sent + 1
           /\ stats'.starts = IF wpc[w] = "wait" THEN stats.starts ELSE stats.starts + 1
           /\ stats'.sent = stats'.received + stats'.error
           /\ stats'.received = stats'.granted + stats'.denied
           /\ stats'.received = IF o = Failed THEN stats.received ELSE stats.received + 1
  <1> DEFINE fields == {"sent", o}
                         \cup (IF wpc[w] = "wait" THEN {} ELSE {"starts"})
                         \cup (IF o = Failed THEN {} ELSE {"received"})
  <1>1. stats' = Bump(fields)
    BY DEF RecordStats
  <1>2. fields \in SUBSET StatField
    BY DEF StatField, Granted, Denied, Failed
  <1>3. /\ "sent" \in fields
        /\ "starts" \in fields <=> wpc[w] # "wait"
        /\ "received" \in fields <=> o # Failed
        /\ "granted" \in fields <=> o = Granted
        /\ "denied" \in fields <=> o = Denied
        /\ "error" \in fields <=> o = Failed
    BY DEF Granted, Denied, Failed
  <1> HIDE DEF fields
  <1>4. /\ stats' \in [StatField -> Nat]
        /\ \A f \in StatField :
               stats'[f] = IF f \in fields THEN stats[f] + 1 ELSE stats[f]
    BY <1>1, <1>2, Bumped
  <1>5. /\ {"starts", "sent", "received", "granted", "denied", "error"} \subseteq StatField
        /\ stats.starts \in Nat /\ stats.sent \in Nat /\ stats.received \in Nat
        /\ stats.granted \in Nat /\ stats.denied \in Nat /\ stats.error \in Nat
    BY DEF TypeOK, StatField, Granted, Denied, Failed
  <1>6. /\ stats'.sent = stats.sent + 1
        /\ stats'.starts = IF wpc[w] # "wait" THEN stats.starts + 1 ELSE stats.starts
        /\ stats'.received = IF o # Failed THEN stats.received + 1 ELSE stats.received
        /\ stats'.granted = IF o = Granted THEN stats.granted + 1 ELSE stats.granted
        /\ stats'.denied = IF o = Denied THEN stats.denied + 1 ELSE stats.denied
        /\ stats'.error = IF o = Failed THEN stats.error + 1 ELSE stats.error
    BY <1>3, <1>4, <1>5
  <1>7. CASE o = Failed
    BY <1>4, <1>5, <1>6, <1>7 DEF Granted, Denied, Failed
  <1>8. CASE o = Granted
    BY <1>4, <1>5, <1>6, <1>8 DEF Granted, Denied, Failed
  <1>9. CASE o = Denied
    BY <1>4, <1>5, <1>6, <1>9 DEF Granted, Denied, Failed
  <1> QED BY <1>7, <1>8, <1>9

\* A slot is begun by the worker that slept for it, once and on time.
LEMMA NewSlot ==
    ASSUME IInv, NEW w \in Worker, wpc[w] = "sleep", Due(w)
    PROVE  /\ Paced(cfg) /\ due[w] \in Nat /\ due[w] \notin slots
           /\ due[w] < Planned /\ clock >= PacedStart + Offset(cfg.rps, due[w])
           /\ ordinal[w] \in Nat /\ ordinal[w] > 0 /\ w < cfg.clients
           /\ due[w] = SlotOf(w, ordinal[w] - 1, cfg.clients)
  <1>1. /\ Paced(cfg) /\ ordinal[w] \in Nat /\ ordinal[w] > 0 /\ due[w] < Planned
        /\ due[w] = SlotOf(w, ordinal[w] - 1, cfg.clients)
        /\ w < cfg.clients /\ cfg.clients \in Nat \ {0} /\ w \in 0 .. cfg.clients - 1
    <2>1. /\ Paced(cfg) /\ ordinal[w] > 0 /\ due[w] < Planned
          /\ due[w] = SlotOf(w, ordinal[w] - 1, cfg.clients)
      BY DEF IInv, SleepInv
    <2>2. w < cfg.clients /\ cfg.clients > 0
      BY <2>1 DEF IInv, PhaseInv, None
    <2>3. ordinal[w] \in Nat /\ cfg.clients \in Nat
      BY DEF IInv, TypeOK
    <2> QED BY <2>1, <2>2, <2>3, Workers
  <1>2. due[w] \in Nat /\ clock >= PacedStart + Offset(cfg.rps, due[w])
    BY DEF Due, IInv, TypeOK
  <1>3. due[w] \notin slots
    <2> SUFFICES ASSUME due[w] \in slots PROVE FALSE
      OBVIOUS
    <2>1. PICK v \in Worker : \E o \in 0 .. Past(v) - 1 :
              v < cfg.clients /\ due[w] = SlotOf(v, o, cfg.clients)
      BY DEF IInv, SlotInv
    <2>2. PICK o \in 0 .. Past(v) - 1 :
              v < cfg.clients /\ due[w] = SlotOf(v, o, cfg.clients)
      BY <2>1
    <2>3. v \in 0 .. cfg.clients - 1 /\ o \in Nat /\ ordinal[w] - 1 \in Nat
      BY <1>1, <2>2, Workers
    <2>4. v = w /\ o = ordinal[w] - 1
      BY <1>1, <2>2, <2>3, OwnSlots
    <2>5. Past(w) = ordinal[w] - 1
      BY DEF Past
    <2> QED BY <1>1, <2>2, <2>4, <2>5
  <1> QED BY <1>1, <1>2, <1>3

\* Beginning a request, whether it is taken or refused at once.
LEMMA BeginIInv ==
    ASSUME IInv, NEW w \in Worker, Begin(w), NEW to \in {"wait", "loop"},
           wpc' = [wpc EXCEPT ![w] = to],
           stats' \in [StatField -> Nat],
           stats'.starts = stats.starts + 1,
           stats'.sent = IF to = "wait" THEN stats.sent ELSE stats.sent + 1,
           stats'.sent = stats'.received + stats'.error,
           stats'.received = stats'.granted + stats'.denied
    PROVE  IInv'
  <1> USE DEF clocks, mains
  <1>1. /\ (wpc[w] = "sleep" /\ Due(w)) \/ (wpc[w] = "loop" /\ ~ Paced(cfg))
        /\ slots' = IF Paced(cfg) THEN slots \cup {due[w]} ELSE slots
        /\ due' = [due EXCEPT ![w] = NoSlot]
        /\ ordinal' = ordinal
        /\ UNCHANGED <<clock, cfg, mpc, next, started>>
    <2>1. GoesOn(w)
      BY DEF Begin
    <2>2. (wpc[w] = "sleep" /\ Due(w)) \/ (wpc[w] = "loop" /\ ~ Paced(cfg))
      BY <2>1, Zenon DEF GoesOn
    <2>3. /\ slots' = IF Paced(cfg) THEN slots \cup {due[w]} ELSE slots
          /\ due' = [due EXCEPT ![w] = NoSlot]
          /\ ordinal' = ordinal
          /\ UNCHANGED <<clock, cfg, mpc, next, started>>
      BY DEF Begin
    <2> QED BY <2>2, <2>3
  <1>2. Alone(w)
    BY <1>1, Steps DEF Alone, None
  <1>3. /\ PhaseInv' /\ cfg' = cfg /\ clock' \in Nat
        /\ mpc' = mpc /\ next' = next /\ started' = started /\ clock' = clock
        /\ wpc' \in [Worker -> WorkerStep]
        /\ \A v \in Worker : v # w => wpc'[v] = wpc[v]
        /\ w < cfg.clients /\ clock' >= clock
    BY <1>2, AlonePhase
  <1>4. /\ due' \in [Worker -> Nat \cup {NoSlot}] /\ due'[w] = NoSlot /\ wpc'[w] = to
        /\ \A v \in Worker : v # w => due'[v] = due[v]
    BY <1>1 DEF IInv, TypeOK
  <1>5. wpc[w] = "sleep" <=> Paced(cfg)
    BY <1>1 DEF IInv, SleepInv
  <1>6. /\ slots' \in SUBSET Nat /\ IsFiniteSet(slots')
        /\ Paced(cfg) => Cardinality(slots') = Cardinality(slots) + 1
    <2>1. slots \in SUBSET Nat /\ IsFiniteSet(slots)
      BY DEF IInv, TypeOK
    <2>2. CASE Paced(cfg)
      <3>1. due[w] \in Nat /\ due[w] \notin slots /\ slots' = slots \cup {due[w]}
        BY <1>1, <1>5, <2>2, NewSlot
      <3> QED BY <2>1, <3>1, FS_AddElement
    <2>3. CASE ~ Paced(cfg)
      BY <1>1, <2>1, <2>3
    <2> QED BY <2>2, <2>3
  <1>7. TypeOK'
    BY <1>1, <1>3, <1>4, <1>6 DEF IInv, TypeOK
  <1>8. SleepInv'
    <2>1. ASSUME NEW v \in Worker
          PROVE  /\ wpc'[v] = "sleep" => wpc[v] = "sleep" /\ ordinal'[v] = ordinal[v]
                                           /\ due'[v] = due[v]
                 /\ wpc'[v] # "sleep" => due'[v] = NoSlot
      <3>1. CASE v = w
        BY <1>4, <3>1
      <3>2. CASE v # w
        BY <1>1, <1>3, <1>4, <3>2 DEF IInv, SleepInv
      <3> QED BY <3>1, <3>2
    <2> QED BY <1>3, <2>1, SleepKept DEF IInv
  <1>9. \A v \in Worker : Past(v) \in Int /\ Past(v)' \in Int /\ Past(v) <= Past(v)'
    <2> SUFFICES ASSUME NEW v \in Worker
                 PROVE  Past(v) \in Int /\ Past(v)' \in Int /\ Past(v) <= Past(v)'
      OBVIOUS
    <2>1. ordinal[v] \in Nat
      BY DEF IInv, TypeOK
    <2>2. wpc'[v] = "sleep" => wpc[v] = "sleep"
      BY <1>3, <1>4
    <2> QED BY <1>1, <2>1, <2>2 DEF Past
  <1>10. SlotInv'
    <2>1. CASE ~ Paced(cfg)
      BY <1>1, <1>3, <1>9, <2>1, SlotsKept DEF IInv
    <2>2. CASE Paced(cfg)
      <3>1. slots' = slots \cup {due[w]} /\ Paced(cfg')
        BY <1>1, <1>3, <2>2
      <3>2. ASSUME NEW s \in slots
            PROVE  /\ s < Planned /\ clock >= PacedStart + Offset(cfg.rps, s)
                   /\ \E v \in Worker : \E o \in 0 .. Past(v)' - 1 :
                          v < cfg.clients /\ s = SlotOf(v, o, cfg.clients)
        <4>1. s < Planned /\ clock >= PacedStart + Offset(cfg.rps, s)
          BY DEF IInv, SlotInv
        <4>2. PICK v \in Worker : \E o \in 0 .. Past(v) - 1 :
                  v < cfg.clients /\ s = SlotOf(v, o, cfg.clients)
          BY DEF IInv, SlotInv
        <4>3. PICK o \in 0 .. Past(v) - 1 :
                  v < cfg.clients /\ s = SlotOf(v, o, cfg.clients)
          BY <4>2
        <4>4. o \in 0 .. Past(v)' - 1
          <5>1. Past(v) \in Int /\ Past(v)' \in Int /\ Past(v) <= Past(v)'
            BY <1>9
          <5> QED BY <4>3, <5>1
        <4> QED BY <4>1, <4>3, <4>4
      <3>3. /\ due[w] < Planned /\ clock >= PacedStart + Offset(cfg.rps, due[w])
            /\ \E v \in Worker : \E o \in 0 .. Past(v)' - 1 :
                   v < cfg.clients /\ due[w] = SlotOf(v, o, cfg.clients)
        <4>1. /\ due[w] < Planned /\ clock >= PacedStart + Offset(cfg.rps, due[w])
              /\ ordinal[w] \in Nat /\ ordinal[w] > 0 /\ w < cfg.clients
              /\ due[w] = SlotOf(w, ordinal[w] - 1, cfg.clients)
          BY <1>1, <1>5, <2>2, NewSlot
        <4>2. Past(w)' = ordinal[w]
          BY <1>1, <1>4 DEF Past
        <4>3. ordinal[w] - 1 \in 0 .. Past(w)' - 1
          BY <4>1, <4>2
        <4> QED BY <4>1, <4>3
      <3>4. Planned' = Planned /\ PacedStart' = PacedStart
        BY <1>3 DEF Planned, PacedStart
      <3> QED BY <1>3, <3>1, <3>2, <3>3, <3>4 DEF SlotInv
    <2> QED BY <2>1, <2>2
  <1>11. Waiting' = IF to = "wait" THEN Waiting \cup {w} ELSE Waiting
    <2>1. w \notin Waiting
      BY <1>1 DEF Waiting
    <2> QED BY <1>3, <1>4, <2>1 DEF Waiting
  <1>12. CountInv'
    <2>1. /\ Paced(cfg) => stats.starts = Cardinality(slots)
          /\ stats.starts = stats.sent + Cardinality(Waiting)
          /\ stats.sent \in Nat /\ Cardinality(Waiting) \in Nat
      BY Waiters DEF IInv, CountInv, TypeOK, StatField
    <2>2. w \notin Waiting
      BY <1>1 DEF Waiting
    <2>3. Cardinality(Waiting') = IF to = "wait" THEN Cardinality(Waiting) + 1
                                                ELSE Cardinality(Waiting)
      BY <1>11, <2>2, Waiters
    <2>4. stats'.starts = stats'.sent + Cardinality(Waiting')
      BY <2>1, <2>3
    <2>5. Paced(cfg') => stats'.starts = Cardinality(slots')
      BY <1>3, <1>6, <2>1
    <2> QED BY <2>4, <2>5 DEF CountInv
  <1> QED BY <1>3, <1>7, <1>8, <1>10, <1>12 DEF IInv

LEMMA StartIInv ==
    ASSUME IInv, NEW w \in Worker, Start(w) \/ StartFails(w)
    PROVE  IInv'
  <1>0. /\ TypeOK /\ stats.sent = stats.received + stats.error
        /\ stats.received = stats.granted + stats.denied
    BY DEF IInv, CountInv
  <1>1. CASE Start(w)
    <2>1. Begin(w) /\ wpc' = [wpc EXCEPT ![w] = "wait"] /\ stats' = Bump({"starts"})
      BY <1>1 DEF Start
    <2>2. {"starts"} \in SUBSET StatField
      BY DEF StatField
    <2>3. /\ stats' \in [StatField -> Nat]
          /\ \A f \in StatField :
                 stats'[f] = IF f \in {"starts"} THEN stats[f] + 1 ELSE stats[f]
      BY <1>0, <2>1, <2>2, Bumped
    <2>4. /\ stats'.starts = stats.starts + 1 /\ stats'.sent = stats.sent
          /\ stats'.received = stats.received /\ stats'.error = stats.error
          /\ stats'.granted = stats.granted /\ stats'.denied = stats.denied
      BY <2>3 DEF StatField, Granted, Denied, Failed
    <2> QED BY <1>0, <2>1, <2>3, <2>4, BeginIInv
  <1>2. CASE StartFails(w)
    <2>1. /\ Begin(w) /\ RecordStats(w, Failed, clock)
          /\ wpc' = [wpc EXCEPT ![w] = "loop"]
      BY <1>2 DEF StartFails, Finish
    <2>2. wpc[w] # "wait"
      BY <2>1 DEF Begin, GoesOn
    <2>3. /\ stats' \in [StatField -> Nat]
          /\ stats'.sent = stats.sent + 1 /\ stats'.starts = stats.starts + 1
          /\ stats'.sent = stats'.received + stats'.error
          /\ stats'.received = stats'.granted + stats'.denied
      BY <1>0, <2>1, <2>2, Recorded
    <2> QED BY <2>1, <2>3, BeginIInv
  <1> QED BY <1>1, <1>2

\* A wait that goes on, and one that is over.
LEMMA WaitIInv ==
    ASSUME IInv, NEW w \in Worker,
           Receive(w) \/ Replay(w) \/ Timeout(w) \/ PollFails(w)
    PROVE  IInv'
  <1> USE DEF clocks, mains
  <1>1. /\ wpc[w] = "wait" /\ ordinal' = ordinal /\ due' = due /\ slots' = slots
        /\ UNCHANGED <<clock, cfg, mpc, next, started>>
        /\ \/ wpc' = wpc /\ stats' = stats
           \/ /\ wpc' = [wpc EXCEPT ![w] = "loop"]
              /\ \E o \in {Granted, Denied, Failed} : RecordStats(w, o, reqStart[w])
    BY DEF Receive, Replay, Timeout, PollFails, Done, Finish
  <1>2. CASE wpc' = wpc /\ stats' = stats
    <2>1. clock \in Nat /\ next \in Nat
      BY DEF IInv, TypeOK
    <2>2. /\ clock' \in Nat /\ clock' >= clock /\ next' \in Nat
          /\ mpc' \in MainStep /\ (mpc' = "spawn" => next' = 0)
          /\ mpc' \in {"progress", "report"} => next' = cfg.clients
      BY <1>1, <2>1 DEF IInv, TypeOK, PhaseInv
    <2> QED BY <1>1, <1>2, <2>2, QuietIInv
  <1>3. CASE /\ wpc' = [wpc EXCEPT ![w] = "loop"]
             /\ \E o \in {Granted, Denied, Failed} : RecordStats(w, o, reqStart[w])
    <2>1. Alone(w)
      BY <1>1, <1>3, Steps DEF Alone, None
    <2>2. /\ PhaseInv' /\ cfg' = cfg /\ clock' \in Nat /\ clock' >= clock
          /\ mpc' = mpc /\ next' = next /\ started' = started
          /\ wpc' \in [Worker -> WorkerStep]
          /\ \A v \in Worker : v # w => wpc'[v] = wpc[v]
      BY <2>1, AlonePhase
    <2>3. /\ TypeOK /\ stats.sent = stats.received + stats.error
          /\ stats.received = stats.granted + stats.denied
      BY DEF IInv, CountInv
    <2>4. /\ stats' \in [StatField -> Nat]
          /\ stats'.sent = stats.sent + 1 /\ stats'.starts = stats.starts
          /\ stats'.sent = stats'.received + stats'.error
          /\ stats'.received = stats'.granted + stats'.denied
      BY <1>1, <1>3, <2>3, Recorded
    <2>5. wpc'[w] = "loop"
      BY <1>3 DEF IInv, TypeOK
    <2>6. TypeOK'
      BY <1>1, <2>2, <2>4 DEF IInv, TypeOK
    <2>7. SleepInv'
      <3>1. \A v \in Worker : wpc'[v] = "sleep" <=> wpc[v] = "sleep"
        BY <1>1, <2>2, <2>5
      <3> QED BY <1>1, <2>2, <3>1, SleepKept DEF IInv, SleepInv
    <2>8. \A v \in Worker : Past(v) \in Int /\ Past(v)' \in Int /\ Past(v) <= Past(v)'
      BY <1>1, <2>2, <2>5 DEF Past, IInv, TypeOK
    <2>9. SlotInv'
      BY <1>1, <2>2, <2>8, SlotsKept DEF IInv
    <2>10. Waiting' = Waiting \ {w} /\ w \in Waiting
      BY <1>1, <2>2, <2>5 DEF Waiting
    <2>11. CountInv'
      <3>1. /\ stats.starts = stats.sent + Cardinality(Waiting)
            /\ stats.sent \in Nat /\ Cardinality(Waiting) \in Nat
        BY Waiters DEF IInv, CountInv, TypeOK, StatField
      <3>2. Cardinality(Waiting') = Cardinality(Waiting) - 1
        BY <2>10, Waiters
      <3>3. stats'.starts = stats'.sent + Cardinality(Waiting')
        BY <2>4, <3>1, <3>2
      <3> QED BY <1>1, <2>2, <2>4, <3>3 DEF IInv, CountInv
    <2> QED BY <2>2, <2>6, <2>7, <2>9, <2>11 DEF IInv
  <1> QED BY <1>1, <1>2, <1>3

LEMMA NextIInv ==
    ASSUME IInv, [Next]_vars
    PROVE  IInv'
  <1>1. CASE UNCHANGED vars
    <2>1. /\ UNCHANGED <<cfg, started, wpc, ordinal, due, stats, slots>>
          /\ clock' = clock /\ next' = next /\ mpc' = mpc
      BY <1>1 DEF vars, clocks, mains, loops, records
    <2>2. clock \in Nat /\ next \in Nat
      BY DEF IInv, TypeOK
    <2>3. /\ clock' \in Nat /\ clock' >= clock /\ next' \in Nat
          /\ mpc' \in MainStep /\ (mpc' = "spawn" => next' = 0)
          /\ mpc' \in {"progress", "report"} => next' = cfg.clients
      BY <2>1, <2>2 DEF IInv, TypeOK, PhaseInv
    <2> QED BY <2>1, <2>3, QuietIInv
  <1>2. CASE Tick \/ Main \/ ProgressEnds
    BY <1>2, ParseArgsIInv, MainIInv, SpawnIInv DEF Main
  <1>3. CASE \E w \in Worker : Run(w) \/ SleepFails(w) \/ Wait(w)
    BY <1>3, LeaveIInv, PaceNextIInv, StartIInv, WaitIInv DEF Run, Wait
  <1> QED BY <1>1, <1>2, <1>3 DEF Next

-----------------------------------------------------------------------------
(* The theorems *)

(* The phases of the threads, the slots that workers sleep for and have    *)
(* used, and the counters of the requests keep to each other, for any      *)
(* number of workers and whatever the arguments ask for.                   *)
THEOREM Invariance == Spec => []IInv
  <1>1. Init => IInv
    BY InitIInv
  <1>2. IInv /\ [Next]_vars => IInv'
    BY NextIInv
  <1> QED BY <1>1, <1>2, PTL DEF Spec

(* The logical starts of a paced run are as many as the slots that were    *)
(* used, each planned, each used once and none before its deadline: what   *)
(* main prints as missed is never negative.                                *)
THEOREM PlanKept == Spec => []StartsFitPlan
  <1>1. IInv => StartsFitPlan
    BY DEF IInv, CountInv, SlotInv, StartsFitPlan
  <1> QED BY <1>1, Invariance, PTL

(* When main reports, no worker waits any more, so every logical start has *)
(* been completed and completions, answers, errors, grants and denials add *)
(* up, whichever workers failed to start or gave up.                       *)
THEOREM RequestTotals == Spec => [](mpc = "report" => RequestsAddUp)
  <1>1. ASSUME IInv PROVE mpc = "report" => RequestsAddUp
    <2> SUFFICES ASSUME mpc = "report" PROVE RequestsAddUp
      OBVIOUS
    <2>1. next = cfg.clients
      BY <1>1 DEF IInv, PhaseInv
    <2>2. ASSUME NEW w \in Worker PROVE wpc[w] # "wait"
      <3> SUFFICES ASSUME wpc[w] = "wait" PROVE FALSE
        OBVIOUS
      <3>1. w < next
        BY <1>1, <2>1 DEF IInv, PhaseInv, None
      <3>2. wpc[w] \in {None, "ended"}
        BY <1>1, <3>1 DEF IInv, PhaseInv
      <3> QED BY <3>2 DEF None
    <2>3. Waiting = {}
      BY <2>2 DEF Waiting
    <2>4. Cardinality(Waiting) = 0
      BY <2>3, Waiters
    <2>5. stats.sent \in Nat
      BY <1>1 DEF IInv, TypeOK, StatField
    <2> QED BY <1>1, <2>4, <2>5 DEF IInv, CountInv, RequestsAddUp
  <1> QED BY <1>1, Invariance, PTL

\* The slots that are left to a worker, by their ordinals.
LEMMA UsableSlots ==
    ASSUME IInv, NEW w \in Worker, wpc[w] = "loop", Paced(cfg)
    PROVE  /\ Usable(w) \in SUBSET Nat
           /\ SettledSlot(w) \in Nat
           /\ SettledSlot(w) \in Usable(w) <=> SettledSlot(w) < Planned
           /\ \A s \in Usable(w) : s >= SettledSlot(w)
           /\ Offset(cfg.rps, SettledSlot(w)) < cfg.duration * Second
                  <=> SettledSlot(w) < Planned
  <1>1. TypeOK /\ cfg.clients > 0 /\ w < cfg.clients
    BY DEF IInv, PhaseInv, None
  <1> DEFINE o == SettledOrdinal(w)
             c == cfg.clients
  <1>2. /\ o \in Nat /\ o >= ordinal[w] /\ ordinal[w] \in Nat
        /\ c \in Nat \ {0} /\ w \in 0 .. c - 1 /\ cfg.rps \in Nat \ {0}
        /\ cfg.duration \in Nat
        /\ \A p \in Nat :
               p >= o <=> /\ p >= ordinal[w]
                          /\ PacedStart + Offset(cfg.rps, SlotOf(w, p, c)) >= clock
    BY <1>1, Settled DEF TypeOK
  <1>3. Planned \in Nat
    BY <1>2 DEF Planned
  <1>4. SettledSlot(w) = SlotOf(w, o, c)
    BY DEF SettledSlot
  <1> HIDE DEF o, c
  <1>5. /\ SlotOf(w, o, c) \in Nat /\ SlotOf(w, o, c) % c = w
        /\ \A p \in Nat : SlotOf(w, p, c) >= SlotOf(w, ordinal[w], c) <=> p >= ordinal[w]
        /\ \A p \in Nat : SlotOf(w, p, c) >= SlotOf(w, o, c) <=> p >= o
        /\ \A s \in Nat : s % c = w => \E p \in Nat : s = SlotOf(w, p, c)
    BY <1>2, Residues
  <1>6. Usable(w) = {s \in 0 .. Planned - 1 :
                        /\ s % c = w /\ s >= SlotOf(w, ordinal[w], c)
                        /\ PacedStart + Offset(cfg.rps, s) >= clock}
    BY DEF Usable, c
  <1>7. Usable(w) \in SUBSET Nat
    BY <1>3, <1>6
  <1>8. SlotOf(w, o, c) \in Usable(w) <=> SlotOf(w, o, c) < Planned
    <2>1. o >= o
      BY <1>2
    <2>2. /\ SlotOf(w, o, c) >= SlotOf(w, ordinal[w], c)
          /\ PacedStart + Offset(cfg.rps, SlotOf(w, o, c)) >= clock
      BY <1>2, <1>5, <2>1
    <2> QED BY <1>3, <1>5, <1>6, <2>2
  <1>9. ASSUME NEW s \in Usable(w) PROVE s >= SlotOf(w, o, c)
    <2>1. /\ s \in Nat /\ s % c = w /\ s >= SlotOf(w, ordinal[w], c)
          /\ PacedStart + Offset(cfg.rps, s) >= clock
      BY <1>6, <1>7
    <2>2. PICK p \in Nat : s = SlotOf(w, p, c)
      BY <1>5, <2>1
    <2>3. p >= ordinal[w]
      BY <1>5, <2>1, <2>2
    <2>4. p >= o
      BY <1>2, <2>1, <2>2, <2>3
    <2> QED BY <1>5, <2>2, <2>4
  <1>10. Offset(cfg.rps, SlotOf(w, o, c)) < cfg.duration * Second <=> SlotOf(w, o, c) < Planned
    BY <1>2, <1>5, PlannedSlots DEF Planned
  <1> QED BY <1>4, <1>5, <1>7, <1>8, <1>9, <1>10

(* The step of PacesByDeadline: a worker that leaves the top of its paced  *)
(* loop does so for the first slot it can still serve, or for good.        *)
PacesStep ==
    \A w \in Worker :
        wpc[w] = "loop" /\ Paced(cfg) /\ wpc'[w] # "loop" =>
            IF Usable(w) # {} /\ clock < PacedEnd
              THEN due'[w] = Min(Usable(w))
              ELSE wpc'[w] = "ended"

\* Only the pacer and the end of the loop take a paced worker from its top.
LEMMA LeavesTop ==
    ASSUME IInv, Next, NEW w \in Worker, wpc[w] = "loop", Paced(cfg), wpc'[w] # "loop"
    PROVE  \/ PaceNext(w)
           \/ ~ HasSlot(w) /\ wpc'[w] = "ended"
  <1> USE DEF clocks, mains
  <1>1. wpc' # wpc
    OBVIOUS
  <1>2. mpc \notin BeforeWorkers
    BY DEF IInv, PhaseInv, None
  <1>3. PICK v \in Worker : Run(v) \/ SleepFails(v) \/ Wait(v)
    <2>1. ~ Main
      <3>1. ~ PrepareStep
        BY <1>1 DEF PrepareStep, PrepareDns, AllocateTables, NoTables, Preparing,
                    AllocateHistogram, HistogramFails, Prepared
      <3> QED BY <1>1, <1>2, <3>1 DEF Main, ParseArgs, Spawn, Join, StopProgress,
                 JoinProgress, Report, Cleanup, BeforeWorkers
    <2> QED BY <1>1, <2>1 DEF Next, Tick, ProgressEnds
  <1>4. wpc \in [Worker -> WorkerStep]
    BY DEF IInv, TypeOK
  <1>5. \E to : wpc' = [wpc EXCEPT ![v] = to]
    <2>1. CASE Setup(v)
      BY <1>1, <2>1 DEF Setup, OpenSocket, BindSocket, CreateClient, NamingFails,
                        SetsUp, SetupFails
    <2>2. CASE PaceNext(v) \/ LeaveLoop(v) \/ SleepFails(v) \/ Start(v)
      BY <2>2 DEF PaceNext, LeaveLoop, SleepFails, Close, Start
    <2>3. CASE StartFails(v) \/ Wait(v)
      BY <1>1, <2>3 DEF StartFails, Wait, Finish, Done, Receive, Replay, Timeout,
                        PollFails
    <2> QED BY <1>3, <2>1, <2>2, <2>3 DEF Run
  <1>6. v = w
    BY <1>4, <1>5
  <1>7. PaceNext(w) \/ LeaveLoop(w) \/ Start(w) \/ StartFails(w)
    BY <1>3, <1>6 DEF Run, Wait, Setup, OpenSocket, BindSocket, CreateClient,
           NamingFails, SetsUp, SleepFails, Receive, Replay, Timeout, PollFails
  <1>8. ~ (Start(w) \/ StartFails(w))
    BY DEF Start, StartFails, Begin, GoesOn
  <1>9. LeaveLoop(w) => ~ HasSlot(w) /\ wpc'[w] = "ended"
    <2> SUFFICES ASSUME LeaveLoop(w) PROVE ~ HasSlot(w) /\ wpc'[w] = "ended"
      OBVIOUS
    <2>1. Leaves(w) /\ wpc' = [wpc EXCEPT ![w] = "ended"]
      BY DEF LeaveLoop, Close
    <2>2. ~ HasSlot(w)
      BY <2>1, Zenon DEF Leaves
    <2> QED BY <1>4, <2>1, <2>2
  <1> QED BY <1>7, <1>8, <1>9

(* A slow worker sends no catch-up burst (perf_pacer.h:8) and skips no     *)
(* slot it could still serve: the pacer settles on the first slot of the   *)
(* worker's own whose deadline has not passed, and the loop ends only when *)
(* there is none, for every rate, number of workers and duration.          *)
THEOREM PacedByDeadline == Spec => PacesByDeadline
  <1>1. ASSUME IInv, [Next]_vars PROVE [PacesStep]_vars
    <2> SUFFICES ASSUME Next PROVE PacesStep
      BY <1>1
    <2> SUFFICES ASSUME NEW w \in Worker, wpc[w] = "loop", Paced(cfg), wpc'[w] # "loop"
                 PROVE  IF Usable(w) # {} /\ clock < PacedEnd
                          THEN due'[w] = Min(Usable(w))
                          ELSE wpc'[w] = "ended"
      BY DEF PacesStep
    <2>1. /\ Usable(w) \in SUBSET Nat /\ SettledSlot(w) \in Nat /\ Planned \in Nat
          /\ SettledSlot(w) \in Usable(w) <=> SettledSlot(w) < Planned
          /\ \A s \in Usable(w) : s >= SettledSlot(w) /\ s < Planned
          /\ Offset(cfg.rps, SettledSlot(w)) < cfg.duration * Second
                 <=> SettledSlot(w) < Planned
      <3>1. Planned \in Nat
        BY <1>1 DEF IInv, TypeOK, Planned
      <3>2. \A s \in Usable(w) : s < Planned
        BY <3>1 DEF Usable
      <3> QED BY <1>1, <3>1, <3>2, UsableSlots
    <2>2. Usable(w) # {} /\ clock < PacedEnd <=> HasSlot(w)
      <3>1. Usable(w) # {} <=> SettledSlot(w) < Planned
        BY <2>1
      <3> QED BY <2>1, <3>1 DEF HasSlot
    <2>3. CASE PaceNext(w)
      <3>1. HasSlot(w) /\ due' = [due EXCEPT ![w] = SettledSlot(w)]
        BY <2>3 DEF PaceNext
      <3>2. due'[w] = SettledSlot(w)
        BY <1>1, <3>1 DEF IInv, TypeOK
      <3>3. Min(Usable(w)) = SettledSlot(w)
        <4>1. SettledSlot(w) \in Usable(w) /\ \A s \in Usable(w) : SettledSlot(w) <= s
          BY <2>1, <3>1 DEF HasSlot
        <4> QED BY <2>1, <4>1, Smallest
      <3> QED BY <2>2, <3>1, <3>2, <3>3
    <2>4. CASE ~ HasSlot(w) /\ wpc'[w] = "ended"
      BY <2>2, <2>4
    <2> QED BY <1>1, <2>3, <2>4, LeavesTop
  <1>2. [][PacesStep]_vars => PacesByDeadline
    BY PTL DEF PacesByDeadline, PacesStep
  <1> QED BY <1>1, <1>2, Invariance, PTL DEF Spec

-----------------------------------------------------------------------------
(* The report *)

\* The sizes that the sums range over.
LEMMA Ranges ==
    /\ MaxClients \in Nat /\ Worker = 0 .. MaxClients - 1
    /\ RequestTicks * TickUs + 1 \in Nat
    /\ LatencyUs = 0 .. (RequestTicks * TickUs + 1) - 1
    /\ LatencyUs \subseteq Nat
    /\ Overflow \in Nat /\ Bucket = 0 .. Overflow
    /\ \A us \in LatencyUs : perf_latency_bucket(us) \in Bucket
  <1>1. RequestTicks * TickUs \in Nat
    BY PerfAssumption, PacerAssumption
  <1>2. LatencyUs = 0 .. RequestTicks * TickUs
    BY DEF LatencyUs
  <1>3. LatencyUs = 0 .. (RequestTicks * TickUs + 1) - 1 /\ LatencyUs \subseteq Nat
    BY <1>1, <1>2
  <1>4. \A us \in LatencyUs : perf_latency_bucket(us) \in Bucket
    BY <1>3, BucketHoldsLatency
  <1>5. RequestTicks * TickUs + 1 \in Nat
    BY <1>1
  <1>6. Overflow \in Nat /\ Bucket = 0 .. Overflow
    BY BinCounts DEF Bucket
  <1>7. MaxClients \in Nat /\ Worker = 0 .. MaxClients - 1
    BY PerfAssumption DEF Worker
  <1> QED BY <1>3, <1>4, <1>5, <1>6, <1>7

\* What a step of a worker may add to the counters.
Added == [sent : Nat, received : Nat, failures : Nat]

\* perf_traffic_add: every field counts, unless the counters have stopped.
LEMMA AddsTraffic ==
    ASSUME NEW t \in Traffic, NEW n \in Added
    PROVE  /\ AddTraffic(t, n) \in Traffic
           /\ t.incomplete => AddTraffic(t, n).incomplete
           /\ \/ AddTraffic(t, n).incomplete
              \/ \A f \in Field : AddTraffic(t, n)[f] = t[f] + n[f]
  <1>1. /\ t.sent \in Nat /\ t.received \in Nat /\ t.failures \in Nat
        /\ t.incomplete \in BOOLEAN
        /\ n.sent \in Nat /\ n.received \in Nat /\ n.failures \in Nat
    BY DEF Traffic, Added
  <1>2. CounterMax \in Nat
    BY PerfAssumption
  <1>3. \A k \in Nat : Saturated(k) \in Nat /\ (k > CounterMax \/ Saturated(k) = k)
    BY <1>2 DEF Saturated
  <1>4. PICK a, b, c : /\ a = Saturated(t.sent + n.sent)
                       /\ b = Saturated(t.received + n.received)
                       /\ c = Saturated(t.failures + n.failures)
    OBVIOUS
  <1>5. /\ a \in Nat /\ b \in Nat /\ c \in Nat
        /\ t.sent + n.sent > CounterMax \/ a = t.sent + n.sent
        /\ t.received + n.received > CounterMax \/ b = t.received + n.received
        /\ t.failures + n.failures > CounterMax \/ c = t.failures + n.failures
    BY <1>1, <1>3, <1>4
  <1>6. PICK over \in BOOLEAN : over <=> \E f \in Field : t[f] + n[f] > CounterMax
    OBVIOUS
  <1>7. PICK i \in BOOLEAN : i <=> t.incomplete \/ over
    OBVIOUS
  <1>8. AddTraffic(t, n) = [sent |-> a, received |-> b, failures |-> c,
                            incomplete |-> i]
    <2>1. i = (t.incomplete \/ \E f \in Field : t[f] + n[f] > CounterMax)
      BY <1>1, <1>6, <1>7
    <2> QED BY <1>4, <2>1, Zenon DEF AddTraffic
  <1>9. ~ i => a = t.sent + n.sent /\ b = t.received + n.received
                 /\ c = t.failures + n.failures
    BY <1>5, <1>6, <1>7 DEF Field
  <1> QED BY <1>5, <1>7, <1>8, <1>9 DEF Traffic, Field

\* Datagrams count in their worker and on the wire alike.
LEMMA TrafficAdded ==
    ASSUME RecordTypes, TrafficInv, NEW w \in Worker, NEW n \in Added,
           Datagrams(w, n)
    PROVE  /\ traffic' \in [Worker -> Traffic] /\ wire' \in [Field -> Nat]
           /\ \A v \in Worker : v # w => traffic'[v] = traffic[v]
           /\ TrafficInv'
  <1>1. /\ traffic' = [traffic EXCEPT ![w] = AddTraffic(traffic[w], n)]
        /\ wire' = [f \in Field |-> wire[f] + n[f]]
    BY DEF Datagrams
  <1>2. traffic \in [Worker -> Traffic] /\ wire \in [Field -> Nat] /\ traffic[w] \in Traffic
    BY DEF RecordTypes
  <1>3. \A f \in Field : n[f] \in Nat
    BY DEF Field, Added
  <1>4. PICK t : t = AddTraffic(traffic[w], n)
    OBVIOUS
  <1>5. /\ t \in Traffic
        /\ traffic[w].incomplete => t.incomplete
        /\ \/ t.incomplete
           \/ \A f \in Field : t[f] = traffic[w][f] + n[f]
    BY <1>2, <1>4, AddsTraffic
  <1>6. /\ traffic' \in [Worker -> Traffic] /\ traffic'[w] = t
        /\ \A v \in Worker : v # w => traffic'[v] = traffic[v]
    BY <1>1, <1>2, <1>4, <1>5
  <1>7. /\ wire' \in [Field -> Nat]
        /\ \A f \in Field : wire'[f] = wire[f] + n[f]
    BY <1>1, <1>2, <1>3
  <1>8. TrafficInv'
    <2> SUFFICES ASSUME \A v \in Worker : ~ traffic'[v].incomplete, NEW f \in Field
                 PROVE  wire'[f] = SumFirst([v \in Worker |-> traffic'[v][f]], MaxClients)
      BY DEF TrafficInv
    <2>1. ~ t.incomplete /\ ~ traffic[w].incomplete
      BY <1>5, <1>6
    <2>2. \A v \in Worker : ~ traffic[v].incomplete
      BY <1>6, <2>1
    <2>3. wire[f] = SumFirst([v \in Worker |-> traffic[v][f]], MaxClients)
      BY <2>2 DEF TrafficInv
    <2> DEFINE a == [v \in Worker |-> traffic[v][f]]
               b == [v \in Worker |-> traffic'[v][f]]
    <2>4. PICK d \in Nat : d = n[f]
      BY <1>3
    <2>5. ASSUME NEW v \in Worker
          PROVE  a[v] \in Nat /\ b[v] = IF v = w THEN a[v] + d ELSE a[v]
      <3>1. traffic[v] \in Traffic /\ traffic[v][f] \in Nat
        BY <1>2 DEF Traffic, Field
      <3>2. traffic'[v][f] = IF v = w THEN traffic[v][f] + d ELSE traffic[v][f]
        BY <1>5, <1>6, <2>1, <2>4
      <3> QED BY <3>1, <3>2
    <2> HIDE DEF a, b
    <2>6. /\ MaxClients \in Nat /\ w \in Nat /\ w < MaxClients
          /\ \A v \in 0 .. MaxClients - 1 :
                 a[v] \in Nat /\ b[v] = IF v = w THEN a[v] + d ELSE a[v]
      BY <2>5, Ranges
    <2>7. SumFirst(b, MaxClients) = SumFirst(a, MaxClients) + d
      <3>1. /\ \A v \in 0 .. MaxClients - 1 : a[v] \in Nat /\ (v # w => b[v] = a[v])
            /\ b[w] = a[w] + d
        BY <2>6
      <3> QED BY <2>6, <3>1, SumAdd
    <2> QED BY <1>7, <2>3, <2>4, <2>7 DEF a, b
  <1> QED BY <1>6, <1>7, <1>8

\* What a round, an accepted answer and a refused packet add are counts.
LEMMA AddedCounts ==
    ASSUME endpoints \in Nat
    PROVE  /\ \A n \in 0 .. endpoints : Round(n) \subseteq Added
           /\ \A k \in Nat : Delivery(k) \subseteq Added
           /\ \A a \in Nat, b \in Nat, c \in Nat : Datagram(a, b, c) \in Added
  <1>1. \A a \in Nat, b \in Nat, c \in Nat : Datagram(a, b, c) \in Added
    BY DEF Datagram, Added
  <1>2. ASSUME NEW n \in 0 .. endpoints, NEW k \in Round(n) PROVE k \in Added
    <2>1. PICK sent \in 0 .. n : k = Datagram(sent, 0, n - sent)
      BY DEF Round
    <2>2. sent \in Nat /\ n - sent \in Nat /\ 0 \in Nat
      BY <2>1
    <2> QED BY <1>1, <2>1, <2>2
  <1>3. ASSUME NEW k \in Nat, NEW n \in Delivery(k) PROVE n \in Added
    <2>1. n \in [sent : 0 .. endpoints, received : {k}, failures : 0 .. endpoints]
      BY DEF Delivery
    <2> QED BY <2>1 DEF Added
  <1> QED BY <1>1, <1>2, <1>3

\* The merged histogram counts.
LEMMA MergedType ==
    ASSUME hist \in [Worker -> [Bucket -> Nat]]
    PROVE  MergedHist \in [Bucket -> Nat]
  <1> SUFFICES ASSUME NEW b \in Bucket
               PROVE  SumFirst([w \in Worker |-> hist[w][b]], MaxClients) \in Nat
    BY DEF MergedHist
  <1> DEFINE a == [w \in Worker |-> hist[w][b]]
  <1>1. \A w \in 0 .. MaxClients - 1 : a[w] \in Nat
    BY Ranges
  <1> HIDE DEF a
  <1>2. SumFirst(a, MaxClients) \in Nat
    BY <1>1, SumType, Ranges
  <1> QED BY <1>2 DEF a

\* Nothing recorded, nothing changed.
LEMMA SameHist ==
    ASSUME HistInv, hist' = hist, lats' = lats, stats'.received = stats.received
    PROVE  HistInv'
  BY DEF HistInv, MergedHist, Seen, AnswersUpTo

\* perf_record_latency: one more answer, in the bucket of its latency.
LEMMA HistAdded ==
    ASSUME RecordTypes, HistInv, NEW w \in Worker, NEW us \in LatencyUs,
           hist' = [hist EXCEPT ![w][perf_latency_bucket(us)] = @ + 1],
           lats' = [lats EXCEPT ![us] = @ + 1],
           stats'.received = stats.received + 1
    PROVE  /\ hist' \in [Worker -> [Bucket -> Nat]] /\ lats' \in [LatencyUs -> Nat]
           /\ HistInv'
  <1>1. hist \in [Worker -> [Bucket -> Nat]] /\ lats \in [LatencyUs -> Nat]
    BY DEF RecordTypes
  <1>2. PICK c : c = perf_latency_bucket(us)
    OBVIOUS
  <1>3. c \in Bucket /\ c \in Nat /\ us \in Nat
    BY <1>2, Ranges
  <1>4. /\ hist' \in [Worker -> [Bucket -> Nat]]
        /\ \A v \in Worker : \A b \in Bucket :
               hist'[v][b] = IF v = w /\ b = c THEN hist[v][b] + 1 ELSE hist[v][b]
    <2>1. hist' = [hist EXCEPT ![w] = [hist[w] EXCEPT ![c] = hist[w][c] + 1]]
      BY <1>2
    <2>2. [hist[w] EXCEPT ![c] = hist[w][c] + 1] \in [Bucket -> Nat]
      BY <1>1, <1>3
    <2> QED BY <1>1, <1>3, <2>1, <2>2
  <1>5. /\ lats' \in [LatencyUs -> Nat]
        /\ \A u \in LatencyUs : lats'[u] = IF u = us THEN lats[u] + 1 ELSE lats[u]
    BY <1>1
  <1>6. MergedHist \in [Bucket -> Nat]
    BY <1>1, MergedType
  <1>7. ASSUME NEW b \in Bucket
        PROVE  MergedHist'[b] = IF b = c THEN MergedHist[b] + 1 ELSE MergedHist[b]
    <2> DEFINE f == [v \in Worker |-> hist[v][b]]
               g == [v \in Worker |-> hist'[v][b]]
    <2>1. MergedHist[b] = SumFirst(f, MaxClients) /\ MergedHist'[b] = SumFirst(g, MaxClients)
      BY DEF MergedHist
    <2>2. \A v \in Worker : f[v] \in Nat /\ g[v] = IF v = w /\ b = c THEN f[v] + 1 ELSE f[v]
      BY <1>1, <1>4
    <2> HIDE DEF f, g
    <2>3. /\ MaxClients \in Nat /\ w \in Nat /\ w < MaxClients
          /\ \A v \in 0 .. MaxClients - 1 :
                 f[v] \in Nat /\ g[v] = IF v = w /\ b = c THEN f[v] + 1 ELSE f[v]
      BY <2>2, Ranges
    <2>4. CASE b = c
      <3>1. SumFirst(g, MaxClients) = SumFirst(f, MaxClients) + 1
        BY <2>3, <2>4, SumBump
      <3> QED BY <2>1, <2>4, <3>1
    <2>5. CASE b # c
      <3>1. SumFirst(g, MaxClients) = SumFirst(f, MaxClients)
        BY <2>3, <2>5, SumSame
      <3> QED BY <2>1, <2>5, <3>1
    <2> QED BY <2>4, <2>5
  <1>8. ASSUME NEW b \in Bucket
        PROVE  Seen(MergedHist, b)' = IF c <= b THEN Seen(MergedHist, b) + 1
                                                ELSE Seen(MergedHist, b)
    <2>1. PICK f, g : f = MergedHist /\ g = MergedHist'
      OBVIOUS
    <2>2. PICK n \in Nat : n = b + 1 /\ b \in Nat /\ \A i \in 0 .. n - 1 : i \in Bucket
      BY Ranges
    <2>3. \A i \in 0 .. n - 1 : f[i] \in Nat /\ g[i] = IF i = c THEN f[i] + 1 ELSE f[i]
      BY <1>6, <1>7, <2>1, <2>2
    <2>4. SumFirst(g, n) = IF c < n THEN SumFirst(f, n) + 1 ELSE SumFirst(f, n)
      <3>1. c \in Nat /\ n \in Nat
        BY <1>3
      <3> QED BY ONLY <2>3, <3>1, SumBump
    <2>5. Seen(MergedHist, b)' = SumFirst(g, n) /\ Seen(MergedHist, b) = SumFirst(f, n)
      BY <2>1, <2>2 DEF Seen
    <2>6. c < n <=> c <= b
      BY <1>3, <2>2
    <2> QED BY <2>4, <2>5, <2>6
  <1>9. ASSUME NEW b \in Bucket
        PROVE  AnswersUpTo(b)' = IF c <= b THEN AnswersUpTo(b) + 1 ELSE AnswersUpTo(b)
    <2> DEFINE f == [u \in LatencyUs |-> IF perf_latency_bucket(u) <= b THEN lats[u] ELSE 0]
               g == [u \in LatencyUs |-> IF perf_latency_bucket(u) <= b THEN lats'[u] ELSE 0]
               n == RequestTicks * TickUs + 1
    <2>1. AnswersUpTo(b) = SumFirst(f, n) /\ AnswersUpTo(b)' = SumFirst(g, n)
      BY DEF AnswersUpTo
    <2>2. ASSUME NEW u \in LatencyUs
          PROVE  f[u] \in Nat /\ g[u] = IF u = us /\ c <= b THEN f[u] + 1 ELSE f[u]
      <3>1. lats[u] \in Nat /\ lats'[u] = IF u = us THEN lats[u] + 1 ELSE lats[u]
        BY <1>1, <1>5
      <3>2. CASE perf_latency_bucket(u) <= b
        BY <1>2, <3>1, <3>2
      <3>3. CASE ~ (perf_latency_bucket(u) <= b)
        BY <1>2, <3>1, <3>3
      <3> QED BY <3>2, <3>3
    <2> HIDE DEF f, g
    <2>3. /\ n \in Nat /\ us \in Nat /\ us < n
          /\ \A u \in 0 .. n - 1 :
                 f[u] \in Nat /\ g[u] = IF u = us /\ c <= b THEN f[u] + 1 ELSE f[u]
      BY <2>2, Ranges
    <2> HIDE DEF n
    <2>4. CASE c <= b
      <3>1. SumFirst(g, n) = SumFirst(f, n) + 1
        BY <2>3, <2>4, SumBump
      <3> QED BY <2>1, <2>4, <3>1
    <2>5. CASE ~ (c <= b)
      <3>1. SumFirst(g, n) = SumFirst(f, n)
        BY <2>3, <2>5, SumSame
      <3> QED BY <2>1, <2>5, <3>1
    <2> QED BY <2>4, <2>5
  <1>10. Overflow \in Bucket /\ c <= Overflow
    BY <1>3, Ranges
  <1>11. stats'.received = Seen(MergedHist, Overflow)'
    BY <1>8, <1>10 DEF HistInv
  <1>12. \A b \in Bucket : Seen(MergedHist, b)' = AnswersUpTo(b)'
    BY <1>8, <1>9 DEF HistInv
  <1> QED BY <1>4, <1>5, <1>11, <1>12 DEF HistInv

\* A request that is over leaves its latency in the histogram, if it has one.
LEMMA RecordedHist ==
    ASSUME IInv, ReportInv, NEW w \in Worker, NEW o \in {Granted, Denied, Failed},
           NEW from \in Nat, from <= clock, clock <= from + RequestTicks,
           RecordStats(w, o, from)
    PROVE  /\ hist' \in [Worker -> [Bucket -> Nat]] /\ lats' \in [LatencyUs -> Nat]
           /\ HistInv'
  <1>1. stats'.received = IF o = Failed THEN stats.received ELSE stats.received + 1
    BY Recorded DEF IInv, CountInv
  <1>2. CASE o = Failed
    <2>1. hist' = hist /\ lats' = lats /\ stats'.received = stats.received
      BY <1>1, <1>2 DEF RecordStats
    <2> QED BY <2>1, SameHist DEF ReportInv, RecordTypes
  <1>3. CASE o # Failed
    <2> DEFINE us == (clock - from) * TickUs
    <2>1. us \in LatencyUs
      <3>1. /\ clock - from \in Nat /\ clock - from <= RequestTicks
            /\ RequestTicks \in Nat /\ TickUs \in Nat \ {0}
        BY PerfAssumption, PacerAssumption DEF IInv, TypeOK
      <3>2. \A a \in Nat, b \in Nat, c \in Nat : a <= b => a * c \in Nat /\ a * c <= b * c
        OBVIOUS
      <3>3. us \in Nat /\ us <= RequestTicks * TickUs /\ RequestTicks * TickUs \in Nat
        BY <3>1, <3>2
      <3> QED BY <3>3 DEF LatencyUs
    <2>2. /\ hist' = [hist EXCEPT ![w][perf_latency_bucket(us)] = @ + 1]
          /\ lats' = [lats EXCEPT ![us] = @ + 1]
      BY <1>3 DEF RecordStats
    <2> HIDE DEF us
    <2> QED BY <1>1, <1>3, <2>1, <2>2, HistAdded DEF ReportInv
  <1> QED BY <1>2, <1>3

\* Steps that neither send nor receive nor complete.
LEMMA QuietReport ==
    ASSUME ReportInv, UNCHANGED <<traffic, wire, hist, lats, stats>>,
           endpoints' \in Nat, reqStart' \in [Worker -> Nat],
           saved' \in [Worker -> Traffic], SavedInv', WaitInv'
    PROVE  ReportInv'
  <1>1. RecordTypes'
    BY DEF ReportInv, RecordTypes
  <1>2. TrafficInv'
    BY DEF ReportInv, TrafficInv
  <1>3. HistInv'
    BY SameHist DEF ReportInv
  <1> QED BY <1>1, <1>2, <1>3 DEF ReportInv

\* main, the progress thread and the clock.
LEMMA MainReport ==
    ASSUME IInv, ReportInv,
           \/ Tick \/ Join \/ StopProgress \/ JoinProgress \/ ProgressEnds
           \/ PrepareStep \/ Cleanup
           \/ \E ok \in BOOLEAN : Report(ok)
           \/ UNCHANGED vars
           \/ \E clients \in ClientsArg, requests \in RequestsArg,
                 duration \in DurationArg, rps \in RpsArg :
                   ParseArgs(clients, requests, duration, rps)
    PROVE  ReportInv'
  <1> USE DEF clocks, mains, loops, records, vars
  <1>1. /\ UNCHANGED <<traffic, wire, hist, lats, stats, reqStart, saved, started, wpc>>
        /\ clock' = clock \/ Tick
        /\ endpoints' = endpoints \/ endpoints' \in 0 .. MaxEndpoints
    <2>1. CASE PrepareStep
      BY <2>1 DEF PrepareStep, PrepareDns, AllocateTables, NoTables, Preparing,
                  AllocateHistogram, HistogramFails, Prepared
    <2>2. CASE ~ PrepareStep
      BY <2>2 DEF Tick, Join, StopProgress, JoinProgress, ProgressEnds, Report,
                  Cleanup, ParseArgs
    <2> QED BY <2>1, <2>2
  <1>2. endpoints' \in Nat
    BY <1>1, PerfAssumption DEF ReportInv, RecordTypes
  <1>3. SavedInv'
    BY <1>1 DEF ReportInv, SavedInv
  <1>4. WaitInv'
    <2> SUFFICES ASSUME NEW w \in Worker, wpc[w] = "wait"
                 PROVE  reqStart[w] <= clock' /\ clock' <= reqStart[w] + RequestTicks
      BY <1>1 DEF WaitInv
    <2>1. /\ reqStart[w] \in Nat /\ clock \in Nat /\ RequestTicks \in Nat
          /\ reqStart[w] <= clock /\ clock <= reqStart[w] + RequestTicks
      BY PerfAssumption DEF IInv, TypeOK, ReportInv, RecordTypes, WaitInv
    <2>2. Tick => clock' = clock + 1 /\ clock - reqStart[w] < RequestTicks
      BY DEF Tick
    <2> QED BY <1>1, <2>1, <2>2
  <1> QED BY <1>1, <1>2, <1>3, <1>4, QuietReport DEF ReportInv, RecordTypes

LEMMA SpawnReport ==
    ASSUME IInv, ReportInv, NEW up \in SUBSET Worker, NEW progress \in BOOLEAN,
           Spawn(up, progress)
    PROVE  ReportInv'
  <1>1. /\ mpc = "spawn"
        /\ UNCHANGED <<traffic, wire, hist, lats, stats, reqStart, saved, clock,
                       endpoints>>
        /\ started' = [w \in Worker |-> w \in up]
        /\ wpc' = [w \in Worker |-> IF w \in up THEN "setup" ELSE None]
    BY DEF Spawn, clocks, loops, records
  <1>2. \A w \in Worker : wpc[w] = None
    BY <1>1 DEF IInv, PhaseInv, BeforeWorkers
  <1>3. SavedInv'
    <2> SUFFICES ASSUME NEW w \in Worker
                 PROVE  /\ started'[w] => wpc'[w] # None
                        /\ traffic'[w] = NoTraffic /\ saved'[w] = NoTraffic
                        /\ wpc'[w] # "ended"
      BY DEF SavedInv
    <2>1. traffic'[w] = NoTraffic /\ saved'[w] = NoTraffic
      BY <1>1, <1>2 DEF ReportInv, SavedInv
    <2>2. wpc'[w] # "ended"
      BY <1>1 DEF None
    <2>3. started'[w] <=> w \in up
      BY <1>1, Zenon
    <2>4. w \in up => wpc'[w] # None
      BY <1>1 DEF None
    <2> QED BY <2>1, <2>2, <2>3, <2>4
  <1>4. WaitInv'
    BY <1>1 DEF WaitInv, None
  <1> QED BY <1>1, <1>3, <1>4, QuietReport DEF ReportInv, RecordTypes

\* A worker's step towards the next wait, or to its end.
LEMMA LeaveReport ==
    ASSUME IInv, ReportInv, NEW w \in Worker,
           Setup(w) \/ PaceNext(w) \/ LeaveLoop(w) \/ SleepFails(w)
    PROVE  ReportInv'
  <1> USE DEF clocks, mains, loops, records
  <1>1. traffic \in [Worker -> Traffic] /\ saved \in [Worker -> Traffic]
        /\ wpc \in [Worker -> WorkerStep]
    BY DEF ReportInv, RecordTypes, IInv, TypeOK
  <1>2. /\ UNCHANGED <<traffic, wire, hist, lats, stats, reqStart, clock, started,
                       endpoints>>
        /\ wpc[w] # None
        /\ \/ wpc[w] \in SettingUp /\ saved' = saved
           \/ saved' = [saved EXCEPT ![w] = traffic[w]] /\ wpc'[w] = "ended"
           \/ saved' = saved /\ wpc'[w] = "sleep"
        /\ \/ \E to \in SettingUp : wpc[w] \in SettingUp
                                     /\ wpc' = [wpc EXCEPT ![w] = to]
           \/ \E to \in {"loop", "sleep", "ended"} : wpc' = [wpc EXCEPT ![w] = to]
    <2>1. CASE Setup(w)
      BY <1>1, <2>1 DEF Setup, OpenSocket, BindSocket, CreateClient, NamingFails,
                  SetsUp, SetupFails, SaveTraffic, SettingUp, None
    <2>2. CASE PaceNext(w)
      BY <1>1, <2>2 DEF PaceNext, None
    <2>3. CASE LeaveLoop(w) \/ SleepFails(w)
      BY <1>1, <2>3 DEF LeaveLoop, Leaves, SleepFails, Close, SaveTraffic, None
    <2> QED BY <2>1, <2>2, <2>3
  <1>3. /\ saved' \in [Worker -> Traffic]
        /\ wpc'[w] \in SettingUp \cup {"loop", "sleep", "ended"}
        /\ wpc'[w] \in SettingUp => wpc[w] \in SettingUp
        /\ \A v \in Worker : v # w => wpc'[v] = wpc[v] /\ saved'[v] = saved[v]
    BY <1>1, <1>2, Steps
  <1>4. SavedInv'
    <2> SUFFICES ASSUME NEW v \in Worker
                 PROVE  /\ started'[v] => wpc'[v] # None
                        /\ wpc'[v] \in SettingUp \cup {None} =>
                               traffic'[v] = NoTraffic /\ saved'[v] = NoTraffic
                        /\ wpc'[v] = "ended" => saved'[v] = traffic'[v]
      BY DEF SavedInv
    <2>1. CASE v = w
      <3>1. wpc[w] \in SettingUp => traffic[w] = NoTraffic /\ saved[w] = NoTraffic
        BY DEF ReportInv, SavedInv
      <3>2. /\ saved'[w] = saved[w] \/ saved'[w] = traffic[w]
            /\ wpc'[w] = "ended" => wpc[w] \in SettingUp \/ saved'[w] = traffic[w]
        BY <1>1, <1>2
      <3> QED BY <1>2, <1>3, <2>1, <3>1, <3>2, Steps DEF None
    <2>2. CASE v # w
      BY <1>2, <1>3, <2>2 DEF ReportInv, SavedInv
    <2> QED BY <2>1, <2>2
  <1>5. WaitInv'
    <2>1. \A v \in Worker : wpc'[v] = "wait" => wpc[v] = "wait"
      BY <1>3, Steps
    <2> QED BY <1>2, <2>1 DEF ReportInv, WaitInv
  <1> QED BY <1>2, <1>3, <1>4, <1>5, QuietReport DEF ReportInv, RecordTypes

\* A step between the beginning of a request and its end.
LEMMA BusyReport ==
    ASSUME ReportInv, NEW w \in Worker, wpc[w] # None,
           UNCHANGED <<clock, started, saved, endpoints>>,
           wpc'[w] \in {"loop", "wait"},
           wpc'[w] = "wait" =>
               reqStart'[w] <= clock /\ clock <= reqStart'[w] + RequestTicks,
           reqStart' \in [Worker -> Nat],
           traffic' \in [Worker -> Traffic], wire' \in [Field -> Nat], TrafficInv',
           hist' \in [Worker -> [Bucket -> Nat]], lats' \in [LatencyUs -> Nat], HistInv',
           \A v \in Worker : v # w => /\ wpc'[v] = wpc[v] /\ reqStart'[v] = reqStart[v]
                                      /\ traffic'[v] = traffic[v]
    PROVE  ReportInv'
  <1>1. RecordTypes'
    BY DEF ReportInv, RecordTypes
  <1>2. SavedInv'
    <2> SUFFICES ASSUME NEW v \in Worker
                 PROVE  /\ started'[v] => wpc'[v] # None
                        /\ wpc'[v] \in SettingUp \cup {None} =>
                               traffic'[v] = NoTraffic /\ saved'[v] = NoTraffic
                        /\ wpc'[v] = "ended" => saved'[v] = traffic'[v]
      BY DEF SavedInv
    <2>1. CASE v = w
      BY <2>1, Steps DEF None
    <2>2. CASE v # w
      BY <2>2 DEF ReportInv, SavedInv
    <2> QED BY <2>1, <2>2
  <1>3. WaitInv'
    <2> SUFFICES ASSUME NEW v \in Worker, wpc'[v] = "wait"
                 PROVE  reqStart'[v] <= clock' /\ clock' <= reqStart'[v] + RequestTicks
      BY DEF WaitInv
    <2>1. CASE v = w
      BY <2>1
    <2>2. CASE v # w
      BY <2>2 DEF ReportInv, WaitInv
    <2> QED BY <2>1, <2>2
  <1> QED BY <1>1, <1>2, <1>3 DEF ReportInv

LEMMA StartReport ==
    ASSUME IInv, ReportInv, NEW w \in Worker, Start(w) \/ StartFails(w)
    PROVE  ReportInv'
  <1>1. /\ RecordTypes /\ TrafficInv /\ HistInv /\ clock \in Nat /\ RequestTicks \in Nat
        /\ reqStart \in [Worker -> Nat] /\ endpoints \in Nat
        /\ wpc \in [Worker -> WorkerStep]
    BY PerfAssumption DEF ReportInv, RecordTypes, IInv, TypeOK
  <1>2. wpc[w] # None /\ UNCHANGED <<clock, started, saved, endpoints>>
    BY DEF Start, StartFails, Begin, GoesOn, None, clocks, mains
  <1>3. CASE Start(w)
    <2>1. /\ \E n \in Round(endpoints) : Datagrams(w, n)
          /\ stats' = Bump({"starts"})
          /\ reqStart' = [reqStart EXCEPT ![w] = clock]
          /\ wpc' = [wpc EXCEPT ![w] = "wait"]
          /\ hist' = hist /\ lats' = lats
      BY <1>3 DEF Start
    <2>2. /\ traffic' \in [Worker -> Traffic] /\ wire' \in [Field -> Nat] /\ TrafficInv'
          /\ \A v \in Worker : v # w => traffic'[v] = traffic[v]
      <3>1. \E n \in Added : Datagrams(w, n)
        <4>1. endpoints \in 0 .. endpoints
          BY <1>1
        <4> QED BY <1>1, <2>1, <4>1, AddedCounts
      <3> QED BY <1>1, <3>1, TrafficAdded
    <2>3. stats'.received = stats.received
      <3>1. {"starts"} \in SUBSET StatField /\ "received" \in StatField /\ "received" # "starts"
        BY DEF StatField
      <3>2. \A f \in StatField :
                stats'[f] = IF f \in {"starts"} THEN stats[f] + 1 ELSE stats[f]
        BY <2>1, <3>1, Bumped DEF IInv
      <3> QED BY <3>1, <3>2
    <2>4. /\ hist' \in [Worker -> [Bucket -> Nat]] /\ lats' \in [LatencyUs -> Nat]
          /\ HistInv'
      BY <1>1, <2>1, <2>3, SameHist DEF RecordTypes
    <2>5. /\ reqStart' \in [Worker -> Nat] /\ reqStart'[w] = clock /\ wpc'[w] = "wait"
          /\ \A v \in Worker : v # w => wpc'[v] = wpc[v] /\ reqStart'[v] = reqStart[v]
      BY <1>1, <2>1
    <2>6. reqStart'[w] <= clock /\ clock <= reqStart'[w] + RequestTicks
      BY <1>1, <2>5
    <2> QED BY <1>2, <2>2, <2>4, <2>5, <2>6, BusyReport
  <1>4. CASE StartFails(w)
    <2>1. /\ \E k \in {0, endpoints} : Datagrams(w, Datagram(0, 0, k))
          /\ RecordStats(w, Failed, clock)
          /\ reqStart' = [reqStart EXCEPT ![w] = 0]
          /\ wpc' = [wpc EXCEPT ![w] = "loop"]
      BY <1>4 DEF StartFails, Finish
    <2>2. /\ traffic' \in [Worker -> Traffic] /\ wire' \in [Field -> Nat] /\ TrafficInv'
          /\ \A v \in Worker : v # w => traffic'[v] = traffic[v]
      <3>1. PICK k \in Nat : Datagrams(w, Datagram(0, 0, k))
        BY <1>1, <2>1
      <3>2. Datagram(0, 0, k) \in Added
        BY <1>1, AddedCounts
      <3> QED BY <1>1, <3>1, <3>2, TrafficAdded
    <2>3. clock <= clock /\ clock <= clock + RequestTicks
      BY <1>1
    <2>4. /\ hist' \in [Worker -> [Bucket -> Nat]] /\ lats' \in [LatencyUs -> Nat]
          /\ HistInv'
      BY <1>1, <2>1, <2>3, RecordedHist
    <2>5. /\ reqStart' \in [Worker -> Nat] /\ wpc'[w] = "loop"
          /\ \A v \in Worker : v # w => wpc'[v] = wpc[v] /\ reqStart'[v] = reqStart[v]
      BY <1>1, <2>1
    <2> QED BY <1>2, <2>2, <2>4, <2>5, BusyReport
  <1> QED BY <1>3, <1>4

LEMMA WaitReport ==
    ASSUME IInv, ReportInv, NEW w \in Worker,
           Receive(w) \/ Replay(w) \/ Timeout(w) \/ PollFails(w)
    PROVE  ReportInv'
  <1> USE DEF clocks, mains
  <1>1. /\ RecordTypes /\ TrafficInv /\ HistInv /\ clock \in Nat /\ RequestTicks \in Nat
        /\ reqStart \in [Worker -> Nat] /\ endpoints \in Nat
        /\ wpc \in [Worker -> WorkerStep]
    BY PerfAssumption DEF ReportInv, RecordTypes, IInv, TypeOK
  <1>2. wpc[w] = "wait" /\ UNCHANGED <<clock, started, saved, endpoints>>
    BY DEF Receive, Replay, Timeout, PollFails
  <1>3. /\ reqStart[w] <= clock /\ clock <= reqStart[w] + RequestTicks
        /\ wpc[w] # None
    BY <1>2 DEF ReportInv, WaitInv, None
  <1>4. /\ traffic' \in [Worker -> Traffic] /\ wire' \in [Field -> Nat] /\ TrafficInv'
        /\ \A v \in Worker : v # w => traffic'[v] = traffic[v]
    <2>1. \/ traffic' = traffic /\ wire' = wire
          \/ \E n \in Added : Datagrams(w, n)
      <3>1. CASE Receive(w)
        <4>1. \/ Datagrams(w, Datagram(0, 1, 0)) \/ \E n \in Delivery(1) : Datagrams(w, n)
          BY <3>1 DEF Receive
        <4> QED BY <1>1, <4>1, AddedCounts
      <3>2. CASE Replay(w)
        <4>1. PICK silent \in 1 .. endpoints : \E n \in Round(silent) : Datagrams(w, n)
          BY <3>2 DEF Replay
        <4>2. silent \in 0 .. endpoints
          BY <1>1, <4>1
        <4> QED BY <1>1, <4>1, <4>2, AddedCounts
      <3>3. CASE Timeout(w)
        <4>1. \/ traffic' = traffic /\ wire' = wire
              \/ \E n \in Delivery(0) : Datagrams(w, n)
          BY <3>3 DEF Timeout
        <4> QED BY <1>1, <4>1, AddedCounts
      <3>4. CASE PollFails(w)
        BY <3>4 DEF PollFails
      <3> QED BY <3>1, <3>2, <3>3, <3>4
    <2>2. CASE traffic' = traffic /\ wire' = wire
      BY <1>1, <2>2 DEF RecordTypes, TrafficInv
    <2>3. CASE \E n \in Added : Datagrams(w, n)
      BY <1>1, <2>3, TrafficAdded
    <2> QED BY <2>1, <2>2, <2>3
  <1>5. \/ wpc' = wpc /\ reqStart' = reqStart /\ hist' = hist /\ lats' = lats /\ stats' = stats
        \/ /\ wpc' = [wpc EXCEPT ![w] = "loop"] /\ reqStart' = [reqStart EXCEPT ![w] = 0]
           /\ \E o \in {Granted, Denied, Failed} : RecordStats(w, o, reqStart[w])
    BY DEF Receive, Replay, Timeout, PollFails, Done, Finish
  <1>6. CASE wpc' = wpc /\ reqStart' = reqStart /\ hist' = hist /\ lats' = lats /\ stats' = stats
    <2>1. /\ hist' \in [Worker -> [Bucket -> Nat]] /\ lats' \in [LatencyUs -> Nat]
          /\ HistInv'
      BY <1>1, <1>6, SameHist DEF RecordTypes
    <2> QED BY <1>1, <1>2, <1>3, <1>4, <1>6, <2>1, BusyReport
  <1>7. CASE /\ wpc' = [wpc EXCEPT ![w] = "loop"] /\ reqStart' = [reqStart EXCEPT ![w] = 0]
             /\ \E o \in {Granted, Denied, Failed} : RecordStats(w, o, reqStart[w])
    <2>1. reqStart[w] \in Nat
      BY <1>1
    <2>2. /\ hist' \in [Worker -> [Bucket -> Nat]] /\ lats' \in [LatencyUs -> Nat]
          /\ HistInv'
      BY <1>3, <1>7, <2>1, RecordedHist
    <2>3. /\ reqStart' \in [Worker -> Nat] /\ wpc'[w] = "loop"
          /\ \A v \in Worker : v # w => wpc'[v] = wpc[v] /\ reqStart'[v] = reqStart[v]
      BY <1>1, <1>7
    <2> QED BY <1>2, <1>3, <1>4, <2>2, <2>3, BusyReport
  <1> QED BY <1>5, <1>6, <1>7

LEMMA InitReport == Init => ReportInv
  <1> SUFFICES ASSUME Init PROVE ReportInv
    OBVIOUS
  <1>1. RecordTypes
    BY DEF Init, RecordTypes, Traffic, NoTraffic
  <1>2. SavedInv
    BY DEF Init, SavedInv, None
  <1>3. TrafficInv
    <2> SUFFICES ASSUME NEW field \in Field
                 PROVE  wire[field] = SumFirst([w \in Worker |-> traffic[w][field]], MaxClients)
      BY DEF TrafficInv
    <2> DEFINE a == [w \in Worker |-> traffic[w][field]]
    <2>1. \A w \in 0 .. MaxClients - 1 : a[w] = 0
      BY Ranges DEF Init, NoTraffic, Field
    <2> HIDE DEF a
    <2>2. SumFirst(a, MaxClients) = 0
      BY <2>1, SumType, Ranges
    <2> QED BY <2>2 DEF a, Init
  <1>4. WaitInv
    BY DEF Init, WaitInv, None
  <1>5. ASSUME NEW b \in Bucket PROVE MergedHist[b] = 0
    <2> DEFINE a == [w \in Worker |-> hist[w][b]]
    <2>1. \A w \in 0 .. MaxClients - 1 : a[w] = 0
      BY Ranges DEF Init
    <2>2. MergedHist[b] = SumFirst(a, MaxClients)
      BY DEF MergedHist
    <2> HIDE DEF a
    <2> QED BY <2>1, <2>2, SumType, Ranges
  <1>6. ASSUME NEW b \in Bucket PROVE Seen(MergedHist, b) = 0
    <2>1. PICK f, n : f = MergedHist /\ n = b + 1
      OBVIOUS
    <2>2. n \in Nat /\ \A i \in 0 .. n - 1 : f[i] = 0
      BY <1>5, <2>1, Ranges
    <2>3. SumFirst(f, n) = 0
      BY <2>2, SumType
    <2> QED BY <2>1, <2>3 DEF Seen
  <1>7. ASSUME NEW b \in Bucket PROVE AnswersUpTo(b) = 0
    <2> DEFINE a == [us \in LatencyUs |->
                         IF perf_latency_bucket(us) <= b THEN lats[us] ELSE 0]
               n == RequestTicks * TickUs + 1
    <2>1. \A us \in 0 .. n - 1 : a[us] = 0
      BY Ranges DEF Init
    <2>2. AnswersUpTo(b) = SumFirst(a, n) /\ n \in Nat
      BY Ranges DEF AnswersUpTo
    <2> HIDE DEF a, n
    <2> QED BY <2>1, <2>2, SumType
  <1>8. Overflow \in Bucket /\ stats.received = 0
    BY Ranges DEF Init, StatField
  <1>9. HistInv
    BY <1>6, <1>7, <1>8 DEF HistInv
  <1> QED BY <1>1, <1>2, <1>3, <1>4, <1>9 DEF ReportInv

LEMMA NextReport ==
    ASSUME IInv, ReportInv, [Next]_vars
    PROVE  ReportInv'
  <1>1. CASE UNCHANGED vars
    BY <1>1, MainReport
  <1>2. CASE Tick \/ Main \/ ProgressEnds
    BY <1>2, MainReport, SpawnReport DEF Main
  <1>3. CASE \E w \in Worker : Run(w) \/ SleepFails(w) \/ Wait(w)
    BY <1>3, LeaveReport, StartReport, WaitReport DEF Run, Wait
  <1> QED BY <1>1, <1>2, <1>3 DEF Next

(* The counters of the workers and the wire, and the histograms and the    *)
(* latencies, keep to each other while any number of workers run.          *)
THEOREM RecordsKept == Spec => []ReportInv
  <1>1. Init => ReportInv
    BY InitReport
  <1>2. IInv /\ ReportInv /\ [Next]_vars => ReportInv'
    BY NextReport
  <1> QED BY <1>1, <1>2, Invariance, PTL DEF Spec

\* Min of two.
LEMMA Lesser ==
    ASSUME NEW a \in Nat, NEW b \in Nat, b <= a
    PROVE  Min({a, b}) = b
  <1>1. {a, b} \in SUBSET Nat /\ b \in {a, b} /\ \A m \in {a, b} : b <= m
    OBVIOUS
  <1> QED BY <1>1, Smallest

\* What main adds up is what went over the wire.
LEMMA MergedTotals ==
    ASSUME IInv, ReportInv, mpc = "report", ~ MergeIncomplete
    PROVE  perf_traffic_merge = wire
  <1>1. ASSUME NEW w \in Worker
        PROVE  /\ wpc[w] \in {None, "ended"} /\ (started[w] <=> wpc[w] # None)
               /\ traffic[w] = IF started[w] THEN saved[w] ELSE NoTraffic
    <2>1. wpc[w] # None => w < next
      BY DEF IInv, PhaseInv
    <2>2. wpc[w] \in {None, "ended"}
      BY <2>1 DEF IInv, PhaseInv
    <2>3. started[w] <=> wpc[w] # None
      BY DEF IInv, PhaseInv, ReportInv, SavedInv
    <2>4. CASE started[w]
      BY <2>2, <2>3, <2>4 DEF ReportInv, SavedInv
    <2>5. CASE ~ started[w]
      BY <2>3, <2>5 DEF ReportInv, SavedInv
    <2> QED BY <2>2, <2>3, <2>4, <2>5
  <1>2. ~ \E w \in Worker : traffic[w].incomplete
    <2> SUFFICES ASSUME NEW w \in Worker, traffic[w].incomplete PROVE FALSE
      OBVIOUS
    <2>1. CASE started[w]
      BY <1>1, <2>1 DEF MergeIncomplete
    <2>2. CASE ~ started[w]
      <3>1. traffic[w] = NoTraffic
        BY <1>1, <2>2
      <3> QED BY <3>1 DEF NoTraffic
    <2> QED BY <2>1, <2>2
  <1>3. ASSUME NEW field \in Field PROVE MergedField(field) = wire[field]
    <2> DEFINE a == [w \in Worker |-> traffic[w][field]]
               b == [w \in Worker |-> IF started[w] THEN saved[w][field] ELSE 0]
    <2>1. ASSUME NEW w \in Worker PROVE a[w] = b[w]
      <3>1. CASE started[w]
        BY <1>1, <3>1
      <3>2. CASE ~ started[w]
        <4>1. traffic[w] = NoTraffic
          BY <1>1, <3>2
        <4>2. NoTraffic[field] = 0
          BY DEF NoTraffic, Field
        <4> QED BY <3>2, <4>1, <4>2
      <3> QED BY <3>1, <3>2
    <2>2. /\ MergedField(field) = SumFirst(b, MaxClients)
          /\ wire[field] = SumFirst(a, MaxClients)
      BY <1>2 DEF MergedField, ReportInv, TrafficInv
    <2> HIDE DEF a, b
    <2>3. \A w \in 0 .. MaxClients - 1 : a[w] = b[w]
      BY <2>1, Ranges
    <2> QED BY <2>2, <2>3, SumSame, Ranges
  <1>4. wire \in [Field -> Nat]
    BY DEF ReportInv, RecordTypes
  <1>5. ASSUME NEW field \in Field PROVE Min({CounterMax, MergedField(field)}) = wire[field]
    <2>1. MergedField(field) \in Nat /\ CounterMax \in Nat /\ MergedField(field) <= CounterMax
      BY <1>3, <1>4, PerfAssumption DEF MergeIncomplete
    <2> QED BY <1>3, <2>1, Lesser
  <1>6. perf_traffic_merge = [field \in Field |-> wire[field]]
    BY <1>5 DEF perf_traffic_merge
  <1> QED BY <1>4, <1>6

(* What main reports is true for any number of workers, whichever of them  *)
(* failed to start or gave up: requests add up, and the merged traffic is  *)
(* what went over the wire unless the report says it is incomplete.        *)
THEOREM ReportIsTrue == Spec => []ReportAddsUp
  <1>1. IInv /\ ReportInv => (mpc = "report" => MergeIncomplete \/ perf_traffic_merge = wire)
    BY MergedTotals
  <1>2. (mpc = "report" => RequestsAddUp)
        /\ (mpc = "report" => MergeIncomplete \/ perf_traffic_merge = wire)
        => ReportAddsUp
    BY DEF ReportAddsUp
  <1> QED BY <1>1, <1>2, Invariance, RecordsKept, RequestTotals, PTL

-----------------------------------------------------------------------------
(* The percentiles *)

\* The range that a bucket before the last lies in, and where the bucket ends.
LEMMA EndInRange ==
    ASSUME NEW b \in Nat, b < Overflow
    PROVE  \/ b < Bins.fine /\ perf_latency_bucket_upper_us(b) = b + 1
           \/ \E q \in Nat :
                /\ q < MidBins /\ b = Bins.fine + q
                /\ perf_latency_bucket_upper_us(b) = Bins.fine + (q + 1) * Bins.midWidth
                /\ perf_latency_bucket_upper_us(b) \in Nat
                /\ perf_latency_bucket_upper_us(b) > Bins.fine
                /\ perf_latency_bucket_upper_us(b) <= Bins.mid
           \/ \E q \in Nat :
                /\ q < TopBins /\ b = Bins.fine + MidBins + q
                /\ perf_latency_bucket_upper_us(b) = Bins.mid + (q + 1) * Bins.topWidth
                /\ perf_latency_bucket_upper_us(b) \in Nat
                /\ perf_latency_bucket_upper_us(b) > Bins.mid
  <1> USE BinCounts
  <1>1. CASE b < Bins.fine
    BY <1>1, UpperEnds
  <1>2. CASE b >= Bins.fine /\ b < Bins.fine + MidBins
    <2>1. PICK q \in Nat : q < MidBins /\ b = Bins.fine + q
      <3>1. b - Bins.fine \in Nat /\ b - Bins.fine < MidBins /\ b = Bins.fine + (b - Bins.fine)
        BY <1>2
      <3> QED BY <3>1
    <2>2. perf_latency_bucket_upper_us(b) = Bins.fine + (q + 1) * Bins.midWidth
      BY <2>1, UpperEnds
    <2>3. (q + 1) * Bins.midWidth \in Nat /\ (q + 1) * Bins.midWidth > 0
          /\ (q + 1) * Bins.midWidth <= MidBins * Bins.midWidth
      <3>1. \A x \in Nat, y \in Nat \ {0}, z \in Nat :
                x < z => /\ (x + 1) * y \in Nat /\ (x + 1) * y > 0
                         /\ (x + 1) * y <= z * y
        OBVIOUS
      <3> QED BY <2>1, <3>1
    <2>4. /\ perf_latency_bucket_upper_us(b) \in Nat
          /\ perf_latency_bucket_upper_us(b) > Bins.fine
          /\ perf_latency_bucket_upper_us(b) <= Bins.mid
      <3>1. PICK x \in Nat : x = (q + 1) * Bins.midWidth /\ x > 0 /\ x <= Bins.mid - Bins.fine
        BY <2>3
      <3> QED BY <2>2, <3>1
    <2> QED BY <2>1, <2>2, <2>4
  <1>3. CASE b >= Bins.fine + MidBins
    <2>1. PICK q \in Nat : q < TopBins /\ b = Bins.fine + MidBins + q
      <3>1. /\ b - (Bins.fine + MidBins) \in Nat /\ b - (Bins.fine + MidBins) < TopBins
            /\ b = Bins.fine + MidBins + (b - (Bins.fine + MidBins))
        BY <1>3
      <3> QED BY <3>1
    <2>2. perf_latency_bucket_upper_us(b) = Bins.mid + (q + 1) * Bins.topWidth
      BY <2>1, UpperEnds
    <2>3. PICK x \in Nat : x = (q + 1) * Bins.topWidth /\ x > 0
      <3>1. \A y \in Nat \ {0} : (q + 1) * y \in Nat /\ (q + 1) * y > 0
        OBVIOUS
      <3> QED BY <3>1
    <2>4. perf_latency_bucket_upper_us(b) \in Nat /\ perf_latency_bucket_upper_us(b) > Bins.mid
      BY <2>2, <2>3
    <2> QED BY <2>1, <2>2, <2>4
  <1> QED BY <1>1, <1>2, <1>3

\* Later buckets end later.
LEMMA EndsGrow ==
    ASSUME NEW b \in Nat, NEW c \in Nat, b <= c, c < Overflow
    PROVE  /\ perf_latency_bucket_upper_us(b) \in Nat
           /\ perf_latency_bucket_upper_us(c) \in Nat
           /\ perf_latency_bucket_upper_us(b) <= perf_latency_bucket_upper_us(c)
  <1> USE BinCounts
  <1>0. b < Overflow
    OBVIOUS
  <1> DEFINE U(x) == perf_latency_bucket_upper_us(x)
             Fine(x) == x < Bins.fine /\ U(x) = x + 1
             Mid(x) == \E q \in Nat :
                /\ q < MidBins /\ x = Bins.fine + q
                /\ U(x) = Bins.fine + (q + 1) * Bins.midWidth
                /\ U(x) \in Nat /\ U(x) > Bins.fine /\ U(x) <= Bins.mid
             Top(x) == \E q \in Nat :
                /\ q < TopBins /\ x = Bins.fine + MidBins + q
                /\ U(x) = Bins.mid + (q + 1) * Bins.topWidth
                /\ U(x) \in Nat /\ U(x) > Bins.mid
  <1>1. (Fine(b) \/ Mid(b) \/ Top(b)) /\ (Fine(c) \/ Mid(c) \/ Top(c))
    BY <1>0, EndInRange
  <1>2. ASSUME NEW x \in Nat, NEW y \in Nat, NEW width \in Nat \ {0}, x <= y
        PROVE  (x + 1) * width <= (y + 1) * width
               /\ (x + 1) * width \in Nat /\ (y + 1) * width \in Nat
    BY <1>2
  <1>3. CASE Mid(b) /\ Mid(c)
    <2>1. PICK q \in Nat : b = Bins.fine + q /\ U(b) = Bins.fine + (q + 1) * Bins.midWidth
      BY <1>3
    <2>2. PICK r \in Nat : c = Bins.fine + r /\ U(c) = Bins.fine + (r + 1) * Bins.midWidth
      BY <1>3
    <2>3. q <= r
      BY <2>1, <2>2
    <2>4. PICK x \in Nat, y \in Nat : /\ x = (q + 1) * Bins.midWidth
                                      /\ y = (r + 1) * Bins.midWidth /\ x <= y
      BY <1>2, <2>3
    <2> QED BY <2>1, <2>2, <2>4
  <1>4. CASE Top(b) /\ Top(c)
    <2>1. PICK q \in Nat : /\ b = Bins.fine + MidBins + q
                           /\ U(b) = Bins.mid + (q + 1) * Bins.topWidth
      BY <1>4
    <2>2. PICK r \in Nat : /\ c = Bins.fine + MidBins + r
                           /\ U(c) = Bins.mid + (r + 1) * Bins.topWidth
      BY <1>4
    <2>3. q <= r
      BY <2>1, <2>2
    <2>4. PICK x \in Nat, y \in Nat : /\ x = (q + 1) * Bins.topWidth
                                      /\ y = (r + 1) * Bins.topWidth /\ x <= y
      BY <1>2, <2>3
    <2> QED BY <2>1, <2>2, <2>4
  <1>5. CASE Fine(b) /\ Fine(c)
    BY <1>5
  <1>6. /\ Fine(b) => U(b) \in Nat /\ U(b) <= Bins.fine
        /\ Mid(b) => U(b) \in Nat /\ U(b) <= Bins.mid /\ b >= Bins.fine
        /\ Top(b) => U(b) \in Nat /\ b >= Bins.fine + MidBins
        /\ Fine(c) => c < Bins.fine
        /\ Mid(c) => U(c) \in Nat /\ U(c) > Bins.fine /\ c < Bins.fine + MidBins
        /\ Top(c) => U(c) \in Nat /\ U(c) > Bins.mid
    OBVIOUS
  <1> HIDE DEF U, Fine, Mid, Top
  <1>7. U(b) \in Nat /\ U(c) \in Nat /\ U(b) <= U(c)
    BY <1>1, <1>3, <1>4, <1>5, <1>6 DEF U
  <1> QED BY <1>7 DEF U

\* What lies in the buckets up to b lies below the end of b.
LEMMA BelowEnd ==
    ASSUME NEW us \in Nat, NEW b \in Nat, b < Overflow, perf_latency_bucket(us) <= b
    PROVE  us < perf_latency_bucket_upper_us(b)
  <1> USE BinCounts
  <1>1. perf_latency_bucket(us) \in Nat
    BY BucketHoldsLatency, Ranges
  <1>2. us < Bins.top
    <2> SUFFICES ASSUME us >= Bins.top PROVE FALSE
      OBVIOUS
    <2>1. perf_latency_bucket(us) = Overflow
      BY DEF perf_latency_bucket
    <2> QED BY <2>1
  <1>3. us < perf_latency_bucket_upper_us(perf_latency_bucket(us))
    BY <1>2, BucketHoldsLatency
  <1>4. /\ perf_latency_bucket_upper_us(perf_latency_bucket(us)) \in Nat
        /\ perf_latency_bucket_upper_us(b) \in Nat
        /\ perf_latency_bucket_upper_us(perf_latency_bucket(us))
               <= perf_latency_bucket_upper_us(b)
    BY <1>1, EndsGrow
  <1> QED BY <1>3, <1>4

\* The rank is rounded up, and no more than there are answers.
LEMMA Ranks ==
    ASSUME NEW total \in Nat, NEW percentile \in 0 .. 100
    PROVE  /\ Rank(total, percentile) \in Nat
           /\ Rank(total, percentile) <= total
           /\ \A n \in Nat :
                  n >= Rank(total, percentile) => n * 100 >= total * percentile
  <1>1. PICK a \in Nat : a = total * percentile /\ a <= total * 100
    <2>1. total * percentile \in Nat /\ total * percentile <= total * 100
      OBVIOUS
    <2> QED BY <2>1
  <1>2. Rank(total, percentile) = (a + 99) \div 100
    BY <1>1 DEF Rank
  <1>3. ASSUME NEW n \in Nat
        PROVE  /\ (a + 99) \div 100 \in Nat
               /\ (a + 99) \div 100 < n + 1 <=> a + 99 < 100 * (n + 1)
    <2>1. a + 99 \in Nat /\ n + 1 \in Nat /\ 100 \in Nat \ {0}
      OBVIOUS
    <2> QED BY <2>1, Quotient
  <1>4. (a + 99) \div 100 \in Nat /\ (a + 99) \div 100 <= total
    BY <1>1, <1>3
  <1>5. \A n \in Nat : n >= (a + 99) \div 100 => n * 100 >= a
    BY <1>3
  <1> QED BY <1>1, <1>2, <1>4, <1>5

\* A set of numbers has a least one.
LEMMA Least ==
    ASSUME NEW S \in SUBSET Nat, S # {}
    PROVE  Min(S) \in S
  <1>1. IsWellFoundedOn(OpToRel(<, Nat), Nat)
    BY NatLessThanWellFounded
  <1>2. PICK x \in S : \A y \in S : <<y, x>> \notin OpToRel(<, Nat)
    BY <1>1, WFMin
  <1>3. ASSUME NEW y \in S PROVE x <= y
    <2>1. x \in Nat /\ y \in Nat
      OBVIOUS
    <2>2. y < x => <<y, x>> \in OpToRel(<, Nat)
      BY <2>1 DEF OpToRel
    <2>3. ~ (y < x)
      BY <1>2, <2>2
    <2> QED BY <2>1, <2>3
  <1>4. Min(S) = x
    BY <1>3, Smallest
  <1> QED BY <1>4

(* The percentile that main prints bounds the latencies from above, for    *)
(* all bins and any number of workers and answers: at least that share of  *)
(* the answered requests took less, unless it is the end of the last bin.  *)
THEOREM PercentilesBound == Spec => []PercentileIsUpperBound
  <1>1. ASSUME IInv, ReportInv PROVE PercentileIsUpperBound
    <2> DEFINE total == stats.received
               n == RequestTicks * TickUs + 1
               bound(p) == perf_latency_percentile_upper_us(MergedHist, total, p)
               low(p) == [us \in LatencyUs |-> IF us < bound(p) THEN lats[us] ELSE 0]
    <2> SUFFICES ASSUME NEW p \in {50, 99}, bound(p) < Bins.top
                 PROVE  SumFirst(low(p), n) * 100 >= total * p
      BY DEF PercentileIsUpperBound
    <2>1. total \in Nat /\ p \in 0 .. 100 /\ lats \in [LatencyUs -> Nat]
      BY <1>1 DEF IInv, TypeOK, StatField, ReportInv, RecordTypes
    <2>2. n \in Nat /\ LatencyUs = 0 .. n - 1 /\ LatencyUs \subseteq Nat
      BY Ranges
    <2> HIDE DEF n
    <2>3. ASSUME NEW us \in LatencyUs PROVE low(p)[us] \in Nat
      BY <2>1
    <2>4. SumFirst(low(p), n) \in Nat
      <3> HIDE DEF low
      <3> QED BY <2>2, <2>3, SumType
    <2>5. /\ Rank(total, p) \in Nat /\ Rank(total, p) <= total
          /\ \A m \in Nat : m >= Rank(total, p) => m * 100 >= total * p
      <3> HIDE DEF total
      <3> QED BY ONLY <2>1, Ranks
    <2>6. CASE total = 0
      BY <2>1, <2>4, <2>6
    <2>7. CASE total # 0
      <3> DEFINE reached == {b \in Bucket : Seen(MergedHist, b) >= Rank(total, p)}
      <3>1. Overflow \in reached
        <4>1. Seen(MergedHist, Overflow) = total /\ Overflow \in Bucket
          BY <1>1, Ranges DEF ReportInv, HistInv
        <4> QED BY <2>1, <2>5, <4>1
      <3>2. PICK b : b = Min(reached)
        OBVIOUS
      <3>3. reached \in SUBSET Nat
        BY Ranges
      <3>4. b \in reached /\ b \in Nat /\ b \in Bucket
        <4> HIDE DEF reached
        <4> QED BY <3>1, <3>2, <3>3, Least DEF reached
      <3>5. bound(p) = perf_latency_bucket_upper_us(b)
        BY <2>7, <3>1, <3>2 DEF perf_latency_percentile_upper_us
      <3>6. b < Overflow
        <4>1. b \in 0 .. Overflow /\ Overflow \in Nat
          BY <3>4, Ranges
        <4>2. b # Overflow
          <5> SUFFICES ASSUME b = Overflow PROVE FALSE
            OBVIOUS
          <5>1. perf_latency_bucket_upper_us(Overflow) = Bins.top
            BY BinCounts DEF perf_latency_bucket_upper_us
          <5> QED BY <3>5, <5>1, BinCounts
        <4> QED BY <4>1, <4>2
      <3> DEFINE f == [us \in LatencyUs |->
                           IF perf_latency_bucket(us) <= b THEN lats[us] ELSE 0]
      <3>7. SumFirst(f, n) = Seen(MergedHist, b) /\ Seen(MergedHist, b) >= Rank(total, p)
        BY <1>1, <3>4 DEF ReportInv, HistInv, AnswersUpTo, n
      <3>8. ASSUME NEW us \in LatencyUs PROVE f[us] \in Nat /\ f[us] <= low(p)[us]
        <4>1. lats[us] \in Nat /\ us \in Nat
          BY <2>1, <2>2
        <4>2. CASE perf_latency_bucket(us) <= b
          <5>1. us < bound(p)
            BY <3>4, <3>5, <3>6, <4>1, <4>2, BelowEnd
          <5> QED BY <4>1, <4>2, <5>1
        <4>3. CASE ~ (perf_latency_bucket(us) <= b)
          <5>1. f[us] = 0
            BY <4>3
          <5> HIDE DEF f, low
          <5> QED BY <2>3, <5>1
        <4> QED BY <4>2, <4>3
      <3> HIDE DEF f, low, reached, bound
      <3>9. SumFirst(f, n) <= SumFirst(low(p), n) /\ SumFirst(f, n) \in Nat
        <4>1. \A us \in 0 .. n - 1 : /\ f[us] \in Nat /\ low(p)[us] \in Nat
                                     /\ f[us] <= low(p)[us]
          BY <2>2, <2>3, <3>8
        <4>2. PICK g : g = low(p)
          OBVIOUS
        <4>3. \A us \in 0 .. n - 1 : f[us] \in Nat /\ g[us] \in Nat /\ f[us] <= g[us]
          BY <4>1, <4>2
        <4> QED BY <2>2, <4>2, <4>3, SumBelow, SumType
      <3>10. SumFirst(low(p), n) >= Rank(total, p)
        <4> HIDE DEF total
        <4> QED BY <2>4, <2>5, <3>7, <3>9
      <3> QED BY <2>4, <2>5, <3>10
    <2> QED BY <2>6, <2>7
  <1> QED BY <1>1, Invariance, RecordsKept, PTL

-----------------------------------------------------------------------------
(* What is held *)

LEMMA InitRelease == Init => ReleaseInv
  <1> SUFFICES ASSUME Init PROVE ReleaseInv
    OBVIOUS
  <1>1. MainHolds
    BY DEF Init, MainHolds, WithWorkers
  <1>2. WorkersHold
    BY DEF Init, WorkersHold
  <1> QED BY <1>1, <1>2 DEF ReleaseInv

\* The steps of main that prepare the benchmark hold what they have acquired.
LEMMA PrepareRelease ==
    ASSUME IInv, MainHolds, PrepareStep
    PROVE  /\ MainHolds' /\ mpc' \notin {"progress", "report", "cleanup"}
           /\ UNCHANGED <<wpc, fds, client, inflight>>
           /\ \A w \in Worker : wpc[w] = None
  <1> USE DEF Preparing, owned, loops, WithWorkers
  <1>1. next \in Nat /\ cfg.clients \in Nat
    BY DEF IInv, TypeOK
  <1>2. mpc \in BeforeWorkers => \A w \in Worker : wpc[w] = None
    BY DEF IInv, PhaseInv
  <1>3. CASE \E ok \in BOOLEAN, n \in 0 .. MaxEndpoints : PrepareDns(ok, n)
    BY <1>2, <1>3 DEF PrepareDns, MainHolds, clocks, BeforeWorkers, Tables
  <1>4. CASE \E got \in SUBSET Tables : AllocateTables(got)
    BY <1>2, <1>4 DEF AllocateTables, MainHolds, clocks, BeforeWorkers, Tables
  <1>5. CASE NoTables
    BY <1>2, <1>5 DEF NoTables, GiveUp, MainHolds, clocks, BeforeWorkers, Tables
  <1>6. CASE AllocateHistogram
    <2>1. 0 .. (next + 1) - 1 = (0 .. next - 1) \cup {next}
      BY <1>1
    <2> QED BY <1>2, <1>6, <2>1 DEF AllocateHistogram, MainHolds, clocks,
               BeforeWorkers, Tables
  <1>7. CASE HistogramFails
    BY <1>2, <1>7 DEF HistogramFails, GiveUp, MainHolds, clocks, BeforeWorkers,
                      Tables
  <1>8. CASE Prepared
    BY <1>2, <1>8 DEF Prepared, MainHolds, clocks, BeforeWorkers, Tables
  <1> QED BY <1>3, <1>4, <1>5, <1>6, <1>7, <1>8 DEF PrepareStep

\* main, the progress thread and the clock.
LEMMA MainRelease ==
    ASSUME IInv, ReleaseInv,
           Tick \/ Main \/ ProgressEnds \/ UNCHANGED vars
    PROVE  ReleaseInv'
  <1> USE DEF clocks, mains, owned, loops, records
  <1>1. CASE PrepareStep
    <2>1. /\ MainHolds' /\ mpc' \notin {"progress", "report", "cleanup"}
          /\ UNCHANGED <<wpc, fds, client, inflight>>
          /\ \A w \in Worker : wpc[w] = None
      BY <1>1, PrepareRelease DEF ReleaseInv
    <2> QED BY <2>1 DEF ReleaseInv, WorkersHold
  <1>2. CASE \E up \in SUBSET Worker, progress \in BOOLEAN : Spawn(up, progress)
    <2>1. /\ mpc = "spawn" /\ mpc' = "join"
          /\ \E up \in SUBSET Worker :
                 wpc' = [w \in Worker |-> IF w \in up THEN "setup" ELSE None]
          /\ UNCHANGED <<cfg, held, hists, next, fds, client, inflight>>
      BY <1>2 DEF Spawn
    <2>2. \A w \in Worker : wpc[w] = None
      BY <2>1 DEF IInv, PhaseInv, BeforeWorkers
    <2>3. MainHolds'
      BY <2>1 DEF ReleaseInv, MainHolds, WithWorkers
    <2>4. WorkersHold'
      BY <2>1, <2>2 DEF ReleaseInv, WorkersHold, None
    <2> QED BY <2>3, <2>4 DEF ReleaseInv
  <1>3. CASE \/ Tick \/ Join \/ StopProgress \/ JoinProgress \/ Cleanup
             \/ ProgressEnds \/ UNCHANGED vars
             \/ \E ok \in BOOLEAN : Report(ok)
             \/ \E clients \in ClientsArg, requests \in RequestsArg,
                   duration \in DurationArg, rps \in RpsArg :
                     ParseArgs(clients, requests, duration, rps)
    <2>1. UNCHANGED <<wpc, fds, client, inflight>>
      BY <1>3 DEF Tick, Join, StopProgress, JoinProgress, ProgressEnds, Report,
                  Cleanup, ParseArgs, vars
    <2>2. ASSUME NEW w \in Worker, mpc' \in {"progress", "report", "cleanup", "exit"}
          PROVE  wpc[w] \in {None, "ended"}
      <3>1. CASE mpc = "args"
        BY <3>1 DEF IInv, PhaseInv, BeforeWorkers
      <3>2. CASE mpc = "join"
        <4>1. next = cfg.clients
          BY <1>3, <2>2, <3>2 DEF Tick, Join, StopProgress, JoinProgress,
                 ProgressEnds, Report, Cleanup, ParseArgs, vars
        <4>2. wpc[w] # None => w < next
          BY <4>1 DEF IInv, PhaseInv
        <4> QED BY <4>2 DEF IInv, PhaseInv
      <3>3. CASE mpc \in {"progress", "report", "cleanup", "exit"}
        BY <3>3 DEF ReleaseInv, WorkersHold
      <3>4. mpc \in {"args", "join", "progress", "report", "cleanup", "exit"}
        BY <1>3, <2>2 DEF Tick, Join, StopProgress, JoinProgress, ProgressEnds,
               Report, Cleanup, ParseArgs, vars
      <3> QED BY <3>1, <3>2, <3>3, <3>4
    <2>3. WorkersHold'
      BY <2>1, <2>2 DEF ReleaseInv, WorkersHold
    <2>4. MainHolds'
      <3> USE DEF ReleaseInv, MainHolds, WithWorkers, Tables
      <3>1. CASE \E ok \in BOOLEAN : Report(ok)
        BY <3>1 DEF Report, GiveUp
      <3>2. CASE Cleanup
        BY <3>2 DEF Cleanup
      <3>3. CASE \/ Tick \/ Join \/ StopProgress \/ JoinProgress
                 \/ ProgressEnds \/ UNCHANGED vars
        BY <3>3 DEF Tick, Join, StopProgress, JoinProgress, ProgressEnds, vars
      <3>4. CASE \E clients \in ClientsArg, requests \in RequestsArg,
                    duration \in DurationArg, rps \in RpsArg :
                      ParseArgs(clients, requests, duration, rps)
        BY <3>4 DEF ParseArgs
      <3> QED BY <1>3, <3>1, <3>2, <3>3, <3>4
    <2> QED BY <2>3, <2>4 DEF ReleaseInv
  <1> QED BY <1>1, <1>2, <1>3 DEF Main

\* A step of a worker: what it holds goes with its step.
LEMMA WorkerRelease ==
    ASSUME IInv, ReleaseInv, NEW w \in Worker, Run(w) \/ SleepFails(w) \/ Wait(w)
    PROVE  ReleaseInv'
  <1> USE DEF clocks, mains, owned, loops, records
  <1>1. /\ wpc \in [Worker -> WorkerStep] /\ fds \in [Worker -> Nat]
        /\ client \in [Worker -> BOOLEAN] /\ inflight \in [Worker -> Int]
        /\ fds[w] = IF wpc[w] \in {None, "setup", "ended"} THEN 0 ELSE 1
        /\ client[w] => wpc[w] \in {"named", "loop", "sleep", "wait"}
        /\ wpc[w] \notin {"loop", "sleep", "wait"} => inflight[w] = 0
    BY DEF IInv, TypeOK, ReleaseInv, WorkersHold
  <1>2. /\ UNCHANGED <<cfg, mpc, held, hists, next>>
        /\ wpc[w] \notin {None, "ended"}
    BY DEF Run, Wait, Setup, OpenSocket, BindSocket, CreateClient, NamingFails,
           SetsUp, PaceNext, LeaveLoop, Leaves, SleepFails, Start, StartFails,
           Begin, GoesOn, Receive, Replay, Timeout, PollFails, None
  <1>3. MainHolds'
    BY <1>2 DEF ReleaseInv, MainHolds
  <1> DEFINE Holds(v) ==
                 /\ fds'[v] = IF wpc'[v] \in {None, "setup", "ended"} THEN 0 ELSE 1
                 /\ client'[v] => wpc'[v] \in {"named", "loop", "sleep", "wait"}
                 /\ wpc'[v] \notin {"loop", "sleep", "wait"} => inflight'[v] = 0
             Alters ==
                 /\ \E to : wpc' = [wpc EXCEPT ![w] = to]
                 /\ \E n \in Nat : fds' = [fds EXCEPT ![w] = n]
                 /\ \/ client' = client
                    \/ client' = [client EXCEPT ![w] = TRUE]
                    \/ client' = [client EXCEPT ![w] = FALSE]
                 /\ \E n \in Int : inflight' = [inflight EXCEPT ![w] = n]
  <1>4. ASSUME Alters, Holds(w) PROVE ReleaseInv'
    <2>1. /\ fds' \in [Worker -> Nat] /\ client' \in [Worker -> BOOLEAN]
          /\ inflight' \in [Worker -> Int]
          /\ \A v \in Worker : v # w => /\ wpc'[v] = wpc[v] /\ fds'[v] = fds[v]
                                         /\ (client'[v] <=> client[v])
                                         /\ inflight'[v] = inflight[v]
      <3>1. \A v \in Worker : v # w => wpc'[v] = wpc[v]
        BY <1>1, <1>4
      <3>2. fds' \in [Worker -> Nat] /\ \A v \in Worker : v # w => fds'[v] = fds[v]
        BY <1>1, <1>4
      <3>3. /\ client' \in [Worker -> BOOLEAN]
            /\ \A v \in Worker : v # w => (client'[v] <=> client[v])
        BY <1>1, <1>4
      <3>4. /\ inflight' \in [Worker -> Int]
            /\ \A v \in Worker : v # w => inflight'[v] = inflight[v]
        BY <1>1, <1>4
      <3> QED BY <3>1, <3>2, <3>3, <3>4
    <2>2. mpc' \notin {"progress", "report", "cleanup", "exit"}
      BY <1>2 DEF ReleaseInv, WorkersHold
    <2>3. ASSUME NEW v \in Worker PROVE Holds(v)
      <3>1. CASE v # w
        BY <2>1, <3>1 DEF ReleaseInv, WorkersHold
      <3> QED BY <1>4, <3>1
    <2>4. WorkersHold'
      BY <2>1, <2>2, <2>3 DEF WorkersHold
    <2> QED BY <1>3, <2>4 DEF ReleaseInv
  <1>5. CASE Setup(w)
    <2>1. /\ inflight' = inflight /\ inflight[w] = 0
          /\ inflight' = [inflight EXCEPT ![w] = inflight[w]]
      BY <1>1, <1>5 DEF Setup, OpenSocket, BindSocket, CreateClient, NamingFails,
                        SetsUp
    <2>2. CASE OpenSocket(w)
      <3>1. Alters
        BY <1>1, <2>1, <2>2 DEF OpenSocket, SetupFails
      <3>2. Holds(w)
        BY <1>1, <2>1, <2>2 DEF OpenSocket, SetupFails, None
      <3> QED BY <1>4, <3>1, <3>2
    <2>3. CASE BindSocket(w)
      <3>1. Alters
        BY <1>1, <2>1, <2>3 DEF BindSocket, SetupFails, CloseSocket, None
      <3>2. Holds(w)
        BY <1>1, <2>1, <2>3 DEF BindSocket, SetupFails, CloseSocket, None
      <3> QED BY <1>4, <3>1, <3>2
    <2>4. CASE CreateClient(w)
      <3>1. Alters
        BY <1>1, <2>1, <2>4 DEF CreateClient, SetupFails, CloseSocket, None
      <3>2. Holds(w)
        BY <1>1, <2>1, <2>4 DEF CreateClient, SetupFails, CloseSocket, None
      <3> QED BY <1>4, <3>1, <3>2
    <2>5. CASE NamingFails(w)
      <3>1. Alters
        <4>1. /\ wpc' = [wpc EXCEPT ![w] = "ended"] /\ fds[w] = 1
              /\ fds' = [fds EXCEPT ![w] = @ - 1]
              /\ client' = [client EXCEPT ![w] = FALSE]
          BY <1>1, <2>5 DEF NamingFails, SetupFails, CloseSocket, DestroyClient,
                 None
        <4>2. \E n \in Nat : fds' = [fds EXCEPT ![w] = n]
          <5>1. fds[w] - 1 = 0 /\ 0 \in Nat
            BY <4>1
          <5> QED BY <4>1, <5>1, Zenon
        <4>3. \E n \in Int : inflight' = [inflight EXCEPT ![w] = n]
          BY <1>1, <2>1
        <4> QED BY <4>1, <4>2, <4>3
      <3>2. Holds(w)
        BY <1>1, <2>1, <2>5 DEF NamingFails, SetupFails, CloseSocket,
               DestroyClient, None
      <3> QED BY <1>4, <3>1, <3>2
    <2>6. CASE SetsUp(w)
      <3>1. Alters
        BY <1>1, <2>1, <2>6 DEF SetsUp, SetupFails, CloseSocket, DestroyClient,
               None
      <3>2. Holds(w)
        BY <1>1, <2>1, <2>6 DEF SetsUp, SetupFails, CloseSocket, DestroyClient,
               None
      <3> QED BY <1>4, <3>1, <3>2
    <2> QED BY <1>5, <2>2, <2>3, <2>4, <2>5, <2>6 DEF Setup
  <1>6. CASE LeaveLoop(w) \/ SleepFails(w)
    <2>1. /\ wpc[w] \in {"loop", "sleep"} /\ wpc' = [wpc EXCEPT ![w] = "ended"]
          /\ fds' = [fds EXCEPT ![w] = @ - 1]
          /\ client' = [client EXCEPT ![w] = FALSE]
          /\ inflight' = [inflight EXCEPT ![w] = 0]
      BY <1>6 DEF LeaveLoop, Leaves, SleepFails, Close, CloseSocket, DestroyClient
    <2>2. fds[w] = 1
      BY <1>1, <2>1 DEF None
    <2>3. Alters
      <3>1. fds' = [fds EXCEPT ![w] = 0]
        <4>1. fds[w] - 1 = 0
          BY <2>2
        <4> QED BY <2>1, <4>1, Zenon
      <3>2. \E to : wpc' = [wpc EXCEPT ![w] = to]
        BY <2>1
      <3>3. \E n \in Nat : fds' = [fds EXCEPT ![w] = n]
        BY <3>1
      <3>4. \E n \in Int : inflight' = [inflight EXCEPT ![w] = n]
        <4>1. 0 \in Int
          OBVIOUS
        <4> QED BY <2>1, <4>1, Zenon
      <3> QED BY <2>1, <3>2, <3>3, <3>4
    <2>4. Holds(w)
      BY <1>1, <2>1, <2>2
    <2> QED BY <1>4, <2>3, <2>4
  <1>7. CASE PaceNext(w) \/ Start(w) \/ StartFails(w) \/ Wait(w)
    <2>1. /\ wpc[w] \in {"loop", "sleep", "wait"} /\ fds' = fds /\ client' = client
          /\ \/ wpc' = wpc
             \/ \E to \in {"loop", "sleep", "wait"} : wpc' = [wpc EXCEPT ![w] = to]
          /\ \/ inflight' = inflight
             \/ inflight' = [inflight EXCEPT ![w] = @ - 1]
             \/ inflight' = [inflight EXCEPT ![w] = @ + 1]
      <3>1. CASE PaceNext(w) \/ Start(w) \/ StartFails(w)
        BY <3>1 DEF PaceNext, Start, StartFails, Begin, GoesOn, Finish
      <3>2. CASE Wait(w)
        BY <3>2 DEF Wait, Receive, Replay, Timeout, PollFails, Done, Finish
      <3> QED BY <1>7, <3>1, <3>2
    <2>2. Alters
      <3>1. \E to : wpc' = [wpc EXCEPT ![w] = to]
        <4>1. wpc = [wpc EXCEPT ![w] = wpc[w]]
          BY <1>1
        <4> QED BY <2>1, <4>1
      <3>2. \E n \in Nat : fds' = [fds EXCEPT ![w] = n]
        <4>1. fds = [fds EXCEPT ![w] = fds[w]] /\ fds[w] \in Nat
          BY <1>1
        <4> QED BY <2>1, <4>1
      <3>3. \E n \in Int : inflight' = [inflight EXCEPT ![w] = n]
        <4>1. /\ inflight = [inflight EXCEPT ![w] = inflight[w]]
              /\ inflight[w] \in Int /\ inflight[w] - 1 \in Int
              /\ inflight[w] + 1 \in Int
          BY <1>1
        <4> QED BY <2>1, <4>1
      <3> QED BY <2>1, <3>1, <3>2, <3>3
    <2>3. Holds(w)
      <3>1. wpc'[w] \in {"loop", "sleep", "wait"}
        BY <1>1, <2>1
      <3>2. fds'[w] = 1
        BY <1>1, <2>1 DEF None
      <3> QED BY <3>1, <3>2 DEF None
    <2> QED BY <1>4, <2>2, <2>3
  <1> QED BY <1>5, <1>6, <1>7 DEF Run

(* However the benchmark ends, main has freed the cache, the tables, the   *)
(* summary and every histogram, and every worker its socket, its client    *)
(* and its requests: whichever allocation, socket, client or thread failed *)
(* and for any number of workers.                                          *)
THEOREM ReleasedAtExit == Spec => [](mpc = "exit" => EverythingReleased)
  <1>1. Init => ReleaseInv
    BY InitRelease
  <1>2. IInv /\ ReleaseInv /\ [Next]_vars => ReleaseInv'
    BY MainRelease, WorkerRelease DEF Next
  <1>3. ReleaseInv => (mpc = "exit" => EverythingReleased)
    <2> SUFFICES ASSUME ReleaseInv, mpc = "exit" PROVE EverythingReleased
      OBVIOUS
    <2>1. held = {} /\ hists = {}
      BY DEF ReleaseInv, MainHolds, WithWorkers
    <2>2. \A w \in Worker : fds[w] = 0 /\ ~ client[w] /\ inflight[w] = 0
      BY DEF ReleaseInv, WorkersHold, None
    <2> QED BY <2>1, <2>2 DEF EverythingReleased
  <1> QED BY <1>1, <1>2, <1>3, Invariance, PTL DEF Spec
=============================================================================
