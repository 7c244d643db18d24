-------------------------- MODULE HaScheduleProofs --------------------------
(***************************************************************************)
(* What an accepted policy announces and where its rounds end, for words   *)
(* of every width and for any number of replays.                           *)
(***************************************************************************)
EXTENDS HaSchedule, WellFoundedInduction, TLAPS

(* A set of numbers that holds 0 and with each number the next one holds   *)
(* all of them.                                                            *)
LEMMA Induction ==
    ASSUME NEW G, 0 \in G, \A n \in Nat : n \in G => n + 1 \in G
    PROVE  \A n \in Nat : n \in G
<1> SUFFICES ASSUME NEW m \in Nat, m \notin G PROVE FALSE
  OBVIOUS
<1>1. IsWellFoundedOn(OpToRel(<, Nat), Nat)
  BY NatLessThanWellFounded
<1> DEFINE B == {n \in Nat : n \notin G}
<1>2. PICK x \in B : \A y \in B : <<y, x>> \notin OpToRel(<, Nat)
  <2>1. B # {} /\ B \subseteq Nat
    OBVIOUS
  <2> QED
    BY <1>1, <2>1, WFMin
<1>3. x # 0 /\ x \in Nat
  OBVIOUS
<1>4. x - 1 \in B
  BY <1>3
<1>5. <<x - 1, x>> \in OpToRel(<, Nat)
  BY <1>3 DEF OpToRel
<1> QED
  BY <1>2, <1>4, <1>5

(* f[0] is first, and each of the next k values is computed from the one   *)
(* before.                                                                 *)
Iterates(f, S, first, step, k) ==
    /\ f \in [0 .. k -> S]
    /\ f[0] = first
    /\ \A i \in 1 .. k : f[i] = step[i][f[i - 1]]

(* A value that is computed from the one before exists for every bound of  *)
(* the index.                                                              *)
LEMMA RecursionExists ==
    ASSUME NEW S, NEW first \in S, NEW step \in [Nat -> [S -> S]],
           NEW k \in Nat
    PROVE  \E f : Iterates(f, S, first, step, k)
<1> USE DEF Iterates
<1> DEFINE Good(n) == \E f : Iterates(f, S, first, step, n)
<1>1. Good(0)
  <2>1. [i \in 0 .. 0 |-> first] \in [0 .. 0 -> S]
    OBVIOUS
  <2>2. 0 \in 0 .. 0 /\ 1 .. 0 = {}
    OBVIOUS
  <2>3. Iterates([i \in 0 .. 0 |-> first], S, first, step, 0)
    BY <2>1, <2>2
  <2> QED
    BY <2>3
<1>2. ASSUME NEW n \in Nat, Good(n)
      PROVE  Good(n + 1)
  <2>1. PICK f : Iterates(f, S, first, step, n)
    BY <1>2
  <2> DEFINE g == [i \in 0 .. n + 1 |-> IF i = n + 1 THEN step[n + 1][f[n]] ELSE f[i]]
  <2>2. f[n] \in S /\ step[n + 1] \in [S -> S]
    BY <2>1
  <2>3. g \in [0 .. n + 1 -> S]
    BY <2>1, <2>2
  <2>4. g[0] = first
    BY <2>1
  <2>5. ASSUME NEW i \in 1 .. n + 1
        PROVE  g[i] = step[i][g[i - 1]]
    <3>1. CASE i = n + 1
      <4>1. i - 1 = n /\ g[n] = f[n]
        BY <3>1
      <4> QED
        BY <3>1, <4>1
    <3>2. CASE i # n + 1
      <4>1. i \in 1 .. n /\ i - 1 \in 0 .. n
        BY <3>2
      <4>2. g[i] = f[i] /\ g[i - 1] = f[i - 1]
        BY <4>1
      <4> QED
        BY <2>1, <4>1, <4>2
    <3> QED
      BY <3>1, <3>2
  <2>6. Iterates(g, S, first, step, n + 1)
    <3> HIDE DEF g
    <3> QED
      BY <2>3, <2>4, <2>5
  <2> HIDE DEF g
  <2> QED
    BY <2>6
<1>3. \A n \in Nat : Good(n)
  <2> HIDE DEF Good
  <2> QED
    <3>1. 0 \in {n \in Nat : Good(n)}
      BY <1>1
    <3>2. \A n \in Nat : n \in {m \in Nat : Good(m)} => n + 1 \in {m \in Nat : Good(m)}
      BY <1>2
    <3>3. \A n \in Nat : n \in {m \in Nat : Good(m)}
      BY ONLY <3>1, <3>2, Induction
    <3> QED
      BY <3>3
<1> QED
  BY <1>3

-----------------------------------------------------------------------------
(* The recursive functions of the schedule, one step at a time             *)

(* The powers of g. *)
LEMMA PowerSteps ==
    ASSUME NEW g \in Nat
    PROVE  /\ Power(g, 0) = 1
           /\ \A k \in Nat : Power(g, k) \in Nat /\ Power(g, k + 1) = Power(g, k) * g
<1> DEFINE step == [i \in Nat |-> [v \in Nat |-> v * g]]
           IsF(f, k) == f = [i \in 0 .. k |-> IF i = 0 THEN 1 ELSE f[i - 1] * g]
           F(k) == CHOOSE f : IsF(f, k)
<1>1. ASSUME NEW k \in Nat
      PROVE  Power(g, k) = F(k)[k]
  BY DEF Power
<1>2. ASSUME NEW k \in Nat
      PROVE  \E h \in [0 .. k -> Nat] : IsF(h, k)
  <2>1. 1 \in Nat /\ step \in [Nat -> [Nat -> Nat]]
    OBVIOUS
  <2>2. PICK h : Iterates(h, Nat, 1, step, k)
    <3> HIDE DEF step
    <3> QED
      BY <2>1, RecursionExists
  <2>3. ASSUME NEW i \in 0 .. k
        PROVE  h[i] = IF i = 0 THEN 1 ELSE h[i - 1] * g
    <3>1. CASE i # 0
      <4>1. i \in 1 .. k /\ h[i - 1] \in Nat /\ i \in Nat
        BY <2>2, <3>1 DEF Iterates
      <4> QED
        BY <2>2, <3>1, <4>1 DEF Iterates
    <3> QED
      BY <2>2, <3>1 DEF Iterates
  <2> QED
    BY <2>2, <2>3 DEF Iterates
<1>3. ASSUME NEW k \in Nat, NEW l \in Nat, NEW f, NEW h, IsF(f, k), IsF(h, l)
      PROVE  \A j \in Nat : j <= k /\ j <= l => f[j] = h[j]
  <2> DEFINE G == {j \in Nat : j <= k /\ j <= l => f[j] = h[j]}
  <2>1. \A i \in 0 .. k : f[i] = IF i = 0 THEN 1 ELSE f[i - 1] * g
    BY <1>3
  <2>2. \A i \in 0 .. l : h[i] = IF i = 0 THEN 1 ELSE h[i - 1] * g
    BY <1>3
  <2> HIDE DEF IsF
  <2>3. 0 \in G
    BY <2>1, <2>2
  <2>4. ASSUME NEW n \in Nat, n \in G
        PROVE  n + 1 \in G
    <3> SUFFICES ASSUME n + 1 <= k, n + 1 <= l
                 PROVE  f[n + 1] = h[n + 1]
      OBVIOUS
    <3>1. f[n] = h[n]
      BY <2>4
    <3>2. f[n + 1] = f[n] * g /\ h[n + 1] = h[n] * g
      BY <2>1, <2>2
    <3> QED
      BY <3>1, <3>2
  <2> HIDE DEF G
  <2>5. \A n \in Nat : n \in G
    BY <2>3, <2>4, Induction
  <2> QED
    BY <2>5 DEF G
<1>4. ASSUME NEW k \in Nat
      PROVE  IsF(F(k), k) /\ F(k)[k] \in Nat
  <2>1. PICK h \in [0 .. k -> Nat] : IsF(h, k)
    BY <1>2
  <2> HIDE DEF IsF
  <2>2. IsF(F(k), k)
    BY <2>1
  <2> HIDE DEF F
  <2>3. F(k)[k] = h[k]
    BY <1>3, <2>1, <2>2
  <2> QED
    BY <2>2, <2>3
<1>5. Power(g, 0) = 1
  <2> HIDE DEF F
  <2>1. Power(g, 0) = F(0)[0] /\ IsF(F(0), 0)
    BY <1>1, <1>4
  <2> QED
    BY <2>1
<1>6. ASSUME NEW k \in Nat
      PROVE  Power(g, k) \in Nat /\ Power(g, k + 1) = Power(g, k) * g
  <2> HIDE DEF F
  <2>1. /\ Power(g, k) = F(k)[k] /\ F(k)[k] \in Nat /\ IsF(F(k), k)
        /\ Power(g, k + 1) = F(k + 1)[k + 1] /\ IsF(F(k + 1), k + 1)
    <3> HIDE DEF IsF
    <3>1. k + 1 \in Nat
      OBVIOUS
    <3> QED
      BY <1>1, <1>4, <3>1
  <2>2. F(k + 1)[k + 1] = F(k + 1)[k] * g
    BY <2>1
  <2> HIDE DEF IsF
  <2>3. F(k + 1)[k] = F(k)[k]
    BY <1>3, <2>1
  <2> QED
    BY <2>1, <2>2, <2>3
<1> QED
  BY <1>5, <1>6

(* A value of an exponential schedule becomes the next one. *)
Times(s, v) ==
    IF v >= s.max_units THEN v
    ELSE IF v > s.max_units \div s.growth THEN s.max_units
    ELSE Wrap32(v * s.growth)

LEMMA WordTypes ==
    /\ UINT32_MAX \in Nat \ {0} /\ UINT64_MAX \in Nat
    /\ UINT64_MAX >= UINT32_MAX + UINT32_MAX
    /\ \A n \in Int : Wrap32(n) \in UInt32 /\ Wrap64(n) \in 0 .. UINT64_MAX
    /\ \A n \in UInt32 : Wrap32(n) = n
    /\ \A n \in 0 .. UINT64_MAX : Wrap64(n) = n
<1>1. UINT32_MAX \in Nat \ {0} /\ UINT64_MAX \in Nat
  BY WidthAssumption
<1>2. UINT64_MAX >= UINT32_MAX + UINT32_MAX
  <2>1. UINT32_MAX * (UINT32_MAX + 2) = UINT32_MAX * UINT32_MAX + UINT32_MAX + UINT32_MAX
    BY <1>1
  <2>2. UINT32_MAX * UINT32_MAX \in Nat
    BY <1>1
  <2> QED
    BY <1>1, <2>1, <2>2, WidthAssumption
<1>3. ASSUME NEW n \in Int
      PROVE  Wrap32(n) \in UInt32 /\ Wrap64(n) \in 0 .. UINT64_MAX
  BY <1>1 DEF Wrap32, Wrap64, UInt32
<1>4. \A n \in UInt32 : Wrap32(n) = n
  BY <1>1 DEF Wrap32, UInt32
<1>5. \A n \in 0 .. UINT64_MAX : Wrap64(n) = n
  BY <1>1 DEF Wrap64
<1> QED
  BY <1>1, <1>2, <1>3, <1>4, <1>5

(* It stays a machine word. *)
LEMMA TimesType ==
    ASSUME NEW s \in Schedule, NEW v \in UInt32
    PROVE  Times(s, v) \in UInt32
<1>1. s.max_units \in UInt32 /\ s.growth \in UInt32
  BY DEF Schedule
<1>2. v * s.growth \in Int
  BY <1>1, WordTypes DEF UInt32
<1> QED
  BY <1>1, <1>2, WordTypes DEF Times

(* The growth of an exponential schedule. *)
LEMMA ExponentialSteps ==
    ASSUME NEW s \in Schedule
    PROVE  /\ Exponential(s, 0) = s.initial_units
           /\ \A k \in Nat : Exponential(s, k) \in UInt32 /\ Exponential(s, k + 1) = Times(s, Exponential(s, k))
<1> DEFINE step == [i \in Nat |-> [v \in UInt32 |-> Times(s, v)]]
           IsF(f, k) == f = [i \in 0 .. k |-> IF i = 0 THEN s.initial_units ELSE Times(s, f[i - 1])]
           F(k) == CHOOSE f : IsF(f, k)
<1>1. ASSUME NEW k \in Nat
      PROVE  Exponential(s, k) = F(k)[k]
  BY DEF Exponential, Times
<1>2. ASSUME NEW k \in Nat
      PROVE  \E h \in [0 .. k -> UInt32] : IsF(h, k)
  <2>1. s.initial_units \in UInt32 /\ step \in [Nat -> [UInt32 -> UInt32]]
    BY TimesType DEF Schedule
  <2>2. PICK h : Iterates(h, UInt32, s.initial_units, step, k)
    <3> HIDE DEF step
    <3> QED
      BY <2>1, RecursionExists
  <2>3. ASSUME NEW i \in 0 .. k
        PROVE  h[i] = IF i = 0 THEN s.initial_units ELSE Times(s, h[i - 1])
    <3>1. CASE i # 0
      <4>1. i \in 1 .. k /\ h[i - 1] \in UInt32 /\ i \in Nat
        BY <2>2, <3>1 DEF Iterates
      <4> QED
        BY <2>2, <3>1, <4>1 DEF Iterates
    <3> QED
      BY <2>2, <3>1 DEF Iterates
  <2> QED
    BY <2>2, <2>3 DEF Iterates
<1>3. ASSUME NEW k \in Nat, NEW l \in Nat, NEW f, NEW h, IsF(f, k), IsF(h, l)
      PROVE  \A j \in Nat : j <= k /\ j <= l => f[j] = h[j]
  <2> DEFINE G == {j \in Nat : j <= k /\ j <= l => f[j] = h[j]}
  <2>1. \A i \in 0 .. k : f[i] = IF i = 0 THEN s.initial_units ELSE Times(s, f[i - 1])
    BY <1>3
  <2>2. \A i \in 0 .. l : h[i] = IF i = 0 THEN s.initial_units ELSE Times(s, h[i - 1])
    BY <1>3
  <2> HIDE DEF IsF
  <2>3. 0 \in G
    BY <2>1, <2>2
  <2>4. ASSUME NEW n \in Nat, n \in G
        PROVE  n + 1 \in G
    <3> SUFFICES ASSUME n + 1 <= k, n + 1 <= l
                 PROVE  f[n + 1] = h[n + 1]
      OBVIOUS
    <3>1. f[n] = h[n]
      BY <2>4
    <3>2. f[n + 1] = Times(s, f[n]) /\ h[n + 1] = Times(s, h[n])
      BY <2>1, <2>2
    <3> QED
      BY <3>1, <3>2
  <2> HIDE DEF G
  <2>5. \A n \in Nat : n \in G
    BY <2>3, <2>4, Induction
  <2> QED
    BY <2>5 DEF G
<1>4. ASSUME NEW k \in Nat
      PROVE  IsF(F(k), k) /\ F(k)[k] \in UInt32
  <2>1. PICK h \in [0 .. k -> UInt32] : IsF(h, k)
    BY <1>2
  <2> HIDE DEF IsF
  <2>2. IsF(F(k), k)
    BY <2>1
  <2> HIDE DEF F
  <2>3. F(k)[k] = h[k]
    BY <1>3, <2>1, <2>2
  <2> QED
    BY <2>2, <2>3
<1>5. Exponential(s, 0) = s.initial_units
  <2> HIDE DEF F
  <2>1. Exponential(s, 0) = F(0)[0] /\ IsF(F(0), 0)
    BY <1>1, <1>4
  <2> QED
    BY <2>1
<1>6. ASSUME NEW k \in Nat
      PROVE  Exponential(s, k) \in UInt32 /\ Exponential(s, k + 1) = Times(s, Exponential(s, k))
  <2> HIDE DEF F
  <2>1. /\ Exponential(s, k) = F(k)[k] /\ F(k)[k] \in UInt32 /\ IsF(F(k), k)
        /\ Exponential(s, k + 1) = F(k + 1)[k + 1] /\ IsF(F(k + 1), k + 1)
    <3> HIDE DEF IsF
    <3>1. k + 1 \in Nat
      OBVIOUS
    <3> QED
      BY <1>1, <1>4, <3>1
  <2>2. F(k + 1)[k + 1] = Times(s, F(k + 1)[k])
    BY <2>1
  <2> HIDE DEF IsF
  <2>3. F(k + 1)[k] = F(k)[k]
    BY <1>3, <2>1
  <2> QED
    BY <2>1, <2>2, <2>3
<1> QED
  BY <1>5, <1>6

(* A power of a number above 0 is above 0. *)
LEMMA PowerPositive ==
    ASSUME NEW g \in Nat \ {0}, NEW k \in Nat
    PROVE  Power(g, k) >= 1
<1> DEFINE G == {n \in Nat : Power(g, n) >= 1}
<1>1. 0 \in G
  BY PowerSteps
<1>2. ASSUME NEW n \in Nat, n \in G
      PROVE  n + 1 \in G
  <2>1. Power(g, n) \in Nat /\ Power(g, n) >= 1 /\ Power(g, n + 1) = Power(g, n) * g
    BY <1>2, PowerSteps
  <2> QED
    BY <2>1
<1> HIDE DEF G
<1>3. \A n \in Nat : n \in G
  BY <1>1, <1>2, Induction
<1> QED
  BY <1>3 DEF G

(* A round of the reference takes at least one unit if it is well formed,  *)
(* and never more than the most it may.                                    *)
LEMMA UnitsType ==
    ASSUME NEW s \in Schedule, NEW k \in Nat
    PROVE  /\ Units(s, k) \in Nat
           /\ Units(s, k) <= s.max_units
           /\ WellFormed(s) => Units(s, k) >= 1
<1>1. s.initial_units \in Nat /\ s.max_units \in Nat /\ s.growth \in Nat /\ s.kind \in Kind
  BY WordTypes DEF Schedule, UInt32
<1>2. Power(s.growth, k) \in Nat
  BY <1>1, PowerSteps
<1> DEFINE grown == CASE s.kind = "FIXED" -> s.initial_units
                      [] s.kind = "LINEAR" -> s.initial_units + k * s.growth
                      [] s.kind = "EXPONENTIAL" -> s.initial_units * Power(s.growth, k)
<1>3. k * s.growth \in Nat /\ s.initial_units * Power(s.growth, k) \in Nat
  BY <1>1, <1>2
<1>4. grown \in Nat
  BY <1>1, <1>3 DEF Kind
<1>5. ASSUME WellFormed(s)
      PROVE  grown >= 1
  <2>1. s.initial_units >= 1 /\ s.max_units >= 1
    BY <1>1, <1>5 DEF WellFormed
  <2>2. s.kind = "EXPONENTIAL" => s.growth >= 1
    BY <1>1, <1>5 DEF WellFormed
  <2>3. CASE s.kind = "EXPONENTIAL"
    <3>1. Power(s.growth, k) >= 1
      BY <1>1, <2>2, <2>3, PowerPositive
    <3>2. s.initial_units * Power(s.growth, k) >= 1
      BY <1>1, <1>2, <2>1, <3>1
    <3> QED
      BY <2>3, <3>2
  <2> QED
    BY <1>1, <1>3, <2>1, <2>3 DEF Kind
<1>6. Units(s, k) = IF grown < s.max_units THEN grown ELSE s.max_units
  BY DEF Units
<1>7. WellFormed(s) => s.max_units >= 1
  BY <1>1 DEF WellFormed
<1> HIDE DEF grown
<1> QED
  BY <1>1, <1>4, <1>5, <1>6, <1>7

(* The units of the rounds, in unbounded arithmetic. *)
LEMMA SumSteps ==
    ASSUME NEW s \in Schedule
    PROVE  /\ SumUnits(s, 0) = Units(s, 0)
           /\ \A k \in Nat : SumUnits(s, k) \in Nat /\ SumUnits(s, k + 1) = SumUnits(s, k) + Units(s, k + 1)
<1> DEFINE step == [i \in Nat |-> [v \in Nat |-> v + Units(s, i)]]
           IsF(f, k) == f = [i \in 0 .. k |-> IF i = 0 THEN Units(s, 0) ELSE f[i - 1] + Units(s, i)]
           F(k) == CHOOSE f : IsF(f, k)
<1>1. ASSUME NEW k \in Nat
      PROVE  SumUnits(s, k) = F(k)[k]
  BY DEF SumUnits
<1>2. ASSUME NEW k \in Nat
      PROVE  \E h \in [0 .. k -> Nat] : IsF(h, k)
  <2>1. Units(s, 0) \in Nat /\ step \in [Nat -> [Nat -> Nat]]
    BY UnitsType
  <2>2. PICK h : Iterates(h, Nat, Units(s, 0), step, k)
    <3> HIDE DEF step
    <3> QED
      BY <2>1, RecursionExists
  <2>3. ASSUME NEW i \in 0 .. k
        PROVE  h[i] = IF i = 0 THEN Units(s, 0) ELSE h[i - 1] + Units(s, i)
    <3>1. CASE i # 0
      <4>1. i \in 1 .. k /\ h[i - 1] \in Nat /\ i \in Nat
        BY <2>2, <3>1 DEF Iterates
      <4> QED
        BY <2>2, <3>1, <4>1 DEF Iterates
    <3> QED
      BY <2>2, <3>1 DEF Iterates
  <2> QED
    BY <2>2, <2>3 DEF Iterates
<1>3. ASSUME NEW k \in Nat, NEW l \in Nat, NEW f, NEW h, IsF(f, k), IsF(h, l)
      PROVE  \A j \in Nat : j <= k /\ j <= l => f[j] = h[j]
  <2> DEFINE G == {j \in Nat : j <= k /\ j <= l => f[j] = h[j]}
  <2>1. \A i \in 0 .. k : f[i] = IF i = 0 THEN Units(s, 0) ELSE f[i - 1] + Units(s, i)
    BY <1>3
  <2>2. \A i \in 0 .. l : h[i] = IF i = 0 THEN Units(s, 0) ELSE h[i - 1] + Units(s, i)
    BY <1>3
  <2> HIDE DEF IsF
  <2>3. 0 \in G
    BY <2>1, <2>2
  <2>4. ASSUME NEW n \in Nat, n \in G
        PROVE  n + 1 \in G
    <3> SUFFICES ASSUME n + 1 <= k, n + 1 <= l
                 PROVE  f[n + 1] = h[n + 1]
      OBVIOUS
    <3>1. f[n] = h[n]
      BY <2>4
    <3>2. f[n + 1] = f[n] + Units(s, n + 1) /\ h[n + 1] = h[n] + Units(s, n + 1)
      BY <2>1, <2>2
    <3> QED
      BY <3>1, <3>2
  <2> HIDE DEF G
  <2>5. \A n \in Nat : n \in G
    BY <2>3, <2>4, Induction
  <2> QED
    BY <2>5 DEF G
<1>4. ASSUME NEW k \in Nat
      PROVE  IsF(F(k), k) /\ F(k)[k] \in Nat
  <2>1. PICK h \in [0 .. k -> Nat] : IsF(h, k)
    BY <1>2
  <2> HIDE DEF IsF
  <2>2. IsF(F(k), k)
    BY <2>1
  <2> HIDE DEF F
  <2>3. F(k)[k] = h[k]
    BY <1>3, <2>1, <2>2
  <2> QED
    BY <2>2, <2>3
<1>5. SumUnits(s, 0) = Units(s, 0)
  <2> HIDE DEF F
  <2>1. SumUnits(s, 0) = F(0)[0] /\ IsF(F(0), 0)
    BY <1>1, <1>4
  <2> QED
    BY <2>1
<1>6. ASSUME NEW k \in Nat
      PROVE  SumUnits(s, k) \in Nat /\ SumUnits(s, k + 1) = SumUnits(s, k) + Units(s, k + 1)
  <2> HIDE DEF F
  <2>1. /\ SumUnits(s, k) = F(k)[k] /\ F(k)[k] \in Nat /\ IsF(F(k), k)
        /\ SumUnits(s, k + 1) = F(k + 1)[k + 1] /\ IsF(F(k + 1), k + 1)
    <3> HIDE DEF IsF
    <3>1. k + 1 \in Nat
      OBVIOUS
    <3> QED
      BY <1>1, <1>4, <3>1
  <2>2. F(k + 1)[k + 1] = F(k + 1)[k] + Units(s, k + 1)
    BY <2>1
  <2> HIDE DEF IsF
  <2>3. F(k + 1)[k] = F(k)[k]
    BY <1>3, <2>1
  <2> QED
    BY <2>1, <2>2, <2>3
<1> QED
  BY <1>5, <1>6

-----------------------------------------------------------------------------
(* The words the code computes are the numbers they stand for              *)

(* A factor that is not smaller does not make a product smaller. *)
LEMMA ProductGrows ==
    ASSUME NEW a \in Nat, NEW b \in Nat, NEW c \in Nat, a <= b
    PROVE  a * c <= b * c
<1>1. b * c = a * c + (b - a) * c
  OBVIOUS
<1>2. (b - a) * c \in Nat
  OBVIOUS
<1>3. a * c \in Nat /\ b * c \in Nat
  OBVIOUS
<1> QED
  BY <1>1, <1>2, <1>3

(* A check against a quotient is a check of the product. *)
LEMMA QuotientBounds ==
    ASSUME NEW n \in Nat, NEW d \in Nat \ {0}, NEW v \in Nat
    PROVE  v > n \div d <=> v * d > n
<1> DEFINE q == n \div d
<1>1. q \in Nat /\ q * d <= n /\ n < q * d + d
  OBVIOUS
<1> HIDE DEF q
<1>2. ASSUME v > q
      PROVE  v * d > n
  <2>1. (q + 1) * d <= v * d
    BY <1>1, <1>2, ProductGrows
  <2>2. (q + 1) * d = q * d + d
    BY <1>1
  <2>3. v * d \in Nat /\ q * d \in Nat
    BY <1>1
  <2> QED
    BY <1>1, <2>1, <2>2, <2>3
<1>3. ASSUME v <= q
      PROVE  v * d <= n
  <2>1. v * d <= q * d
    BY <1>1, <1>3, ProductGrows
  <2>2. v * d \in Nat /\ q * d \in Nat
    BY <1>1
  <2> QED
    BY <1>1, <2>1, <2>2
<1>4. v > q <=> ~(v <= q)
  BY <1>1
<1>5. v * d > n <=> ~(v * d <= n)
  OBVIOUS
<1> QED
  BY <1>2, <1>3, <1>4, <1>5 DEF q

(* An exponential schedule grows to its limit and stays there, and no      *)
(* product wraps on the way.                                               *)
LEMMA ExponentialIsCapped ==
    ASSUME NEW s \in Schedule, WellFormed(s), s.kind = "EXPONENTIAL",
           NEW k \in Nat
    PROVE  Exponential(s, k) = Units(s, k)
<1> DEFINE x(n) == s.initial_units * Power(s.growth, n)
           G == {n \in Nat : Exponential(s, n) = IF x(n) < s.max_units THEN x(n)
                                                 ELSE s.max_units}
<1>1. /\ s.initial_units \in Nat /\ s.max_units \in Nat /\ s.growth \in Nat \ {0}
      /\ s.initial_units <= s.max_units /\ s.max_units \in UInt32
  BY WordTypes DEF Schedule, UInt32, WellFormed
<1>2. ASSUME NEW n \in Nat
      PROVE  x(n) \in Nat /\ x(n + 1) = x(n) * s.growth
  <2>1. Power(s.growth, n) \in Nat /\ Power(s.growth, n + 1) = Power(s.growth, n) * s.growth
    BY <1>1, PowerSteps
  <2> QED
    BY <1>1, <2>1
<1>3. x(0) = s.initial_units
  <2>1. s.growth \in Nat
    BY <1>1
  <2>2. Power(s.growth, 0) = 1
    BY <2>1, PowerSteps
  <2> QED
    BY <1>1, <2>2
<1>4. 0 \in G
  BY <1>1, <1>3, ExponentialSteps
<1> HIDE DEF x
<1>5. ASSUME NEW n \in Nat, n \in G
      PROVE  n + 1 \in G
  <2>1. PICK v : v = Exponential(s, n)
    OBVIOUS
  <2>2. v = IF x(n) < s.max_units THEN x(n) ELSE s.max_units
    BY <1>5, <2>1
  <2>3. Exponential(s, n + 1) = Times(s, v)
    BY <2>1, ExponentialSteps
  <2>4. x(n) \in Nat /\ x(n + 1) = x(n) * s.growth
    BY <1>2
  <2>5. CASE v >= s.max_units
    <3>1. x(n) >= s.max_units /\ v = s.max_units /\ Times(s, v) = s.max_units
      BY <1>1, <2>2, <2>4, <2>5 DEF Times
    <3>2. 1 * x(n) <= s.growth * x(n)
      BY <1>1, <2>4, ProductGrows
    <3>3. x(n + 1) >= s.max_units
      BY <1>1, <2>4, <3>1, <3>2
    <3>4. ~(x(n + 1) < s.max_units)
      BY <1>1, <1>2, <3>3
    <3> QED
      BY <2>3, <3>1, <3>4
  <2>6. CASE ~(v >= s.max_units)
    <3>1. v = x(n) /\ v \in Nat
      BY <1>1, <2>2, <2>4, <2>6
    <3>2. v > s.max_units \div s.growth <=> x(n + 1) > s.max_units
      BY <1>1, <2>4, <3>1, QuotientBounds
    <3>3. x(n + 1) = v * s.growth /\ x(n + 1) \in Nat
      BY <1>2, <2>4, <3>1
    <3>4. CASE v > s.max_units \div s.growth
      <4>1. Times(s, v) = s.max_units /\ ~(x(n + 1) < s.max_units)
        BY <1>1, <2>6, <3>2, <3>3, <3>4 DEF Times
      <4> QED
        BY <2>3, <4>1
    <3>5. CASE ~(v > s.max_units \div s.growth)
      <4>1. x(n + 1) <= s.max_units
        BY <1>1, <3>2, <3>3, <3>5
      <4>2. x(n + 1) \in UInt32
        BY <1>1, <3>3, <4>1, WordTypes DEF UInt32
      <4>3. Times(s, v) = x(n + 1)
        BY <2>6, <3>3, <3>5, <4>2, WordTypes DEF Times
      <4> QED
        BY <1>1, <2>3, <3>3, <4>1, <4>3
    <3> QED
      BY <3>4, <3>5
  <2> QED
    BY <2>5, <2>6
<1>6. k \in G
  <2> HIDE DEF G
  <2> QED
    BY <1>4, <1>5, Induction
<1> QED
  BY <1>6 DEF Units, x

(* A linear schedule grows to its limit and stays there, and neither its   *)
(* product nor its sum wraps.                                              *)
LEMMA LinearIsCapped ==
    ASSUME NEW s \in Schedule, WellFormed(s), s.kind = "LINEAR", NEW k \in Nat
    PROVE  Linear(s, k) = Units(s, k)
<1>1. /\ s.initial_units \in Nat /\ s.max_units \in Nat /\ s.growth \in Nat \ {0}
      /\ s.initial_units <= s.max_units /\ s.max_units \in UInt32
  BY WordTypes DEF Schedule, UInt32, WellFormed
<1> DEFINE grown == s.initial_units + k * s.growth
<1>2. k * s.growth \in Nat /\ grown \in Nat
  BY <1>1
<1>3. k > (s.max_units - s.initial_units) \div s.growth <=> grown > s.max_units
  <2>1. s.max_units - s.initial_units \in Nat
    BY <1>1
  <2>2. k > (s.max_units - s.initial_units) \div s.growth
            <=> k * s.growth > s.max_units - s.initial_units
    BY <1>1, <2>1, QuotientBounds
  <2> QED
    BY <1>1, <1>2, <2>2
<1>4. Units(s, k) = IF grown < s.max_units THEN grown ELSE s.max_units
  BY DEF Units
<1>5. CASE grown > s.max_units
  BY <1>1, <1>2, <1>3, <1>4, <1>5 DEF Linear
<1>6. CASE ~(grown > s.max_units)
  <2>1. k * s.growth \in UInt32 /\ grown \in UInt32
    BY <1>1, <1>2, <1>6, WordTypes DEF UInt32
  <2>2. Wrap32(k * s.growth) = k * s.growth /\ Wrap32(grown) = grown
    BY <2>1, WordTypes
  <2>3. Linear(s, k) = grown
    BY <1>3, <1>6, <2>2 DEF Linear
  <2> HIDE DEF grown
  <2> QED
    BY <1>1, <1>2, <1>4, <1>6, <2>3
<1> QED
  BY <1>5, <1>6

(* The units of a round are those of the reference, and an error exactly   *)
(* if the schedule is malformed.                                           *)
LEMMA GapIsUnits ==
    ASSUME NEW s \in Schedule, NEW k \in Nat
    PROVE  /\ WellFormed(s) => r_ha_schedule_units(s, k) = Units(s, k)
           /\ ~WellFormed(s) => r_ha_schedule_units(s, k) = Error
<1>1. /\ s.initial_units \in Nat /\ s.max_units \in Nat /\ s.growth \in Nat
      /\ s.kind \in Kind
  BY WordTypes DEF Schedule, UInt32
<1> DEFINE Malformed ==
               \/ s.initial_units = 0
               \/ s.initial_units > s.max_units
               \/ s.kind = "LINEAR" /\ s.growth = 0
               \/ s.kind = "EXPONENTIAL" /\ s.growth < 2
<1>2. WellFormed(s) <=> ~Malformed
  <2>1. s.initial_units \in 1 .. s.max_units
            <=> ~(s.initial_units = 0 \/ s.initial_units > s.max_units)
    BY <1>1
  <2>2. (s.growth >= 1 <=> s.growth # 0) /\ (s.growth >= 2 <=> ~(s.growth < 2))
    BY <1>1
  <2> QED
    BY <2>1, <2>2, Zenon DEF WellFormed
<1>5. r_ha_schedule_units(s, k) =
          IF Malformed THEN Error
          ELSE CASE s.kind = "FIXED" -> s.initial_units
                 [] s.kind = "LINEAR" -> Linear(s, k)
                 [] s.kind = "EXPONENTIAL" -> Exponential(s, k)
  BY DEF r_ha_schedule_units
<1> HIDE DEF Malformed
<1>3. CASE ~WellFormed(s)
  BY <1>2, <1>3, <1>5
<1>4. CASE WellFormed(s)
  <2>1. r_ha_schedule_units(s, k) =
            CASE s.kind = "FIXED" -> s.initial_units
              [] s.kind = "LINEAR" -> Linear(s, k)
              [] s.kind = "EXPONENTIAL" -> Exponential(s, k)
    BY <1>2, <1>4, <1>5
  <2>2. CASE s.kind = "FIXED"
    <3>1. Units(s, k) = s.initial_units
      BY <1>1, <1>4, <2>2 DEF Units, WellFormed
    <3> QED
      BY <1>4, <2>1, <2>2, <3>1
  <2>3. CASE s.kind = "LINEAR"
    BY <1>4, <2>1, <2>3, LinearIsCapped
  <2>4. CASE s.kind = "EXPONENTIAL"
    BY <1>4, <2>1, <2>4, ExponentialIsCapped
  <2> QED
    BY <1>1, <2>2, <2>3, <2>4 DEF Kind
<1> QED
  BY <1>3, <1>4

(* What the loop over the rounds may hold. *)
Sums == 0 .. UINT64_MAX \cup {Error}

LEMMA AddGapType ==
    ASSUME NEW p \in Policy, NEW v \in Sums, NEW i \in Nat
    PROVE  AddGap(p, v, i) \in Sums
<1>1. PICK gap : gap = r_ha_schedule_units(p.replay_gap, i)
  OBVIOUS
<1>2. p.replay_gap \in Schedule
  BY DEF Policy
<1>3. gap \in Nat \cup {Error}
  BY <1>1, <1>2, GapIsUnits, UnitsType
<1>4. v # Error /\ gap # Error => Wrap64(v + gap) \in 0 .. UINT64_MAX
  <2> SUFFICES ASSUME v # Error, gap # Error
               PROVE  Wrap64(v + gap) \in 0 .. UINT64_MAX
    OBVIOUS
  <2>1. v + gap \in Int
    BY <1>3 DEF Sums
  <2> QED
    BY <2>1, WordTypes
<1>5. AddGap(p, v, i) = Error \/ (v # Error /\ gap # Error /\ AddGap(p, v, i) = Wrap64(v + gap))
  BY <1>1 DEF AddGap
<1> QED
  BY <1>4, <1>5 DEF Sums

(* The units of the rounds, as the loop adds them. *)
LEMMA TotalSteps ==
    ASSUME NEW p \in Policy
    PROVE  /\ TotalUnits(p, 0) = AddGap(p, 0, 0)
           /\ \A k \in Nat : TotalUnits(p, k) \in Sums /\ TotalUnits(p, k + 1) = AddGap(p, TotalUnits(p, k), k + 1)
<1> DEFINE step == [i \in Nat |-> [v \in Sums |-> AddGap(p, v, i)]]
           IsF(f, k) == f = [i \in 0 .. k |-> IF i = 0 THEN AddGap(p, 0, 0) ELSE AddGap(p, f[i - 1], i)]
           F(k) == CHOOSE f : IsF(f, k)
<1>1. ASSUME NEW k \in Nat
      PROVE  TotalUnits(p, k) = F(k)[k]
  BY DEF TotalUnits
<1>2. ASSUME NEW k \in Nat
      PROVE  \E h \in [0 .. k -> Sums] : IsF(h, k)
  <2>1. AddGap(p, 0, 0) \in Sums /\ step \in [Nat -> [Sums -> Sums]]
    <3>1. 0 \in Sums
      BY WordTypes DEF Sums
    <3> QED
      BY <3>1, AddGapType
  <2>2. PICK h : Iterates(h, Sums, AddGap(p, 0, 0), step, k)
    <3> HIDE DEF step
    <3> QED
      BY <2>1, RecursionExists
  <2>3. ASSUME NEW i \in 0 .. k
        PROVE  h[i] = IF i = 0 THEN AddGap(p, 0, 0) ELSE AddGap(p, h[i - 1], i)
    <3>1. CASE i # 0
      <4>1. i \in 1 .. k /\ h[i - 1] \in Sums /\ i \in Nat
        BY <2>2, <3>1 DEF Iterates
      <4> QED
        BY <2>2, <3>1, <4>1 DEF Iterates
    <3> QED
      BY <2>2, <3>1 DEF Iterates
  <2> QED
    BY <2>2, <2>3 DEF Iterates
<1>3. ASSUME NEW k \in Nat, NEW l \in Nat, NEW f, NEW h, IsF(f, k), IsF(h, l)
      PROVE  \A j \in Nat : j <= k /\ j <= l => f[j] = h[j]
  <2> DEFINE G == {j \in Nat : j <= k /\ j <= l => f[j] = h[j]}
  <2>1. \A i \in 0 .. k : f[i] = IF i = 0 THEN AddGap(p, 0, 0) ELSE AddGap(p, f[i - 1], i)
    BY <1>3
  <2>2. \A i \in 0 .. l : h[i] = IF i = 0 THEN AddGap(p, 0, 0) ELSE AddGap(p, h[i - 1], i)
    BY <1>3
  <2> HIDE DEF IsF
  <2>3. 0 \in G
    BY <2>1, <2>2
  <2>4. ASSUME NEW n \in Nat, n \in G
        PROVE  n + 1 \in G
    <3> SUFFICES ASSUME n + 1 <= k, n + 1 <= l
                 PROVE  f[n + 1] = h[n + 1]
      OBVIOUS
    <3>1. f[n] = h[n]
      BY <2>4
    <3>2. f[n + 1] = AddGap(p, f[n], n + 1) /\ h[n + 1] = AddGap(p, h[n], n + 1)
      BY <2>1, <2>2
    <3> QED
      BY <3>1, <3>2
  <2> HIDE DEF G
  <2>5. \A n \in Nat : n \in G
    BY <2>3, <2>4, Induction
  <2> QED
    BY <2>5 DEF G
<1>4. ASSUME NEW k \in Nat
      PROVE  IsF(F(k), k) /\ F(k)[k] \in Sums
  <2>1. PICK h \in [0 .. k -> Sums] : IsF(h, k)
    BY <1>2
  <2> HIDE DEF IsF
  <2>2. IsF(F(k), k)
    BY <2>1
  <2> HIDE DEF F
  <2>3. F(k)[k] = h[k]
    BY <1>3, <2>1, <2>2
  <2> QED
    BY <2>2, <2>3
<1>5. TotalUnits(p, 0) = AddGap(p, 0, 0)
  <2> HIDE DEF F
  <2>1. TotalUnits(p, 0) = F(0)[0] /\ IsF(F(0), 0)
    BY <1>1, <1>4
  <2> QED
    BY <2>1
<1>6. ASSUME NEW k \in Nat
      PROVE  TotalUnits(p, k) \in Sums /\ TotalUnits(p, k + 1) = AddGap(p, TotalUnits(p, k), k + 1)
  <2> HIDE DEF F
  <2>1. /\ TotalUnits(p, k) = F(k)[k] /\ F(k)[k] \in Sums /\ IsF(F(k), k)
        /\ TotalUnits(p, k + 1) = F(k + 1)[k + 1] /\ IsF(F(k + 1), k + 1)
    <3> HIDE DEF IsF
    <3>1. k + 1 \in Nat
      OBVIOUS
    <3> QED
      BY <1>1, <1>4, <3>1
  <2>2. F(k + 1)[k + 1] = AddGap(p, F(k + 1)[k], k + 1)
    BY <2>1
  <2> HIDE DEF IsF
  <2>3. F(k + 1)[k] = F(k)[k]
    BY <1>3, <2>1
  <2> QED
    BY <2>1, <2>2, <2>3
<1> QED
  BY <1>5, <1>6

-----------------------------------------------------------------------------
(* The announced TTL                                                       *)

(* The fields of a policy are machine words. *)
LEMMA PolicyTypes ==
    ASSUME NEW p \in Policy
    PROVE  /\ p.replay_gap \in Schedule
           /\ p.unit_ms \in Nat
           /\ p.replay_count \in Nat
           /\ p.final_receive_units \in Nat /\ p.final_receive_units <= UINT32_MAX
<1>1. /\ p.replay_gap \in Schedule /\ p.unit_ms \in UnitMs
      /\ p.replay_count \in 0 .. MaxReplayCount + 1 /\ p.final_receive_units \in FinalUnits
  BY DEF Policy
<1>2. p.unit_ms \in 0 .. UINT64_MAX /\ p.final_receive_units \in 0 .. UINT32_MAX
  BY <1>1, WidthAssumption
<1> QED
  BY <1>1, <1>2, WordTypes

(* The sum of the rounds is above 0 and does not shrink. *)
LEMMA SumGrows ==
    ASSUME NEW s \in Schedule, WellFormed(s), NEW j \in Nat, NEW k \in Nat, j <= k
    PROVE  SumUnits(s, j) >= 1 /\ SumUnits(s, j) <= SumUnits(s, k)
<1>1. \A n \in Nat : /\ SumUnits(s, n) \in Nat
                     /\ Units(s, n + 1) \in Nat
                     /\ SumUnits(s, n + 1) = SumUnits(s, n) + Units(s, n + 1)
  BY SumSteps, UnitsType
<1>2. SumUnits(s, 0) >= 1
  BY SumSteps, UnitsType
<1> DEFINE G == {n \in Nat : \A m \in 0 .. n : SumUnits(s, m) >= 1 /\ SumUnits(s, m) <= SumUnits(s, n)}
<1>3. 0 \in G
  BY <1>1, <1>2
<1>4. ASSUME NEW n \in Nat, n \in G
      PROVE  n + 1 \in G
  <2> SUFFICES ASSUME NEW m \in 0 .. n + 1
               PROVE  SumUnits(s, m) >= 1 /\ SumUnits(s, m) <= SumUnits(s, n + 1)
    OBVIOUS
  <2>1. SumUnits(s, n) >= 1 /\ SumUnits(s, n) <= SumUnits(s, n + 1) /\ SumUnits(s, n) \in Nat
    BY <1>1, <1>4
  <2>2. SumUnits(s, n + 1) \in Nat
    BY <1>1
  <2>3. CASE m = n + 1
    BY <2>1, <2>2, <2>3
  <2>4. CASE m # n + 1
    <3>1. m \in 0 .. n /\ m \in Nat
      BY <2>4
    <3>2. SumUnits(s, m) >= 1 /\ SumUnits(s, m) <= SumUnits(s, n) /\ SumUnits(s, m) \in Nat
      BY <1>1, <1>4, <3>1
    <3> QED
      BY <2>1, <2>2, <3>2
  <2> QED
    BY <2>3, <2>4
<1>5. k \in G
  <2> HIDE DEF G
  <2> QED
    BY <1>3, <1>4, Induction
<1> QED
  BY <1>5

(* What one more round makes of a sum that is not too long already. *)
LEMMA AddGapIsSum ==
    ASSUME NEW p \in Policy, WellFormed(p.replay_gap), p.unit_ms > 0,
           Limit \in UInt32, NEW i \in Nat, NEW v \in Nat,
           v <= Limit \div p.unit_ms
    PROVE  AddGap(p, v, i) = IF v + Units(p.replay_gap, i) > Limit \div p.unit_ms
                                 THEN Error ELSE v + Units(p.replay_gap, i)
<1>1. p.replay_gap \in Schedule /\ p.unit_ms \in Nat \ {0}
  BY PolicyTypes
<1>2. PICK gap : gap = Units(p.replay_gap, i)
  OBVIOUS
<1>3. gap = r_ha_schedule_units(p.replay_gap, i) /\ gap \in Nat /\ gap <= UINT32_MAX
  <2>1. gap <= p.replay_gap.max_units /\ p.replay_gap.max_units \in UInt32
    BY <1>1, <1>2, UnitsType DEF Schedule
  <2> QED
    BY <1>1, <1>2, <2>1, GapIsUnits, UnitsType, WordTypes DEF UInt32
<1>4. PICK q : q = Limit \div p.unit_ms
  OBVIOUS
<1>5. q \in Nat /\ q <= UINT32_MAX
  <2>1. Limit \in Nat /\ Limit <= UINT32_MAX
    BY WordTypes DEF UInt32
  <2>2. q > Limit <=> q * p.unit_ms > Limit
    <3>1. q \in Nat
      BY <1>1, <1>4, <2>1
    <3>2. q * p.unit_ms <= Limit
      BY <1>1, <1>4, <2>1
    <3>3. q * 1 <= p.unit_ms * q
      BY <1>1, <3>1, ProductGrows
    <3> QED
      BY <1>1, <2>1, <3>1, <3>2, <3>3
  <2>3. q \in Nat /\ q * p.unit_ms <= Limit
    BY <1>1, <1>4, <2>1
  <2> QED
    BY <1>1, <2>1, <2>2, <2>3, WordTypes
<1>6. v + gap \in 0 .. UINT64_MAX /\ ~(v > UINT64_MAX - gap) /\ v # Error /\ gap # Error
  BY <1>3, <1>4, <1>5, WordTypes DEF Error
<1>7. Wrap64(v + gap) = v + gap
  BY <1>6, WordTypes
<1> QED
  BY <1>2, <1>3, <1>4, <1>6, <1>7 DEF AddGap

(* The loop gives the units of the reference, or an error as soon as they  *)
(* are more than the limit allows.                                         *)
LEMMA TotalIsSum ==
    ASSUME NEW p \in Policy, WellFormed(p.replay_gap), p.unit_ms > 0,
           Limit \in UInt32, NEW k \in Nat
    PROVE  TotalUnits(p, k) =
               IF SumUnits(p.replay_gap, k) > Limit \div p.unit_ms
                   THEN Error ELSE SumUnits(p.replay_gap, k)
<1>1. p.replay_gap \in Schedule /\ p.unit_ms \in Nat \ {0}
  BY PolicyTypes
<1> DEFINE sum(n) == SumUnits(p.replay_gap, n)
           q == Limit \div p.unit_ms
           G == {n \in Nat : TotalUnits(p, n) = IF sum(n) > q THEN Error ELSE sum(n)}
<1>2. /\ sum(0) = Units(p.replay_gap, 0)
      /\ \A n \in Nat : sum(n) \in Nat /\ sum(n + 1) = sum(n) + Units(p.replay_gap, n + 1)
  BY <1>1, SumSteps
<1>3. \A n \in Nat : sum(n) <= sum(n + 1)
  BY <1>1, SumGrows
<1>4. q \in Nat
  BY <1>1, WordTypes DEF UInt32
<1>5. 0 \in G
  <2>1. AddGap(p, 0, 0) = IF 0 + Units(p.replay_gap, 0) > q THEN Error
                          ELSE 0 + Units(p.replay_gap, 0)
    BY <1>4, AddGapIsSum
  <2>2. TotalUnits(p, 0) = AddGap(p, 0, 0)
    BY TotalSteps
  <2>3. 0 + sum(0) = sum(0)
    BY <1>2
  <2> HIDE DEF sum, q
  <2> QED
    BY <1>2, <2>1, <2>2, <2>3
<1>6. ASSUME NEW n \in Nat, n \in G
      PROVE  n + 1 \in G
  <2>1. TotalUnits(p, n + 1) = AddGap(p, TotalUnits(p, n), n + 1)
    BY TotalSteps
  <2>2. CASE sum(n) > q
    <3>1. TotalUnits(p, n) = Error
      BY <1>6, <2>2
    <3>2. AddGap(p, TotalUnits(p, n), n + 1) = Error
      BY <3>1 DEF AddGap
    <3>3. sum(n + 1) > q
      <4> HIDE DEF sum, q
      <4> QED
        BY <1>2, <1>3, <1>4, <2>2
    <3> HIDE DEF sum, q
    <3> QED
      BY <2>1, <3>2, <3>3
  <2>3. CASE ~(sum(n) > q)
    <3>1. TotalUnits(p, n) = sum(n)
      BY <1>6, <2>3
    <3>2. sum(n) <= q /\ sum(n) \in Nat
      <4> HIDE DEF sum, q
      <4> QED
        BY <1>2, <1>4, <2>3
    <3>3. AddGap(p, sum(n), n + 1) = IF sum(n) + Units(p.replay_gap, n + 1) > q THEN Error
                                     ELSE sum(n) + Units(p.replay_gap, n + 1)
      <4>1. n + 1 \in Nat
        OBVIOUS
      <4> HIDE DEF sum
      <4> QED
        BY <3>2, <4>1, AddGapIsSum
    <3> HIDE DEF sum, q
    <3> QED
      BY <1>2, <2>1, <3>1, <3>3
  <2> QED
    BY <2>2, <2>3
<1>7. k \in G
  <2> HIDE DEF G
  <2> QED
    BY <1>5, <1>6, Induction
<1> QED
  BY <1>7

(* A malformed schedule has no total. *)
LEMMA MalformedHasNoTotal ==
    ASSUME NEW p \in Policy, ~WellFormed(p.replay_gap), NEW k \in Nat
    PROVE  TotalUnits(p, k) = Error
<1>1. p.replay_gap \in Schedule
  BY DEF Policy
<1>2. ASSUME NEW v, NEW i \in Nat
      PROVE  AddGap(p, v, i) = Error
  BY <1>1, GapIsUnits DEF AddGap
<1>3. CASE k = 0
  BY <1>2, <1>3, TotalSteps
<1>4. CASE k # 0
  <2>1. k - 1 \in Nat /\ (k - 1) + 1 = k
    BY <1>4
  <2>2. TotalUnits(p, (k - 1) + 1) = AddGap(p, TotalUnits(p, k - 1), (k - 1) + 1)
    BY <2>1, TotalSteps
  <2> QED
    BY <1>2, <2>1, <2>2
<1> QED
  BY <1>3, <1>4

(* The limit is a word, and above 0. *)
LEMMA LimitType ==
    ASSUME quota \in QuotaMs
    PROVE  Limit \in UInt32 /\ Limit >= 1
<1>1. quota \in 0 .. UINT32_MAX
  BY WidthAssumption
<1> QED
  BY <1>1, WordTypes DEF Limit, UInt32

(* The policies a client accepts, but for the end of the clock. *)
Fits(p) ==
    /\ p.unit_ms > 0
    /\ p.replay_count <= MaxReplayCount
    /\ WellFormed(p.replay_gap)
    /\ WholeMs(p) <= Limit

(* The announced TTL is the length of the schedule in unbounded            *)
(* arithmetic, and an error exactly if the policy does not fit.            *)
LEMMA TtlIsWholeMs ==
    ASSUME NEW p \in Policy, quota \in QuotaMs
    PROVE  /\ Fits(p) => /\ r_request_policy_ttl_ms(p) = WholeMs(p)
                         /\ WholeMs(p) \in Nat /\ WholeMs(p) >= 1 /\ WholeMs(p) <= UINT32_MAX
           /\ ~Fits(p) => r_request_policy_ttl_ms(p) = Error
<1>1. /\ p.replay_gap \in Schedule /\ p.unit_ms \in Nat /\ p.replay_count \in Nat
      /\ p.final_receive_units \in Nat /\ p.final_receive_units <= UINT32_MAX
  BY PolicyTypes
<1>2. Limit \in UInt32 /\ Limit \in Nat /\ Limit >= 1 /\ Limit <= UINT32_MAX
  BY LimitType, WordTypes DEF UInt32
<1>3. PICK sum : sum = SumUnits(p.replay_gap, p.replay_count)
  OBVIOUS
<1>4. PICK rounds : rounds = TotalUnits(p, p.replay_count)
  OBVIOUS
<1>5. PICK final : final = p.final_receive_units
  OBVIOUS
<1>6. sum \in Nat /\ WholeMs(p) = p.unit_ms * (sum + final)
  BY <1>1, <1>3, <1>5, SumSteps DEF WholeMs
<1>7. CASE p.unit_ms = 0 \/ p.replay_count > MaxReplayCount \/ ~WellFormed(p.replay_gap)
  <2>1. ~Fits(p)
    BY <1>1, <1>7, WidthAssumption DEF Fits
  <2>2. r_request_policy_ttl_ms(p) = Error
    <3>1. CASE p.unit_ms = 0 \/ p.replay_count > MaxReplayCount
      BY <3>1 DEF r_request_policy_ttl_ms
    <3>2. CASE ~WellFormed(p.replay_gap)
      <4>1. TotalUnits(p, p.replay_count) = Error
        BY <1>1, <3>2, MalformedHasNoTotal
      <4> QED
        BY <4>1 DEF r_request_policy_ttl_ms
    <3> QED
      BY <1>7, <3>1, <3>2
  <2> QED
    BY <2>1, <2>2
<1>8. CASE ~(p.unit_ms = 0 \/ p.replay_count > MaxReplayCount \/ ~WellFormed(p.replay_gap))
  <2>1. p.unit_ms \in Nat \ {0} /\ p.unit_ms > 0 /\ p.replay_count <= MaxReplayCount
        /\ WellFormed(p.replay_gap)
    BY <1>1, <1>8, WidthAssumption
  <2>2. sum >= 1
    BY <1>1, <1>3, <2>1, SumGrows
  <2>3. rounds = IF sum > Limit \div p.unit_ms THEN Error ELSE sum
    BY <1>1, <1>2, <1>3, <1>4, <2>1, TotalIsSum
  <2>4. PICK whole : whole = p.unit_ms * (sum + final)
    OBVIOUS
  <2>5. whole \in Nat /\ whole = (sum + final) * p.unit_ms /\ WholeMs(p) = whole
    BY <1>1, <1>5, <1>6, <2>4
  <2>6. /\ sum + final > Limit \div p.unit_ms <=> whole > Limit
        /\ sum + final > UINT32_MAX \div p.unit_ms <=> whole > UINT32_MAX
    <3>1. sum + final \in Nat /\ UINT32_MAX \in Nat
      BY <1>1, <1>5, <1>6, WordTypes
    <3> QED
      BY <1>2, <2>1, <2>5, <3>1, QuotientBounds
  <2>7. sum > Limit \div p.unit_ms => whole > Limit
    <3>1. sum > Limit \div p.unit_ms <=> sum * p.unit_ms > Limit
      BY <1>2, <1>6, <2>1, QuotientBounds
    <3>2. sum * p.unit_ms <= (sum + final) * p.unit_ms
      BY <1>1, <1>5, <1>6, <2>1, ProductGrows
    <3>3. sum * p.unit_ms \in Nat
      BY <1>6, <2>1
    <3> QED
      BY <1>2, <2>5, <3>1, <3>2, <3>3
  <2>8. p.unit_ms > Limit => whole > Limit
    <3>1. 1 * p.unit_ms <= (sum + final) * p.unit_ms
      BY <1>1, <1>5, <1>6, <2>1, <2>2, ProductGrows
    <3> QED
      BY <1>1, <1>2, <2>5, <3>1
  <2>9. Fits(p) <=> ~(whole > Limit)
    BY <1>2, <2>1, <2>5 DEF Fits
  <2>10. CASE whole > Limit
    <3>1. r_request_policy_ttl_ms(p) = Error
      <4>1. CASE sum > Limit \div p.unit_ms
        <5>1. TotalUnits(p, p.replay_count) = Error
          BY <1>4, <2>3, <4>1
        <5> QED
          BY <5>1 DEF r_request_policy_ttl_ms
      <4>2. CASE ~(sum > Limit \div p.unit_ms)
        <5>1. rounds = sum
          BY <2>3, <4>2
        <5>2. CASE p.unit_ms > Limit
          BY <5>2 DEF r_request_policy_ttl_ms
        <5>3. CASE sum > UINT64_MAX - final
          BY <1>4, <1>5, <5>1, <5>3 DEF r_request_policy_ttl_ms
        <5>4. CASE ~(sum > UINT64_MAX - final)
          <6>1. Wrap64(sum + final) = sum + final
            <7>1. sum + final \in 0 .. UINT64_MAX
              BY <1>1, <1>5, <1>6, <5>4, WordTypes
            <7> QED
              BY <7>1, WordTypes
          <6>2. Wrap64(TotalUnits(p, p.replay_count) + p.final_receive_units) > Limit \div p.unit_ms
            BY <1>4, <1>5, <2>6, <2>10, <5>1, <6>1
          <6> QED
            BY <6>2 DEF r_request_policy_ttl_ms
        <5> QED
          BY <5>2, <5>3, <5>4
      <4> QED
        BY <4>1, <4>2
    <3> QED
      BY <2>9, <2>10, <3>1
  <2>11. CASE ~(whole > Limit)
    <3>1. rounds = sum /\ ~(p.unit_ms > Limit)
      BY <2>3, <2>7, <2>8, <2>11
    <3>2. whole <= UINT32_MAX /\ whole >= 1
      <4>1. 1 * p.unit_ms <= (sum + final) * p.unit_ms
        BY <1>1, <1>5, <1>6, <2>1, <2>2, ProductGrows
      <4> QED
        BY <1>1, <1>2, <2>1, <2>5, <2>11, <4>1, WordTypes
    <3>3. sum + final \in Nat /\ sum + final <= whole
      <4>1. 1 * (sum + final) <= p.unit_ms * (sum + final)
        BY <1>1, <1>5, <1>6, <2>1, ProductGrows
      <4> QED
        BY <1>1, <1>5, <1>6, <2>4, <4>1
    <3>4. /\ ~(sum > UINT64_MAX - final)
          /\ Wrap64(sum + final) = sum + final
          /\ Wrap64(whole) = whole /\ Wrap32(whole) = whole
          /\ sum + final # 0 /\ sum # Error
      <4>1. sum + final \in 0 .. UINT64_MAX /\ whole \in 0 .. UINT64_MAX /\ whole \in UInt32
        BY <2>5, <3>2, <3>3, WordTypes DEF UInt32
      <4>2. ~(sum > UINT64_MAX - final) /\ sum + final # 0 /\ sum # Error
        BY <1>1, <1>5, <1>6, <2>2, <4>1, WordTypes DEF Error
      <4> QED
        BY <4>1, <4>2, WordTypes
    <3>5. /\ ~(sum + final > UINT32_MAX \div p.unit_ms)
          /\ ~(sum + final > Limit \div p.unit_ms)
      BY <2>5, <2>6, <2>11, <3>2, WordTypes
    <3>6. PICK announced : announced = r_request_policy_ttl_ms(p)
      OBVIOUS
    <3>7. announced = Wrap32(Wrap64((sum + final) * p.unit_ms))
      BY <1>4, <1>5, <1>8, <3>1, <3>4, <3>5, <3>6 DEF r_request_policy_ttl_ms
    <3>8. announced = whole
      BY <2>5, <3>4, <3>7
    <3> QED
      BY <2>5, <2>9, <2>11, <3>2, <3>6, <3>8
  <2> QED
    BY <2>10, <2>11
<1> QED
  BY <1>7, <1>8

-----------------------------------------------------------------------------
(* The walk through the rounds                                             *)

(* A window that ends before the clock does ends where it should.          *)
LEMMA WindowEndIsExact ==
    ASSUME policy \in Policy, NEW b \in Nat, NEW units \in Nat,
           b + policy.unit_ms * units <= UINT64_MAX
    PROVE  WindowEnd(b, units) = b + policy.unit_ms * units
<1>1. PICK window : window = policy.unit_ms * units
  OBVIOUS
<1>2. window \in Nat
  BY <1>1, PolicyTypes
<1>3. window \in 0 .. UINT64_MAX /\ b + window \in 0 .. UINT64_MAX
  BY <1>1, <1>2, WordTypes
<1>4. Wrap64(window) = window /\ Wrap64(b + window) = b + window
  BY <1>3, WordTypes
<1> QED
  BY <1>1, <1>4 DEF WindowEnd

(* The rounds up to k, with k not after the last one, fit in the TTL.      *)
LEMMA RoundsFit ==
    ASSUME NEW p \in Policy, WellFormed(p.replay_gap), NEW k \in 0 .. p.replay_count
    PROVE  /\ p.unit_ms * SumUnits(p.replay_gap, k) \in Nat
           /\ p.unit_ms * SumUnits(p.replay_gap, k) <= WholeMs(p)
           /\ WholeMs(p) = p.unit_ms * SumUnits(p.replay_gap, p.replay_count)
                               + p.unit_ms * p.final_receive_units
<1>1. /\ p.replay_gap \in Schedule /\ p.unit_ms \in Nat /\ p.replay_count \in Nat
      /\ p.final_receive_units \in Nat /\ k \in Nat /\ k <= p.replay_count
  BY PolicyTypes
<1>2. PICK sum : sum = SumUnits(p.replay_gap, k)
  OBVIOUS
<1>3. PICK all : all = SumUnits(p.replay_gap, p.replay_count)
  OBVIOUS
<1>4. PICK final : final = p.final_receive_units
  OBVIOUS
<1>5. sum \in Nat /\ all \in Nat /\ sum <= all
  BY <1>1, <1>2, <1>3, SumGrows, SumSteps
<1>6. sum * p.unit_ms <= (all + final) * p.unit_ms
  BY <1>1, <1>4, <1>5, ProductGrows
<1>7. /\ sum * p.unit_ms = p.unit_ms * sum /\ p.unit_ms * sum \in Nat
      /\ (all + final) * p.unit_ms = p.unit_ms * (all + final)
      /\ p.unit_ms * (all + final) = p.unit_ms * all + p.unit_ms * final
  BY <1>1, <1>4, <1>5
<1>8. WholeMs(p) = p.unit_ms * (all + final)
  BY <1>3, <1>4 DEF WholeMs
<1> QED
  BY <1>2, <1>3, <1>4, <1>6, <1>7, <1>8

LEMMA InitInv == ScheduleInit => ScheduleInv
<1> SUFFICES ASSUME ScheduleInit PROVE ScheduleInv
  OBVIOUS
<1>1. ScheduleTypeOK
  BY WordTypes, PolicyTypes DEF ScheduleInit, ScheduleTypeOK, UInt32
<1>2. TtlIsWholeSchedule
  BY DEF ScheduleInit, TtlIsWholeSchedule
<1>3. WindowsInv
  BY DEF ScheduleInit, WindowsInv
<1> QED
  BY <1>1, <1>2, <1>3 DEF ScheduleInv

(* A refused submit is one whose policy does not fit, or would pass the    *)
(* end of the clock.                                                       *)
LEMMA SubmitRefusedKeeps ==
    ASSUME ScheduleInv, NEW t \in StartMs, SubmitRefused(t)
    PROVE  ScheduleInv'
<1>1. policy \in Policy /\ quota \in QuotaMs /\ t \in 0 .. UINT64_MAX
  BY WidthAssumption DEF ScheduleInv, ScheduleTypeOK
<1>2. /\ phase' = "refused" /\ start' = t /\ policy' = policy /\ quota' = quota
      /\ dedup_ttl_ms' = dedup_ttl_ms /\ round' = round /\ deadline' = deadline
  BY DEF SubmitRefused
<1>3. ScheduleTypeOK'
  BY <1>1, <1>2 DEF ScheduleInv, ScheduleTypeOK
<1>4. PICK announced : announced = r_request_policy_ttl_ms(policy)
  OBVIOUS
<1>5. announced \in {Error, 0} \/ t > UINT64_MAX - announced
  BY <1>4 DEF SubmitRefused
<1>6. ~(Fits(policy) /\ t + WholeMs(policy) <= UINT64_MAX)
  <2> SUFFICES ASSUME Fits(policy), t + WholeMs(policy) <= UINT64_MAX
               PROVE  FALSE
    OBVIOUS
  <2>1. announced = WholeMs(policy) /\ WholeMs(policy) \in Nat /\ WholeMs(policy) >= 1
    BY <1>1, <1>4, TtlIsWholeMs
  <2> QED
    BY <1>1, <1>5, <2>1, WordTypes DEF Error
<1>7. TtlIsWholeSchedule'
  <2>1. Limit' = Limit
    BY <1>2 DEF Limit
  <2> QED
    BY <1>2, <1>6, <2>1 DEF TtlIsWholeSchedule, Fits
<1>8. WindowsInv'
  BY <1>2 DEF WindowsInv
<1> QED
  BY <1>3, <1>7, <1>8 DEF ScheduleInv

(* An accepted submit announces the whole schedule and opens the first     *)
(* window.                                                                 *)
LEMMA SubmitKeeps ==
    ASSUME ScheduleInv, NEW t \in StartMs, SubmitPolicy(t)
    PROVE  ScheduleInv'
<1>1. policy \in Policy /\ quota \in QuotaMs /\ t \in 0 .. UINT64_MAX /\ t \in Nat
  BY WidthAssumption, WordTypes DEF ScheduleInv, ScheduleTypeOK
<1>2. /\ phase' = "ROUND" /\ start' = t /\ policy' = policy /\ quota' = quota
      /\ dedup_ttl_ms' = r_request_policy_ttl_ms(policy) /\ round' = 0
      /\ deadline' = WindowEnd(t, r_ha_schedule_units(policy.replay_gap, 0))
  BY DEF SubmitPolicy
<1>3. PICK whole : whole = WholeMs(policy)
  OBVIOUS
<1>4. /\ Fits(policy) /\ dedup_ttl_ms' = whole
      /\ whole \in Nat /\ whole <= UINT32_MAX /\ t + whole <= UINT64_MAX
  <2>1. dedup_ttl_ms' # Error /\ t <= UINT64_MAX - dedup_ttl_ms'
    BY DEF SubmitPolicy
  <2>2. Fits(policy)
    BY <1>1, <1>2, <2>1, TtlIsWholeMs
  <2>3. dedup_ttl_ms' = whole /\ whole \in Nat /\ whole <= UINT32_MAX
    BY <1>1, <1>2, <1>3, <2>2, TtlIsWholeMs
  <2> QED
    BY <1>1, <2>1, <2>2, <2>3, WordTypes
<1>5. deadline' = t + policy.unit_ms * SumUnits(policy.replay_gap, 0)
      /\ deadline' \in 0 .. UINT64_MAX
  <2>1. policy.replay_gap \in Schedule /\ WellFormed(policy.replay_gap) /\ policy.unit_ms \in Nat
        /\ policy.replay_count \in Nat
    BY <1>1, <1>4, PolicyTypes DEF Fits
  <2>2. PICK units : units = SumUnits(policy.replay_gap, 0)
    OBVIOUS
  <2>3. units = r_ha_schedule_units(policy.replay_gap, 0) /\ units \in Nat
    BY <2>1, <2>2, SumSteps, GapIsUnits
  <2>4. PICK window : window = policy.unit_ms * units
    OBVIOUS
  <2>5. window \in Nat /\ window <= whole
    <3>1. 0 \in 0 .. policy.replay_count
      BY <2>1
    <3> QED
      BY <1>1, <1>3, <2>1, <2>2, <2>4, <3>1, RoundsFit
  <2>6. t + window <= UINT64_MAX
    BY <1>1, <1>4, <2>5, WordTypes
  <2>7. WindowEnd(t, units) = t + window
    BY <1>1, <2>3, <2>4, <2>6, WindowEndIsExact
  <2> QED
    BY <1>1, <1>2, <2>2, <2>3, <2>4, <2>5, <2>6, <2>7, WordTypes
<1>6. ScheduleTypeOK'
  <2>1. dedup_ttl_ms' \in UInt32
    BY <1>4, WordTypes DEF UInt32
  <2>2. round' \in 0 .. policy.replay_count
    BY <1>1, <1>2, PolicyTypes
  <2> QED
    BY <1>1, <1>2, <1>5, <2>1, <2>2 DEF ScheduleTypeOK
<1>7. TtlIsWholeSchedule'
  <2>1. Limit' = Limit
    BY <1>2 DEF Limit
  <2> QED
    BY <1>2, <1>3, <1>4, <2>1 DEF TtlIsWholeSchedule, Fits
<1>8. WindowsInv'
  BY <1>2, <1>5 DEF WindowsInv
<1> QED
  BY <1>6, <1>7, <1>8 DEF ScheduleInv

(* What holds of a request that walks through its rounds. *)
LEMMA Walking ==
    ASSUME ScheduleInv, phase = "ROUND"
    PROVE  /\ policy \in Policy /\ WellFormed(policy.replay_gap)
           /\ policy.unit_ms \in Nat /\ policy.replay_gap \in Schedule
           /\ policy.replay_count \in Nat /\ policy.final_receive_units \in Nat
           /\ round \in 0 .. policy.replay_count
           /\ start \in Nat /\ deadline \in Nat
           /\ dedup_ttl_ms = WholeMs(policy) /\ dedup_ttl_ms \in Nat /\ start + dedup_ttl_ms <= UINT64_MAX
           /\ deadline = start + policy.unit_ms * SumUnits(policy.replay_gap, round)
<1>1. policy \in Policy /\ round \in 0 .. policy.replay_count /\ dedup_ttl_ms \in Nat
      /\ start \in Nat /\ deadline \in Nat
  BY WordTypes DEF ScheduleInv, ScheduleTypeOK, UInt32
<1>2. WellFormed(policy.replay_gap) /\ dedup_ttl_ms = WholeMs(policy) /\ start + dedup_ttl_ms <= UINT64_MAX
  BY DEF ScheduleInv, TtlIsWholeSchedule
<1>3. deadline = start + policy.unit_ms * SumUnits(policy.replay_gap, round)
  BY DEF ScheduleInv, WindowsInv
<1> QED
  BY <1>1, <1>2, <1>3, PolicyTypes

(* A replay's window begins where the one before ended and still ends      *)
(* within the TTL.                                                         *)
LEMMA StartRoundKeeps ==
    ASSUME ScheduleInv, StartRound
    PROVE  ScheduleInv'
<1>1. /\ phase = "ROUND" /\ round < policy.replay_count /\ round' = round + 1
      /\ deadline' = WindowEnd(deadline, r_ha_schedule_units(policy.replay_gap, round + 1))
      /\ policy' = policy /\ quota' = quota /\ phase' = phase /\ start' = start /\ dedup_ttl_ms' = dedup_ttl_ms
  BY DEF StartRound
<1>2. PICK gap : gap = policy.replay_gap
  OBVIOUS
<1>3. PICK unit : unit = policy.unit_ms
  OBVIOUS
<1>4. /\ policy \in Policy /\ WellFormed(gap) /\ unit \in Nat /\ gap \in Schedule
      /\ round \in Nat /\ round + 1 \in 0 .. policy.replay_count
      /\ start \in Nat /\ deadline \in Nat
      /\ dedup_ttl_ms = WholeMs(policy) /\ dedup_ttl_ms \in Nat /\ start + dedup_ttl_ms <= UINT64_MAX
      /\ deadline = start + unit * SumUnits(gap, round)
  BY <1>1, <1>2, <1>3, Walking
<1>5. PICK units : units = Units(gap, round + 1)
  OBVIOUS
<1>6. PICK before : before = SumUnits(gap, round)
  OBVIOUS
<1>7. PICK sum : sum = SumUnits(gap, round + 1)
  OBVIOUS
<1>8. /\ units \in Nat /\ before \in Nat /\ sum = before + units
      /\ units = r_ha_schedule_units(gap, round + 1)
  BY <1>4, <1>5, <1>6, <1>7, SumSteps, UnitsType, GapIsUnits
<1>9. unit * sum = unit * before + unit * units /\ unit * before \in Nat /\ unit * units \in Nat
  BY <1>4, <1>8
<1>10. unit * sum \in Nat /\ unit * sum <= dedup_ttl_ms
  BY <1>2, <1>3, <1>4, <1>7, RoundsFit
<1>11. deadline + unit * units = start + unit * sum /\ start + unit * sum <= UINT64_MAX
  BY <1>4, <1>6, <1>9, <1>10, WordTypes
<1>12. deadline' = start + unit * sum
  <2>1. WindowEnd(deadline, units) = deadline + unit * units
    BY <1>3, <1>4, <1>8, <1>11, WindowEndIsExact
  <2> QED
    BY <1>1, <1>2, <1>8, <1>11, <2>1
<1>13. ScheduleTypeOK'
  <2>1. deadline' \in 0 .. UINT64_MAX
    BY <1>4, <1>10, <1>11, <1>12, WordTypes
  <2> QED
    BY <1>1, <1>4, <2>1 DEF ScheduleInv, ScheduleTypeOK
<1>14. TtlIsWholeSchedule'
  <2>1. Limit' = Limit
    BY <1>1 DEF Limit
  <2> QED
    BY <1>1, <2>1 DEF ScheduleInv, TtlIsWholeSchedule
<1>15. WindowsInv'
  BY <1>1, <1>2, <1>3, <1>7, <1>12 DEF WindowsInv
<1> QED
  BY <1>13, <1>14, <1>15 DEF ScheduleInv

(* The receive-only window ends with the TTL. *)
LEMMA EnterFinalKeeps ==
    ASSUME ScheduleInv, EnterFinal
    PROVE  ScheduleInv'
<1>1. /\ phase = "ROUND" /\ round = policy.replay_count /\ phase' = "FINAL"
      /\ deadline' = WindowEnd(deadline, policy.final_receive_units)
      /\ policy' = policy /\ quota' = quota /\ round' = round /\ start' = start /\ dedup_ttl_ms' = dedup_ttl_ms
  BY DEF EnterFinal
<1>2. /\ policy \in Policy /\ WellFormed(policy.replay_gap)
      /\ policy.unit_ms \in Nat /\ policy.final_receive_units \in Nat
      /\ policy.replay_count \in 0 .. policy.replay_count
      /\ start \in Nat /\ deadline \in Nat
      /\ dedup_ttl_ms = WholeMs(policy) /\ dedup_ttl_ms \in Nat /\ start + dedup_ttl_ms <= UINT64_MAX
      /\ deadline = start + policy.unit_ms * SumUnits(policy.replay_gap, policy.replay_count)
  BY <1>1, Walking
<1>3. PICK rounds : rounds = policy.unit_ms * SumUnits(policy.replay_gap, policy.replay_count)
  OBVIOUS
<1>4. PICK window : window = policy.unit_ms * policy.final_receive_units
  OBVIOUS
<1>5. rounds \in Nat /\ window \in Nat /\ dedup_ttl_ms = rounds + window
  BY <1>2, <1>3, <1>4, RoundsFit
<1>6. deadline + window = start + dedup_ttl_ms
  BY <1>2, <1>3, <1>5
<1>7. deadline' = start + dedup_ttl_ms
  <2>1. WindowEnd(deadline, policy.final_receive_units) = deadline + window
    BY <1>2, <1>4, <1>6, WindowEndIsExact
  <2> QED
    BY <1>1, <1>6, <2>1
<1>8. ScheduleTypeOK'
  <2>1. deadline' \in 0 .. UINT64_MAX
    BY <1>2, <1>7, WordTypes
  <2> QED
    BY <1>1, <2>1 DEF ScheduleInv, ScheduleTypeOK
<1>9. TtlIsWholeSchedule'
  <2>1. Limit' = Limit
    BY <1>1 DEF Limit
  <2> QED
    BY <1>1, <2>1 DEF ScheduleInv, TtlIsWholeSchedule
<1>10. WindowsInv'
  BY <1>1, <1>7 DEF WindowsInv
<1> QED
  BY <1>8, <1>9, <1>10 DEF ScheduleInv

LEMMA NextKeeps == ScheduleInv /\ [ScheduleNext]_scheduleVars => ScheduleInv'
<1> SUFFICES ASSUME ScheduleInv, [ScheduleNext]_scheduleVars PROVE ScheduleInv'
  OBVIOUS
<1>1. CASE UNCHANGED scheduleVars
  <2>1. Limit' = Limit
    BY <1>1 DEF scheduleVars, Limit
  <2> QED
    BY <1>1, <2>1 DEF scheduleVars, ScheduleInv, ScheduleTypeOK, TtlIsWholeSchedule, WindowsInv
<1>2. CASE \E t \in StartMs : SubmitPolicy(t)
  BY <1>2, SubmitKeeps
<1>3. CASE \E t \in StartMs : SubmitRefused(t)
  BY <1>3, SubmitRefusedKeeps
<1>4. CASE StartRound
  BY <1>4, StartRoundKeeps
<1>5. CASE EnterFinal
  BY <1>5, EnterFinalKeeps
<1> QED
  BY <1>1, <1>2, <1>3, <1>4, <1>5 DEF ScheduleNext

(* Every reachable state satisfies the inductive invariant: the fields     *)
(* keep their types, and each window of r_start_round ends where the       *)
(* schedule in unbounded arithmetic puts it.                               *)
THEOREM Invariance == ScheduleSpec => []ScheduleInv
  BY InitInv, NextKeeps, PTL DEF ScheduleSpec

(* For words of every width that C's conversions allow, any number of      *)
(* replays and every policy: r_request_policy_ttl_ms announces the exact   *)
(* length of the schedule, and refuses exactly the policies that are       *)
(* malformed, too long or beyond the end of the clock.                     *)
THEOREM TtlAlwaysExact == ScheduleSpec => []TtlIsWholeSchedule
<1>1. ScheduleInv => TtlIsWholeSchedule
  BY DEF ScheduleInv
<1> QED
  BY <1>1, Invariance, PTL

(* The last window of r_start_round or r_enter_final ends when the         *)
(* announced TTL does, however many rounds were walked and whatever they   *)
(* grew by.                                                                *)
THEOREM WalkAlwaysEndsAtTtl == ScheduleSpec => []WalkEndsAtTtl
<1>1. ScheduleInv => WalkEndsAtTtl
  <2> SUFFICES ASSUME ScheduleInv, phase = "ROUND", round = policy.replay_count,
                      policy.final_receive_units = 0
               PROVE  deadline = start + dedup_ttl_ms
    BY DEF ScheduleInv, WindowsInv, WalkEndsAtTtl
  <2>1. /\ policy \in Policy /\ WellFormed(policy.replay_gap)
        /\ policy.unit_ms \in Nat /\ policy.replay_count \in 0 .. policy.replay_count
        /\ dedup_ttl_ms = WholeMs(policy)
        /\ deadline = start + policy.unit_ms * SumUnits(policy.replay_gap, policy.replay_count)
    BY Walking
  <2>2. PICK rounds : rounds = policy.unit_ms * SumUnits(policy.replay_gap, policy.replay_count)
    OBVIOUS
  <2>3. rounds \in Nat /\ dedup_ttl_ms = rounds + policy.unit_ms * 0
    BY <2>1, <2>2, RoundsFit
  <2> QED
    BY <2>1, <2>2, <2>3
<1> QED
  BY <1>1, Invariance, PTL

=============================================================================
