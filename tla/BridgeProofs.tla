---------------------------- MODULE BridgeProofs ----------------------------
(***************************************************************************)
(* Proofs about Bridge: no thread ever holds a job that was freed, work    *)
(* that was run is never denied, and a destroyed bridge leaves nothing     *)
(* behind, for any number of handlers.                                     *)
(***************************************************************************)
EXTENDS Bridge, SequenceTheorems, TLAPS

-----------------------------------------------------------------------------
(* Lists of jobs *)

\* The members of a list.
LEMMA Members ==
    ASSUME NEW S, NEW s \in Seq(S)
    PROVE  /\ ToSet(s) \subseteq S
           /\ \A x : x \in ToSet(s) <=> \E i \in 1..Len(s) : s[i] = x
           /\ s = <<>> <=> ToSet(s) = {}
  <1>1. DOMAIN s = 1..Len(s) /\ Len(s) \in Nat /\ \A i \in 1..Len(s) : s[i] \in S
    OBVIOUS
  <1>2. ToSet(s) \subseteq S /\ \A x : x \in ToSet(s) <=> \E i \in 1..Len(s) : s[i] = x
    BY <1>1 DEF ToSet
  <1>3. s = <<>> <=> Len(s) = 0
    BY EmptySeq
  <1>4. s # <<>> => 1 \in 1..Len(s)
    BY <1>1, <1>3
  <1>5. s = <<>> => ToSet(s) = {}
    BY <1>2, <1>3
  <1> QED BY <1>2, <1>4, <1>5

\* No member twice.
LEMMA Unique ==
    ASSUME NEW S, NEW s \in Seq(S)
    PROVE  IsInjective(s) <=> \A a, b \in 1..Len(s) : s[a] = s[b] => a = b
  BY DEF IsInjective

LEMMA EmptyList == ToSet(<<>>) = {} /\ IsInjective(<<>>)
  BY DEF ToSet, IsInjective

\* Queueing at the tail.
LEMMA AppendList ==
    ASSUME NEW S, NEW s \in Seq(S), NEW x \in S, IsInjective(s), x \notin ToSet(s)
    PROVE  /\ Append(s, x) \in Seq(S)
           /\ ToSet(Append(s, x)) = ToSet(s) \cup {x}
           /\ IsInjective(Append(s, x))
  <1> DEFINE t == Append(s, x)
  <1>1. /\ t \in Seq(S) /\ Len(t) = Len(s) + 1 /\ Len(s) \in Nat
        /\ \A i \in 1..Len(s) : t[i] = s[i]
        /\ t[Len(s) + 1] = x
    BY AppendProperties, LenProperties
  <1> HIDE DEF t
  <1>2. \A i \in 1..Len(t) : i \in 1..Len(s) \/ i = Len(s) + 1
    BY <1>1
  <1>3. 1..Len(s) \subseteq 1..Len(t) /\ Len(s) + 1 \in 1..Len(t)
    BY <1>1
  <1>4. \A y : y \in ToSet(t) <=> y \in ToSet(s) \/ y = x
    BY <1>1, <1>2, <1>3, Members
  <1>5. \A i \in 1..Len(s) : s[i] # x
    BY Members
  <1>6. IsInjective(t)
    BY <1>1, <1>2, <1>5, Unique
  <1> QED BY <1>1, <1>4, <1>6 DEF t

\* Linking at the head.
LEMMA ConsList ==
    ASSUME NEW S, NEW s \in Seq(S), NEW x \in S, IsInjective(s), x \notin ToSet(s)
    PROVE  /\ <<x>> \o s \in Seq(S)
           /\ ToSet(<<x>> \o s) = ToSet(s) \cup {x}
           /\ IsInjective(<<x>> \o s)
  <1> DEFINE t == <<x>> \o s
  <1>1. /\ t \in Seq(S) /\ Len(t) = Len(s) + 1 /\ Len(s) \in Nat
        /\ \A i \in 1..Len(t) : t[i] = IF i = 1 THEN x ELSE s[i - 1]
    <2>1. <<x>> \in Seq(S) /\ Len(<<x>>) = 1 /\ <<x>>[1] = x /\ Len(s) \in Nat
      OBVIOUS
    <2>2. /\ t \in Seq(S) /\ Len(t) = 1 + Len(s)
          /\ \A i \in 1..(1 + Len(s)) : t[i] = IF i <= 1 THEN <<x>>[i] ELSE s[i - 1]
      BY <2>1, ConcatProperties
    <2> HIDE DEF t
    <2> QED BY <2>1, <2>2
  <1> HIDE DEF t
  <1>2. \A i \in 1..Len(t) : i = 1 \/ (i - 1 \in 1..Len(s) /\ t[i] = s[i - 1])
    BY <1>1
  <1>3. /\ 1 \in 1..Len(t) /\ t[1] = x
        /\ \A i \in 1..Len(s) : i + 1 \in 1..Len(t) /\ t[i + 1] = s[i]
    BY <1>1
  <1>4. \A y : y \in ToSet(t) <=> y \in ToSet(s) \/ y = x
    <2>0. /\ \A y : y \in ToSet(t) <=> \E i \in 1..Len(t) : t[i] = y
          /\ \A y : y \in ToSet(s) <=> \E i \in 1..Len(s) : s[i] = y
      BY <1>1, Members
    <2>1. ASSUME NEW y, y \in ToSet(t) PROVE y \in ToSet(s) \/ y = x
      BY <1>2, <1>3, <2>0, <2>1
    <2>2. ASSUME NEW y, y \in ToSet(s) PROVE y \in ToSet(t)
      <3>1. PICK i \in 1..Len(s) : s[i] = y
        BY <2>0, <2>2
      <3> QED BY <1>3, <2>0, <3>1
    <2>3. x \in ToSet(t)
      BY <1>3, <2>0
    <2> QED BY <2>1, <2>2, <2>3
  <1>5. \A i \in 1..Len(s) : s[i] # x
    BY Members
  <1>6. IsInjective(t)
    <2> SUFFICES ASSUME NEW a \in 1..Len(t), NEW b \in 1..Len(t), t[a] = t[b]
                 PROVE  a = b
      BY <1>1, Unique
    <2>1. CASE a = 1
      BY <1>2, <1>3, <1>5, <2>1
    <2>2. CASE b = 1
      BY <1>2, <1>3, <1>5, <2>2
    <2>3. CASE a # 1 /\ b # 1
      <3>1. a - 1 \in 1..Len(s) /\ b - 1 \in 1..Len(s) /\ s[a - 1] = s[b - 1]
        BY <1>2, <2>3
      <3>2. a - 1 = b - 1
        BY <3>1, Unique
      <3> QED BY <3>2
    <2> QED BY <2>1, <2>2, <2>3
  <1> QED BY <1>1, <1>4, <1>6 DEF t

\* Taking the first job.
LEMMA TailList ==
    ASSUME NEW S, NEW s \in Seq(S), s # <<>>, IsInjective(s)
    PROVE  /\ Head(s) \in ToSet(s)
           /\ Tail(s) \in Seq(S)
           /\ ToSet(Tail(s)) = ToSet(s) \ {Head(s)}
           /\ IsInjective(Tail(s))
  <1> DEFINE t == Tail(s)
  <1>1. /\ t \in Seq(S) /\ Len(t) = Len(s) - 1 /\ Len(s) \in Nat /\ Len(s) # 0
        /\ \A i \in 1..Len(t) : t[i] = s[i + 1]
        /\ Head(s) = s[1]
    BY HeadTailProperties, EmptySeq, LenProperties
  <1> HIDE DEF t
  <1>2. \A i \in 1..Len(s) : i = 1 \/ (i - 1 \in 1..Len(t) /\ t[i - 1] = s[i])
    BY <1>1
  <1>3. \A i \in 1..Len(t) : i + 1 \in 1..Len(s) /\ i + 1 # 1 /\ t[i] = s[i + 1]
    BY <1>1
  <1>4. 1 \in 1..Len(s)
    BY <1>1
  <1>5. \A i \in 1..Len(t) : t[i] # s[1]
    BY <1>3, <1>4, Unique
  <1>6. \A y : y \in ToSet(t) <=> y \in ToSet(s) /\ y # s[1]
    <2>0. /\ \A y : y \in ToSet(t) <=> \E i \in 1..Len(t) : t[i] = y
          /\ \A y : y \in ToSet(s) <=> \E i \in 1..Len(s) : s[i] = y
      BY <1>1, Members
    <2>1. ASSUME NEW y, y \in ToSet(t) PROVE y \in ToSet(s) /\ y # s[1]
      <3>1. PICK i \in 1..Len(t) : t[i] = y
        BY <2>0, <2>1
      <3> QED BY <1>3, <1>5, <2>0, <3>1
    <2>2. ASSUME NEW y, y \in ToSet(s), y # s[1] PROVE y \in ToSet(t)
      <3>1. PICK i \in 1..Len(s) : s[i] = y
        BY <2>0, <2>2
      <3> QED BY <1>2, <2>0, <2>2, <3>1
    <2> QED BY <2>1, <2>2
  <1>7. IsInjective(t)
    <2> SUFFICES ASSUME NEW a \in 1..Len(t), NEW b \in 1..Len(t), t[a] = t[b]
                 PROVE  a = b
      BY <1>1, Unique
    <2>1. a + 1 = b + 1
      BY <1>3, Unique
    <2> QED BY <2>1
  <1>8. Head(s) \in ToSet(s)
    BY <1>1, <1>4, Members
  <1> QED BY <1>1, <1>6, <1>7, <1>8 DEF t

\* Unlinking one job: remove_active.
LEMMA UnlinkList ==
    ASSUME NEW S, NEW s \in Seq(S), NEW x \in ToSet(s), IsInjective(s)
    PROVE  /\ RemoveFirst(s, x) \in Seq(S)
           /\ ToSet(RemoveFirst(s, x)) = ToSet(s) \ {x}
           /\ IsInjective(RemoveFirst(s, x))
  <1>1. PICK n \in 1..Len(s) : s[n] = x
    BY Members
  <1>2. \A i \in 1..Len(s) : s[i] = x <=> i = n
    BY <1>1, Unique
  <1>3. SelectInSeq(s, LAMBDA v : v = x) = n
    <2>1. {i \in 1..Len(s) : s[i] = x} = {n}
      BY <1>2
    <2>2. Min({n}) = n
      BY DEF Min
    <2> QED BY <2>1, <2>2 DEF SelectInSeq
  <1> DEFINE t == SubSeq(s, 1, n - 1) \o SubSeq(s, n + 1, Len(s))
  <1>4. RemoveFirst(s, x) = t
    BY <1>1, <1>3 DEF RemoveFirst, RemoveAt
  <1>5. /\ t \in Seq(S) /\ Len(t) = Len(s) - 1 /\ Len(s) \in Nat
        /\ \A i \in 1..Len(t) : t[i] = IF i < n THEN s[i] ELSE s[i + 1]
    <2>1. Len(s) \in Nat /\ n \in Nat /\ 1 <= n /\ n <= Len(s)
      BY LenProperties
    <2> DEFINE u == SubSeq(s, 1, n - 1)
               v == SubSeq(s, n + 1, Len(s))
    <2>2. /\ u \in Seq(S) /\ Len(u) = n - 1
          /\ \A i \in 1..(n - 1) : u[i] = s[i]
      BY <2>1
    <2>3. /\ v \in Seq(S) /\ Len(v) = Len(s) - n
          /\ \A i \in 1..(Len(s) - n) : v[i] = s[n + i]
      BY <2>1
    <2> HIDE DEF u, v
    <2>4. /\ u \o v \in Seq(S) /\ Len(u \o v) = Len(u) + Len(v)
          /\ \A i \in 1..(Len(u) + Len(v)) :
                 (u \o v)[i] = IF i <= Len(u) THEN u[i] ELSE v[i - Len(u)]
      BY <2>2, <2>3, ConcatProperties
    <2>5. ASSUME NEW i \in 1..(Len(s) - 1)
          PROVE  (u \o v)[i] = IF i < n THEN s[i] ELSE s[i + 1]
      <3>1. CASE i < n
        BY <2>1, <2>2, <2>3, <2>4, <3>1
      <3>2. CASE ~ (i < n)
        <4>1. i - Len(u) \in 1..(Len(s) - n) /\ n + (i - Len(u)) = i + 1
          BY <2>1, <2>2, <3>2
        <4>2. (u \o v)[i] = v[i - Len(u)]
          BY <2>1, <2>2, <2>3, <2>4, <3>2
        <4> QED BY <2>3, <3>2, <4>1, <4>2
      <3> QED BY <3>1, <3>2
    <2>6. Len(u \o v) = Len(s) - 1
      BY <2>1, <2>2, <2>3, <2>4
    <2> QED BY <2>1, <2>4, <2>5, <2>6 DEF u, v
  <1> HIDE DEF t
  <1>6. \A i \in 1..Len(t) :
            \/ i < n /\ i \in 1..Len(s) /\ t[i] = s[i]
            \/ i >= n /\ i + 1 \in 1..Len(s) /\ t[i] = s[i + 1]
    BY <1>5
  <1>7. \A i \in 1..Len(s) :
            \/ i < n /\ i \in 1..Len(t) /\ t[i] = s[i]
            \/ i = n
            \/ i > n /\ i - 1 \in 1..Len(t) /\ t[i - 1] = s[i]
    BY <1>5
  <1>8. \A i \in 1..Len(t) : t[i] # x
    <2> SUFFICES ASSUME NEW i \in 1..Len(t) PROVE t[i] # x
      OBVIOUS
    <2> QED BY <1>2, <1>6
  <1>9. \A y : y \in ToSet(t) <=> y \in ToSet(s) /\ y # x
    <2>0. /\ \A y : y \in ToSet(t) <=> \E i \in 1..Len(t) : t[i] = y
          /\ \A y : y \in ToSet(s) <=> \E i \in 1..Len(s) : s[i] = y
      BY <1>5, Members
    <2>1. ASSUME NEW y, y \in ToSet(t) PROVE y \in ToSet(s) /\ y # x
      <3>1. PICK i \in 1..Len(t) : t[i] = y
        BY <2>0, <2>1
      <3> QED BY <1>6, <1>8, <2>0, <3>1
    <2>2. ASSUME NEW y, y \in ToSet(s), y # x PROVE y \in ToSet(t)
      <3>1. PICK i \in 1..Len(s) : s[i] = y
        BY <2>0, <2>2
      <3>2. i # n
        BY <1>1, <2>2, <3>1
      <3> QED BY <1>7, <2>0, <3>1, <3>2
    <2> QED BY <2>1, <2>2
  <1>10. IsInjective(t)
    <2> SUFFICES ASSUME NEW a \in 1..Len(t), NEW b \in 1..Len(t), t[a] = t[b]
                 PROVE  a = b
      BY <1>5, Unique
    <2>1. CASE a < n /\ b < n
      BY <1>6, <2>1, Unique
    <2>2. CASE a >= n /\ b >= n
      <3>1. a + 1 = b + 1
        BY <1>6, <2>2, Unique
      <3> QED BY <3>1
    <2>3. CASE a < n /\ b >= n
      <3>1. a = b + 1
        BY <1>6, <2>3, Unique
      <3> QED BY <2>3, <3>1
    <2>4. CASE a >= n /\ b < n
      <3>1. a + 1 = b
        BY <1>6, <2>4, Unique
      <3> QED BY <2>4, <3>1
    <2> QED BY <1>5, <2>1, <2>2, <2>3, <2>4
  <1> QED BY <1>4, <1>5, <1>9, <1>10

\* Lists without a job in common, one after the other.
LEMMA ConcatList ==
    ASSUME NEW S, NEW s \in Seq(S), NEW t \in Seq(S),
           IsInjective(s), IsInjective(t), ToSet(s) \cap ToSet(t) = {}
    PROVE  /\ s \o t \in Seq(S)
           /\ ToSet(s \o t) = ToSet(s) \cup ToSet(t)
           /\ IsInjective(s \o t)
  <1> DEFINE u == s \o t
  <1>1. /\ u \in Seq(S) /\ Len(u) = Len(s) + Len(t)
        /\ Len(s) \in Nat /\ Len(t) \in Nat
        /\ \A i \in 1..Len(u) : u[i] = IF i <= Len(s) THEN s[i] ELSE t[i - Len(s)]
    BY ConcatProperties, LenProperties
  <1> HIDE DEF u
  <1>2. \A i \in 1..Len(u) :
            \/ i <= Len(s) /\ i \in 1..Len(s) /\ u[i] = s[i]
            \/ i > Len(s) /\ i - Len(s) \in 1..Len(t) /\ u[i] = t[i - Len(s)]
    BY <1>1
  <1>3. \A i \in 1..Len(s) : i \in 1..Len(u) /\ u[i] = s[i]
    BY <1>1
  <1>4. ASSUME NEW i \in 1..Len(t) PROVE i + Len(s) \in 1..Len(u) /\ u[i + Len(s)] = t[i]
    <2>1. i + Len(s) \in 1..Len(u) /\ ~ (i + Len(s) <= Len(s)) /\ (i + Len(s)) - Len(s) = i
      BY <1>1
    <2> QED BY <1>1, <2>1
  <1>5. \A y : y \in ToSet(u) <=> y \in ToSet(s) \/ y \in ToSet(t)
    <2>0. /\ \A y : y \in ToSet(u) <=> \E i \in 1..Len(u) : u[i] = y
          /\ \A y : y \in ToSet(s) <=> \E i \in 1..Len(s) : s[i] = y
          /\ \A y : y \in ToSet(t) <=> \E i \in 1..Len(t) : t[i] = y
      BY <1>1, Members
    <2>1. ASSUME NEW y, y \in ToSet(u) PROVE y \in ToSet(s) \/ y \in ToSet(t)
      <3>1. PICK i \in 1..Len(u) : u[i] = y
        BY <2>0, <2>1
      <3> QED BY <1>2, <2>0, <3>1
    <2>2. ASSUME NEW y, y \in ToSet(s) PROVE y \in ToSet(u)
      BY <1>3, <2>0, <2>2
    <2>3. ASSUME NEW y, y \in ToSet(t) PROVE y \in ToSet(u)
      <3>1. PICK i \in 1..Len(t) : t[i] = y
        BY <2>0, <2>3
      <3> QED BY <1>4, <2>0, <3>1
    <2> QED BY <2>1, <2>2, <2>3
  <1>6. \A a \in 1..Len(s), b \in 1..Len(t) : s[a] # t[b]
    BY Members
  <1>7. IsInjective(u)
    <2> SUFFICES ASSUME NEW a \in 1..Len(u), NEW b \in 1..Len(u), u[a] = u[b]
                 PROVE  a = b
      BY <1>1, Unique
    <2>1. CASE a <= Len(s) /\ b <= Len(s)
      BY <1>2, <2>1, Unique
    <2>2. CASE a > Len(s) /\ b > Len(s)
      <3>1. /\ a - Len(s) \in 1..Len(t) /\ u[a] = t[a - Len(s)]
            /\ b - Len(s) \in 1..Len(t) /\ u[b] = t[b - Len(s)]
        BY <1>1, <1>2, <2>2
      <3>2. a - Len(s) = b - Len(s)
        BY <3>1, Unique
      <3> QED BY <1>1, <3>2
    <2>3. CASE a <= Len(s) /\ b > Len(s)
      <3>1. /\ a \in 1..Len(s) /\ u[a] = s[a]
            /\ b - Len(s) \in 1..Len(t) /\ u[b] = t[b - Len(s)]
        BY <1>1, <1>2, <2>3
      <3> QED BY <1>6, <3>1
    <2>4. CASE a > Len(s) /\ b <= Len(s)
      <3>1. /\ b \in 1..Len(s) /\ u[b] = s[b]
            /\ a - Len(s) \in 1..Len(t) /\ u[a] = t[a - Len(s)]
        BY <1>1, <1>2, <2>4
      <3> QED BY <1>6, <3>1
    <2> QED BY <1>1, <2>1, <2>2, <2>3, <2>4
  <1> QED BY <1>1, <1>5, <1>7 DEF u

-----------------------------------------------------------------------------
(* Steps that leave the lists' members and the jobs alone *)

\* The part of the invariant that speaks of the jobs alone.
JobTypes ==
    /\ hpc \in [Job -> {"idle", "waking", "waiting", "yielded", "done", "gone"}]
    /\ mem \in [Job -> {None, "live", "freed"}]
    /\ refs \in [Job -> 0..2]
    /\ result \in [Job -> {None} \cup Failure \cup Outcome]
    /\ work \in [Job -> 0..1]
    /\ reply \in [Job -> {0, 200, 403, 429, 503}]
    /\ completing \in Job \cup {NoJob}

JobInv == JobTypes /\ OwnerInv /\ AnswerInv /\ CompleteInv

\* The part that speaks of the threads and the lists.
ThreadTypes ==
    /\ server \in Servers
    /\ queue \in Seq(Job) /\ taken \in Seq(Job) /\ active \in Seq(Job)
    /\ stop \in BOOLEAN /\ pipe \in 0..PipeRoom
    /\ bpc \in {"none", "top", "poll", "drain", "take", "start", "read",
                "expire", "mark", "failtake", "fail", "ended"}
    /\ cursor \in Job \cup {NoJob}
    /\ stale \in BOOLEAN /\ faulty \in BOOLEAN /\ steer \in BOOLEAN
    /\ ready \in SUBSET Socket
    /\ mpc \in {"init", "started", "serving", "draining", "stopping",
                "waking", "joining", "destroyed"}

LEMMA Parts ==
    /\ IInv <=> ThreadTypes /\ JobInv /\ ListInv /\ PhaseInv
    /\ IInv' <=> ThreadTypes' /\ JobInv' /\ ListInv' /\ PhaseInv'
  BY DEF IInv, TypeOK, ThreadTypes, JobTypes, JobInv

\* The three programs and the decisions are told apart by name.
LEMMA Named ==
    /\ server \in Servers => server \in {"civetweb", "lwan", "onion"}
    /\ \A r \in Outcome : r \in {"allowed", "rate", "latency", "both"}
    /\ PipeRoom \in Nat /\ PipeRoom > 0
    /\ NoJob \notin Job
  <1>1. PipeRoom \in Nat /\ PipeRoom > 0
    BY BridgeAssumption
  <1>2. server \in Servers => server \in {"civetweb", "lwan", "onion"}
    BY BridgeAssumption
  <1> QED BY <1>1, <1>2, BridgeAssumption

\* Whoever holds or lists a job next held or listed it before.
LEMMA JobsKept ==
    ASSUME JobInv, UNCHANGED <<server, hpc, jobs>>, Listed' = Listed
    PROVE  JobInv'
  <1>1. UNCHANGED server /\ UNCHANGED hpc /\ UNCHANGED mem /\ UNCHANGED refs
        /\ UNCHANGED result /\ UNCHANGED work /\ UNCHANGED reply
        /\ UNCHANGED completing
    BY DEF jobs
  <1>2. Held' = Held
    BY <1>1 DEF Held
  <1>3. JobTypes'
    BY <1>1 DEF JobInv, JobTypes
  <1>4. OwnerInv'
    BY <1>1, <1>2 DEF JobInv, OwnerInv
  <1>5. AnswerInv'
    BY <1>1, <1>2 DEF JobInv, AnswerInv
  <1>6. CompleteInv'
    BY <1>1 DEF JobInv, CompleteInv
  <1> QED BY <1>3, <1>4, <1>5, <1>6 DEF JobInv

LEMMA InitIInv == Init => IInv
  <1> SUFFICES ASSUME Init PROVE IInv
    OBVIOUS
  <1>1. Listed = {} /\ Held = {}
    BY EmptyList DEF Init, Listed, Held
  <1>2. <<>> \in Seq(Job) /\ 0 \in 0..PipeRoom
    BY Named
  <1>3. ThreadTypes
    BY <1>2 DEF Init, ThreadTypes
  <1>4. JobTypes
    BY DEF Init, JobTypes
  <1>5. OwnerInv /\ CompleteInv
    <2>1. completing = NoJob /\ NoJob \notin Job /\ \A j \in Job : refs[j] = 0 /\ mem[j] = None
      BY Named DEF Init
    <2>2. OwnerInv
      BY <1>1, <2>1 DEF Init, OwnerInv, None
    <2> QED BY <2>1, <2>2 DEF CompleteInv
  <1>6. AnswerInv
    BY <1>1 DEF Init, AnswerInv, None
  <1>7. ListInv
    BY EmptyList DEF Init, ListInv
  <1>8. PhaseInv
    BY <1>1 DEF Init, PhaseInv
  <1> QED BY <1>3, <1>4, <1>5, <1>6, <1>7, <1>8, Parts DEF JobInv

\* The steps of the bridge thread that move no job.
LEMMA ThreadMovesNothing ==
    ASSUME IInv,
           \/ Top \/ PollInterrupted \/ Fault \/ DrainWakePipe
           \/ \E readable \in SUBSET Socket : PollReturns(readable)
           \/ StartDone \/ ExpireDone \/ ThreadEnds \/ MarkStopped
           \/ \E i \in Socket : ReadEnds(i) \/ ReadStale(i)
    PROVE  IInv'
  <1> USE Named, Parts DEF thread, shared
  <1>1. UNCHANGED <<server, hpc, jobs, queue, taken, active, mpc, steer>>
    BY DEF Top, PollInterrupted, Fault, DrainWakePipe, PollReturns, StartDone,
           ExpireDone, ThreadEnds, MarkStopped, ReadEnds, ReadStale
  <1>2. JobInv'
    BY <1>1, JobsKept DEF Listed
  <1>3. cursor' = cursor \/ cursor' = NoJob
    BY DEF Top, PollInterrupted, Fault, DrainWakePipe, PollReturns, StartDone,
           ExpireDone, ThreadEnds, MarkStopped, ReadEnds, ReadStale
  <1>4. /\ stop' = stop \/ (stop' = TRUE /\ bpc = "mark")
        /\ pipe' = pipe \/ pipe' = 0
        /\ stale' = stale \/ stale' = FALSE
        /\ faulty' = faulty \/ faulty' = TRUE
        /\ ready' \in SUBSET Socket
    BY DEF ThreadTypes, Top, PollInterrupted, Fault, DrainWakePipe, PollReturns,
           StartDone, ExpireDone, ThreadEnds, MarkStopped, ReadEnds, ReadStale, At
  <1>5. /\ bpc \notin {"none", "failtake", "ended"}
        /\ bpc' \in {"top", "poll", "drain", "take", "read", "mark", "failtake", "ended"}
           \/ (bpc' = bpc /\ bpc # "fail")
        /\ bpc' = "failtake" => stop'
        /\ bpc' = "ended" => bpc = "fail" /\ taken = <<>> /\ active = <<>>
        /\ bpc = "start" => taken = <<>>
        /\ bpc = "fail" => taken = <<>>
        /\ bpc = "expire" => cursor' = NoJob
        /\ completing = NoJob /\ completing' = completing
    BY DEF jobs, At, Top, PollInterrupted, Fault, DrainWakePipe, PollReturns, StartDone,
           ExpireDone, ThreadEnds, MarkStopped, ReadEnds, ReadStale, Reading,
           CivetAfterPoll, LwanAfterPoll, OnionAfterPoll
  <1>6. ThreadTypes'
    <2>1. pipe' \in 0..PipeRoom
      BY <1>4 DEF ThreadTypes
    <2>2. stop' \in BOOLEAN /\ stale' \in BOOLEAN /\ faulty' \in BOOLEAN /\ steer' \in BOOLEAN
      BY <1>1, <1>4 DEF ThreadTypes
    <2>3. bpc' \in {"none", "top", "poll", "drain", "take", "start", "read",
                     "expire", "mark", "failtake", "fail", "ended"}
      BY <1>5 DEF ThreadTypes
    <2>4. cursor' \in Job \cup {NoJob}
      BY <1>3 DEF ThreadTypes
    <2> QED BY <1>1, <1>4, <2>1, <2>2, <2>3, <2>4, Zenon DEF ThreadTypes
  <1>7. ListInv'
    BY <1>1, <1>3, <1>5 DEF ListInv
  <1>8. PhaseInv'
    BY <1>1, <1>4, <1>5 DEF PhaseInv, Held, ThreadTypes
  <1> QED BY <1>2, <1>6, <1>7, <1>8

\* The steps of main.
LEMMA MainIInv ==
    ASSUME IInv,
           BridgeStart \/ StartServer \/ StopServer \/ ServerStopped \/ BridgeStop
    PROVE  IInv'
  <1> USE Named, Parts DEF thread, shared
  <1>1. UNCHANGED <<server, hpc, jobs, queue, thread, steer>> /\ completing' = completing
    BY DEF BridgeStart, StartServer, StopServer, ServerStopped, BridgeStop, jobs
  <1>2. JobInv'
    BY <1>1, JobsKept DEF Listed
  <1>3. /\ stop' = stop \/ stop' = TRUE
        /\ pipe' \in 0..PipeRoom
        /\ bpc' = bpc \/ (mpc = "init" /\ bpc' = "top" /\ mpc' = "started")
    BY DEF BridgeStart, StartServer, StopServer, ServerStopped, BridgeStop,
           ThreadTypes, WakeBridge
  <1>4. \/ mpc = "init" /\ mpc' = "started" /\ bpc' = "top"
        \/ mpc = "init" /\ mpc' = "destroyed" /\ bpc' = bpc
        \/ mpc = "started" /\ mpc' \in {"serving", "stopping"} /\ bpc' = bpc
        \/ mpc = "serving" /\ mpc' = "draining" /\ bpc' = bpc
        \/ mpc = "draining" /\ mpc' = "stopping" /\ bpc' = bpc /\ Held = {}
        \/ mpc = "stopping" /\ mpc' = "waking" /\ bpc' = bpc
        \/ mpc = "waking" /\ mpc' = "joining" /\ bpc' = bpc
        \/ mpc = "joining" /\ mpc' = "destroyed" /\ bpc' = bpc /\ bpc = "ended"
    BY DEF BridgeStart, StartServer, StopServer, ServerStopped, BridgeStop,
           CivetStart, LwanStart, OnionStart, Held
  <1>5. ThreadTypes'
    <2>1. stop' \in BOOLEAN
      BY <1>3 DEF ThreadTypes
    <2>2. bpc' \in {"none", "top", "poll", "drain", "take", "start", "read",
                     "expire", "mark", "failtake", "fail", "ended"}
      BY <1>3 DEF ThreadTypes
    <2>3. mpc' \in {"init", "started", "serving", "draining", "stopping",
                     "waking", "joining", "destroyed"}
      BY <1>4
    <2>4. /\ stale' = stale /\ faulty' = faulty /\ steer' = steer /\ server' = server
          /\ queue' = queue /\ taken' = taken /\ active' = active
          /\ cursor' = cursor /\ ready' = ready
      BY <1>1
    <2> QED BY <1>3, <2>1, <2>2, <2>3, <2>4, Zenon DEF ThreadTypes
  <1>6. ListInv'
    BY <1>1, <1>3, <1>4 DEF ListInv, PhaseInv
  <1>7. Held' = Held /\ ((\A j \in Job : hpc[j] = "idle") => Held = {})
    BY <1>1 DEF Held
  <1>8. PhaseInv'
    BY <1>1, <1>3, <1>4, <1>7 DEF PhaseInv
  <1> QED BY <1>2, <1>5, <1>6, <1>8

-----------------------------------------------------------------------------
(* Steps that move a job *)

\* complete_job and finish_job of a job that was just unlinked: whoever still
\* holds it keeps it, and nobody else is left to free it.
LEMMA CompleteJob ==
    ASSUME JobInv, server \in Servers, NEW j \in Job, j \in Listed, completing = NoJob,
           NEW r \in Failure \cup Outcome, Complete(j, r),
           UNCHANGED <<server, hpc>>, Listed' = Listed \ {j},
           \/ work' = work
           \/ r = "allowed" /\ work' = [work EXCEPT ![j] = @ + 1]
    PROVE  JobInv'
  <1> USE Named
  <1>0. /\ result[j] = None /\ work[j] = 0 /\ reply[j] = 0 /\ hpc[j] # "idle"
        /\ r # None /\ r \in {None} \cup Failure \cup Outcome
        /\ mem[j] = "live"
        /\ Held' = Held
        /\ server' = server /\ hpc' = hpc
    <2>1. r # None
      BY DEF Failure, None
    <2>2. result[j] = None /\ work[j] = 0 /\ reply[j] = 0 /\ hpc[j] # "idle"
      BY DEF JobInv, AnswerInv
    <2>3. mem[j] = "live"
      BY DEF JobInv, OwnerInv, JobTypes
    <2>4. Held' = Held
      BY DEF Held
    <2> QED BY <2>1, <2>2, <2>3, <2>4
  <1>1. /\ work' \in [Job -> 0..1]
        /\ work'[j] = 1 => r = "allowed"
        /\ \A k \in Job : k # j => work'[k] = work[k]
    BY <1>0 DEF JobInv, JobTypes
  <1>2. CASE server \in {"civetweb", "lwan"}
    <2>1. /\ result' = [result EXCEPT ![j] = r]
          /\ mem' = mem /\ refs' = refs /\ reply' = reply /\ completing' = j
          /\ server = "civetweb" => hpc[j] = "waiting"
      BY <1>2 DEF Complete, CivetComplete, LwanComplete, Unlocked
    <2>2. JobTypes'
      BY <1>0, <1>1, <2>1 DEF JobInv, JobTypes
    <2>3. OwnerInv'
      <3> SUFFICES ASSUME NEW k \in Job
                   PROVE  /\ mem[k] = "live" <=>
                                 \/ server = "civetweb" /\ k \in Held
                                 \/ server = "lwan" /\ refs[k] > 0
                          /\ server = "civetweb" /\ k \in Listed => k \in Held
                          /\ server = "lwan" =>
                                 refs[k] = (IF k \in Listed \ {j} THEN 1 ELSE 0)
                                             + (IF k \in Held THEN 1 ELSE 0)
                                             + (IF k = j THEN 1 ELSE 0)
        BY <1>0, <1>2, <2>1 DEF OwnerInv
      <3>1. /\ mem[k] = "live" <=>
                   \/ server = "civetweb" /\ k \in Held
                   \/ server = "lwan" /\ refs[k] > 0
            /\ server = "civetweb" /\ k \in Listed => k \in Held
            /\ server = "lwan" =>
                   refs[k] = (IF k \in Listed THEN 1 ELSE 0)
                               + (IF k \in Held THEN 1 ELSE 0)
        BY <1>2 DEF JobInv, OwnerInv
      <3>2. CASE k = j
        BY <3>1, <3>2
      <3>3. CASE k # j
        BY <3>1, <3>3
      <3> QED BY <3>2, <3>3
    <2>4. AnswerInv'
      BY <1>0, <1>1, <1>2, <2>1 DEF JobInv, AnswerInv, JobTypes
    <2>5. CompleteInv'
      BY <1>0, <1>2, <2>1 DEF JobInv, CompleteInv, JobTypes
    <2> QED BY <2>2, <2>3, <2>4, <2>5 DEF JobInv
  <1>4. CASE server = "onion"
    <2>1. /\ reply' = [reply EXCEPT ![j] = OnionHttp(r)]
          /\ mem' = [mem EXCEPT ![j] = "freed"]
          /\ result' = result /\ refs' = refs /\ completing' = completing
      BY <1>4 DEF Complete, OnionFinish
    <2>2. /\ OnionHttp(r) \in {0, 200, 403, 429, 503}
          /\ r = "allowed" => OnionHttp(r) = 200
      BY DEF OnionHttp
    <2>3. JobTypes'
      BY <1>0, <1>1, <2>1, <2>2 DEF JobInv, JobTypes
    <2>4. OwnerInv'
      BY <1>0, <1>4, <2>1 DEF JobInv, OwnerInv, JobTypes
    <2>5. AnswerInv'
      BY <1>0, <1>1, <1>4, <2>1, <2>2 DEF JobInv, AnswerInv, JobTypes
    <2>6. CompleteInv'
      BY <2>1 DEF CompleteInv
    <2> QED BY <2>3, <2>4, <2>5, <2>6 DEF JobInv
  <1> QED BY <1>2, <1>4

\* The end of complete_job: the thread's reference goes with its last use.
LEMMA CompleteEndsIInv == ASSUME IInv, NEW j \in Job, CompleteEnds(j) PROVE IInv'
  <1> USE Named, Parts
  <1>1. /\ completing = j /\ completing' = NoJob /\ j # NoJob
        /\ server' = server /\ queue' = queue /\ stop' = stop /\ pipe' = pipe
        /\ bpc' = bpc /\ taken' = taken /\ active' = active /\ cursor' = cursor
        /\ stale' = stale /\ ready' = ready /\ faulty' = faulty
        /\ steer' = steer /\ hpc' = hpc /\ mpc' = mpc
        /\ result' = result /\ work' = work /\ reply' = reply
    BY DEF CompleteEnds, shared, thread
  <1>2. Listed' = Listed /\ Held' = Held
    BY <1>1 DEF Listed, Held
  <1>3. ASSUME server = "civetweb" PROVE JobTypes' /\ OwnerInv'
    <2>1. mem' = mem /\ refs' = refs
      BY <1>3 DEF CompleteEnds
    <2>2. JobTypes'
      BY <1>1, <2>1 DEF JobInv, JobTypes
    <2>3. OwnerInv'
      BY <1>1, <1>2, <1>3, <2>1 DEF JobInv, OwnerInv
    <2> QED BY <2>2, <2>3
  <1>4. ASSUME server = "lwan" PROVE JobTypes' /\ OwnerInv'
    <2>1. /\ refs' = [refs EXCEPT ![j] = @ - 1]
          /\ mem' = IF refs[j] = 1 THEN [mem EXCEPT ![j] = "freed"] ELSE mem
      BY <1>4 DEF CompleteEnds, Release
    <2>2. j \notin Listed
      BY <1>1 DEF JobInv, CompleteInv
    <2>3. refs[j] = 1 + (IF j \in Held THEN 1 ELSE 0) /\ mem[j] = "live"
      BY <1>1, <1>4, <2>2 DEF JobInv, OwnerInv
    <2>4. JobTypes'
      BY <1>1, <2>1, <2>3 DEF JobInv, JobTypes
    <2>5. OwnerInv'
      <3> SUFFICES ASSUME NEW k \in Job
                   PROVE  /\ mem'[k] = "live" <=> refs'[k] > 0
                          /\ refs'[k] = (IF k \in Listed THEN 1 ELSE 0)
                                          + (IF k \in Held THEN 1 ELSE 0)
        BY <1>1, <1>2, <1>4 DEF OwnerInv
      <3>1. CASE k = j
        BY <2>1, <2>2, <2>3, <3>1 DEF JobInv, JobTypes
      <3>2. CASE k # j
        <4>1. mem'[k] = mem[k] /\ refs'[k] = refs[k]
          BY <2>1, <3>2 DEF JobInv, JobTypes
        <4> QED BY <1>1, <1>4, <3>2, <4>1 DEF JobInv, OwnerInv
      <3> QED BY <3>1, <3>2
    <2> QED BY <2>4, <2>5
  <1>5. JobTypes' /\ OwnerInv'
    BY <1>1, <1>3, <1>4 DEF JobInv, CompleteInv, ThreadTypes
  <1>6. AnswerInv'
    BY <1>1, <1>2 DEF JobInv, AnswerInv
  <1>7. CompleteInv'
    BY <1>1 DEF CompleteInv
  <1>8. ThreadTypes'
    BY <1>1 DEF ThreadTypes
  <1>9. ListInv'
    BY <1>1 DEF ListInv
  <1>10. PhaseInv'
    BY <1>1, <1>2 DEF PhaseInv
  <1> QED BY <1>5, <1>6, <1>7, <1>8, <1>9, <1>10 DEF JobInv

LEMMA TakeQueueIInv == ASSUME IInv, TakeQueue PROVE IInv'
  <1> USE Named, Parts
  <1>1. /\ taken = <<>> /\ taken' = queue /\ queue' = <<>>
        /\ bpc \in {"take", "failtake"}
        /\ bpc' = IF bpc = "take" THEN "start" ELSE "fail"
        /\ UNCHANGED <<server, hpc, jobs>>
        /\ server' = server /\ stop' = stop /\ pipe' = pipe /\ active' = active
        /\ cursor' = cursor /\ stale' = stale /\ ready' = ready
        /\ faulty' = faulty /\ steer' = steer /\ mpc' = mpc /\ hpc' = hpc
    BY DEF TakeQueue, ListInv, At
  <1>2. Listed' = Listed
    BY <1>1, EmptyList DEF Listed
  <1>3. JobInv'
    BY <1>1, <1>2, JobsKept
  <1>4. ThreadTypes'
    BY <1>1 DEF ThreadTypes
  <1>5. ListInv'
    BY <1>1, EmptyList DEF ListInv
  <1>6. PhaseInv'
    BY <1>1 DEF PhaseInv, Held
  <1> QED BY <1>3, <1>4, <1>5, <1>6

LEMMA StartJobIInv ==
    ASSUME IInv, NEW ok \in BOOLEAN, StartJob(ok)
    PROVE  IInv'
  <1> USE Named, Parts
  <1> DEFINE j == Head(taken)
  <1>1. /\ bpc = "start" /\ taken # <<>> /\ taken' = Tail(taken) /\ completing = NoJob
        /\ server' = server /\ queue' = queue /\ stop' = stop /\ pipe' = pipe
        /\ bpc' = bpc /\ cursor' = cursor /\ stale' = stale /\ ready' = ready
        /\ faulty' = faulty /\ steer' = steer /\ mpc' = mpc /\ hpc' = hpc
    BY DEF StartJob, shared, At
  <1>2. /\ j \in ToSet(taken) /\ taken' \in Seq(Job) /\ IsInjective(taken')
        /\ ToSet(taken') = ToSet(taken) \ {j}
        /\ j \in Job
    BY <1>1, TailList, Members DEF ThreadTypes, ListInv
  <1>3. j \notin ToSet(queue) /\ j \notin ToSet(active)
    BY <1>2 DEF ListInv
  <1> HIDE DEF j
  <1>4. CASE ok
    <2>1. active' = <<j>> \o active /\ UNCHANGED jobs
      BY <1>4 DEF StartJob, j
    <2>2. /\ active' \in Seq(Job) /\ IsInjective(active')
          /\ ToSet(active') = ToSet(active) \cup {j}
      BY <1>2, <1>3, <2>1, ConsList DEF ThreadTypes, ListInv
    <2>3. Listed' = Listed
      BY <1>1, <1>2, <2>2 DEF Listed
    <2>4. JobInv'
      BY <1>1, <2>1, <2>3, JobsKept
    <2>5. ThreadTypes'
      BY <1>1, <1>2, <2>2 DEF ThreadTypes
    <2>6. ListInv'
      BY <1>1, <1>2, <1>3, <2>2 DEF ListInv
    <2>7. PhaseInv'
      BY <1>1 DEF PhaseInv, Held
    <2> QED BY <2>4, <2>5, <2>6, <2>7
  <1>5. CASE ~ ok
    <2>1. Complete(j, "IO") /\ active' = active /\ work' = work
      BY <1>5 DEF StartJob, j
    <2>2. Listed' = Listed \ {j} /\ j \in Listed
      BY <1>1, <1>2, <1>3, <2>1 DEF Listed
    <2>3. "IO" \in Failure \cup Outcome
      BY DEF Failure
    <2>4. server \in Servers /\ UNCHANGED <<server, hpc>>
      BY <1>1 DEF ThreadTypes
    <2>5. JobInv'
      BY <1>1, <1>2, <2>1, <2>2, <2>3, <2>4, CompleteJob
    <2>6. ThreadTypes'
      BY <1>1, <1>2, <2>1 DEF ThreadTypes
    <2>7. ListInv'
      BY <1>1, <1>2, <2>1 DEF ListInv
    <2>8. PhaseInv'
      BY <1>1, <2>1 DEF PhaseInv, Held
    <2> QED BY <2>5, <2>6, <2>7, <2>8
  <1> QED BY <1>4, <1>5

\* A drained client replaces its sockets or does not.
LEMMA DrainedTypes ==
    ASSUME NEW left, NEW feedback \in BOOLEAN, stale \in BOOLEAN,
           Drained(left, feedback)
    PROVE  stale' \in BOOLEAN /\ steer' \in BOOLEAN
  <1>1. CASE left = <<>> /\ feedback
    BY <1>1 DEF Drained
  <1>2. CASE ~ (left = <<>> /\ feedback)
    BY <1>2 DEF Drained
  <1> QED BY <1>1, <1>2

\* on_admission of an active job.
LEMMA AdmissionKeeps ==
    ASSUME IInv, NEW j \in ToSet(active), NEW r \in Failure \cup Outcome,
           NEW feedback \in BOOLEAN, OnAdmission(j, r, feedback), completing = NoJob,
           UNCHANGED <<server, queue, taken, hpc>>
    PROVE  /\ JobInv'
           /\ active' \in Seq(Job) /\ IsInjective(active')
           /\ ToSet(active') = ToSet(active) \ {j}
           /\ stale' \in BOOLEAN /\ steer' \in BOOLEAN
  <1> USE Named, Parts
  <1>1. /\ active' = RemoveFirst(active, j)
        /\ Complete(j, r)
        /\ work' = work \/ work' = [work EXCEPT ![j] = @ + 1]
        /\ r # "allowed" => work' = work
        /\ Drained(RemoveActive(j), feedback)
    BY DEF OnAdmission, RemoveActive
  <1>2. active \in Seq(Job) /\ IsInjective(active) /\ j \in Job
    BY Members DEF ThreadTypes, ListInv
  <1>3. /\ active' \in Seq(Job) /\ IsInjective(active')
        /\ ToSet(active') = ToSet(active) \ {j}
    BY <1>1, <1>2, UnlinkList
  <1>4. Listed' = Listed \ {j} /\ j \in Listed
    BY <1>3 DEF Listed, ListInv
  <1>5. JobInv'
    BY <1>1, <1>2, <1>4, CompleteJob DEF ThreadTypes
  <1>6. stale' \in BOOLEAN /\ steer' \in BOOLEAN
    BY <1>1, DrainedTypes DEF ThreadTypes
  <1> QED BY <1>3, <1>5, <1>6

LEMMA ReadCompletesIInv ==
    ASSUME IInv, NEW i \in Socket, NEW j \in Job, NEW r \in Outcome,
           NEW feedback \in BOOLEAN, ReadCompletes(i, j, r, feedback)
    PROVE  IInv'
  <1> USE Named, Parts
  <1>1. /\ bpc = "read" /\ completing = NoJob /\ j \in ToSet(active)
        /\ OnAdmission(j, r, steer \/ feedback)
        /\ ready' = ready \/ ready' = ready \ {i}
        /\ server' = server /\ queue' = queue /\ stop' = stop /\ pipe' = pipe
        /\ bpc' = bpc /\ taken' = taken /\ cursor' = cursor
        /\ faulty' = faulty /\ mpc' = mpc /\ hpc' = hpc
    BY DEF ReadCompletes, Reading, shared, At
  <1>2. (steer \/ feedback) \in BOOLEAN /\ r \in Failure \cup Outcome
    OBVIOUS
  <1>3. /\ JobInv'
        /\ active' \in Seq(Job) /\ IsInjective(active')
        /\ ToSet(active') = ToSet(active) \ {j}
        /\ stale' \in BOOLEAN /\ steer' \in BOOLEAN
    BY <1>1, <1>2, AdmissionKeeps
  <1>4. ThreadTypes'
    <2>1. ready' \in SUBSET Socket
      BY <1>1 DEF ThreadTypes
    <2> QED BY <1>1, <1>3, <2>1 DEF ThreadTypes
  <1>5. ListInv'
    BY <1>1, <1>3 DEF ListInv
  <1>6. PhaseInv'
    BY <1>1 DEF PhaseInv, Held
  <1> QED BY <1>3, <1>4, <1>5, <1>6

\* expire_requests starts at the head of the active list.
LEMMA ReadDoneIInv == ASSUME IInv, ReadDone PROVE IInv'
  <1> USE Named, Parts
  <1>1. /\ bpc = "read" /\ bpc' = "expire"
        /\ cursor' = IF active = <<>> THEN NoJob ELSE Head(active)
        /\ UNCHANGED <<server, hpc, jobs>>
        /\ server' = server /\ queue' = queue /\ stop' = stop /\ pipe' = pipe
        /\ taken' = taken /\ active' = active /\ stale' = stale /\ ready' = ready
        /\ faulty' = faulty /\ steer' = steer /\ mpc' = mpc /\ hpc' = hpc
    BY DEF ReadDone, shared, At
  <1>2. cursor' = NoJob \/ cursor' \in ToSet(active)
    BY <1>1, TailList DEF ThreadTypes, ListInv
  <1>3. ToSet(active) \subseteq Job
    BY Members DEF ThreadTypes
  <1>4. Listed' = Listed
    BY <1>1 DEF Listed
  <1>5. JobInv'
    BY <1>1, <1>4, JobsKept
  <1>6. ThreadTypes'
    BY <1>1, <1>2, <1>3 DEF ThreadTypes
  <1>7. ListInv'
    BY <1>1, <1>2 DEF ListInv
  <1>8. PhaseInv'
    BY <1>1 DEF PhaseInv, Held
  <1> QED BY <1>5, <1>6, <1>7, <1>8

\* job->next is another active job, or NULL.
LEMMA NextIsActive ==
    ASSUME active \in Seq(Job), IsInjective(active), NEW j \in ToSet(active)
    PROVE  NextOf(j) = NoJob \/ NextOf(j) \in ToSet(active) \ {j}
  <1> DEFINE n == CHOOSE k \in DOMAIN active : active[k] = j
  <1>1. DOMAIN active = 1..Len(active) /\ Len(active) \in Nat
    OBVIOUS
  <1>2. \E k \in DOMAIN active : active[k] = j
    BY <1>1, Members
  <1>3. n \in 1..Len(active) /\ active[n] = j
    BY <1>1, <1>2
  <1>4. NextOf(j) = IF n < Len(active) THEN active[n + 1] ELSE NoJob
    BY DEF NextOf
  <1> HIDE DEF n
  <1>5. CASE n < Len(active)
    <2>1. n + 1 \in 1..Len(active) /\ n + 1 # n
      BY <1>1, <1>3, <1>5
    <2>2. active[n + 1] # j
      BY <1>3, <2>1, Unique
    <2> QED BY <1>4, <1>5, <2>1, <2>2, Members
  <1> QED BY <1>4, <1>5

LEMMA ExpireIInv ==
    ASSUME IInv, NEW j \in Job, ExpireKeeps(j) \/ ExpireEnds(j)
    PROVE  IInv'
  <1> USE Named, Parts
  <1>1. /\ bpc = "expire" /\ completing = NoJob /\ cursor = j /\ cursor' = NextOf(j)
        /\ server' = server /\ queue' = queue /\ stop' = stop /\ pipe' = pipe
        /\ bpc' = bpc /\ taken' = taken /\ ready' = ready
        /\ faulty' = faulty /\ mpc' = mpc /\ hpc' = hpc
    BY DEF ExpireKeeps, ExpireEnds, ExpireStep, shared, At
  <1>2. j \in ToSet(active) /\ active \in Seq(Job) /\ IsInjective(active)
    BY <1>1 DEF ListInv, ThreadTypes
  <1>3. cursor' = NoJob \/ cursor' \in ToSet(active) \ {j}
    BY <1>1, <1>2, NextIsActive
  <1>4. /\ JobInv'
        /\ active' \in Seq(Job) /\ IsInjective(active')
        /\ ToSet(active') \in {ToSet(active), ToSet(active) \ {j}}
        /\ stale' \in BOOLEAN /\ steer' \in BOOLEAN
    <2>1. CASE ExpireKeeps(j)
      <3>1. active' = active /\ stale' = stale /\ steer' = steer /\ UNCHANGED jobs
        BY <2>1 DEF ExpireKeeps
      <3>2. Listed' = Listed
        BY <1>1, <3>1 DEF Listed
      <3>3. JobInv'
        BY <1>1, <3>1, <3>2, JobsKept
      <3> QED BY <1>2, <3>1, <3>3 DEF ThreadTypes
    <2>2. CASE ExpireEnds(j)
      <3>1. PICK r \in {"TIMEOUT"} \cup Outcome : OnAdmission(j, r, steer)
        BY <2>2 DEF ExpireEnds
      <3>2. r \in Failure \cup Outcome /\ steer \in BOOLEAN
        BY DEF Failure, ThreadTypes
      <3> QED BY <1>1, <1>2, <3>1, <3>2, AdmissionKeeps
    <2> QED BY <2>1, <2>2
  <1>5. ToSet(active) \subseteq Job
    BY <1>2, Members
  <1>6. ThreadTypes'
    BY <1>1, <1>3, <1>4, <1>5 DEF ThreadTypes
  <1>7. ListInv'
    BY <1>1, <1>3, <1>4 DEF ListInv
  <1>8. PhaseInv'
    BY <1>1 DEF PhaseInv, Held
  <1> QED BY <1>4, <1>6, <1>7, <1>8

LEMMA FailJobIInv == ASSUME IInv, FailJob PROVE IInv'
  <1> USE Named, Parts
  <1>1. /\ bpc = "fail" /\ completing = NoJob /\ work' = work /\ cursor = NoJob
        /\ server' = server /\ queue' = queue /\ stop' = stop /\ pipe' = pipe
        /\ bpc' = bpc /\ cursor' = cursor /\ ready' = ready
        /\ faulty' = faulty /\ mpc' = mpc /\ hpc' = hpc
    BY DEF FailJob, shared, ListInv, At
  <1>2. "IO" \in Failure \cup Outcome /\ server \in Servers /\ UNCHANGED <<server, hpc>>
    BY <1>1 DEF Failure, ThreadTypes
  <1>3. CASE /\ taken # <<>> /\ taken' = Tail(taken) /\ Complete(Head(taken), "IO")
             /\ UNCHANGED <<active, stale, steer>>
    <2>1. /\ Head(taken) \in ToSet(taken) /\ Head(taken) \in Job
          /\ taken' \in Seq(Job) /\ IsInjective(taken')
          /\ ToSet(taken') = ToSet(taken) \ {Head(taken)}
      BY <1>3, TailList, Members DEF ThreadTypes, ListInv
    <2>2. Listed' = Listed \ {Head(taken)} /\ Head(taken) \in Listed
      BY <1>1, <1>3, <2>1 DEF Listed, ListInv
    <2>3. JobInv'
      BY <1>1, <1>2, <1>3, <2>1, <2>2, CompleteJob
    <2>4. ThreadTypes'
      BY <1>1, <1>3, <2>1 DEF ThreadTypes
    <2>5. ListInv'
      BY <1>1, <1>3, <2>1 DEF ListInv
    <2>6. PhaseInv'
      BY <1>1, <1>3 DEF PhaseInv, Held
    <2> QED BY <2>3, <2>4, <2>5, <2>6
  <1>4. CASE /\ taken = <<>> /\ active # <<>> /\ active' = Tail(active)
             /\ Drained(Tail(active), steer) /\ Complete(Head(active), "IO")
             /\ UNCHANGED taken
    <2>1. /\ Head(active) \in ToSet(active) /\ Head(active) \in Job
          /\ active' \in Seq(Job) /\ IsInjective(active')
          /\ ToSet(active') = ToSet(active) \ {Head(active)}
      BY <1>4, TailList, Members DEF ThreadTypes, ListInv
    <2>2. Listed' = Listed \ {Head(active)} /\ Head(active) \in Listed
      BY <1>1, <1>4, <2>1 DEF Listed, ListInv
    <2>3. JobInv'
      BY <1>1, <1>2, <1>4, <2>1, <2>2, CompleteJob
    <2>4. stale' \in BOOLEAN /\ steer' \in BOOLEAN
      BY <1>4, DrainedTypes DEF ThreadTypes
    <2>5. ThreadTypes'
      BY <1>1, <1>4, <2>1, <2>4 DEF ThreadTypes
    <2>6. ListInv'
      BY <1>1, <1>4, <2>1 DEF ListInv
    <2>7. PhaseInv'
      BY <1>1 DEF PhaseInv, Held
    <2> QED BY <2>3, <2>5, <2>6, <2>7
  <1> QED BY <1>3, <1>4 DEF FailJob

-----------------------------------------------------------------------------
(* The handlers *)

\* A step of a handler leaves the job that the thread completes alone.
LEMMA CompleteKept ==
    ASSUME JobInv, UNCHANGED <<server, completing>>,
           \A k \in Job : k = completing =>
               /\ k \in Listed' => k \in Listed
               /\ result'[k] = result[k]
               /\ server = "civetweb" => hpc'[k] = hpc[k]
    PROVE  CompleteInv'
  <1> SUFFICES ASSUME completing # NoJob
               PROVE  /\ completing \notin Listed'
                      /\ result'[completing] # None
                      /\ server # "onion"
                      /\ server = "civetweb" => hpc'[completing] = "waiting"
    BY DEF CompleteInv
  <1> QED BY DEF JobInv, JobTypes, CompleteInv

\* A job that is enqueued is new: no list holds it, and nobody knows
\* anything of it yet.
LEMMA SubmitIInv == ASSUME IInv, NEW j \in Job, Submit(j) PROVE IInv'
  <1> USE Named, Parts
  <1>1. /\ mpc = "serving" /\ hpc[j] = "idle"
        /\ server' = server /\ stop' = stop /\ pipe' = pipe /\ bpc' = bpc
        /\ taken' = taken /\ active' = active /\ cursor' = cursor
        /\ stale' = stale /\ ready' = ready /\ faulty' = faulty
        /\ steer' = steer /\ work' = work /\ completing' = completing /\ mpc' = mpc
    BY DEF Submit, thread
  <1>2. /\ j \notin Listed /\ j \notin Held
        /\ result[j] = None /\ work[j] = 0 /\ reply[j] = 0
    BY <1>1 DEF JobInv, AnswerInv, Held
  <1>3. j # completing
    BY <1>2 DEF JobInv, CompleteInv
  <1>4. CASE Enqueue(j) /\ ~ stop
    <2>1. /\ queue' = Append(queue, j)
          /\ mem' = [mem EXCEPT ![j] = "live"]
          /\ hpc' = [hpc EXCEPT ![j] = "waking"]
          /\ result' = result /\ reply' = reply
          /\ refs' = IF server = "lwan" THEN [refs EXCEPT ![j] = 2] ELSE refs
      BY <1>1, <1>4 DEF Submit, CivetSubmit, LwanSubmit, OnionSubmit, Enqueue
    <2>2. /\ queue' \in Seq(Job) /\ IsInjective(queue')
          /\ ToSet(queue') = ToSet(queue) \cup {j}
      BY <1>2, <2>1, AppendList DEF ThreadTypes, ListInv, Listed
    <2>3. Listed' = Listed \cup {j}
      BY <1>1, <2>2 DEF Listed
    <2>4. Held' = Held \cup {j}
      BY <2>1 DEF Held, JobInv, JobTypes
    <2>5. JobTypes'
      BY <1>1, <2>1 DEF JobInv, JobTypes
    <2>6. OwnerInv'
      <3> SUFFICES ASSUME NEW k \in Job PROVE
              /\ mem'[k] = "live" <=>
                     \/ server = "civetweb" /\ k \in Held'
                     \/ server = "lwan" /\ refs'[k] > 0
                     \/ server = "onion" /\ k \in Listed'
              /\ server = "civetweb" /\ k \in Listed' => k \in Held'
              /\ server = "lwan" =>
                     refs'[k] = (IF k \in Listed' THEN 1 ELSE 0)
                                  + (IF k \in Held' THEN 1 ELSE 0)
                                  + (IF k = completing THEN 1 ELSE 0)
              /\ server = "onion" => hpc'[k] # "waiting"
        BY <1>1 DEF OwnerInv
      <3>1. CASE k = j
        BY <1>3, <2>1, <2>3, <2>4, <3>1 DEF JobInv, JobTypes, ThreadTypes
      <3>2. CASE k # j
        <4>1. mem'[k] = mem[k] /\ refs'[k] = refs[k] /\ hpc'[k] = hpc[k]
          BY <2>1, <3>2 DEF JobInv, JobTypes
        <4> QED BY <2>3, <2>4, <3>2, <4>1 DEF JobInv, OwnerInv
      <3> QED BY <3>1, <3>2
    <2>7. AnswerInv'
      BY <1>1, <1>2, <2>1, <2>3, <2>4 DEF JobInv, AnswerInv, JobTypes
    <2>8. ThreadTypes'
      BY <1>1, <2>2 DEF ThreadTypes
    <2>9. ListInv'
      BY <1>1, <1>2, <2>2 DEF ListInv, Listed
    <2>10. PhaseInv'
      BY <1>1, <1>4, <2>1 DEF PhaseInv
    <2>11. \A k \in Job : k # j => hpc'[k] = hpc[k] /\ (k \in Listed' => k \in Listed)
      BY <2>1, <2>3 DEF JobInv, JobTypes
    <2>12. CompleteInv'
      BY <1>1, <1>3, <2>1, <2>11, CompleteKept
    <2> QED BY <2>5, <2>6, <2>7, <2>8, <2>9, <2>10, <2>12 DEF JobInv
  <1>5. CASE stop /\ server # "onion"
    <2>1. /\ queue' = queue
          /\ mem' = [mem EXCEPT ![j] = "live"]
          /\ hpc' = [hpc EXCEPT ![j] = "waiting"]
          /\ result' = [result EXCEPT ![j] = "IO"] /\ reply' = reply
          /\ refs' = IF server = "lwan" THEN [refs EXCEPT ![j] = 1] ELSE refs
      BY <1>1, <1>5 DEF Submit, CivetSubmit, LwanSubmit, OnionSubmit
    <2>2. Listed' = Listed
      BY <1>1, <2>1 DEF Listed
    <2>3. Held' = Held \cup {j}
      BY <2>1 DEF Held, JobInv, JobTypes
    <2>4. JobTypes'
      BY <1>1, <2>1 DEF JobInv, JobTypes, Failure
    <2>5. OwnerInv'
      <3> SUFFICES ASSUME NEW k \in Job PROVE
              /\ mem'[k] = "live" <=>
                     \/ server = "civetweb" /\ k \in Held'
                     \/ server = "lwan" /\ refs'[k] > 0
              /\ server = "civetweb" /\ k \in Listed' => k \in Held'
              /\ server = "lwan" =>
                     refs'[k] = (IF k \in Listed' THEN 1 ELSE 0)
                                  + (IF k \in Held' THEN 1 ELSE 0)
                                  + (IF k = completing THEN 1 ELSE 0)
        BY <1>1, <1>5 DEF OwnerInv
      <3>1. CASE k = j
        BY <1>3, <1>2, <1>5, <2>1, <2>2, <2>3, <3>1 DEF JobInv, JobTypes, ThreadTypes
      <3>2. CASE k # j
        <4>1. mem'[k] = mem[k] /\ refs'[k] = refs[k] /\ hpc'[k] = hpc[k]
          BY <2>1, <3>2 DEF JobInv, JobTypes
        <4> QED BY <1>5, <2>2, <2>3, <3>2, <4>1 DEF JobInv, OwnerInv
      <3> QED BY <3>1, <3>2
    <2>6. "IO" # None /\ "IO" # "allowed"
      BY DEF None
    <2>7. AnswerInv'
      BY <1>1, <1>2, <1>5, <2>1, <2>2, <2>3, <2>6 DEF JobInv, AnswerInv, JobTypes
    <2>8. ThreadTypes'
      BY <1>1, <2>1 DEF ThreadTypes
    <2>9. ListInv'
      BY <1>1, <2>1 DEF ListInv
    <2>10. PhaseInv'
      BY <1>1, <2>1 DEF PhaseInv
    <2>11. \A k \in Job : k # j => hpc'[k] = hpc[k] /\ result'[k] = result[k]
      BY <2>1 DEF JobInv, JobTypes
    <2>12. CompleteInv'
      BY <1>1, <1>3, <2>2, <2>11, CompleteKept
    <2> QED BY <2>4, <2>5, <2>7, <2>8, <2>9, <2>10, <2>12 DEF JobInv
  <1>6. CASE stop /\ server = "onion"
    <2>1. /\ queue' = queue /\ mem' = mem /\ refs' = refs /\ result' = result
          /\ hpc' = [hpc EXCEPT ![j] = "done"]
          /\ reply' = [reply EXCEPT ![j] = 503]
      BY <1>1, <1>6 DEF Submit, CivetSubmit, LwanSubmit, OnionSubmit
    <2>2. Listed' = Listed
      BY <1>1, <2>1 DEF Listed
    <2>3. Held' = Held
      BY <1>2, <2>1 DEF Held, JobInv, JobTypes
    <2>4. JobTypes'
      BY <1>1, <2>1 DEF JobInv, JobTypes
    <2>5. OwnerInv'
      BY <1>1, <1>6, <2>1, <2>2, <2>3 DEF JobInv, OwnerInv, JobTypes
    <2>6. AnswerInv'
      BY <1>1, <1>2, <1>6, <2>1, <2>2, <2>3 DEF JobInv, AnswerInv, JobTypes
    <2>7. ThreadTypes'
      BY <1>1, <2>1 DEF ThreadTypes
    <2>8. ListInv'
      BY <1>1, <2>1 DEF ListInv
    <2>9. PhaseInv'
      BY <1>1, <2>1 DEF PhaseInv
    <2>10. CompleteInv'
      BY <1>1, <1>6, <2>1, <2>2, CompleteKept
    <2> QED BY <2>4, <2>5, <2>6, <2>7, <2>8, <2>9, <2>10 DEF JobInv
  <1> QED
    <2>1. stop \/ Enqueue(j)
      BY DEF Submit, CivetSubmit, LwanSubmit, OnionSubmit
    <2> QED BY <1>4, <1>5, <1>6, <2>1

\* A handler's step that touches no list.
LEMMA HandlerKeeps ==
    ASSUME IInv, UNCHANGED <<server, queue, stop, bpc, thread, steer, completing, mpc>>,
           pipe' \in 0..PipeRoom, JobInv',
           \A j \in Job : hpc'[j] # hpc[j] => hpc[j] # "idle" \/ mpc = "serving",
           mpc # "serving" => Held' \subseteq Held
    PROVE  IInv'
  <1> USE Named, Parts DEF thread
  <1>1. ThreadTypes'
    BY DEF ThreadTypes
  <1>2. ListInv'
    BY DEF ListInv
  <1>3. PhaseInv'
    BY DEF PhaseInv
  <1> QED BY <1>1, <1>2, <1>3

LEMMA SubmitFailsIInv == ASSUME IInv, NEW j \in Job, SubmitFails(j) PROVE IInv'
  <1> USE Named, Parts
  <1>1. /\ mpc = "serving" /\ hpc[j] = "idle"
        /\ hpc' = [hpc EXCEPT ![j] = "done"] /\ reply' = [reply EXCEPT ![j] = 503]
        /\ mem' = mem /\ refs' = refs /\ result' = result /\ work' = work
        /\ pipe' = pipe /\ server' = server
        /\ UNCHANGED <<server, queue, stop, bpc, thread, steer, completing, mpc>>
    BY DEF SubmitFails, shared
  <1>2. Listed' = Listed
    BY <1>1 DEF Listed, thread
  <1>3. Held' = Held
    BY <1>1 DEF Held, JobInv, JobTypes
  <1>4. JobTypes'
    BY <1>1 DEF JobInv, JobTypes
  <1>5. OwnerInv'
    BY <1>1, <1>2, <1>3 DEF JobInv, OwnerInv, JobTypes
  <1>6. AnswerInv'
    BY <1>1, <1>2, <1>3 DEF JobInv, AnswerInv, JobTypes, Held
  <1>7. JobInv'
    <2>1. j # completing /\ \A k \in Job : k # j => hpc'[k] = hpc[k]
      BY <1>1 DEF JobInv, JobTypes, AnswerInv, CompleteInv
    <2>2. CompleteInv'
      BY <1>1, <1>2, <2>1, CompleteKept
    <2> QED BY <1>4, <1>5, <1>6, <2>2 DEF JobInv
  <1>8. pipe' \in 0..PipeRoom
    BY <1>1 DEF ThreadTypes
  <1> QED BY <1>1, <1>3, <1>7, <1>8, HandlerKeeps

LEMMA WakeIInv == ASSUME IInv, NEW j \in Job, Wake(j) PROVE IInv'
  <1> USE Named, Parts
  <1>1. /\ hpc[j] = "waking"
        /\ hpc' = [hpc EXCEPT ![j] = IF server = "onion" THEN "yielded" ELSE "waiting"]
        /\ mem' = mem /\ refs' = refs /\ result' = result /\ work' = work
        /\ reply' = reply /\ server' = server
        /\ UNCHANGED <<server, queue, stop, bpc, thread, steer, completing, mpc>>
    BY DEF Wake, jobs
  <1>2. Listed' = Listed
    BY <1>1 DEF Listed, thread
  <1>3. /\ server # "onion" => Held' = Held
        /\ server = "onion" => Held' = Held \ {j}
    BY <1>1 DEF Held, JobInv, JobTypes
  <1>4. JobTypes'
    BY <1>1 DEF JobInv, JobTypes
  <1>5. OwnerInv'
    BY <1>1, <1>2, <1>3 DEF JobInv, OwnerInv, JobTypes
  <1>6. AnswerInv'
    BY <1>1, <1>2, <1>3 DEF JobInv, AnswerInv, JobTypes, Held
  <1>7. JobInv'
    <2>1. \A k \in Job : k # j => hpc'[k] = hpc[k]
      BY <1>1 DEF JobInv, JobTypes
    <2>2. server = "civetweb" => j # completing
      BY <1>1 DEF JobInv, CompleteInv
    <2>3. CompleteInv'
      BY <1>1, <1>2, <2>1, <2>2, CompleteKept
    <2> QED BY <1>4, <1>5, <1>6, <2>3 DEF JobInv
  <1>8. pipe' \in 0..PipeRoom
    BY DEF ThreadTypes, Wake, WakeBridge
  <1>9. \A k \in Job : hpc'[k] # hpc[k] => hpc[k] # "idle"
    BY <1>1 DEF JobInv, JobTypes
  <1> QED BY <1>1, <1>3, <1>7, <1>8, <1>9, HandlerKeeps

\* The last reference of a handler that leaves: release_job.
LEMMA LeaveLwan ==
    ASSUME JobInv, server = "lwan", NEW j \in Held, Release(j),
           UNCHANGED <<server, completing>>, Listed' = Listed, Held' = Held \ {j}, j \in Job
    PROVE  /\ OwnerInv'
           /\ refs' \in [Job -> 0..2]
           /\ mem' \in [Job -> {None, "live", "freed"}]
  <1>1. /\ refs' = [refs EXCEPT ![j] = @ - 1]
        /\ mem' = IF refs[j] = 1 THEN [mem EXCEPT ![j] = "freed"] ELSE mem
    BY DEF Release
  <1>2. /\ refs[j] = 1 + (IF j \in Listed \/ j = completing THEN 1 ELSE 0)
        /\ mem[j] = "live"
        /\ ~ (j \in Listed /\ j = completing)
    <2>1. ~ (j \in Listed /\ j = completing)
      BY BridgeAssumption DEF JobInv, CompleteInv
    <2>2. refs[j] = (IF j \in Listed THEN 1 ELSE 0) + 1 + (IF j = completing THEN 1 ELSE 0)
      BY DEF JobInv, OwnerInv
    <2>3. refs[j] = 1 + (IF j \in Listed \/ j = completing THEN 1 ELSE 0)
      BY <2>1, <2>2
    <2>4. mem[j] = "live"
      BY <2>3 DEF JobInv, OwnerInv
    <2> QED BY <2>1, <2>3, <2>4
  <1>3. refs' \in [Job -> 0..2] /\ mem' \in [Job -> {None, "live", "freed"}]
    BY <1>1, <1>2 DEF JobInv, JobTypes
  <1>4. OwnerInv'
    <2> SUFFICES ASSUME NEW k \in Job
                 PROVE  /\ mem'[k] = "live" <=> refs'[k] > 0
                        /\ refs'[k] = (IF k \in Listed THEN 1 ELSE 0)
                                        + (IF k \in Held \ {j} THEN 1 ELSE 0)
                                        + (IF k = completing THEN 1 ELSE 0)
      BY DEF OwnerInv
    <2>1. CASE k = j
      BY <1>1, <1>2, <2>1 DEF JobInv, JobTypes
    <2>2. CASE k # j
      <3>1. mem'[k] = mem[k] /\ refs'[k] = refs[k]
        BY <1>1, <2>2 DEF JobInv, JobTypes
      <3> QED BY <2>2, <3>1 DEF JobInv, OwnerInv
    <2> QED BY <2>1, <2>2
  <1> QED BY <1>3, <1>4

LEMMA ReturnIInv == ASSUME IInv, NEW j \in Job, Return(j) PROVE IInv'
  <1> USE Named, Parts
  <1> DEFINE http == IF server = "lwan" THEN LwanHttp(result[j]) ELSE CivetHttp(result[j])
  <1>1. /\ hpc[j] = "waiting" /\ result[j] # None
        /\ hpc' = [hpc EXCEPT ![j] = "done"] /\ reply' = [reply EXCEPT ![j] = http]
        /\ result' = result /\ work' = work /\ pipe' = pipe /\ server' = server
        /\ UNCHANGED <<server, queue, stop, bpc, thread, steer, completing, mpc>>
        /\ server \in {"civetweb", "lwan"} /\ completing' = completing
        /\ server = "civetweb" => completing # j
    BY DEF Return, shared, CivetReturn, LwanReturn
  <1>2. http \in {0, 200, 403, 429, 503} /\ (result[j] = "allowed" => http = 200)
    BY DEF LwanHttp, CivetHttp, Failure
  <1> HIDE DEF http
  <1>3. Listed' = Listed /\ j \notin Listed /\ j \in Held
    BY <1>1 DEF Listed, thread, JobInv, AnswerInv, Held
  <1>4. Held' = Held \ {j}
    BY <1>1 DEF Held, JobInv, JobTypes
  <1>5. /\ OwnerInv'
        /\ refs' \in [Job -> 0..2]
        /\ mem' \in [Job -> {None, "live", "freed"}]
    <2>1. CASE server = "lwan"
      <3>1. Release(j)
        BY <2>1 DEF Return, CivetReturn, LwanReturn
      <3> QED BY <1>1, <1>3, <1>4, <2>1, <3>1, LeaveLwan
    <2>2. CASE server = "civetweb"
      <3>1. mem' = [mem EXCEPT ![j] = "freed"] /\ refs' = refs
        BY <2>2 DEF Return, CivetReturn, LwanReturn
      <3>2. OwnerInv'
        BY <1>1, <1>3, <1>4, <2>2, <3>1 DEF JobInv, OwnerInv, JobTypes
      <3> QED BY <3>1, <3>2 DEF JobInv, JobTypes
    <2> QED BY <1>1, <2>1, <2>2
  <1>6. JobTypes'
    <2>1. completing' \in Job \cup {NoJob} /\ result' \in [Job -> {None} \cup Failure \cup Outcome]
          /\ work' \in [Job -> 0..1]
      BY <1>1 DEF JobInv, JobTypes
    <2>2. hpc' \in [Job -> {"idle", "waking", "waiting", "yielded", "done", "gone"}]
      BY <1>1 DEF JobInv, JobTypes
    <2>3. reply' \in [Job -> {0, 200, 403, 429, 503}]
      BY <1>1, <1>2 DEF JobInv, JobTypes
    <2> QED BY <1>5, <2>1, <2>2, <2>3 DEF JobTypes
  <1>7. AnswerInv'
    <2>1. ASSUME NEW k \in Job, k # j
          PROVE  reply'[k] = reply[k] /\ hpc'[k] = hpc[k] /\ (k \in Held' <=> k \in Held)
      BY <1>1, <1>4, <2>1 DEF JobInv, JobTypes
    <2>2. reply'[j] = http /\ hpc'[j] = "done" /\ j \notin Held' /\ j \notin Listed'
      BY <1>1, <1>3, <1>4 DEF JobInv, JobTypes
    <2>3. work[j] = 1 => result[j] = "allowed"
      BY <1>1 DEF JobInv, AnswerInv
    <2> QED BY <1>1, <1>2, <1>3, <2>1, <2>2, <2>3 DEF JobInv, AnswerInv
  <1>8. JobInv'
    <2>1. \A k \in Job : k # j => hpc'[k] = hpc[k]
      BY <1>1 DEF JobInv, JobTypes
    <2>2. CompleteInv'
      BY <1>1, <1>3, <2>1, CompleteKept
    <2> QED BY <1>5, <1>6, <1>7, <2>2 DEF JobInv
  <1>9. pipe' \in 0..PipeRoom
    BY <1>1 DEF ThreadTypes
  <1>10. \A k \in Job : hpc'[k] # hpc[k] => hpc[k] # "idle"
    BY <1>1 DEF JobInv, JobTypes
  <1> QED BY <1>1, <1>4, <1>8, <1>9, <1>10, HandlerKeeps

LEMMA DisconnectIInv == ASSUME IInv, NEW j \in Job, Disconnect(j) PROVE IInv'
  <1> USE Named, Parts
  <1>1. /\ server = "lwan" /\ hpc[j] = "waiting" /\ Release(j)
        /\ hpc' = [hpc EXCEPT ![j] = "gone"] /\ reply' = reply
        /\ result' = result /\ work' = work /\ pipe' = pipe /\ server' = server
        /\ UNCHANGED <<server, queue, stop, bpc, thread, steer, completing, mpc>>
    BY DEF Disconnect, shared
  <1>2. Listed' = Listed /\ j \in Held
    BY <1>1 DEF Listed, thread, Held
  <1>3. Held' = Held \ {j}
    BY <1>1 DEF Held, JobInv, JobTypes
  <1>4. /\ OwnerInv'
        /\ refs' \in [Job -> 0..2]
        /\ mem' \in [Job -> {None, "live", "freed"}]
    BY <1>1, <1>2, <1>3, LeaveLwan
  <1>5. JobTypes'
    BY <1>1, <1>4 DEF JobInv, JobTypes
  <1>6. AnswerInv'
    BY <1>1, <1>2, <1>3 DEF JobInv, AnswerInv, JobTypes
  <1>7. JobInv'
    <2>1. CompleteInv'
      BY <1>1, <1>2, CompleteKept
    <2> QED BY <1>4, <1>5, <1>6, <2>1 DEF JobInv
  <1>8. pipe' \in 0..PipeRoom
    BY <1>1 DEF ThreadTypes
  <1>9. \A k \in Job : hpc'[k] # hpc[k] => hpc[k] # "idle"
    BY <1>1 DEF JobInv, JobTypes
  <1> QED BY <1>1, <1>3, <1>7, <1>8, <1>9, HandlerKeeps

-----------------------------------------------------------------------------
(* The theorems *)

(* The bookkeeping of the bridge holds in every state: each job is in one  *)
(* list at most, the memory of a job is allocated exactly as long as its   *)
(* owner (the worker's frame, a reference, the bridge) has it, and main    *)
(* destroys the bridge after everybody has left it.                        *)
THEOREM Invariance == Spec => []IInv
  <1>1. Init => IInv
    BY InitIInv
  <1>2. IInv /\ [Next]_vars => IInv'
    <2> SUFFICES ASSUME IInv, [Next]_vars PROVE IInv'
      OBVIOUS
    <2>1. CASE BridgeThread
      <3>1. CASE \/ Top \/ PollInterrupted \/ Fault \/ DrainWakePipe
                 \/ \E readable \in SUBSET Socket : PollReturns(readable)
                 \/ StartDone \/ ExpireDone \/ ThreadEnds \/ MarkStopped
                 \/ \E i \in Socket : ReadEnds(i) \/ ReadStale(i)
        BY <3>1, ThreadMovesNothing
      <3>2. CASE TakeQueue
        BY <3>2, TakeQueueIInv
      <3>3. CASE \E ok \in BOOLEAN : StartJob(ok)
        BY <3>3, StartJobIInv
      <3>4. CASE ReadDone
        BY <3>4, ReadDoneIInv
      <3>5. CASE \E i \in Socket, j \in Job, r \in Outcome, feedback \in BOOLEAN :
                     ReadCompletes(i, j, r, feedback)
        BY <3>5, ReadCompletesIInv
      <3>6. CASE \E j \in Job : ExpireKeeps(j) \/ ExpireEnds(j)
        BY <3>6, ExpireIInv
      <3>7. CASE FailJob
        BY <3>7, FailJobIInv
      <3>8. CASE \E j \in Job : CompleteEnds(j)
        BY <3>8, CompleteEndsIInv
      <3> QED BY <2>1, <3>1, <3>2, <3>3, <3>4, <3>5, <3>6, <3>7, <3>8 DEF BridgeThread
    <2>2. ASSUME NEW j \in Job, Handler(j) PROVE IInv'
      BY <2>2, SubmitIInv, SubmitFailsIInv, WakeIInv, ReturnIInv, DisconnectIInv
         DEF Handler
    <2>3. CASE BridgeStart \/ StartServer \/ StopServer \/ ServerStopped \/ BridgeStop
      BY <2>3, MainIInv
    <2>4. CASE UNCHANGED vars
      BY <2>4 DEF vars, shared, thread, jobs, IInv, TypeOK, ListInv, OwnerInv,
                  AnswerInv, CompleteInv, PhaseInv, Listed, Held
    <2> QED BY <2>1, <2>2, <2>3, <2>4 DEF Next
  <1> QED BY <1>1, <1>2, PTL DEF Spec

(* No thread can reach a freed job: neither the bridge thread through its  *)
(* lists, the saved next pointer of expire_requests and the job inside     *)
(* complete_job, nor a handler that waits, for any number of handlers,     *)
(* disconnects and failures.                                               *)
THEOREM JobsAlive == Spec => []JobsAreAlive
  <1>1. IInv => JobsAreAlive
    <2> SUFFICES ASSUME IInv PROVE JobsAreAlive
      OBVIOUS
    <2> USE Named, Parts
    <2>1. /\ queue \in Seq(Job) /\ taken \in Seq(Job) /\ active \in Seq(Job)
          /\ IsInjective(queue) /\ IsInjective(taken) /\ IsInjective(active)
          /\ ToSet(queue) \cap ToSet(taken) = {}
          /\ (ToSet(queue) \cup ToSet(taken)) \cap ToSet(active) = {}
      BY DEF ThreadTypes, ListInv
    <2> DEFINE front == queue \o taken
    <2>2. /\ front \in Seq(Job) /\ IsInjective(front)
          /\ ToSet(front) = ToSet(queue) \cup ToSet(taken)
      BY <2>1, ConcatList
    <2>3. ToSet(front) \cap ToSet(active) = {}
      BY <2>1, <2>2
    <2> HIDE DEF front
    <2>4. ToSet(front \o active) = Listed /\ IsInjective(front \o active)
      BY <2>1, <2>2, <2>3, ConcatList DEF Listed
    <2>5. Listed \subseteq Job /\ (cursor # NoJob => cursor \in Listed)
      BY <2>1, Members DEF Listed, ListInv
    <2>6. ASSUME NEW j \in Job, j \in Listed \/ hpc[j] = "waiting"
          PROVE  mem[j] = "live"
      <3>1. server \in {"civetweb", "lwan", "onion"}
        BY DEF ThreadTypes
      <3>2. hpc[j] = "waiting" => j \in Held
        BY DEF Held
      <3>3. CASE server = "civetweb"
        BY <2>6, <3>2, <3>3 DEF JobInv, OwnerInv
      <3>4. CASE server = "lwan"
        BY <2>6, <3>2, <3>4 DEF JobInv, OwnerInv
      <3>5. CASE server = "onion"
        BY <2>6, <3>2, <3>5 DEF JobInv, OwnerInv
      <3> QED BY <3>1, <3>3, <3>4, <3>5
    <2>7. completing # NoJob => mem[completing] = "live"
      <3> SUFFICES ASSUME completing # NoJob PROVE mem[completing] = "live"
        OBVIOUS
      <3>1. /\ completing \in Job
            /\ server \in {"civetweb", "lwan"}
            /\ server = "civetweb" => hpc[completing] = "waiting"
        BY DEF JobInv, JobTypes, CompleteInv, ThreadTypes
      <3>2. CASE server = "civetweb"
        BY <2>6, <3>1, <3>2
      <3>3. CASE server = "lwan"
        BY <3>1, <3>3 DEF JobInv, OwnerInv
      <3> QED BY <3>1, <3>2, <3>3
    <2>8. \A j \in Job : hpc[j] = "waiting" => mem[j] = "live"
      BY <2>6
    <2>9. \A j \in ToSet(front \o active) \cup ({cursor, completing} \ {NoJob}) :
              mem[j] = "live"
      BY <2>4, <2>5, <2>6, <2>7
    <2> QED BY <2>4, <2>8, <2>9 DEF JobsAreAlive, front
  <1> QED BY <1>1, Invariance, PTL

(* Protected work runs once at most, for an admitted job alone, and its    *)
(* peer is never told anything but "allowed", whenever the loop fails.     *)
THEOREM WorkAnswered == Spec => []WorkIsAnsweredAllowed
  <1>1. IInv => WorkIsAnsweredAllowed
    BY DEF IInv, TypeOK, AnswerInv, WorkIsAnsweredAllowed
  <1> QED BY <1>1, Invariance, PTL

(* bridge_stop leaves no job in a list and none allocated.                 *)
THEOREM DestroyedIsEmpty == Spec => []NothingLeft
  <1>1. IInv => NothingLeft
    <2> SUFFICES ASSUME IInv, mpc = "destroyed"
                 PROVE  /\ queue = <<>> /\ taken = <<>> /\ active = <<>>
                        /\ \A j \in Job : mem[j] # "live"
      BY DEF NothingLeft
    <2> USE Named, Parts
    <2>1. /\ queue = <<>> /\ taken = <<>> /\ active = <<>> /\ Held = {}
          /\ completing = NoJob
      BY DEF PhaseInv, ListInv
    <2>2. Listed = {}
      BY <2>1, EmptyList DEF Listed
    <2>3. \A j \in Job : mem[j] # "live"
      BY <2>1, <2>2 DEF JobInv, OwnerInv
    <2> QED BY <2>1, <2>3
  <1> QED BY <1>1, Invariance, PTL

(* A handler never waits for a job nobody has: the bridge still lists it,  *)
(* or the result is there (the safety half of what EveryJobAnswered says). *)
THEOREM WaitersAreRemembered ==
    Spec => [](\A j \in Job : hpc[j] = "waiting" => result[j] # None \/ j \in Listed)
  <1>1. IInv => \A j \in Job : hpc[j] = "waiting" => result[j] # None \/ j \in Listed
    BY DEF IInv, OwnerInv, AnswerInv, Held
  <1> QED BY <1>1, Invariance, PTL

-----------------------------------------------------------------------------
(* One answer for each job *)

\* What was published or sent of a job stays.
Final == \A j \in Job : /\ result[j] # None => result'[j] = result[j]
                        /\ reply[j] # 0 => reply'[j] = reply[j]

\* Only a listed job is completed, and nothing was said of it before.
LEMMA CompleteIsFirst ==
    ASSUME JobInv, NEW j \in Listed, j \in Job, NEW r, Complete(j, r)
    PROVE  Final
  <1>1. result[j] = None /\ reply[j] = 0
    BY DEF JobInv, AnswerInv
  <1>2. \A k \in Job : k # j => result'[k] = result[k] /\ reply'[k] = reply[k]
    BY DEF Complete, CivetComplete, LwanComplete, OnionFinish, JobInv, JobTypes
  <1> QED BY <1>1, <1>2 DEF Final

(* A result that was published and a reply that was sent are never         *)
(* replaced: a completion, a failing loop and a shutdown do not answer the *)
(* same job twice (complete_job, fail_all_jobs, finish_job).               *)
THEOREM AnsweredOnce == Spec => [][Final]_vars
  <1>1. IInv /\ [Next]_vars => [Final]_vars
    <2> SUFFICES ASSUME IInv, Next PROVE Final
      BY DEF vars
    <2> USE Named, Parts
    <2>0. ToSet(taken) \subseteq Job /\ ToSet(active) \subseteq Job
      BY Members DEF ThreadTypes
    <2>1. CASE UNCHANGED jobs
      BY <2>1 DEF Final, jobs
    <2>2. CASE \E ok \in BOOLEAN : StartJob(ok)
      <3>1. CASE Complete(Head(taken), "IO") /\ taken # <<>>
        <4>1. Head(taken) \in Listed /\ Head(taken) \in Job
          BY <2>0, <3>1, TailList DEF ThreadTypes, ListInv, Listed
        <4> QED BY <3>1, <4>1, CompleteIsFirst
      <3> QED BY <2>1, <2>2, <3>1 DEF StartJob
    <2>3. CASE FailJob
      <3>1. CASE Complete(Head(taken), "IO") /\ taken # <<>>
        <4>1. Head(taken) \in Listed /\ Head(taken) \in Job
          BY <2>0, <3>1, TailList DEF ThreadTypes, ListInv, Listed
        <4> QED BY <3>1, <4>1, CompleteIsFirst
      <3>2. CASE Complete(Head(active), "IO") /\ active # <<>>
        <4>1. Head(active) \in Listed /\ Head(active) \in Job
          BY <2>0, <3>2, TailList DEF ThreadTypes, ListInv, Listed
        <4> QED BY <3>2, <4>1, CompleteIsFirst
      <3> QED BY <2>3, <3>1, <3>2 DEF FailJob
    <2>4. ASSUME NEW j \in ToSet(active), NEW r, NEW feedback, OnAdmission(j, r, feedback)
          PROVE  Final
      <3>1. j \in Listed /\ j \in Job /\ Complete(j, r)
        BY <2>0, <2>4 DEF OnAdmission, Listed
      <3> QED BY <3>1, CompleteIsFirst
    <2>5. CASE \E i \in Socket, j \in Job, r \in Outcome, feedback \in BOOLEAN :
                   ReadCompletes(i, j, r, feedback)
      BY <2>4, <2>5 DEF ReadCompletes
    <2>6. CASE \E j \in Job : ExpireEnds(j)
      <3>1. PICK j \in Job : ExpireEnds(j)
        BY <2>6
      <3>2. j \in ToSet(active)
        BY <3>1 DEF ExpireEnds, ExpireStep, ListInv
      <3> QED BY <2>4, <3>1, <3>2 DEF ExpireEnds
    <2>7. ASSUME NEW j \in Job, Submit(j) \/ SubmitFails(j) PROVE Final
      <3>1. hpc[j] = "idle"
        BY <2>7 DEF Submit, SubmitFails
      <3>2. result[j] = None /\ reply[j] = 0
        BY <3>1 DEF JobInv, AnswerInv
      <3>3. \A k \in Job : k # j => result'[k] = result[k] /\ reply'[k] = reply[k]
        BY <2>7 DEF Submit, SubmitFails, CivetSubmit, LwanSubmit, OnionSubmit,
                    JobInv, JobTypes
      <3> QED BY <3>2, <3>3 DEF Final
    <2>8. ASSUME NEW j \in Job, Return(j) PROVE Final
      <3>1. j \in Held /\ server # "onion" /\ result' = result
        BY <2>8 DEF Return, CivetReturn, LwanReturn, Held
      <3>2. reply[j] = 0
        BY <3>1 DEF JobInv, AnswerInv
      <3>3. \A k \in Job : k # j => reply'[k] = reply[k]
        BY <2>8 DEF Return, JobInv, JobTypes
      <3> QED BY <3>1, <3>2, <3>3 DEF Final
    <2>9. ASSUME NEW j \in Job, Wake(j) \/ Disconnect(j) \/ CompleteEnds(j) PROVE Final
      BY <2>9 DEF Wake, Disconnect, CompleteEnds, Final, jobs
    <2>10. ASSUME NEW j \in Job, Handler(j) PROVE Final
      BY <2>7, <2>8, <2>9, <2>10 DEF Handler
    <2>11. CASE BridgeThread
      <3>1. CASE \/ Top \/ PollInterrupted \/ Fault \/ DrainWakePipe \/ TakeQueue
                 \/ \E readable \in SUBSET Socket : PollReturns(readable)
                 \/ StartDone \/ ReadDone \/ ExpireDone \/ MarkStopped \/ ThreadEnds
                 \/ \E i \in Socket : ReadEnds(i) \/ ReadStale(i)
                 \/ \E j \in Job : ExpireKeeps(j)
        BY <2>1, <3>1 DEF Top, PollInterrupted, Fault, DrainWakePipe, TakeQueue,
               PollReturns, StartDone, ReadDone, ExpireDone, MarkStopped,
               ThreadEnds, ReadEnds, ReadStale, ExpireKeeps
      <3> QED BY <2>2, <2>3, <2>5, <2>6, <2>9, <2>11, <3>1 DEF BridgeThread
    <2>12. CASE BridgeStart \/ StartServer \/ StopServer \/ ServerStopped \/ BridgeStop
      BY <2>1, <2>12 DEF BridgeStart, StartServer, StopServer, ServerStopped, BridgeStop
    <2> QED BY <2>10, <2>11, <2>12 DEF Next
  <1> QED BY <1>1, Invariance, PTL DEF Spec
=============================================================================
