------------------------- MODULE DnsRefreshProofs -------------------------
(***************************************************************************)
(* Proofs about DnsRefresh: the bookkeeping of a refresh is exact, hence   *)
(* no frame and no late callback touches freed memory, and nothing is kept *)
(* that no callback will free.                                             *)
(***************************************************************************)
EXTENDS DnsRefresh, FiniteSetTheorems, WellFoundedInduction, TLAPS

-----------------------------------------------------------------------------
(* Counting lookups *)

\* What refresh->pending++ and refresh->pending-- do to the count of a set.
LEMMA Counting ==
    ASSUME NEW S \in SUBSET Lookup
    PROVE  /\ Cardinality(S) \in Nat
           /\ Cardinality(S) = 0 <=> S = {}
           /\ \A x \in Lookup \ S : Cardinality(S \cup {x}) = Cardinality(S) + 1
           /\ \A x \in S : Cardinality(S \ {x}) = Cardinality(S) - 1
  <1>1. IsFiniteSet(Lookup)
    BY RecordAssumption, FS_AddElement DEF Lookup
  <1>2. IsFiniteSet(S)
    BY <1>1, FS_Subset
  <1>3. Cardinality(S) \in Nat /\ (Cardinality(S) = 0 <=> S = {})
    BY <1>2, FS_CardinalityType, FS_EmptySet
  <1>4. \A x \in Lookup \ S : Cardinality(S \cup {x}) = Cardinality(S) + 1
    BY <1>2, FS_AddElement
  <1>5. \A x \in S : Cardinality(S \ {x}) = Cardinality(S) - 1
    BY <1>2, FS_RemoveElement
  <1> QED BY <1>3, <1>4, <1>5

\* A set of naturals that is not empty has a least member.
LEMMA LeastOf ==
    ASSUME NEW S \in SUBSET Nat, S # {}
    PROVE  \E n \in S : \A m \in S : n <= m
  <1> DEFINE R == OpToRel(<, Nat)
  <1>1. IsWellFoundedOn(R, Nat)
    BY NatLessThanWellFounded
  <1>2. R = {ss \in Nat \X Nat : ss[1] < ss[2]}
    BY DEF OpToRel
  <1> HIDE DEF R
  <1>3. PICK n \in S : \A m \in S : ~ (<<m, n>> \in R)
    BY <1>1, WFMin
  <1>4. \A m \in S : m \in Nat /\ n \in Nat /\ (<<m, n>> \in R <=> m < n)
    BY <1>2
  <1>5. ASSUME NEW m \in S PROVE n <= m
    <2>1. ~ (<<m, n>> \in R)
      BY <1>3
    <2>2. ~ (m < n) /\ m \in Nat /\ n \in Nat
      BY <1>4, <2>1
    <2> QED BY <2>2
  <1> QED BY <1>3, <1>5

\* Of the SRV lookup, the address lookups and NULL no two are the same.
LEMMA Distinct ==
    /\ Srv \in Lookup
    /\ Rec \subseteq Lookup
    /\ Srv \notin Rec
    /\ NoLookup \notin Lookup
    /\ \A l \in Lookup : l # Srv => l \in Rec
  BY RecordAssumption DEF Lookup

\* Records without a frame, a lookup or a callback of their own.
LEMMA Blank ==
    /\ NoRefresh \in RefreshFields
    /\ FreeLookup \in LookupFields
    /\ NewLookup \in LookupFields
  BY DEF NoRefresh, FreeLookup, NewLookup, RefreshFields, LookupFields

-----------------------------------------------------------------------------
(* Steps that do not end a refresh *)

LEMMA InitIInv == Init => IInv
  <1> SUFFICES ASSUME Init PROVE IInv
    OBVIOUS
  <1>1. TypeOK
    <2>1. 1 \in 1..ClockMax /\ 0 \in 0..ClockMax
      BY PacingAssumption
    <2>2. lookup \in [Lookup -> LookupFields] /\ refresh \in RefreshFields
      BY Blank DEF Init
    <2> QED BY <2>1, <2>2 DEF Init, TypeOK, Frames
  <1>2. Unfinished = {} /\ Linked = {}
    BY DEF Init, Unfinished, Linked, FreeLookup
  <1>3. CountInv
    BY <1>2, Counting, Distinct DEF Init, CountInv, NoRefresh, FreeLookup, Ended
  <1>4. OwedInv
    BY <1>2 DEF Init, OwedInv, InSrvCallback
  <1>5. CallInv
    BY Distinct DEF Init, CallInv, FreeLookup
  <1>6. LoopInv /\ OutageIsNotThrottled
    BY DEF Init, LoopInv, InSrvCallback, NoRefresh, OutageIsNotThrottled
  <1> QED BY <1>1, <1>3, <1>4, <1>5, <1>6 DEF IInv

\* Where a refresh may be started nothing is left of the last one.
LEMMA Quiet ==
    ASSUME IInv, pc = "loop", alive, ~ inflight
    PROVE  ~ refresh.live /\ Linked = {} /\ Unfinished = {} /\ owed = {}
  <1> USE DEF IInv
  <1>1. ~ refresh.live
    BY DEF LoopInv, TypeOK, RefreshFields
  <1>2. Ended(refresh)
    BY <1>1 DEF CountInv
  <1>3. Unfinished = {}
    BY <1>2, Counting DEF CountInv, Ended, Unfinished
  <1>4. \A l \in Lookup : ~ lookup[l].linked
    BY <1>3, Distinct DEF CallInv, Unfinished, TypeOK, LookupFields
  <1> QED BY <1>1, <1>3, <1>4 DEF OwedInv, Linked

LEMMA BeginRefreshIInv ==
    ASSUME IInv, BeginRefresh, pc = "loop", alive,
           caller' \in {"create", "none", "periodic", "forced"},
           UNCHANGED <<clock, current, todo, srvTtl>>
    PROVE  IInv'
  <1>0. ~ refresh.live /\ Linked = {} /\ Unfinished = {} /\ owed = {}
    BY Quiet DEF BeginRefresh
  <1> USE Distinct DEF BeginRefresh
  <1>1. TypeOK'
    BY Blank DEF IInv, TypeOK, RefreshFields, NoRefresh, Frames
  <1>2. Unfinished' = {Srv} /\ Linked' = {Srv}
    BY <1>0 DEF IInv, TypeOK, Unfinished, Linked, NewLookup
  <1>3. CountInv'
    <2>1. Cardinality({Srv}) = 1
      BY FS_Singleton
    <2>2. refresh' = [NoRefresh EXCEPT !.live = TRUE, !.pending = 1, !.scheduling = 1]
          /\ lookup'[Srv] = NewLookup
      BY DEF IInv, TypeOK
    <2> QED BY <1>2, <2>1, <2>2 DEF CountInv, NoRefresh, NewLookup, Ended
  <1>4. OwedInv'
    BY <1>0, <1>2 DEF OwedInv, InSrvCallback
  <1>5. CallInv'
    BY <1>0 DEF IInv, TypeOK, CallInv, NewLookup, Linked, LookupFields
  <1>6. LoopInv'
    BY DEF IInv, TypeOK, LoopInv, InSrvCallback, NoRefresh
  <1>7. OutageIsNotThrottled'
    BY DEF IInv, OutageIsNotThrottled
  <1> QED BY <1>1, <1>3, <1>4, <1>5, <1>6, <1>7 DEF IInv

-----------------------------------------------------------------------------
(* Steps that may end a refresh *)

Open(lk) == {l \in Lookup : lk[l].linked /\ ~ lk[l].completed}

\* What a step must establish of the refresh and the lookups it hands to
\* MaybeComplete: the invariant of a refresh that exists, before it is known
\* whether it ends.
Booked(rf, lk) ==
    /\ rf \in RefreshFields
    /\ rf.live
    /\ rf.detached = refresh.detached
    /\ lk \in [Lookup -> LookupFields]
    /\ rf.pending = Cardinality(Open(lk))
    /\ rf.scheduling = (IF lk[Srv].inCall THEN 1 ELSE 0)
                         + (IF pc' \in {"resolveAddr", "cancel"} THEN 1 ELSE 0)
    /\ owed' = Open(lk) \ (IF InSrvCallback' THEN {Srv} ELSE {})
    /\ InSrvCallback' => Srv \in Open(lk)
    /\ Srv \in owed' => \A l \in Lookup : lk[l].linked => l = Srv
    /\ \A l \in Lookup :
           /\ lk[l].inCall => lk[l].linked
           /\ lk[l].completed => lk[l].inCall
           /\ lk[l].inCall /\ l # Srv => pc' = "resolveAddr" /\ l = current'
    /\ lk[Srv].inCall => pc' \in {"resolveSrv", "srvCallback", "resolveAddr"}
    /\ pc' = "resolveSrv" => lk[Srv].inCall
    /\ pc' = "resolveAddr" => current' \in Rec /\ lk[current'].inCall
    /\ InSrvCallback' => todo' \subseteq Rec /\ \A l \in todo' : ~ lk[l].linked
    /\ pc' # "cancel"
    /\ rf.detached <=> ~ alive'
    /\ ~ alive' => pc' = "loop" /\ caller' = "none"

\* The variables a step that ends in MaybeComplete does not hand to it.
RestTypeOK ==
    /\ alive \in BOOLEAN
    /\ caller \in {"create", "none", "periodic", "forced"}
    /\ pc \in Frames
    /\ current \in Lookup \cup {NoLookup}
    /\ todo \in SUBSET Lookup
    /\ srvTtl \in Nat

LEMMA CompleteIInv ==
    ASSUME IInv, NEW rf, NEW lk, Booked(rf, lk), MaybeComplete(rf, lk),
           RestTypeOK', refresh.live, UNCHANGED clock
    PROVE  IInv'
  <1> USE Distinct
  <1>0. Open(lk) \in SUBSET Lookup /\ rf \in RefreshFields
    BY DEF Open, Booked
  <1>1. CASE ~ Ended(rf)
    <2>1. refresh' = rf /\ lookup' = lk /\ UNCHANGED <<servers, lastRefresh, refreshTtl, inflight>>
      BY <1>1 DEF MaybeComplete
    <2>2. Unfinished' = Open(lk)
      BY <2>1 DEF Unfinished, Open
    <2>3. TypeOK'
      BY <2>1, <1>0 DEF IInv, TypeOK, RestTypeOK, Booked
    <2>4. CountInv'
      BY <1>1, <2>1, <2>2 DEF CountInv, Booked
    <2>5. OwedInv'
      BY <2>1, <2>2 DEF OwedInv, Booked, Linked, Open
    <2>6. CallInv'
      BY <2>1 DEF CallInv, Booked
    <2>7. LoopInv'
      BY <2>1 DEF IInv, LoopInv, Booked, Linked
    <2>8. OutageIsNotThrottled'
      BY <2>1 DEF IInv, OutageIsNotThrottled
    <2> QED BY <2>3, <2>4, <2>5, <2>6, <2>7, <2>8 DEF IInv
  <1>2. CASE Ended(rf)
    <2>1. /\ refresh' = NoRefresh
          /\ lookup' = [l \in Lookup |-> FreeLookup]
          /\ IF rf.detached
             THEN UNCHANGED <<servers, lastRefresh, refreshTtl, inflight>>
             ELSE Install(rf) /\ inflight' = FALSE
      BY <1>2 DEF MaybeComplete
    <2>2. Open(lk) = {}
      BY <1>0, <1>2, Counting DEF Ended, Booked
    <2>3. pc' = "loop"
      BY <1>2, <2>2 DEF Ended, Booked, InSrvCallback, RestTypeOK, Frames
    <2>4. owed' = {}
      BY <2>2 DEF Booked
    <2>5. Unfinished' = {} /\ Linked' = {}
      BY <2>1 DEF Unfinished, Linked, FreeLookup
    <2>6. ~ inflight'
      BY <2>1 DEF IInv, LoopInv, Booked
    <2>7. /\ servers' \in SUBSET Rec
          /\ lastRefresh' \in 0..ClockMax
          /\ refreshTtl' \in Nat
          /\ OutageIsNotThrottled'
      <3>1. CASE UNCHANGED <<servers, lastRefresh, refreshTtl>>
        BY <3>1 DEF IInv, TypeOK, OutageIsNotThrottled
      <3>2. CASE /\ rf.endpoints # {}
                 /\ servers' = rf.endpoints
                 /\ lastRefresh' = clock
                 /\ refreshTtl' = rf.minTtl
        <4>1. clock \in 1..ClockMax /\ rf.endpoints \in SUBSET Rec /\ rf.minTtl \in Nat
          BY <1>0 DEF IInv, TypeOK, RefreshFields
        <4>2. clock # 0 /\ clock \in 0..ClockMax
          BY <4>1, PacingAssumption
        <4> QED BY <3>2, <4>1, <4>2 DEF OutageIsNotThrottled
      <3> QED BY <2>1, <3>1, <3>2 DEF Install
    <2>8. TypeOK'
      BY <2>1, <2>3, <2>4, <2>6, <2>7, Blank DEF IInv, TypeOK, RestTypeOK, Frames
    <2>9. CountInv'
      BY <2>1, <2>3, <2>5, Counting DEF CountInv, NoRefresh, FreeLookup, Ended
    <2>10. OwedInv'
      BY <2>3, <2>4, <2>5 DEF OwedInv, InSrvCallback
    <2>11. CallInv'
      BY <2>1, <2>3 DEF CallInv, FreeLookup
    <2>12. LoopInv'
      BY <2>1, <2>3, <2>6 DEF LoopInv, NoRefresh, InSrvCallback, Booked
    <2> QED BY <2>7, <2>8, <2>9, <2>10, <2>11, <2>12 DEF IInv
  <1> QED BY <1>1, <1>2

\* r_dns_lookup_finish on a lookup that has not ended: the refresh exists, one
\* lookup less is open, and no resolver call is forgotten.
LEMMA Finishing ==
    ASSUME IInv, NEW l \in Unfinished
    PROVE  /\ refresh.live
           /\ OneLess(refresh) = [refresh EXCEPT !.pending = Cardinality(Unfinished \ {l})]
           /\ OneLess(refresh) \in RefreshFields
           /\ FinishLookup(lookup, l) \in [Lookup -> LookupFields]
           /\ Open(FinishLookup(lookup, l)) = Unfinished \ {l}
           /\ \A k \in Lookup :
                  LET f == FinishLookup(lookup, l)[k]
                  IN  /\ f.inCall = lookup[k].inCall
                      /\ f.linked => lookup[k].linked
                      /\ f.inCall => f.linked
                      /\ f.completed => f.inCall
  <1> USE Distinct
  <1>1. Unfinished \in SUBSET Lookup /\ l \in Lookup
    BY DEF Unfinished
  <1>2. /\ refresh.pending = Cardinality(Unfinished)
        /\ refresh.pending \in Nat
        /\ refresh.pending # 0
        /\ Cardinality(Unfinished \ {l}) = refresh.pending - 1
    BY <1>1, Counting DEF IInv, CountInv
  <1>3. refresh.live
    BY <1>2 DEF IInv, CountInv, Ended
  <1>4. OneLess(refresh) = [refresh EXCEPT !.pending = Cardinality(Unfinished \ {l})]
    BY <1>2 DEF OneLess
  <1>5. OneLess(refresh) \in RefreshFields
    <2>1. refresh \in RefreshFields /\ Cardinality(Unfinished \ {l}) \in Nat
      BY <1>2 DEF IInv, TypeOK
    <2> QED BY <1>4, <2>1 DEF RefreshFields
  <1>6. lookup \in [Lookup -> LookupFields] /\ lookup[l] \in LookupFields
    BY <1>1 DEF IInv, TypeOK
  <1>7. FinishLookup(lookup, l) = [lookup EXCEPT ![l] =
            IF lookup[l].inCall THEN [lookup[l] EXCEPT !.completed = TRUE] ELSE FreeLookup]
    BY DEF FinishLookup
  <1>8. (IF lookup[l].inCall THEN [lookup[l] EXCEPT !.completed = TRUE] ELSE FreeLookup)
            \in LookupFields
    BY <1>6, Blank DEF LookupFields
  <1>9. FinishLookup(lookup, l) \in [Lookup -> LookupFields]
    BY <1>6, <1>7, <1>8
  <1>10. /\ \A k \in Lookup : k # l => FinishLookup(lookup, l)[k] = lookup[k]
         /\ FinishLookup(lookup, l)[l] =
               IF lookup[l].inCall THEN [lookup[l] EXCEPT !.completed = TRUE] ELSE FreeLookup
    BY <1>1, <1>6, <1>7
  <1>11. /\ FinishLookup(lookup, l)[l].inCall = lookup[l].inCall
         /\ FinishLookup(lookup, l)[l].linked => lookup[l].linked
         /\ FinishLookup(lookup, l)[l].inCall => FinishLookup(lookup, l)[l].linked
         /\ FinishLookup(lookup, l)[l].completed => FinishLookup(lookup, l)[l].inCall
         /\ FinishLookup(lookup, l)[l].linked => FinishLookup(lookup, l)[l].completed
    <2>1. lookup[l].inCall => lookup[l].linked
      BY <1>1 DEF IInv, CallInv
    <2>2. CASE lookup[l].inCall
      BY <1>6, <1>10, <2>1, <2>2 DEF LookupFields
    <2>3. CASE ~ lookup[l].inCall
      <3>1. FinishLookup(lookup, l)[l] = FreeLookup
        BY <1>10, <2>3
      <3>2. lookup[l].inCall \in BOOLEAN
        BY <1>6 DEF LookupFields
      <3>3. lookup[l].inCall = FALSE
        BY <2>3, <3>2, Zenon
      <3>4. /\ FreeLookup.inCall = FALSE
            /\ ~ FreeLookup.linked
            /\ ~ FreeLookup.completed
        BY DEF FreeLookup
      <3> QED BY <3>1, <3>3, <3>4
    <2> QED BY <2>2, <2>3
  <1>12. Open(FinishLookup(lookup, l)) = Unfinished \ {l}
    BY <1>1, <1>10, <1>11 DEF Open, Unfinished
  <1>13. \A k \in Lookup : /\ lookup[k].inCall => lookup[k].linked
                           /\ lookup[k].completed => lookup[k].inCall
    BY DEF IInv, CallInv
  <1> QED BY <1>3, <1>4, <1>5, <1>9, <1>10, <1>11, <1>12, <1>13

LEMMA SrvFailsIInv == ASSUME IInv, SrvFails PROVE IInv'
  <1> USE Distinct
  <1> DEFINE rf == OneLess(refresh)
             lk == FinishLookup(lookup, Srv)
  <1>1. /\ Srv \in owed
        /\ pc = "resolveSrv" \/ HostInControl
        /\ owed' = owed \ {Srv}
        /\ MaybeComplete(rf, lk)
        /\ UNCHANGED <<clock, alive, caller, pc, current, todo, srvTtl>>
    BY DEF SrvFails
  <1>2. Srv \in Unfinished /\ ~ InSrvCallback /\ owed = Unfinished
    BY <1>1 DEF IInv, OwedInv, InSrvCallback, HostInControl
  <1>3. /\ rf \in RefreshFields
        /\ rf.live
        /\ rf.detached = refresh.detached
        /\ rf.pending = Cardinality(Unfinished \ {Srv})
        /\ rf.scheduling = refresh.scheduling
    <2>1. refresh \in RefreshFields
      BY DEF IInv, TypeOK
    <2> QED BY <1>2, <2>1, Finishing DEF RefreshFields
  <1>4. /\ lk \in [Lookup -> LookupFields]
        /\ Open(lk) = Unfinished \ {Srv}
        /\ \A k \in Lookup : /\ lk[k].inCall = lookup[k].inCall
                             /\ lk[k].linked => lookup[k].linked
                             /\ lk[k].inCall => lk[k].linked
                             /\ lk[k].completed => lk[k].inCall
    BY <1>2, Finishing
  <1> HIDE DEF rf, lk
  <1>5. Booked(rf, lk)
    <2>1. owed' = Open(lk) /\ Srv \notin owed' /\ ~ InSrvCallback'
      BY <1>1, <1>2, <1>4 DEF InSrvCallback
    <2>2. (refresh.detached <=> ~ alive') /\ (~ alive' => pc' = "loop" /\ caller' = "none")
      BY <1>1, <1>2, Finishing DEF IInv, LoopInv, HostInControl
    <2>3. pc' # "cancel" /\ pc' # "resolveAddr"
      BY <1>1 DEF HostInControl
    <2> QED
      BY <1>1, <1>3, <1>4, <2>1, <2>2, <2>3 DEF Booked, IInv, CountInv, CallInv
  <1>6. RestTypeOK'
    BY <1>1 DEF IInv, TypeOK, RestTypeOK
  <1> QED BY <1>1, <1>2, <1>5, <1>6, Finishing, CompleteIInv

LEMMA AddrAnswerIInv ==
    ASSUME IInv, NEW rec \in Rec, NEW found \in BOOLEAN, AddrAnswer(rec, found)
    PROVE  IInv'
  <1> USE Distinct
  <1> DEFINE gain == IF found /\ ~ refresh.detached
                     THEN [refresh EXCEPT !.endpoints = @ \cup {rec}] ELSE refresh
             rf == OneLess(gain)
             lk == FinishLookup(lookup, rec)
  <1>1. rec \in Unfinished /\ rec \in owed /\ (pc \in {"resolveSrv", "resolveAddr"} \/ HostInControl)
        /\ owed' = owed \ {rec} /\ MaybeComplete(rf, lk)
        /\ UNCHANGED <<clock, alive, caller, pc, current, todo, srvTtl>>
    BY DEF IInv, OwedInv, AddrAnswer
  <1>2. /\ refresh \in RefreshFields
        /\ refresh.live
        /\ refresh.pending > 0
        /\ refresh.pending - 1 = Cardinality(Unfinished \ {rec})
    <2>1. Unfinished \in SUBSET Lookup /\ rec \in Unfinished
      BY <1>1 DEF Unfinished
    <2>2. refresh \in RefreshFields /\ refresh.pending = Cardinality(Unfinished)
      BY DEF IInv, CountInv, TypeOK
    <2>3. refresh.live <=> ~ Ended(refresh)
      BY DEF IInv, CountInv
    <2>4. /\ Cardinality(Unfinished) > 0
          /\ Cardinality(Unfinished) - 1 = Cardinality(Unfinished \ {rec})
      BY <2>1, Counting
    <2> QED BY <2>2, <2>3, <2>4 DEF Ended
  <1>3. /\ rf \in RefreshFields
        /\ rf.live
        /\ rf.detached = refresh.detached
        /\ rf.pending = Cardinality(Unfinished \ {rec})
        /\ rf.scheduling = refresh.scheduling
    BY <1>2 DEF OneLess, RefreshFields
  <1>4. /\ lk \in [Lookup -> LookupFields]
        /\ Open(lk) = Unfinished \ {rec}
        /\ \A k \in Lookup : /\ lk[k].inCall = lookup[k].inCall
                             /\ lk[k].linked => lookup[k].linked
                             /\ lk[k].inCall => lk[k].linked
                             /\ lk[k].completed => lk[k].inCall
    BY <1>1, Finishing
  <1> HIDE DEF rf, lk
  <1>5. Booked(rf, lk)
    <2>1. owed' = Open(lk) \ (IF InSrvCallback' THEN {Srv} ELSE {})
      BY <1>1, <1>4 DEF IInv, OwedInv, InSrvCallback
    <2>2. InSrvCallback' => Srv \in Open(lk)
      BY <1>1, <1>4 DEF IInv, OwedInv, InSrvCallback
    <2>3. Srv \in owed' => \A l \in Lookup : lk[l].linked => l = Srv
      BY <1>1, <1>4 DEF IInv, OwedInv, Linked
    <2>4. InSrvCallback' => todo' \subseteq Rec /\ \A l \in todo' : ~ lk[l].linked
      BY <1>1, <1>4 DEF IInv, LoopInv, Linked, InSrvCallback
    <2>5. (refresh.detached <=> ~ alive') /\ (~ alive' => pc' = "loop" /\ caller' = "none")
      BY <1>1, <1>2 DEF IInv, LoopInv, HostInControl
    <2>6. pc' # "cancel"
      BY <1>1 DEF HostInControl
    <2> QED
      BY <1>1, <1>3, <1>4, <2>1, <2>2, <2>3, <2>4, <2>5, <2>6
      DEF Booked, IInv, CountInv, CallInv
  <1>6. RestTypeOK'
    BY <1>1 DEF IInv, TypeOK, RestTypeOK
  <1> QED BY <1>1, <1>2, <1>5, <1>6, CompleteIInv

LEMMA SrvCallbackEndsIInv == ASSUME IInv, SrvCallbackEnds PROVE IInv'
  <1> USE Distinct
  <1> DEFINE rf == [OneLess(refresh) EXCEPT !.minTtl = srvTtl]
             lk == FinishLookup(lookup, Srv)
  <1>1. /\ pc = "srvCallback"
        /\ todo = {}
        /\ MaybeComplete(rf, lk)
        /\ pc' = IF lookup[Srv].inCall THEN "resolveSrv" ELSE "loop"
        /\ UNCHANGED <<clock, alive, owed, caller, current, todo, srvTtl>>
    BY DEF SrvCallbackEnds
  <1>2. Srv \in Unfinished /\ owed = Unfinished \ {Srv}
    BY <1>1 DEF IInv, OwedInv, InSrvCallback
  <1>3. /\ rf \in RefreshFields
        /\ rf.live
        /\ rf.detached = refresh.detached
        /\ rf.pending = Cardinality(Unfinished \ {Srv})
        /\ rf.scheduling = refresh.scheduling
    <2>1. srvTtl \in Nat /\ refresh \in RefreshFields
      BY DEF IInv, TypeOK
    <2> QED BY <1>2, <2>1, Finishing DEF RefreshFields
  <1>4. /\ lk \in [Lookup -> LookupFields]
        /\ Open(lk) = Unfinished \ {Srv}
        /\ \A k \in Lookup : /\ lk[k].inCall = lookup[k].inCall
                             /\ lk[k].linked => lookup[k].linked
                             /\ lk[k].inCall => lk[k].linked
                             /\ lk[k].completed => lk[k].inCall
    BY <1>2, Finishing
  <1> HIDE DEF rf, lk
  <1>5. Booked(rf, lk)
    <2>1. ~ InSrvCallback' /\ pc' \notin {"resolveAddr", "cancel"}
      BY <1>1 DEF InSrvCallback
    <2>2. owed' = Open(lk) /\ Srv \notin owed'
      BY <1>1, <1>2, <1>4
    <2>3. alive /\ ~ refresh.detached
      BY <1>1 DEF IInv, LoopInv, TypeOK
    <2> QED
      BY <1>1, <1>3, <1>4, <2>1, <2>2, <2>3 DEF Booked, IInv, CountInv, CallInv
  <1>6. RestTypeOK'
    BY <1>1 DEF IInv, TypeOK, RestTypeOK, Frames
  <1> QED BY <1>1, <1>2, <1>5, <1>6, Finishing, CompleteIInv

-----------------------------------------------------------------------------
(* Resolver calls that return *)

\* The refresh and the lookups that ResolveReturns hands to MaybeComplete.
ReturnedRefresh(l, failed) ==
    [(IF failed THEN Refused(l) ELSE refresh) EXCEPT !.scheduling = @ - 1]

ReturnedLookups(l, failed, hasId) ==
    [lookup EXCEPT ![l] = IF failed \/ lookup[l].completed THEN FreeLookup
                          ELSE [@ EXCEPT !.inCall = FALSE, !.hasId = hasId]]

LEMMA Returning ==
    ASSUME IInv, NEW l \in Lookup, lookup[l].inCall, refresh.scheduling > 0,
           NEW failed \in BOOLEAN, NEW hasId \in BOOLEAN
    PROVE  LET rf == ReturnedRefresh(l, failed)
               lk == ReturnedLookups(l, failed, hasId)
           IN  /\ refresh.live
               /\ rf \in RefreshFields
               /\ rf.live
               /\ rf.detached = refresh.detached
               /\ rf.pending = Cardinality(Open(lk))
               /\ rf.scheduling = refresh.scheduling - 1
               /\ lk \in [Lookup -> LookupFields]
               /\ \A k \in Lookup : k # l => lk[k] = lookup[k]
               /\ ~ lk[l].inCall
               /\ ~ lk[l].completed
               /\ Open(lk) = Unfinished \ (IF failed THEN {l} ELSE {})
  <1> USE Distinct
  <1> DEFINE rf == ReturnedRefresh(l, failed)
             lk == ReturnedLookups(l, failed, hasId)
             rest == [lookup[l] EXCEPT !.inCall = FALSE, !.hasId = hasId]
             new == IF failed \/ lookup[l].completed THEN FreeLookup ELSE rest
  <1>1. /\ lookup \in [Lookup -> LookupFields]
        /\ lookup[l] \in LookupFields
        /\ refresh \in RefreshFields
        /\ lookup[l].linked
    BY DEF IInv, TypeOK, CallInv
  <1>2. refresh.live
    BY <1>1 DEF IInv, CountInv, Ended, RefreshFields
  <1>3. /\ new \in LookupFields
        /\ ~ new.inCall
        /\ ~ new.completed
        /\ new.linked <=> ~ (failed \/ lookup[l].completed)
    <2>1. rest \in LookupFields /\ ~ rest.inCall /\ rest.linked
          /\ (rest.completed <=> lookup[l].completed)
      BY <1>1 DEF LookupFields
    <2>2. FreeLookup \in LookupFields /\ ~ FreeLookup.inCall /\ ~ FreeLookup.completed
          /\ ~ FreeLookup.linked
      BY Blank DEF FreeLookup
    <2> HIDE DEF rest
    <2> QED BY <2>1, <2>2
  <1>4. lk = [lookup EXCEPT ![l] = new]
    BY DEF ReturnedLookups
  <1> HIDE DEF new
  <1>5. /\ lk \in [Lookup -> LookupFields]
        /\ lk[l] = new
        /\ \A k \in Lookup : k # l => lk[k] = lookup[k]
    BY <1>1, <1>3, <1>4
  <1>6. Open(lk) = Unfinished \ (IF failed THEN {l} ELSE {})
    BY <1>1, <1>3, <1>5 DEF Open, Unfinished
  <1>7. Unfinished \in SUBSET Lookup
    BY DEF Unfinished
  <1>8. /\ rf \in RefreshFields
        /\ rf.live
        /\ rf.detached = refresh.detached
        /\ rf.scheduling = refresh.scheduling - 1
        /\ rf.pending = Cardinality(Open(lk))
    <2>1. CASE failed /\ ~ lookup[l].completed
      <3>1. l \in Unfinished
        BY <1>1, <2>1 DEF Unfinished
      <3>2. rf = [OneLess(refresh) EXCEPT !.scheduling = @ - 1]
        BY <2>1 DEF ReturnedRefresh, Refused
      <3>3. /\ OneLess(refresh) = [refresh EXCEPT !.pending = Cardinality(Unfinished \ {l})]
            /\ OneLess(refresh) \in RefreshFields
        BY <3>1, Finishing
      <3>4. Open(lk) = Unfinished \ {l}
        BY <1>6, <2>1
      <3> DEFINE one == OneLess(refresh)
      <3>5. /\ one.live
            /\ one.detached = refresh.detached
            /\ one.scheduling = refresh.scheduling
            /\ one.pending = Cardinality(Open(lk))
        BY <1>1, <1>2, <3>3, <3>4 DEF RefreshFields
      <3>6. one \in RefreshFields /\ one.scheduling - 1 \in Nat
        BY <1>1, <3>3, <3>5 DEF RefreshFields
      <3> HIDE DEF rf, lk, one
      <3>7. rf = [one EXCEPT !.scheduling = @ - 1]
        BY <3>2 DEF one
      <3> QED BY <3>5, <3>6, <3>7 DEF RefreshFields
    <2>2. CASE ~ (failed /\ ~ lookup[l].completed)
      <3>1. rf = [refresh EXCEPT !.scheduling = @ - 1]
        BY <2>2 DEF ReturnedRefresh, Refused
      <3>2. Open(lk) = Unfinished
        BY <1>1, <1>6, <2>2 DEF Unfinished
      <3>3. refresh.pending = Cardinality(Unfinished)
        BY DEF IInv, CountInv
      <3> HIDE DEF rf, lk
      <3> QED BY <1>1, <1>2, <3>1, <3>2, <3>3 DEF RefreshFields
    <2> QED BY <2>1, <2>2
  <1> HIDE DEF rf, lk
  <1>9. ~ lk[l].inCall /\ ~ lk[l].completed
    BY <1>3, <1>5
  <1> QED BY <1>2, <1>5, <1>6, <1>8, <1>9 DEF rf, lk

LEMMA ResolveSrvReturnsIInv ==
    ASSUME IInv, NEW failed \in BOOLEAN, NEW hasId \in BOOLEAN,
           ResolveSrvReturns(failed, hasId)
    PROVE  IInv'
  <1> USE Distinct
  <1> DEFINE rf == ReturnedRefresh(Srv, failed)
             lk == ReturnedLookups(Srv, failed, hasId)
  <1>1. /\ pc = "resolveSrv"
        /\ owed' = IF failed THEN owed \ {Srv} ELSE owed
        /\ MaybeComplete(rf, lk)
        /\ pc' = "loop"
        /\ UNCHANGED <<clock, alive, caller, current, todo, srvTtl>>
    BY DEF ResolveSrvReturns, ResolveReturns, ReturnedRefresh, ReturnedLookups
  <1>2. lookup[Srv].inCall /\ refresh.scheduling = 1
    BY <1>1 DEF IInv, CallInv, CountInv
  <1>3. /\ refresh.live
        /\ rf \in RefreshFields
        /\ rf.live
        /\ rf.detached = refresh.detached
        /\ rf.pending = Cardinality(Open(lk))
        /\ rf.scheduling = 0
        /\ lk \in [Lookup -> LookupFields]
        /\ \A k \in Lookup : k # Srv => lk[k] = lookup[k]
        /\ ~ lk[Srv].inCall
        /\ ~ lk[Srv].completed
        /\ Open(lk) = Unfinished \ (IF failed THEN {Srv} ELSE {})
    BY <1>2, Returning
  <1> HIDE DEF rf, lk
  <1>4. Booked(rf, lk)
    <2>1. ~ InSrvCallback /\ ~ InSrvCallback' /\ alive' /\ ~ refresh.detached
      BY <1>1 DEF InSrvCallback, IInv, LoopInv, TypeOK
    <2>2. owed' = Open(lk)
      BY <1>1, <1>3, <2>1 DEF IInv, OwedInv
    <2>3. Srv \in owed' => \A l \in Lookup : lk[l].linked => l = Srv
      BY <1>1, <1>3 DEF IInv, OwedInv, Linked
    <2>4. \A l \in Lookup : ~ lk[l].inCall /\ ~ lk[l].completed
      BY <1>1, <1>3 DEF IInv, CallInv
    <2> QED BY <1>1, <1>3, <2>1, <2>2, <2>3, <2>4 DEF Booked
  <1>5. RestTypeOK'
    BY <1>1 DEF IInv, TypeOK, RestTypeOK, Frames
  <1> QED BY <1>1, <1>3, <1>4, <1>5, CompleteIInv

LEMMA ResolveAddrReturnsIInv ==
    ASSUME IInv, NEW failed \in BOOLEAN, NEW hasId \in BOOLEAN,
           ResolveAddrReturns(failed, hasId)
    PROVE  IInv'
  <1> USE Distinct
  <1> DEFINE rf == ReturnedRefresh(current, failed)
             lk == ReturnedLookups(current, failed, hasId)
  <1>1. /\ pc = "resolveAddr"
        /\ owed' = IF failed THEN owed \ {current} ELSE owed
        /\ MaybeComplete(rf, lk)
        /\ pc' = "srvCallback"
        /\ current' = NoLookup
        /\ UNCHANGED <<clock, alive, caller, todo, srvTtl>>
    BY DEF ResolveAddrReturns, ResolveReturns, ReturnedRefresh, ReturnedLookups
  <1>2. /\ current \in Rec
        /\ lookup[current].inCall
        /\ refresh.scheduling = (IF lookup[Srv].inCall THEN 1 ELSE 0) + 1
        /\ Srv \in Unfinished
        /\ owed = Unfinished \ {Srv}
    BY <1>1 DEF IInv, CallInv, CountInv, OwedInv, InSrvCallback
  <1>3. /\ refresh.live
        /\ rf \in RefreshFields
        /\ rf.live
        /\ rf.detached = refresh.detached
        /\ rf.pending = Cardinality(Open(lk))
        /\ rf.scheduling = refresh.scheduling - 1
        /\ lk \in [Lookup -> LookupFields]
        /\ \A k \in Lookup : k # current => lk[k] = lookup[k]
        /\ ~ lk[current].inCall
        /\ ~ lk[current].completed
        /\ Open(lk) = Unfinished \ (IF failed THEN {current} ELSE {})
    BY <1>2, Returning
  <1> HIDE DEF rf, lk
  <1>4. Booked(rf, lk)
    <2>1. InSrvCallback' /\ alive' /\ ~ refresh.detached
      BY <1>1 DEF InSrvCallback, IInv, LoopInv, TypeOK
    <2>2. owed' = Open(lk) \ {Srv} /\ Srv \in Open(lk)
      BY <1>1, <1>2, <1>3
    <2>3. \A l \in Lookup : /\ lk[l].inCall => lk[l].linked
                            /\ lk[l].completed => lk[l].inCall
                            /\ l # Srv => ~ lk[l].inCall
      BY <1>1, <1>3 DEF IInv, CallInv
    <2>4. todo \subseteq Rec /\ \A l \in todo : ~ lookup[l].linked
      BY <1>1 DEF IInv, LoopInv, InSrvCallback, Linked
    <2>5. current \notin todo
      BY <1>2, <2>4 DEF IInv, CallInv
    <2>6. todo' \subseteq Rec /\ \A l \in todo' : ~ lk[l].linked
      BY <1>1, <1>3, <2>4, <2>5
    <2>7. rf.scheduling = IF lk[Srv].inCall THEN 1 ELSE 0
      BY <1>2, <1>3
    <2> QED BY <1>1, <1>3, <2>1, <2>2, <2>3, <2>6, <2>7 DEF Booked
  <1>5. RestTypeOK'
    BY <1>1 DEF IInv, TypeOK, RestTypeOK, Frames
  <1> QED BY <1>1, <1>3, <1>4, <1>5, CompleteIInv

-----------------------------------------------------------------------------
(* The other steps *)

\* The SRV callback starts its loop.
LEMMA SrvAnswerIInv ==
    ASSUME IInv, NEW records \in SUBSET Rec, SrvAnswer(records)
    PROVE  IInv'
  <1> USE Distinct DEF SrvAnswer, clientVars
  <1>1. Srv \in Unfinished /\ owed = Unfinished /\ Linked = {Srv}
    BY DEF IInv, OwedInv, InSrvCallback, HostInControl
  <1>2. UNCHANGED <<Unfinished, Linked>>
    BY DEF Unfinished, Linked
  <1>3. MinTtl(records \cap Conforming) \in Nat
    <2> DEFINE ttls == {TtlOf[r] : r \in records \cap Conforming} \ {0}
    <2>1. ttls \subseteq Nat
      BY RecordAssumption
    <2>2. CASE ttls = {}
      BY <2>2 DEF MinTtl
    <2>3. CASE ttls # {}
      <3>1. \E n \in ttls : \A m \in ttls : n <= m
        BY <2>1, <2>3, LeastOf
      <3> QED BY <2>1, <2>3, <3>1 DEF MinTtl
    <2> QED BY <2>2, <2>3
  <1>4. TypeOK'
    BY <1>3 DEF IInv, TypeOK, Frames
  <1>5. CountInv'
    BY <1>2 DEF IInv, CountInv, Ended, HostInControl
  <1>6. OwedInv'
    BY <1>1, <1>2 DEF IInv, OwedInv, InSrvCallback
  <1>7. CallInv'
    BY DEF IInv, CallInv, HostInControl
  <1>8. LoopInv'
    <2>1. alive
      BY <1>1, Finishing DEF IInv, LoopInv
    <2>2. todo' \subseteq Rec \ Linked'
      BY <1>1, <1>2, RecordAssumption
    <2>3. ~ refresh'.detached /\ (inflight' <=> refresh'.live)
      BY DEF IInv, LoopInv
    <2> QED BY <2>1, <2>2, <2>3 DEF LoopInv, InSrvCallback
  <1>9. OutageIsNotThrottled'
    BY DEF IInv, OutageIsNotThrottled
  <1> QED BY <1>4, <1>5, <1>6, <1>7, <1>8, <1>9 DEF IInv

LEMMA ScheduleAddrIInv ==
    ASSUME IInv, NEW rec \in Rec, ScheduleAddr(rec)
    PROVE  IInv'
  <1> USE Distinct DEF ScheduleAddr, clientVars
  <1>1. /\ ~ lookup[rec].linked
        /\ rec \notin Unfinished
        /\ todo \subseteq Rec \ Linked
        /\ Srv \in Unfinished
        /\ owed = Unfinished \ {Srv}
    BY DEF IInv, LoopInv, OwedInv, InSrvCallback, Linked, Unfinished
  <1>2. /\ lookup' = [lookup EXCEPT ![rec] = NewLookup]
        /\ lookup'[rec] = NewLookup
        /\ \A l \in Lookup : l # rec => lookup'[l] = lookup[l]
    BY DEF IInv, TypeOK
  <1>3. Unfinished' = Unfinished \cup {rec} /\ Linked' = Linked \cup {rec}
    BY <1>2 DEF Unfinished, Linked, NewLookup
  <1>4. refresh \in RefreshFields /\ refresh' = [refresh EXCEPT !.pending = @ + 1, !.scheduling = @ + 1]
    BY DEF IInv, TypeOK
  <1>5. /\ refresh' \in RefreshFields
        /\ refresh'.live = refresh.live
        /\ refresh'.detached = refresh.detached
        /\ refresh'.pending = refresh.pending + 1
        /\ refresh'.scheduling = refresh.scheduling + 1
    <2> HIDE DEF ScheduleAddr
    <2>1. refresh.pending + 1 \in Nat /\ refresh.scheduling + 1 \in Nat
      BY <1>4 DEF RefreshFields
    <2>2. refresh' = [refresh EXCEPT !.pending = refresh.pending + 1,
                                     !.scheduling = refresh.scheduling + 1]
      BY <1>4
    <2> DEFINE p == refresh.pending + 1
               n == refresh.scheduling + 1
               new == [refresh EXCEPT !.pending = p, !.scheduling = n]
    <2>3. refresh \in RefreshFields /\ p \in Nat /\ n \in Nat
      BY <1>4, <2>1
    <2> HIDE DEF p, n
    <2>4. /\ new \in RefreshFields
          /\ new.live = refresh.live
          /\ new.detached = refresh.detached
          /\ new.pending = p
          /\ new.scheduling = n
      BY <2>3 DEF RefreshFields
    <2>5. refresh' = new
      BY <2>2 DEF p, n
    <2> HIDE DEF new
    <2> QED BY <2>4, <2>5 DEF p, n
  <1>6. refresh.pending = Cardinality(Unfinished) /\ refresh.pending # 0 /\ refresh.live
    <2>1. Unfinished \in SUBSET Lookup
      BY DEF Unfinished
    <2> QED BY <1>1, <2>1, Counting DEF IInv, CountInv, Ended
  <1>7. TypeOK'
    BY <1>2, <1>5, Blank DEF IInv, TypeOK, Frames
  <1>8. CountInv'
    <2>1. Cardinality(Unfinished') = Cardinality(Unfinished) + 1
      <3>1. Unfinished \in SUBSET Lookup
        BY DEF Unfinished
      <3> QED BY <1>1, <1>3, <3>1, Counting
    <2>2. lookup'[Srv] = lookup[Srv]
      BY <1>2
    <2>3. refresh.scheduling = IF lookup[Srv].inCall THEN 1 ELSE 0
      BY DEF IInv, CountInv
    <2>4. ~ Ended(refresh')
      BY <1>4, <1>5 DEF Ended, RefreshFields
    <2> QED BY <1>5, <1>6, <2>1, <2>2, <2>3, <2>4 DEF CountInv, Ended
  <1>9. OwedInv'
    BY <1>1, <1>3 DEF OwedInv, InSrvCallback
  <1>10. CallInv'
    BY <1>2 DEF IInv, CallInv, NewLookup
  <1>11. LoopInv'
    BY <1>1, <1>3, <1>5 DEF IInv, LoopInv, InSrvCallback
  <1>12. OutageIsNotThrottled'
    BY DEF IInv, OutageIsNotThrottled
  <1> QED BY <1>7, <1>8, <1>9, <1>10, <1>11, <1>12 DEF IInv

\* Steps that leave the refresh, the lookups and the frames alone.
LEMMA IdleIInv ==
    ASSUME IInv, UNCHANGED <<servers, lastRefresh, refreshTtl, inflight, refresh, lookup,
                             owed, pc, current, srvTtl>>,
           clock' \in 1..ClockMax,
           alive' \in BOOLEAN,
           caller' \in {"create", "none", "periodic", "forced"},
           todo' \in SUBSET todo,
           pc # "cancel",
           ~ alive' => pc = "loop" /\ caller' = "none" /\ ~ inflight,
           ~ alive => ~ alive'
    PROVE  IInv'
  <1>1. UNCHANGED <<Unfinished, Linked>>
    BY DEF Unfinished, Linked
  <1>2. TypeOK'
    BY DEF IInv, TypeOK
  <1>3. CountInv'
    BY <1>1 DEF IInv, CountInv, Ended
  <1>4. OwedInv'
    BY <1>1 DEF IInv, OwedInv, InSrvCallback
  <1>5. CallInv'
    BY DEF IInv, CallInv
  <1>6. LoopInv'
    BY <1>1 DEF IInv, LoopInv, InSrvCallback
  <1>7. OutageIsNotThrottled'
    BY DEF IInv, OutageIsNotThrottled
  <1> QED BY <1>2, <1>3, <1>4, <1>5, <1>6, <1>7 DEF IInv

LEMMA DestroyDetachesIInv == ASSUME IInv, DestroyDetaches PROVE IInv'
  <1> USE Distinct
  <1>1. /\ alive /\ pc = "loop" /\ caller = "none" /\ inflight
        /\ inflight' = FALSE
        /\ pc' = "cancel"
        /\ refresh' = [refresh EXCEPT !.detached = TRUE, !.scheduling = @ + 1]
        /\ UNCHANGED <<clock, alive, servers, lastRefresh, refreshTtl, lookup, owed,
                       caller, srvTtl>>
    BY DEF DestroyDetaches, HostInControl
  <1>2. /\ current' \in Lookup \cup {NoLookup}
        /\ todo' \subseteq Linked
        /\ current' # NoLookup => current' \in Linked \ todo'
    <2>1. Linked \in SUBSET Lookup
      BY DEF Linked
    <2> QED BY <2>1 DEF DestroyDetaches, NextLookup
  <1>3. UNCHANGED <<Unfinished, Linked>>
    BY <1>1 DEF Unfinished, Linked
  <1>4. refresh \in RefreshFields /\ refresh.live
    BY <1>1 DEF IInv, TypeOK, LoopInv
  <1>5. /\ refresh' \in RefreshFields
        /\ refresh'.live
        /\ refresh'.detached
        /\ refresh'.pending = refresh.pending
        /\ refresh'.scheduling = refresh.scheduling + 1
    <2> DEFINE n == refresh.scheduling + 1
               new == [refresh EXCEPT !.detached = TRUE, !.scheduling = n]
    <2>1. n \in Nat
      BY <1>4 DEF RefreshFields
    <2> HIDE DEF n
    <2>2. /\ new \in RefreshFields
          /\ new.live
          /\ new.detached
          /\ new.pending = refresh.pending
          /\ new.scheduling = n
      BY <1>4, <2>1 DEF RefreshFields
    <2>3. refresh' = new
      BY <1>1 DEF n
    <2> HIDE DEF new
    <2> QED BY <2>2, <2>3 DEF n
  <1>6. TypeOK'
    <2>1. todo' \in SUBSET Lookup
      BY <1>2 DEF Linked
    <2> QED BY <1>1, <1>2, <1>5, <2>1 DEF IInv, TypeOK, Frames
  <1>7. CountInv'
    BY <1>1, <1>3, <1>4, <1>5 DEF IInv, CountInv, CallInv, Ended
  <1>8. OwedInv'
    BY <1>1, <1>3 DEF IInv, OwedInv, InSrvCallback
  <1>9. CallInv'
    BY <1>1 DEF IInv, CallInv
  <1>10. LoopInv'
    BY <1>1, <1>2, <1>3, <1>5 DEF LoopInv, InSrvCallback
  <1>11. OutageIsNotThrottled'
    BY <1>1 DEF IInv, OutageIsNotThrottled
  <1> QED BY <1>6, <1>7, <1>8, <1>9, <1>10, <1>11 DEF IInv

\* One turn of the cancel loop: at most the canceled lookup is called back.
LEMMA CancelLookupIInv ==
    ASSUME IInv, LocalCancel, NEW called \in SUBSET Lookup, CancelLookup(called)
    PROVE  IInv'
  <1> USE Distinct
  <1>1. /\ pc = "cancel"
        /\ current # NoLookup
        /\ called \subseteq CancelReach(current)
        /\ owed' = owed \ called
        /\ refresh' = [refresh EXCEPT !.pending = @ - Cardinality(called)]
        /\ lookup' = [l \in Lookup |-> IF l \in called THEN FreeLookup ELSE lookup[l]]
        /\ UNCHANGED <<clock, alive, servers, lastRefresh, refreshTtl, inflight, caller,
                       pc, srvTtl>>
    BY DEF CancelLookup, clientVars
  <1>2. PICK next \in NextLookup(todo) :
            current' = next /\ todo' = todo \ (called \cup {next})
    BY DEF CancelLookup
  <1>3. called = {} \/ (called = {current} /\ current \in owed)
    BY <1>1 DEF CancelReach
  <1>4. /\ owed = Unfinished
        /\ todo \subseteq Linked
        /\ current \in Linked \ todo
        /\ refresh.detached
        /\ refresh.live
        /\ refresh \in RefreshFields
        /\ refresh.scheduling = 1
        /\ refresh.pending = Cardinality(Unfinished)
    <2>1. owed = Unfinished
      BY <1>1 DEF IInv, OwedInv, InSrvCallback
    <2>2. refresh.scheduling = 1 /\ refresh.pending = Cardinality(Unfinished)
      BY <1>1 DEF IInv, CountInv, CallInv
    <2>3. refresh.live
      BY <2>2 DEF IInv, CountInv, Ended
    <2> QED BY <1>1, <2>1, <2>2, <2>3 DEF IInv, LoopInv, TypeOK
  <1>5. /\ Unfinished' = Unfinished \ called
        /\ Linked' = Linked \ called
    BY <1>1 DEF Unfinished, Linked, FreeLookup
  <1>6. Cardinality(Unfinished') = Cardinality(Unfinished) - Cardinality(called)
        /\ Cardinality(Unfinished') \in Nat
    <2>1. Unfinished \in SUBSET Lookup /\ Unfinished' \in SUBSET Lookup
      BY <1>5 DEF Unfinished
    <2>2. Cardinality(Unfinished) \in Nat /\ Cardinality(Unfinished') \in Nat
      BY <2>1, Counting
    <2>3. CASE called = {}
      <3>1. Unfinished' = Unfinished
        BY <1>5, <2>3
      <3>2. Cardinality(called) = 0
        BY <2>3, FS_EmptySet
      <3> QED BY <2>2, <3>1, <3>2
    <2>4. CASE called = {current} /\ current \in owed
      <3>1. current \in Unfinished
        BY <1>4, <2>4
      <3>2. Cardinality(called) = 1
        BY <2>4, FS_Singleton
      <3>3. Cardinality(Unfinished \ {current}) = Cardinality(Unfinished) - 1
        BY <2>1, <3>1, Counting
      <3> QED BY <1>5, <2>2, <2>4, <3>2, <3>3
    <2> QED BY <1>3, <2>3, <2>4
  <1>7. /\ refresh' \in RefreshFields
        /\ refresh'.live
        /\ refresh'.detached
        /\ refresh'.pending = Cardinality(Unfinished')
        /\ refresh'.scheduling = 1
    <2> DEFINE n == Cardinality(Unfinished')
               new == [refresh EXCEPT !.pending = n]
    <2>1. n \in Nat /\ n = refresh.pending - Cardinality(called)
      BY <1>4, <1>6
    <2> HIDE DEF n
    <2>2. /\ new \in RefreshFields
          /\ new.live
          /\ new.detached
          /\ new.pending = n
          /\ new.scheduling = 1
      BY <1>4, <2>1 DEF RefreshFields
    <2>3. refresh' = new
      BY <1>1, <2>1
    <2> HIDE DEF new
    <2> QED BY <2>2, <2>3 DEF n
  <1>8. /\ todo' \subseteq Linked'
        /\ current' # NoLookup => current' \in Linked' \ todo'
        /\ current' \in Lookup \cup {NoLookup}
    BY <1>2, <1>3, <1>4, <1>5 DEF NextLookup, Linked
  <1>9. \A l \in Lookup : lookup'[l] = IF l \in called THEN FreeLookup ELSE lookup[l]
    BY <1>1
  <1>10. TypeOK'
    <2>1. lookup' \in [Lookup -> LookupFields]
      BY <1>1, Blank DEF IInv, TypeOK
    <2>2. todo' \in SUBSET Lookup
      BY <1>8 DEF Linked
    <2> QED BY <1>1, <1>7, <1>8, <2>1, <2>2 DEF IInv, TypeOK
  <1>11. \A l \in Lookup : ~ lookup'[l].inCall /\ ~ lookup'[l].completed
    BY <1>1, <1>9 DEF IInv, CallInv, FreeLookup
  <1>12. CountInv'
    BY <1>1, <1>7, <1>11 DEF CountInv, Ended
  <1>13. OwedInv'
    BY <1>1, <1>4, <1>5 DEF IInv, OwedInv, InSrvCallback
  <1>14. CallInv'
    BY <1>1, <1>11 DEF CallInv
  <1>15. LoopInv'
    BY <1>1, <1>7, <1>8 DEF IInv, LoopInv, InSrvCallback
  <1>16. OutageIsNotThrottled'
    BY <1>1 DEF IInv, OutageIsNotThrottled
  <1> QED BY <1>10, <1>12, <1>13, <1>14, <1>15, <1>16 DEF IInv

LEMMA DestroyEndsIInv == ASSUME IInv, DestroyEnds PROVE IInv'
  <1> USE Distinct
  <1> DEFINE rf == [refresh EXCEPT !.scheduling = @ - 1]
  <1>1. /\ pc = "cancel"
        /\ MaybeComplete(rf, lookup)
        /\ ~ alive'
        /\ alive' \in BOOLEAN
        /\ pc' = "loop"
        /\ UNCHANGED <<clock, owed, caller, current, todo, srvTtl>>
    BY DEF DestroyEnds
  <1>2. /\ refresh \in RefreshFields
        /\ refresh.detached
        /\ refresh.scheduling = 1
        /\ refresh.pending = Cardinality(Unfinished)
        /\ owed = Unfinished
        /\ caller = "none"
    BY <1>1 DEF IInv, TypeOK, LoopInv, CountInv, CallInv, OwedInv, InSrvCallback
  <1>3. refresh.live
    BY <1>2 DEF IInv, CountInv, Ended
  <1>4. /\ rf \in RefreshFields
        /\ rf.live
        /\ rf.detached = refresh.detached
        /\ rf.pending = refresh.pending
        /\ rf.scheduling = 0
    <2>1. rf = [refresh EXCEPT !.scheduling = 0]
      BY <1>2
    <2> HIDE DEF rf
    <2> QED BY <1>2, <1>3, <2>1 DEF RefreshFields
  <1> HIDE DEF rf
  <1>5. Booked(rf, lookup)
    <2>1. ~ InSrvCallback'
      BY <1>1 DEF InSrvCallback
    <2>2. Open(lookup) = Unfinished
      BY DEF Open, Unfinished
    <2>3. \A l \in Lookup : ~ lookup[l].inCall /\ ~ lookup[l].completed
      BY <1>1 DEF IInv, CallInv
    <2>4. lookup \in [Lookup -> LookupFields]
      BY DEF IInv, TypeOK
    <2>5. Srv \in owed => \A l \in Lookup : lookup[l].linked => l = Srv
      BY DEF IInv, OwedInv, Linked
    <2> QED BY <1>1, <1>2, <1>4, <2>1, <2>2, <2>3, <2>4, <2>5 DEF Booked
  <1>6. RestTypeOK'
    BY <1>1 DEF IInv, TypeOK, RestTypeOK, Frames
  <1> QED BY <1>1, <1>3, <1>5, <1>6, CompleteIInv

-----------------------------------------------------------------------------
(* The theorems *)

LEMMA NextIInv == ASSUME LocalCancel, IInv, [Next]_vars PROVE IInv'
  <1> USE Distinct
  <1>1. clock \in 1..ClockMax /\ alive \in BOOLEAN /\ todo \in SUBSET todo
        /\ caller \in {"create", "none", "periodic", "forced"}
        /\ (~ alive => pc = "loop" /\ caller = "none" /\ ~ inflight)
        /\ (pc = "cancel" => caller = "none")
    BY DEF IInv, TypeOK, LoopInv
  <1>2. CASE NoNewRefresh /\ pc = "loop" /\ alive
             /\ UNCHANGED <<clock, current, todo, srvTtl>>
             /\ caller' \in {"create", "none", "periodic", "forced"}
    BY <1>1, <1>2, IdleIInv DEF NoNewRefresh, clientVars
  <1>3. CASE BeginRefresh /\ pc = "loop" /\ alive
             /\ UNCHANGED <<clock, current, todo, srvTtl>>
             /\ caller' \in {"create", "none", "periodic", "forced"}
    BY <1>3, BeginRefreshIInv
  <1>4. CASE Create \/ ApiPeriodic \/ ApiForced
    BY <1>1, <1>2, <1>3, <1>4 DEF Create, ApiPeriodic, ApiForced, HostInControl
  <1>5. CASE ApiReturns
    BY <1>1, <1>5, IdleIInv DEF ApiReturns, clientVars
  <1>6. ASSUME NEW rec \in Rec, ScheduleAddr(rec) PROVE IInv'
    BY <1>6, ScheduleAddrIInv
  <1>7. ASSUME NEW rec \in Rec, SkipAddr(rec) PROVE IInv'
    BY <1>1, <1>7, IdleIInv DEF SkipAddr, clientVars
  <1>8. CASE SrvCallbackEnds
    BY <1>8, SrvCallbackEndsIInv
  <1>9. ASSUME NEW failed \in BOOLEAN, NEW hasId \in BOOLEAN,
               ResolveSrvReturns(failed, hasId) \/ ResolveAddrReturns(failed, hasId)
        PROVE  IInv'
    BY <1>9, ResolveSrvReturnsIInv, ResolveAddrReturnsIInv
  <1>10. ASSUME NEW called \in SUBSET Lookup, CancelLookup(called) PROVE IInv'
    BY <1>10, CancelLookupIInv
  <1>11. CASE DestroyEnds
    BY <1>11, DestroyEndsIInv
  <1>12. CASE Proceed
    BY <1>4, <1>5, <1>6, <1>7, <1>8, <1>9, <1>10, <1>11, <1>12 DEF Proceed
  <1>13. ASSUME NEW l \in Lookup, Answer(l) PROVE IInv'
    BY <1>13, SrvFailsIInv, SrvAnswerIInv, AddrAnswerIInv DEF Answer
  <1>14. CASE DestroyIdle
    BY <1>1, <1>14, IdleIInv DEF DestroyIdle, HostInControl
  <1>15. CASE DestroyDetaches
    BY <1>15, DestroyDetachesIInv
  <1>16. CASE SetClock
    <2>1. CASE pc # "cancel"
      BY <1>1, <1>16, <2>1, IdleIInv DEF SetClock, clientVars
    <2>2. CASE pc = "cancel"
      BY <1>16 DEF SetClock, clientVars, IInv, TypeOK, CountInv, OwedInv, CallInv, LoopInv,
         OutageIsNotThrottled, Unfinished, Linked, InSrvCallback, Ended
    <2> QED BY <2>1, <2>2
  <1>17. CASE UNCHANGED vars
    BY <1>17 DEF vars, clientVars, IInv, TypeOK, CountInv, OwedInv, CallInv, LoopInv,
       OutageIsNotThrottled, Unfinished, Linked, InSrvCallback, Ended
  <1> QED BY <1>4, <1>12, <1>13, <1>14, <1>15, <1>16, <1>17 DEF Next

\* The counters, the lists and the stack of r_dns_refresh_* agree in every
\* state, whatever the resolver does synchronously, late or not at all, as
\* long as cancel calls back no other lookup than its own.
THEOREM Bookkeeping == LocalCancel => (Spec => []IInv)
  <1>1. Init => IInv
    BY InitIInv
  <1>2. LocalCancel /\ IInv /\ [Next]_vars => IInv'
    BY NextIInv
  <1>3. CASE LocalCancel
    <2>1. IInv /\ [Next]_vars => IInv'
      BY <1>2, <1>3
    <2> QED BY <1>1, <2>1, PTL DEF Spec
  <1> QED BY <1>3

\* No frame and no callback, however late, touches freed memory.
THEOREM MemorySafety == LocalCancel => (Spec => []MemorySafe)
  <1>1. IInv => MemorySafe
    <2> SUFFICES ASSUME IInv PROVE MemorySafe
      OBVIOUS
    <2> USE Distinct
    <2>1. \A l \in owed : lookup[l].linked
      BY DEF IInv, OwedInv, Unfinished
    <2>2. pc \in {"resolveSrv", "srvCallback", "resolveAddr"} => lookup[Srv].linked
      BY DEF IInv, OwedInv, CallInv, InSrvCallback, Unfinished
    <2>3. pc \in {"resolveAddr", "cancel"} /\ current # NoLookup => lookup[current].linked
      BY DEF IInv, CallInv, LoopInv, Linked
    <2>4. ASSUME NEW l \in Lookup, lookup[l].linked PROVE refresh.live
      <3>1. CASE lookup[l].completed
        BY <2>4, <3>1 DEF IInv, CallInv, CountInv, Ended
      <3>2. CASE ~ lookup[l].completed
        BY <2>4, <3>2, Finishing DEF Unfinished
      <3> QED BY <3>1, <3>2
    <2>5. pc # "loop" => refresh.live
      <3>1. CASE pc \in {"resolveSrv", "srvCallback", "resolveAddr"}
        BY <2>2, <2>4, <3>1
      <3>2. CASE pc = "cancel"
        BY <3>2 DEF IInv, CountInv, CallInv, Ended
      <3> QED BY <3>1, <3>2 DEF IInv, TypeOK, Frames
    <2> QED BY <2>1, <2>2, <2>3, <2>4, <2>5 DEF MemorySafe
  <1> QED BY <1>1, Bookkeeping, PTL

\* Between calls a refresh exists only for a callback that is still owed.
THEOREM NoLeak == LocalCancel => (Spec => []NothingLeaks)
  <1>1. IInv => NothingLeaks
    <2> SUFFICES ASSUME IInv, HostInControl
                 PROVE  /\ refresh.live => owed # {}
                        /\ inflight <=> refresh.live /\ ~ refresh.detached
      BY DEF NothingLeaks
    <2> USE Distinct
    <2>1. refresh.live => Cardinality(Unfinished) # 0
      BY DEF IInv, CountInv, CallInv, Ended, HostInControl
    <2>2. Unfinished \in SUBSET Lookup
      BY DEF Unfinished
    <2>3. refresh.live => Unfinished # {}
      BY <2>1, <2>2, Counting
    <2>4. owed = Unfinished
      BY DEF IInv, OwedInv, InSrvCallback, HostInControl
    <2> QED BY <2>3, <2>4 DEF IInv, LoopInv
  <1> QED BY <1>1, Bookkeeping, PTL

\* While no server is known no forced refresh is held back.
THEOREM Unthrottled == LocalCancel => (Spec => []OutageIsNotThrottled)
  <1>1. IInv => OutageIsNotThrottled
    BY DEF IInv
  <1> QED BY <1>1, Bookkeeping, PTL

-----------------------------------------------------------------------------
(* Known servers, and a clock that is set back *)

\* Whatever ends a refresh, r_dns_refresh_finish keeps or replaces the servers.
LEMMA CompleteKeeps ==
    ASSUME NEW rf, NEW lk, MaybeComplete(rf, lk), servers # {}
    PROVE  servers' # {}
  <1>1. CASE ~ Ended(rf)
    BY <1>1 DEF MaybeComplete
  <1>2. CASE Ended(rf) /\ rf.detached
    BY <1>2 DEF MaybeComplete
  <1>3. CASE Ended(rf) /\ ~ rf.detached
    BY <1>3 DEF MaybeComplete, Install
  <1> QED BY <1>1, <1>2, <1>3

\* A failed or empty discovery, a canceled one and a destroyed client never
\* take away the servers that are known (r_dns_refresh_finish).
THEOREM ServersSurvive == Spec => ServersSurviveFailure
  <1>1. ASSUME servers # {}, [Next]_vars PROVE servers' # {}
    <2>1. CASE Create \/ ApiPeriodic \/ ApiForced
      BY <1>1, <2>1 DEF Create, ApiPeriodic, ApiForced, BeginRefresh,
         NoNewRefresh, clientVars
    <2>2. CASE ApiReturns
      BY <1>1, <2>2 DEF ApiReturns, clientVars
    <2>3. ASSUME NEW rec \in Rec, ScheduleAddr(rec) \/ SkipAddr(rec)
          PROVE  servers' # {}
      BY <1>1, <2>3 DEF ScheduleAddr, SkipAddr, clientVars
    <2>4. CASE SrvCallbackEnds
      BY <1>1, <2>4, CompleteKeeps DEF SrvCallbackEnds
    <2>5. ASSUME NEW failed \in BOOLEAN, NEW hasId \in BOOLEAN,
                 \/ ResolveSrvReturns(failed, hasId)
                 \/ ResolveAddrReturns(failed, hasId)
          PROVE  servers' # {}
      BY <1>1, <2>5, CompleteKeeps
         DEF ResolveSrvReturns, ResolveAddrReturns, ResolveReturns
    <2>6. ASSUME NEW called \in SUBSET Lookup, CancelLookup(called)
          PROVE  servers' # {}
      BY <1>1, <2>6 DEF CancelLookup, clientVars
    <2>7. CASE DestroyEnds
      BY <1>1, <2>7, CompleteKeeps DEF DestroyEnds
    <2>8. CASE SrvFails
      BY <1>1, <2>8, CompleteKeeps DEF SrvFails
    <2>9. ASSUME NEW records \in SUBSET Rec, SrvAnswer(records)
          PROVE  servers' # {}
      BY <1>1, <2>9 DEF SrvAnswer, clientVars
    <2>10. ASSUME NEW rec \in Rec, NEW found \in BOOLEAN, AddrAnswer(rec, found)
           PROVE  servers' # {}
      BY <1>1, <2>10, CompleteKeeps DEF AddrAnswer
    <2>11. ASSUME NEW l \in Lookup, Answer(l) PROVE servers' # {}
      BY <2>8, <2>9, <2>10, <2>11 DEF Answer
    <2>12. CASE DestroyIdle \/ DestroyDetaches \/ SetClock \/ UNCHANGED vars
      BY <1>1, <2>12 DEF DestroyIdle, DestroyDetaches, SetClock, vars, clientVars
    <2>13. CASE Proceed
      BY <2>1, <2>2, <2>3, <2>4, <2>5, <2>6, <2>7, <2>13 DEF Proceed
    <2> QED BY <1>1, <2>1, <2>11, <2>12, <2>13 DEF Next
  <1>2. [Next]_vars => [servers # {} => servers' # {}]_vars
    BY <1>1
  <1> QED BY <1>2, PTL DEF Spec, ServersSurviveFailure

\* After the clock was set back the wrapped difference is no shorter than the
\* interval, so the next call refreshes (r_dns_maybe_refresh).
THEOREM SetBackIsDue == LocalCancel => (Spec => []StepBackIsDue)
  <1>1. IInv => StepBackIsDue
    <2> SUFFICES ASSUME IInv, clock < lastRefresh PROVE PeriodicDue
      BY DEF StepBackIsDue
    <2> DEFINE d == lastRefresh - clock
    <2>1. /\ clock \in 1..ClockMax /\ lastRefresh \in 0..ClockMax
          /\ refreshTtl \in Nat
      BY DEF IInv, TypeOK
    <2>2. d \in 1..ClockMax /\ clock - lastRefresh = -d
      BY <2>1, PacingAssumption
    <2>3. Modulus \in Nat \ {0} /\ d <= Modulus /\ Modulus - d >= Interval
      BY <2>2, PacingAssumption
    <2>4. (-d) % Modulus = Modulus - d
      BY <2>2, <2>3, PacingAssumption
    <2>5. SinceRefresh >= Interval
      BY <2>2, <2>3, <2>4, PacingAssumption DEF SinceRefresh
    <2>6. RefreshInterval <= Interval
      BY <2>1, PacingAssumption DEF RefreshInterval
    <2>7. RefreshInterval \in Nat /\ SinceRefresh \in Int
      BY <2>1, <2>3, PacingAssumption DEF RefreshInterval, SinceRefresh
    <2> QED BY <2>5, <2>6, <2>7, PacingAssumption DEF PeriodicDue
  <1> QED BY <1>1, Bookkeeping, PTL

\* In an outage and after the clock was set back a refresh is due at once.
THEOREM SafePacing == LocalCancel => (Spec => []PacingIsSafe)
  <1>1. OutageIsNotThrottled /\ StepBackIsDue => PacingIsSafe
    BY DEF PacingIsSafe
  <1> QED BY <1>1, Unthrottled, SetBackIsDue, PTL

-----------------------------------------------------------------------------
(* Installation after the last answer *)

\* No step leaves a loop of the refresh before its last turn.
LEMMA TodoStep == ASSUME TodoInv, [Next]_vars PROVE TodoInv'
  <1> USE Distinct DEF TodoInv
  <1>1. CASE Create \/ ApiPeriodic \/ ApiForced
    BY <1>1 DEF Create, ApiPeriodic, ApiForced, HostInControl, BeginRefresh,
       NoNewRefresh
  <1>2. CASE ApiReturns \/ DestroyIdle \/ SetClock \/ UNCHANGED vars
    BY <1>2 DEF ApiReturns, DestroyIdle, SetClock, vars, clientVars
  <1>3. ASSUME NEW rec \in Rec, ScheduleAddr(rec) \/ SkipAddr(rec)
        PROVE  TodoInv'
    BY <1>3 DEF ScheduleAddr, SkipAddr
  <1>4. CASE SrvCallbackEnds
    BY <1>4 DEF SrvCallbackEnds
  <1>5. ASSUME NEW failed \in BOOLEAN, NEW hasId \in BOOLEAN,
               \/ ResolveSrvReturns(failed, hasId)
               \/ ResolveAddrReturns(failed, hasId)
        PROVE  TodoInv'
    BY <1>5 DEF ResolveSrvReturns, ResolveAddrReturns
  <1>6. ASSUME NEW called \in SUBSET Lookup, CancelLookup(called)
        PROVE  TodoInv'
    BY <1>6 DEF CancelLookup, NextLookup
  <1>7. CASE DestroyEnds
    BY <1>7 DEF DestroyEnds
  <1>8. ASSUME NEW l \in Lookup, Answer(l) PROVE TodoInv'
    BY <1>8 DEF Answer, SrvFails, SrvAnswer, AddrAnswer
  <1>9. CASE DestroyDetaches
    BY <1>9 DEF DestroyDetaches, NextLookup, Linked
  <1>10. CASE Proceed
    BY <1>1, <1>2, <1>3, <1>4, <1>5, <1>6, <1>7, <1>10 DEF Proceed
  <1> QED BY <1>1, <1>2, <1>8, <1>9, <1>10 DEF Next

\* When the client gives up its refresh as finished, the resolver owes nothing
\* more for it and every record has had its turn (r_dns_refresh_finish).
THEOREM InstalledAtTheEnd == LocalCancel => (Spec => InstallAfterLastAnswer)
  <1>1. Init => TodoInv
    BY DEF Init, TodoInv
  <1>2. TodoInv /\ [Next]_vars => TodoInv'
    BY TodoStep
  <1>3. MemorySafe' /\ TodoInv' /\ IInv' =>
            [inflight /\ ~ inflight' /\ ~ refresh'.live
                => owed' = {} /\ todo' = {}]_vars
    BY DEF MemorySafe, TodoInv, IInv, TypeOK
  <1> QED BY <1>1, <1>2, <1>3, Bookkeeping, MemorySafety, PTL
          DEF Spec, InstallAfterLastAnswer

\* The servers that are known are replaced after the last answer of a refresh
\* and never by nothing.
THEOREM SoundInstallation == LocalCancel => (Spec => InstallsSoundly)
  BY InstalledAtTheEnd, ServersSurvive, PTL DEF InstallsSoundly

=============================================================================
