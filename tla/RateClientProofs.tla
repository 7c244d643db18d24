------------------------- MODULE RateClientProofs -------------------------
(***************************************************************************)
(* IInv is an inductive invariant of RateClient; the safety properties and *)
(* the refinement of RequestContract follow from it.                       *)
(***************************************************************************)
EXTENDS RateClient, FiniteSetTheorems, TLAPS

-----------------------------------------------------------------------------
(* The age order *)

\* Start seconds are integers, so the age order is a lexicographic order.
LEMMA StartSecondType ==
    ASSUME NEW id \in Nat
    PROVE  r_server_start_s_from_id(id) \in Int
BY ServerAssumption DEF r_server_start_s_from_id, R_SERVER_ID_EPOCH_S_2025

\* r_server_is_older is transitive and asymmetric.
LEMMA OlderTransitive ==
    ASSUME NEW a \in Nat, NEW b \in Nat, NEW c \in Nat,
           r_server_is_older(a, b), r_server_is_older(b, c)
    PROVE  r_server_is_older(a, c)
BY StartSecondType DEF r_server_is_older

LEMMA OlderAsymmetric ==
    ASSUME NEW a \in Nat, NEW b \in Nat, r_server_is_older(a, b)
    PROVE  ~ r_server_is_older(b, a)
BY StartSecondType DEF r_server_is_older

\* Keeping the older of the best answer and a new one keeps the oldest of all
\* (r_candidate_try_update_best).
LEMMA KeepingTheOlder ==
    ASSUME NEW seen \in SUBSET Nat, NEW best \in seen, NEW s \in Nat,
           r_is_oldest_known_server(seen, best)
    PROVE  r_is_oldest_known_server(seen \cup {s},
               IF r_server_is_older(s, best) THEN s ELSE best)
<1>1. CASE r_server_is_older(s, best)
  <2> SUFFICES ASSUME NEW other \in seen \cup {s}, other # s,
                      r_server_is_older(other, s)
               PROVE  FALSE
    BY <1>1 DEF r_is_oldest_known_server
  <2>1. r_server_is_older(other, best)
    BY <1>1, OlderTransitive
  <2>2. CASE other = best
    BY <1>1, <2>2, OlderAsymmetric
  <2>3. CASE other # best
    BY <2>1, <2>3 DEF r_is_oldest_known_server
  <2> QED BY <2>2, <2>3
<1>2. CASE ~ r_server_is_older(s, best)
  BY <1>2 DEF r_is_oldest_known_server
<1> QED BY <1>1, <1>2

-----------------------------------------------------------------------------
(* The operators on the parts of a request *)

LEMMA NoServerIsNoServer == NoServer \notin Server
BY ServerAssumption DEF NoServer

\* The time to live of a request is a natural number, at least one round.
LEMMA DedupTtlType == DedupTtl \in Nat /\ Gap[0] \in Nat \ {0} /\ Remaining[0] \in Nat
BY PolicyAssumption DEF DedupTtl

\* The first round of a submitted request opens a schedule that adds up to its
\* deduplication deadline.
LEMMA FirstRound ==
    ASSUME NEW now \in Nat, NEW q \in RequestFields,
           q.start = now, q.dedup = now + DedupTtl
    PROVE  /\ StartRound(now, 0) \in TimerFields
           /\ ScheduleInv(q, StartRound(now, 0), FALSE)
           /\ StartRound(now, 0).round = 0
<1>1. StartRound(now, 0) \in TimerFields
  BY DedupTtlType, PolicyAssumption DEF StartRound, TimerFields, Phases
<1> DEFINE t == StartRound(now, 0)
<1>2. /\ t.phase = "ROUND" /\ t.round = 0 /\ t.roundDeadline = now + Gap[0]
      /\ t.preference = now + Gap[0] /\ t.attempt = now + Gap[0]
  BY DEF StartRound
<1> HIDE DEF t
<1>3. ScheduleInv(q, t, FALSE)
  BY <1>2, DedupTtlType DEF ScheduleInv, DedupTtl
<1> QED BY <1>1, <1>2, <1>3 DEF t

\* A replay keeps the schedule absolute.
LEMMA LaterRound ==
    ASSUME NEW q \in RequestFields, NEW t \in TimerFields, ScheduleInv(q, t, FALSE),
           t.phase = "ROUND", t.round < ReplayCount
    PROVE  LET n == StartRound(t.roundDeadline, t.round + 1)
           IN  /\ n \in TimerFields
               /\ ScheduleInv(q, n, FALSE)
               /\ n.round = t.round + 1
               /\ n.roundStart = t.roundDeadline
<1> DEFINE k == t.round + 1
           n == StartRound(t.roundDeadline, k)
<1>0. t.round \in 0..ReplayCount /\ ReplayCount \in Nat
  BY PolicyAssumption DEF TimerFields
<1>1. k \in 1..ReplayCount /\ k \in 0..ReplayCount /\ k # 0 /\ k - 1 = t.round
  BY <1>0
<1>2. Gap[k] \in Nat \ {0} /\ Remaining[k] \in Nat
      /\ Remaining[t.round] = Gap[k] + Remaining[k]
  BY <1>1, PolicyAssumption
<1>3. t.roundDeadline \in Nat /\ t.preference \in Nat /\ q.start \in Nat
  BY DEF TimerFields, RequestFields
<1> HIDE DEF k
<1>4. n \in TimerFields
  BY <1>1, <1>2, <1>3 DEF StartRound, TimerFields, Phases
<1>5. ScheduleInv(q, n, FALSE)
  BY <1>1, <1>2, <1>3, DedupTtlType DEF StartRound, ScheduleInv
<1>6. n.round = k /\ n.roundStart = t.roundDeadline
  BY DEF StartRound
<1> QED BY <1>4, <1>5, <1>6 DEF k

\* So does the final receive window.
LEMMA FinalWindow ==
    ASSUME NEW q \in RequestFields, NEW t \in TimerFields, ScheduleInv(q, t, FALSE),
           t.phase = "ROUND", t.round = ReplayCount
    PROVE  /\ EnterFinal(t) \in TimerFields
           /\ ScheduleInv(q, EnterFinal(t), FALSE)
           /\ EnterFinal(t).round = t.round
<1>1. EnterFinal(t) \in TimerFields
  BY PolicyAssumption DEF EnterFinal, TimerFields, Phases
<1>2. t.roundDeadline \in Nat /\ t.preference \in Nat /\ q.start \in Nat
  BY DEF TimerFields, RequestFields
<1>3. ScheduleInv(q, EnterFinal(t), FALSE)
  BY <1>2, DedupTtlType, PolicyAssumption DEF EnterFinal, ScheduleInv
<1> QED BY <1>1, <1>3 DEF EnterFinal

\* Recording a response keeps the best answer the oldest one.
LEMMA RecordAnswer ==
    ASSUME NEW h \in HeardFields, AnswerInv(h), NEW s \in Server,
           NEW keepPort \in BOOLEAN
    PROVE  LET n == Record(h, s, keepPort)
           IN  /\ n \in HeardFields
               /\ AnswerInv(n)
               /\ n.best # NoServer
               /\ n.seen = h.seen \cup {s}
<1> DEFINE n == Record(h, s, keepPort)
<1>1. n \in HeardFields
  BY DEF Record, HeardFields
<1>2. /\ n.seen = h.seen \cup {s}
      /\ n.best = IF h.best = NoServer \/ r_server_is_older(s, h.best) THEN s ELSE h.best
  BY DEF Record
<1>3. n.best # NoServer
  BY <1>2, NoServerIsNoServer
<1>4. h.seen \in SUBSET Nat /\ s \in Nat
  BY ServerAssumption DEF HeardFields
<1> HIDE DEF n
<1>5. CASE h.best = NoServer
  <2>1. n.best = s /\ n.seen = {s}
    BY <1>2, <1>5 DEF AnswerInv
  <2>2. AnswerInv(n)
    BY <1>3, <2>1 DEF AnswerInv, r_is_oldest_known_server
  <2> QED BY <1>1, <1>2, <1>3, <2>2 DEF n
<1>6. CASE h.best # NoServer
  <2>1. h.best \in h.seen /\ r_is_oldest_known_server(h.seen, h.best)
    BY <1>6 DEF AnswerInv
  <2>2. r_is_oldest_known_server(n.seen, n.best)
    BY <1>2, <1>4, <1>6, <2>1, KeepingTheOlder
  <2>3. n.best \in n.seen
    BY <1>2, <1>6, <2>1
  <2>4. AnswerInv(n)
    BY <1>3, <2>2, <2>3 DEF AnswerInv
  <2> QED BY <1>1, <1>2, <1>3, <2>4 DEF n
<1> QED BY <1>5, <1>6

\* The failure counter saturates instead of wrapping.
LEMMA CounterType ==
    ASSUME TypeOK, NEW attempted \in SUBSET Endpoint, NEW ok, SendOutcome(attempted, ok)
    PROVE  sendFailures' \in 0..CounterMax /\ ok \in SUBSET attempted
<1> DEFINE n == Cardinality(attempted \ ok)
<1>1. IsFiniteSet(attempted \ ok) /\ n <= Cardinality(Endpoint)
  BY EndpointAssumption, FS_Subset
<1>2. n \in Nat /\ Cardinality(Endpoint) \in Nat
  BY <1>1, EndpointAssumption, FS_CardinalityType
<1> HIDE DEF n
<1>3. sendFailures' = IF ok = {} THEN sendFailures ELSE AddFailures(n)
  BY DEF SendOutcome, n
<1>4. AddFailures(n) \in 0..CounterMax
  BY <1>1, <1>2, BoundAssumption DEF AddFailures, TypeOK
<1> QED BY <1>3, <1>4 DEF SendOutcome, TypeOK
-----------------------------------------------------------------------------
(* IInv is inductive *)

\* The initial state has no requests at all.
LEMMA InitInv == Init => IInv
<1> SUFFICES ASSUME Init PROVE IInv
  OBVIOUS
<1>1. TypeOK
  <2>1. BlankReq \in RequestFields
    BY DEF BlankReq, RequestFields
  <2>2. BlankTimer \in TimerFields
    BY PolicyAssumption DEF BlankTimer, TimerFields, Phases
  <2>3. NothingHeard \in HeardFields
    BY DEF NothingHeard, HeardFields
  <2>4. NoOutcome \in Outcomes
    BY DEF NoOutcome, Outcomes, Statuses
  <2>5. /\ req \in [Req -> RequestFields] /\ timer \in [Req -> TimerFields]
        /\ heard \in [Req -> HeardFields] /\ outcome \in [Req -> Outcomes]
    BY <2>1, <2>2, <2>3, <2>4 DEF Init
  <2>6. /\ state \in [Req -> States] /\ sends \in [Req -> Nat]
        /\ reached \in [Req -> SUBSET Endpoint]
    BY DEF Init, States
  <2>7. /\ clock = 0 /\ stepBacks = 0 /\ sendFailures = 0
        /\ servers = {} /\ callback = NoReq
    BY DEF Init
  <2>8. alive \in BOOLEAN /\ rebindPending \in BOOLEAN
    BY DEF Init
  <2>9. MaxStepBacks \in Nat /\ CounterMax \in Nat
    BY BoundAssumption
  <2> QED BY <2>5, <2>6, <2>7, <2>8, <2>9 DEF TypeOK
<1>2. ASSUME NEW r \in Req PROVE RequestInv(r)
  BY PolicyAssumption
  DEF Init, RequestInv, LifeInv, AnswerInv, Held, NothingHeard, NoOutcome
<1>3. CallbackInv
  BY RequestAssumption DEF Init, CallbackInv
<1>4. RebindNotForgotten
  BY DEF Init, RebindNotForgotten
<1> QED BY <1>1, <1>2, <1>3, <1>4 DEF IInv

\* A step keeps the invariant of a request it does not touch.
LEMMA Untouched ==
    ASSUME NEW x \in Req, RequestInv(x),
           state'[x] = state[x], req'[x] = req[x], timer'[x] = timer[x],
           heard'[x] = heard[x], sends'[x] = sends[x], outcome'[x] = outcome[x]
    PROVE  RequestInv(x)'
BY DEF RequestInv, LifeInv, Held

\* r_request_complete, from whichever handler it is called: the outcome agrees
\* with the answers, the request leaves the in-flight list, its callback runs.
LEMMA CompletionInv ==
    ASSUME IInv, NEW r \in Req, CanDeliver(r),
           NEW h \in HeardFields, AnswerInv(h),
           NEW status \in {"OK", "TIMEOUT", "IO"},
           status = "OK" <=> h.best # NoServer,
           NEW ok, RequestComplete(r, h, status, ok),
           timer' \in [Req -> TimerFields],
           \A x \in Req \ {r} : timer'[x] = timer[x],
           UNCHANGED <<clock, stepBacks, alive, servers, sendFailures, req>>
    PROVE  IInv'
<1> USE DEF IInv
<1>1. TypeOK'
  <2>1. ok \in SUBSET Endpoint
    BY DEF RequestComplete, MissingTargets, TypeOK, RequestFields
  <2>2. outcome' \in [Req -> Outcomes]
    BY DEF RequestComplete, TypeOK, Outcomes, Statuses, HeardFields
  <2>3. sends' \in [Req -> Nat]
    BY DEF RequestComplete, TypeOK
  <2>4. /\ state' \in [Req -> States] /\ heard' \in [Req -> HeardFields]
        /\ callback' \in Req \cup {NoReq}
    BY DEF RequestComplete, TypeOK, States
  <2>5. reached' \in [Req -> SUBSET Endpoint]
    BY <2>1 DEF RequestComplete, TypeOK
  <2>6. rebindPending' \in BOOLEAN
    BY DEF RequestComplete, TypeOK, HeardFields
  <2> QED BY <2>2, <2>3, <2>4, <2>5, <2>6 DEF TypeOK
<1>2. ASSUME NEW x \in Req PROVE RequestInv(x)'
  <2>1. CASE x # r
    BY <1>2, <2>1, Untouched DEF RequestComplete, TypeOK
  <2>2. CASE x = r
    <3>1. /\ state'[r] = "calling" /\ heard'[r] = h
          /\ outcome'[r] = [status |-> status,
                            server |-> IF status = "OK" THEN h.best ELSE NoServer]
          /\ sends'[r] = IF ok # {} THEN sends[r] + 1 ELSE sends[r]
      BY DEF RequestComplete, TypeOK
    <3>2. sends[r] + 1 <= ReplayCount + 2 /\ sends[r] \in Nat
      <4>1. sends[r] = timer[r].round + 1
        BY DEF RequestInv, LifeInv, CanDeliver
      <4>2. timer[r].round \in 0..ReplayCount
        BY DEF TypeOK, TimerFields
      <4> QED BY <4>1, <4>2, PolicyAssumption DEF TypeOK
    <3>3. sends'[r] <= ReplayCount + 2
      BY <3>1, <3>2, PolicyAssumption
    <3>4. LifeInv(r)'
      BY <3>1, <3>3 DEF LifeInv, Held
    <3> QED BY <2>2, <3>1, <3>4 DEF RequestInv
  <2> QED BY <2>1, <2>2
<1>3. CallbackInv'
  BY RequestAssumption DEF CallbackInv, RequestComplete, CanDeliver, TypeOK
<1>4. RebindNotForgotten'
  BY RequestAssumption DEF RebindNotForgotten, RequestComplete
<1> QED BY <1>1, <1>2, <1>3, <1>4

LEMMA SubmitInv ==
    ASSUME IInv, NEW r \in Req, NEW ok, Submit(r, ok)
    PROVE  IInv'
<1> USE DEF IInv
<1> DEFINE q == [start |-> clock, dedup |-> clock + DedupTtl, targets |-> servers]
           t == StartRound(clock, 0)
<1>1. q \in RequestFields /\ clock \in Nat /\ servers \in SUBSET Endpoint
  BY DedupTtlType DEF TypeOK, RequestFields
<1>2. t \in TimerFields /\ ScheduleInv(q, t, FALSE) /\ t.round = 0
  BY <1>1, FirstRound
<1>3. sendFailures' \in 0..CounterMax /\ ok \in SUBSET servers
  BY <1>1, CounterType DEF Submit
<1>4. /\ state[r] = "unused" /\ state' = [state EXCEPT ![r] = "inflight"]
      /\ req' = [req EXCEPT ![r] = q] /\ timer' = [timer EXCEPT ![r] = t]
      /\ sends' = [sends EXCEPT ![r] = 1]
      /\ reached' = [reached EXCEPT ![r] = ok] /\ servers # {}
      /\ UNCHANGED <<clock, stepBacks, alive, servers, rebindPending, callback, heard,
                     outcome>>
  BY DEF Submit, CanSubmit
<1>5. TypeOK'
  BY <1>1, <1>2, <1>3, <1>4 DEF TypeOK, States
<1>6. ASSUME NEW x \in Req PROVE RequestInv(x)'
  <2>1. CASE x # r
    BY <1>4, <1>6, <2>1, Untouched DEF TypeOK
  <2>2. CASE x = r
    <3>1. /\ state'[r] = "inflight" /\ req'[r] = q /\ timer'[r] = t
          /\ sends'[r] = 1 /\ heard'[r] = NothingHeard /\ outcome'[r] = outcome[r]
          /\ outcome[r].status = "none" /\ outcome[r].server = NoServer
          /\ q.targets # {}
      BY <1>4 DEF TypeOK, RequestInv, LifeInv
    <3>2. ~ Held(r)'
      BY <3>1 DEF Held, NothingHeard
    <3>3. LifeInv(r)'
      BY <1>2, <3>1, <3>2, PolicyAssumption DEF LifeInv
    <3>4. AnswerInv(heard'[r])
      BY <3>1 DEF AnswerInv, NothingHeard
    <3>5. ScheduleInv(req'[r], timer'[r], Held(r)')
      BY <1>2, <3>1, <3>2 DEF ScheduleInv
    <3> QED BY <2>2, <3>3, <3>4, <3>5 DEF RequestInv
  <2> QED BY <2>1, <2>2
<1>7. CallbackInv'
  BY <1>4 DEF CallbackInv, TypeOK
<1>8. RebindNotForgotten'
  BY <1>4 DEF RebindNotForgotten, Inflight, TypeOK
<1> QED BY <1>5, <1>6, <1>7, <1>8
LEMMA SubmitRejectedInv ==
    ASSUME IInv, NEW r \in Req, SubmitRejected(r)
    PROVE  IInv'
<1> USE DEF IInv
<1>1. TypeOK'
  BY DEF SubmitRejected, TypeOK, States
<1>2. ASSUME NEW x \in Req PROVE RequestInv(x)'
  BY DEF SubmitRejected, CanSubmit, RequestInv, LifeInv, Held, TypeOK
<1>3. CallbackInv'
  BY DEF SubmitRejected, CanSubmit, CallbackInv, TypeOK
<1>4. RebindNotForgotten'
  BY DEF SubmitRejected, CanSubmit, RebindNotForgotten, Inflight, TypeOK
<1> QED BY <1>1, <1>2, <1>3, <1>4

LEMMA CancelRequestInv ==
    ASSUME IInv, NEW r \in Req, CancelRequest(r)
    PROVE  IInv'
<1> USE DEF IInv
<1>1. TypeOK'
  BY DEF CancelRequest, NotifySteeringWhenDrained, TypeOK, States
<1>2. ASSUME NEW x \in Req PROVE RequestInv(x)'
  BY DEF CancelRequest, RequestInv, LifeInv, Held, TypeOK
<1>3. CallbackInv'
  BY DEF CancelRequest, CallbackInv, TypeOK
<1>4. RebindNotForgotten'
  <2>1. Inflight' = Inflight \ {r}
    BY DEF CancelRequest, Inflight, TypeOK
  <2> QED BY <2>1 DEF CancelRequest, NotifySteeringWhenDrained, RebindNotForgotten
<1> QED BY <1>1, <1>2, <1>3, <1>4

LEMMA CallbackReturnInv ==
    ASSUME IInv, CallbackReturn
    PROVE  IInv'
<1> USE DEF IInv
<1>0. callback \in Req /\ state[callback] = "calling"
  BY DEF CallbackReturn, TypeOK, CallbackInv
<1>1. TypeOK'
  BY DEF CallbackReturn, NotifySteeringWhenDrained, TypeOK, States
<1>2. ASSUME NEW x \in Req PROVE RequestInv(x)'
  <2>1. CASE x # callback
    BY <1>2, <2>1, Untouched DEF CallbackReturn, TypeOK
  <2>2. CASE x = callback
    BY <1>0, <2>2 DEF CallbackReturn, RequestInv, LifeInv, Held, TypeOK
  <2> QED BY <2>1, <2>2
<1>3. CallbackInv'
  BY <1>0, RequestAssumption DEF CallbackReturn, CallbackInv, TypeOK
<1>4. RebindNotForgotten'
  <2>1. Inflight' = Inflight
    BY <1>0 DEF CallbackReturn, Inflight, TypeOK
  <2> QED BY <2>1 DEF CallbackReturn, NotifySteeringWhenDrained, RebindNotForgotten
<1> QED BY <1>1, <1>2, <1>3, <1>4

LEMMA DestroyInv ==
    ASSUME IInv, Destroy
    PROVE  IInv'
<1> USE DEF IInv
<1>1. TypeOK'
  BY DEF Destroy, TypeOK, States
<1>2. ASSUME NEW x \in Req PROVE RequestInv(x)'
  BY DEF Destroy, RequestInv, LifeInv, Held, TypeOK
<1>3. CallbackInv'
  BY DEF Destroy, CallbackInv, TypeOK
<1>4. RebindNotForgotten'
  BY DEF Destroy, RebindNotForgotten
<1> QED BY <1>1, <1>2, <1>3, <1>4

\* The steps that change nothing of any request: reports, DNS and the clock.
LEMMA AmbientInv ==
    ASSUME IInv,
           \/ \E ok \in SUBSET Endpoint : ReportLatency(ok)
           \/ \E found \in Discoveries : InstallServers(found)
           \/ Tick
           \/ StepBack
    PROVE  IInv'
<1> USE DEF IInv
<1>1. UNCHANGED <<alive, rebindPending, callback, state, req, timer, heard, reached,
                  sends, outcome>>
  BY DEF ReportLatency, InstallServers, Tick, StepBack
<1> DEFINE AmbientType ==
        /\ clock' \in Nat /\ stepBacks' \in 0..MaxStepBacks
        /\ servers' \in SUBSET Endpoint /\ sendFailures' \in 0..CounterMax
<1>2. AmbientType
  <2>1. ASSUME NEW ok \in SUBSET Endpoint, ReportLatency(ok)
        PROVE  AmbientType
    BY <2>1, CounterType DEF ReportLatency, TypeOK
  <2>2. ASSUME NEW found \in Discoveries, InstallServers(found)
        PROVE  AmbientType
    BY <2>2, EndpointAssumption DEF InstallServers, TypeOK
  <2>3. CASE Tick
    BY <2>3 DEF Tick, TypeOK
  <2>4. CASE StepBack
    BY <2>4, BoundAssumption DEF StepBack, TypeOK
  <2> QED BY <2>1, <2>2, <2>3, <2>4
<1>3. TypeOK'
  BY <1>1, <1>2 DEF TypeOK
<1>4. ASSUME NEW x \in Req PROVE RequestInv(x)'
  BY <1>1, <1>4, Untouched
<1>5. CallbackInv' /\ RebindNotForgotten'
  BY <1>1 DEF CallbackInv, RebindNotForgotten, Inflight
<1> QED BY <1>3, <1>4, <1>5
\* A timer that finds the round over, or an answer held: the answers are those
\* the invariant describes and the schedule of the request adds up.
LEMMA InflightFacts ==
    ASSUME IInv, NEW r \in Req, CanDeliver(r)
    PROVE  /\ state[r] = "inflight" /\ callback = NoReq
           /\ req[r] \in RequestFields /\ timer[r] \in TimerFields
           /\ heard[r] \in HeardFields /\ AnswerInv(heard[r])
           /\ ScheduleInv(req[r], timer[r], Held(r))
           /\ sends[r] = timer[r].round + 1 /\ req[r].targets # {}
           /\ outcome[r].status = "none" /\ outcome[r].server = NoServer
           /\ \A e \in Endpoint : ServerOf[e] \in Server
BY EndpointAssumption DEF IInv, CanDeliver, TypeOK, RequestInv, LifeInv

\* A step that only changes the answers, the deadlines or the number of sends of
\* a request in flight keeps the invariant if the new parts satisfy it.
LEMMA InflightStepInv ==
    ASSUME IInv, NEW r \in Req, CanDeliver(r),
           NEW h \in HeardFields, AnswerInv(h),
           NEW t \in TimerFields, ScheduleInv(req[r], t, h.best # NoServer),
           NEW n \in Nat, n = t.round + 1,
           NEW ok \in SUBSET Endpoint,
           heard' = [heard EXCEPT ![r] = h],
           timer' = [timer EXCEPT ![r] = t],
           sends' = [sends EXCEPT ![r] = n],
           reached' = [reached EXCEPT ![r] = @ \cup ok],
           sendFailures' \in 0..CounterMax,
           UNCHANGED <<clock, stepBacks, alive, servers, rebindPending, callback, state,
                       req, outcome>>
    PROVE  IInv'
<1> USE DEF IInv
<1>1. TypeOK'
  BY DEF TypeOK
<1>2. ASSUME NEW x \in Req PROVE RequestInv(x)'
  <2>1. CASE x # r
    BY <1>2, <2>1, Untouched DEF TypeOK
  <2>2. CASE x = r
    <3>1. /\ heard'[r] = h /\ timer'[r] = t /\ sends'[r] = n /\ state'[r] = "inflight"
          /\ req'[r] = req[r] /\ outcome'[r] = outcome[r]
      BY DEF TypeOK, CanDeliver
    <3>2. n <= ReplayCount + 2
      BY PolicyAssumption DEF TimerFields
    <3>3. LifeInv(r)'
      BY <3>1, <3>2, InflightFacts DEF LifeInv
    <3>4. ScheduleInv(req'[r], timer'[r], Held(r)')
      BY <3>1 DEF ScheduleInv, Held
    <3> QED BY <2>2, <3>1, <3>3, <3>4 DEF RequestInv
  <2> QED BY <2>1, <2>2
<1>3. CallbackInv' /\ RebindNotForgotten'
  BY DEF CallbackInv, RebindNotForgotten, Inflight
<1> QED BY <1>1, <1>2, <1>3

LEMMA OnDatagramInv ==
    ASSUME IInv, NEW r \in Req, OnDatagram(r)
    PROVE  IInv'
<1>1. PICK s \in Server, keepPort \in BOOLEAN :
        \/ \E ok \in SUBSET Endpoint : OnDatagramComplete(r, s, keepPort, ok)
        \/ OnDatagramHold(r, s, keepPort)
  BY DEF OnDatagram
<1> DEFINE h == Record(heard[r], s, keepPort)
<1>2. CanDeliver(r)
  BY <1>1 DEF OnDatagramComplete, OnDatagramHold, CanAccept
<1>3. h \in HeardFields /\ AnswerInv(h) /\ h.best # NoServer
  BY <1>2, InflightFacts, RecordAnswer
<1>4. ASSUME NEW ok \in SUBSET Endpoint, OnDatagramComplete(r, s, keepPort, ok)
      PROVE  IInv'
  <2>1. RequestComplete(r, h, "OK", ok)
        /\ UNCHANGED <<clock, stepBacks, alive, servers, sendFailures, req, timer>>
    BY <1>4 DEF OnDatagramComplete
  <2>2. timer' \in [Req -> TimerFields]
    BY <2>1 DEF IInv, TypeOK
  <2> HIDE DEF h
  <2> QED BY <1>2, <1>3, <2>1, <2>2, CompletionInv
<1>5. ASSUME OnDatagramHold(r, s, keepPort)
      PROVE  IInv'
  <2> DEFINE t == [timer[r] EXCEPT !.attempt =
                      IF timer[r].preference < timer[r].attempt
                      THEN timer[r].preference ELSE timer[r].attempt]
  <2>1. timer[r] \in TimerFields /\ ScheduleInv(req[r], timer[r], Held(r))
        /\ sends[r] = timer[r].round + 1 /\ sends[r] \in Nat
    BY <1>2, InflightFacts DEF IInv, TypeOK
  <2>2. /\ t \in TimerFields
        /\ t.round = timer[r].round /\ t.phase = timer[r].phase
        /\ t.preference = timer[r].preference /\ t.roundDeadline = timer[r].roundDeadline
        /\ t.attempt = IF timer[r].preference < timer[r].attempt
                       THEN timer[r].preference ELSE timer[r].attempt
    BY <2>1 DEF TimerFields
  <2>3. /\ heard' = [heard EXCEPT ![r] = h]
        /\ timer' = [timer EXCEPT ![r] = t]
        /\ UNCHANGED <<clock, stepBacks, alive, servers, sendFailures, rebindPending,
                       callback, state, req, reached, sends, outcome>>
    BY <1>5 DEF OnDatagramHold, IInv, TypeOK
  <2> HIDE DEF h, t
  <2>4. ScheduleInv(req[r], t, TRUE)
    <3>1. timer[r].preference \in Nat /\ timer[r].attempt \in Nat
      BY <2>1 DEF TimerFields
    <3> QED BY <2>1, <2>2, <3>1 DEF ScheduleInv
  <2>5. ScheduleInv(req[r], t, h.best # NoServer)
    BY <1>3, <2>4 DEF ScheduleInv
  <2>6. sends' = [sends EXCEPT ![r] = sends[r]] /\ reached' = [reached EXCEPT ![r] = @ \cup {}]
    BY <2>3 DEF IInv, TypeOK
  <2>7. sendFailures' \in 0..CounterMax /\ {} \in SUBSET Endpoint
    BY <2>3 DEF IInv, TypeOK
  <2> QED BY <1>2, <1>3, <2>1, <2>2, <2>3, <2>5, <2>6, <2>7, InflightStepInv, ZenonT(60)
<1> QED BY <1>1, <1>4, <1>5
LEMMA TimeoutDeliverInv ==
    ASSUME IInv, NEW r \in Req, NEW now, NEW ok, TimeoutDeliver(r, now, ok)
    PROVE  IInv'
<1>1. CanDeliver(r) /\ RequestComplete(r, heard[r], "OK", ok) /\ heard[r].best # NoServer
      /\ UNCHANGED <<clock, stepBacks, alive, servers, sendFailures, req, timer>>
  BY DEF TimeoutDeliver, TimerDue, Held
<1>2. heard[r] \in HeardFields /\ AnswerInv(heard[r])
  BY <1>1, InflightFacts
<1>3. timer' \in [Req -> TimerFields]
  BY <1>1 DEF IInv, TypeOK
<1> QED BY <1>1, <1>2, <1>3, CompletionInv

\* What a due replay starts from and what the next round looks like.
LEMMA ReplayFacts ==
    ASSUME IInv, NEW r \in Req, NEW now, ReplayDue(r, now)
    PROVE  /\ CanDeliver(r) /\ ~ Held(r)
           /\ NextRound(r) \in TimerFields
           /\ ScheduleInv(req[r], NextRound(r), FALSE)
           /\ NextRound(r).round = timer[r].round + 1
           /\ NextRound(r).roundStart = timer[r].roundDeadline
           /\ MissingTargets(r, heard[r]) = req[r].targets
<1>1. CanDeliver(r) /\ ~ Held(r) /\ timer[r].phase = "ROUND"
      /\ timer[r].round < ReplayCount
  BY DEF ReplayDue, Unanswered, TimerDue
<1>2. /\ req[r] \in RequestFields /\ timer[r] \in TimerFields
      /\ ScheduleInv(req[r], timer[r], Held(r)) /\ AnswerInv(heard[r])
  BY <1>1, InflightFacts
<1>3. ScheduleInv(req[r], timer[r], FALSE)
  BY <1>1, <1>2 DEF ScheduleInv
<1>4. heard[r].seen = {}
  BY <1>1, <1>2 DEF AnswerInv, Held
<1>5. MissingTargets(r, heard[r]) = req[r].targets
  BY <1>4 DEF MissingTargets
<1> QED BY <1>1, <1>2, <1>3, <1>5, LaterRound DEF NextRound

LEMMA TimeoutReplayInv ==
    ASSUME IInv, NEW r \in Req, NEW now, NEW ok, TimeoutReplay(r, now, ok)
    PROVE  IInv'
<1>1. ReplayDue(r, now)
  BY DEF TimeoutReplay
<1> DEFINE t == NextRound(r)
<1>2. /\ CanDeliver(r) /\ ~ Held(r) /\ t \in TimerFields
      /\ ScheduleInv(req[r], t, FALSE) /\ t.round = timer[r].round + 1
      /\ MissingTargets(r, heard[r]) = req[r].targets
  BY <1>1, ReplayFacts
<1>3. /\ req[r].targets # {} /\ req[r].targets \in SUBSET Endpoint
      /\ heard[r] \in HeardFields /\ AnswerInv(heard[r])
      /\ sends[r] = timer[r].round + 1 /\ timer[r].round \in 0..ReplayCount
  BY <1>2, InflightFacts DEF RequestFields, TimerFields
<1>4. ok # {} /\ SendOutcome(req[r].targets, ok)
  BY <1>2, <1>3 DEF TimeoutReplay
<1>5. sendFailures' \in 0..CounterMax /\ ok \in SUBSET Endpoint
  BY <1>3, <1>4, CounterType DEF IInv
<1>6. /\ timer' = [timer EXCEPT ![r] = t]
      /\ sends' = [sends EXCEPT ![r] = sends[r] + 1]
      /\ reached' = [reached EXCEPT ![r] = @ \cup ok]
      /\ UNCHANGED <<clock, stepBacks, alive, servers, rebindPending, callback, state,
                     req, heard, outcome>>
  BY <1>4 DEF TimeoutReplay, IInv, TypeOK
<1>7. heard' = [heard EXCEPT ![r] = heard[r]]
  BY <1>6 DEF IInv, TypeOK
<1> HIDE DEF t
<1>8. sends[r] + 1 = t.round + 1 /\ sends[r] + 1 \in Nat
  <2>1. sends[r] \in Nat /\ sends[r] = t.round
    BY <1>2, <1>3 DEF IInv, TypeOK
  <2> QED BY <2>1
<1>9. ScheduleInv(req[r], t, heard[r].best # NoServer)
  BY <1>2 DEF ScheduleInv, Held
<1> QED BY <1>2, <1>3, <1>5, <1>6, <1>7, <1>8, <1>9, InflightStepInv

LEMMA TimeoutReplayFailsInv ==
    ASSUME IInv, NEW r \in Req, NEW now, TimeoutReplayFails(r, now)
    PROVE  IInv'
<1>1. ReplayDue(r, now) /\ RequestComplete(r, heard[r], "IO", {})
      /\ timer' = [timer EXCEPT ![r] = NextRound(r)]
      /\ UNCHANGED <<clock, stepBacks, alive, servers, sendFailures, req>>
  BY DEF TimeoutReplayFails
<1>2. CanDeliver(r) /\ heard[r].best = NoServer /\ NextRound(r) \in TimerFields
  BY <1>1, ReplayFacts DEF Held
<1>3. heard[r] \in HeardFields /\ AnswerInv(heard[r])
  BY <1>2, InflightFacts
<1>4. timer' \in [Req -> TimerFields] /\ \A x \in Req \ {r} : timer'[x] = timer[x]
  BY <1>1, <1>2 DEF IInv, TypeOK
<1> QED BY <1>1, <1>2, <1>3, <1>4, CompletionInv

LEMMA TimeoutExpireInv ==
    ASSUME IInv, NEW r \in Req, NEW now, TimeoutExpire(r, now)
    PROVE  IInv'
<1>1. CanDeliver(r) /\ heard[r].best = NoServer
      /\ RequestComplete(r, heard[r], "TIMEOUT", {})
      /\ UNCHANGED <<clock, stepBacks, alive, servers, sendFailures, req, timer>>
  BY DEF TimeoutExpire, ReplayDue, LastRoundOver, Unanswered, TimerDue, Held
<1>2. heard[r] \in HeardFields /\ AnswerInv(heard[r])
  BY <1>1, InflightFacts
<1>3. timer' \in [Req -> TimerFields]
  BY <1>1 DEF IInv, TypeOK
<1> QED BY <1>1, <1>2, <1>3, CompletionInv

LEMMA TimeoutWaitInv ==
    ASSUME IInv, NEW r \in Req, NEW now \in Int, TimeoutWait(r, now)
    PROVE  IInv'
<1> DEFINE t == timer[r]
<1>1. CanDeliver(r) /\ now >= t.attempt
  BY DEF TimeoutWait, TimerDue
<1>2. /\ req[r] \in RequestFields /\ t \in TimerFields /\ heard[r] \in HeardFields
      /\ ScheduleInv(req[r], t, Held(r)) /\ AnswerInv(heard[r])
      /\ sends[r] = t.round + 1 /\ sends[r] \in Nat
  BY <1>1, InflightFacts DEF IInv, TypeOK
<1>3. t.attempt \in Nat /\ t.preference \in Nat /\ t.roundDeadline \in Nat
  BY <1>2 DEF TimerFields
\* The deadline of the host never lies before the preference of a held answer
\* or the end of an unanswered round, so only the final window is left.
<1>4. ~ (Held(r) /\ now < t.preference) /\ ~ (~ Held(r) /\ now < t.roundDeadline)
  BY <1>1, <1>2, <1>3 DEF ScheduleInv
<1>5. /\ LastRoundOver(r, now)
      /\ timer' = [timer EXCEPT ![r] = EnterFinal(timer[r])]
      /\ UNCHANGED <<clock, stepBacks, alive, servers, sendFailures, rebindPending,
                     callback, state, req, heard, reached, sends, outcome>>
  BY <1>4 DEF TimeoutWait
<1>6. ~ Held(r) /\ t.phase = "ROUND" /\ t.round = ReplayCount
  BY <1>5 DEF LastRoundOver, Unanswered
<1>7. ScheduleInv(req[r], t, FALSE)
  BY <1>2, <1>6 DEF ScheduleInv
<1>8. /\ EnterFinal(t) \in TimerFields /\ ScheduleInv(req[r], EnterFinal(t), FALSE)
      /\ EnterFinal(t).round = t.round
  BY <1>2, <1>6, <1>7, FinalWindow
<1>9. ScheduleInv(req[r], EnterFinal(t), heard[r].best # NoServer)
  BY <1>6, <1>8 DEF ScheduleInv, Held
<1>10. /\ heard' = [heard EXCEPT ![r] = heard[r]]
       /\ sends' = [sends EXCEPT ![r] = sends[r]]
       /\ reached' = [reached EXCEPT ![r] = @ \cup {}]
       /\ sendFailures' \in 0..CounterMax /\ {} \in SUBSET Endpoint
  BY <1>5 DEF IInv, TypeOK
<1> DEFINE w == EnterFinal(t)
<1>11. /\ w \in TimerFields /\ ScheduleInv(req[r], w, heard[r].best # NoServer)
       /\ sends[r] = w.round + 1 /\ timer' = [timer EXCEPT ![r] = w]
  BY <1>2, <1>5, <1>8, <1>9
<1>12. UNCHANGED <<clock, stepBacks, alive, servers, rebindPending, callback, state,
                   req, outcome>>
  BY <1>5
<1>13. CanDeliver(r) /\ heard[r] \in HeardFields /\ AnswerInv(heard[r]) /\ sends[r] \in Nat
  BY <1>1, <1>2
<1> HIDE DEF w, t
<1> QED BY <1>10, <1>11, <1>12, <1>13, InflightStepInv

LEMMA OnTimeoutInv ==
    ASSUME IInv, NEW r \in Req, OnTimeout(r)
    PROVE  IInv'
<1>1. PICK now \in TimerSamples(r) :
        \/ \E ok \in SUBSET Endpoint :
               TimeoutDeliver(r, now, ok) \/ TimeoutReplay(r, now, ok)
        \/ TimeoutReplayFails(r, now)
        \/ TimeoutExpire(r, now)
        \/ TimeoutWait(r, now)
  BY DEF OnTimeout
<1>2. now \in Int
  BY BoundAssumption DEF TimerSamples, IInv, TypeOK, TimerFields
<1> QED BY <1>1, <1>2, TimeoutDeliverInv, TimeoutReplayInv, TimeoutReplayFailsInv,
           TimeoutExpireInv, TimeoutWaitInv

\* Every step of the client preserves the invariant.
LEMMA NextInv == IInv /\ [Next]_vars => IInv'
<1> SUFFICES ASSUME IInv, [Next]_vars PROVE IInv'
  OBVIOUS
<1>1. ASSUME NEW r \in Req, AppCall(r) PROVE IInv'
  BY <1>1, SubmitInv, SubmitRejectedInv, CancelRequestInv DEF AppCall
<1>2. ASSUME NEW r \in Req, OnDatagram(r) PROVE IInv'
  BY <1>2, OnDatagramInv
<1>3. ASSUME NEW r \in Req, OnTimeout(r) PROVE IInv'
  BY <1>3, OnTimeoutInv
<1>4. CASE UNCHANGED vars
  <2>1. UNCHANGED <<clock, stepBacks, servers, sendFailures, alive, rebindPending,
                    callback, state, req, timer, heard, reached, sends, outcome>>
    BY <1>4 DEF vars
  <2>2. TypeOK'
    BY <2>1 DEF IInv, TypeOK
  <2>3. ASSUME NEW x \in Req PROVE RequestInv(x)'
    BY <2>1, <2>3, Untouched DEF IInv
  <2>4. CallbackInv' /\ RebindNotForgotten'
    BY <2>1 DEF IInv, CallbackInv, RebindNotForgotten, Inflight
  <2> QED BY <2>2, <2>3, <2>4 DEF IInv
<1> QED BY <1>1, <1>2, <1>3, <1>4, AmbientInv, CallbackReturnInv, DestroyInv DEF Next

\* The inductive invariant holds in every reachable state of the client.
THEOREM Invariance == Spec => []IInv
BY InitInv, NextInv, PTL DEF Spec
-----------------------------------------------------------------------------
(* The safety properties *)

\* Every variable keeps its type; the failure counter never leaves its width.
THEOREM TypeCorrectness == Spec => []TypeOK
<1>1. IInv => TypeOK
  BY DEF IInv
<1> QED BY <1>1, Invariance, PTL

\* The callback gets the answer of the oldest server that answered.
THEOREM OldestWins == Spec => []OldestAnswerWins
<1>1. IInv => OldestAnswerWins
  BY DEF IInv, OldestAnswerWins, RequestInv, LifeInv, AnswerInv, Held
<1> QED BY <1>1, Invariance, PTL

\* A request that fails has accepted no response.
THEOREM Silence == Spec => []FailureMeansSilence
<1>1. IInv => FailureMeansSilence
  BY DEF IInv, FailureMeansSilence, RequestInv, LifeInv, AnswerInv, Held
<1> QED BY <1>1, Invariance, PTL

\* The deadlines add up to the deduplication deadline, however late timers are.
THEOREM AbsoluteSchedule == Spec => []ScheduleIsAbsolute
<1>1. IInv => ScheduleIsAbsolute
  <2> SUFFICES ASSUME IInv, NEW r \in Inflight
               PROVE  LET t == timer[r]
                      IN  /\ t.roundDeadline
                                 + (IF t.phase = "FINAL" THEN 0 ELSE Remaining[t.round])
                                 = req[r].start + DedupTtl
                          /\ t.attempt <= req[r].dedup
                          /\ req[r].dedup = req[r].start + DedupTtl
    BY DEF ScheduleIsAbsolute
  <2>1. r \in Req /\ state[r] = "inflight"
    BY DEF Inflight
  <2>2. ScheduleInv(req[r], timer[r], Held(r))
    BY <2>1 DEF IInv, RequestInv
  <2>3. /\ timer[r].phase \in {"ROUND", "FINAL"} /\ timer[r].round \in 0..ReplayCount
        /\ timer[r].roundDeadline \in Nat /\ timer[r].attempt \in Nat
        /\ timer[r].preference \in Nat
    BY <2>1 DEF IInv, TypeOK, TimerFields, Phases
  <2>4. Remaining[timer[r].round] \in Nat
    BY <2>3, PolicyAssumption
  <2> QED BY <2>2, <2>3, <2>4 DEF ScheduleInv
<1> QED BY <1>1, Invariance, PTL

\* A held answer is never waited for beyond its preference deadline.
THEOREM HeldAnswer == Spec => []HeldAnswerIsDue
<1>1. IInv => HeldAnswerIsDue
  BY DEF IInv, HeldAnswerIsDue, Inflight, RequestInv, ScheduleInv
<1> QED BY <1>1, Invariance, PTL

\* A request is sent at most ReplayCount + 2 times.
THEOREM TransmissionBound == Spec => []BoundedTransmissions
<1>1. IInv => BoundedTransmissions
  BY DEF IInv, BoundedTransmissions, RequestInv, LifeInv
<1> QED BY <1>1, Invariance, PTL

\* The verdict never ignores an answer that was accepted in time.
THEOREM RightVerdict == Spec => []VerdictIsRight
<1>1. OldestAnswerWins /\ FailureMeansSilence => VerdictIsRight
  BY DEF VerdictIsRight
<1> QED BY <1>1, OldestWins, Silence, PTL

\* Deadlines, held answers and transmissions keep to the timetable.
THEOREM Timetable == Spec => []TimetableHolds
<1>1. ScheduleIsAbsolute /\ HeldAnswerIsDue /\ BoundedTransmissions => TimetableHolds
  BY DEF TimetableHolds
<1> QED BY <1>1, AbsoluteSchedule, HeldAnswer, TransmissionBound, PTL

\* A rebind that a completed request asked for is not forgotten.
THEOREM RebindRemembered == Spec => []RebindNotForgotten
<1>1. IInv => RebindNotForgotten
  BY DEF IInv
<1> QED BY <1>1, Invariance, PTL

-----------------------------------------------------------------------------
(* The action properties *)

\* Before the preference deadline only the oldest known server decides.
THEOREM EarlyAnswer == Spec => EarlyAnswerIsOldest
<1> DEFINE Early(r) ==
        /\ outcome[r].status = "none"
        /\ outcome'[r].status = "OK"
        /\ clock + Skew < req[r].start + Gap[0]
        => r_is_oldest_known_server(AllowedIds(r), outcome'[r].server)
<1>1. ASSUME IInv, [Next]_vars, NEW x \in Req,
             outcome[x].status = "none", outcome'[x].status = "OK",
             clock + Skew < req[x].start + Gap[0]
      PROVE  r_is_oldest_known_server(AllowedIds(x), outcome'[x].server)
  <2>1. PICK r \in Req : OnDatagram(r) \/ OnTimeout(r)
    <3>1. outcome' # outcome
      BY <1>1
    <3> QED BY <1>1, <3>1
            DEF Next, vars, AppCall, Submit, SubmitRejected, CancelRequest,
                ReportLatency, CallbackReturn, Destroy, InstallServers, Tick, StepBack
  <2>2. outcome[x] \in Outcomes /\ DOMAIN outcome = Req
    BY <1>1 DEF IInv, TypeOK
  <2>3. CASE OnDatagram(r)
    <3>1. PICK s \in Server, keepPort \in BOOLEAN, ok \in SUBSET Endpoint :
            OnDatagramComplete(r, s, keepPort, ok)
      BY <1>1, <2>3 DEF OnDatagram, OnDatagramHold
    <3> DEFINE h == Record(heard[r], s, keepPort)
    <3>2. CanDeliver(r) /\ Settles(r, h) /\ RequestComplete(r, h, "OK", ok)
      BY <3>1 DEF OnDatagramComplete, CanAccept
    <3> HIDE DEF h
    <3>3. x = r /\ outcome'[r].server = h.best
      BY <1>1, <3>2 DEF RequestComplete, IInv, TypeOK
    <3>4. clock < timer[r].preference
      <4>1. ScheduleInv(req[r], timer[r], Held(r)) /\ req[r] \in RequestFields
            /\ timer[r] \in TimerFields
        BY <1>1, <3>2, InflightFacts
      <4>2. timer[r].preference \in Nat /\ req[r].start \in Nat /\ clock \in Nat
            /\ Skew \in Nat /\ Gap[0] \in Nat
        BY <1>1, <4>1, BoundAssumption, DedupTtlType
        DEF IInv, TypeOK, TimerFields, RequestFields
      <4> QED BY <1>1, <3>3, <4>1, <4>2 DEF ScheduleInv
    <3>5. ~ (clock >= timer[r].preference)
      BY <1>1, <3>4, <3>2, InflightFacts DEF IInv, TypeOK, TimerFields
    <3> QED BY <3>2, <3>3, <3>5 DEF Settles
  <2>4. CASE OnTimeout(r)
    <3>1. PICK now \in TimerSamples(r), ok \in SUBSET Endpoint :
            \/ TimeoutDeliver(r, now, ok)
            \/ TimeoutReplayFails(r, now)
            \/ TimeoutExpire(r, now)
      BY <1>1, <2>4 DEF OnTimeout, TimeoutReplay, TimeoutWait
    <3>2. TimeoutDeliver(r, now, ok)
      BY <1>1, <3>1
      DEF TimeoutReplayFails, TimeoutExpire, RequestComplete, IInv, TypeOK
    <3>3. /\ CanDeliver(r) /\ now <= clock + Skew /\ now >= timer[r].preference
          /\ x = r
      BY <1>1, <3>2 DEF TimeoutDeliver, TimerDue, RequestComplete, IInv, TypeOK
    <3>4. ScheduleInv(req[r], timer[r], Held(r)) /\ req[r] \in RequestFields
          /\ timer[r] \in TimerFields
      BY <1>1, <3>3, InflightFacts
    <3>5. /\ timer[r].preference \in Nat /\ req[r].start \in Nat /\ clock \in Nat
          /\ Skew \in Nat /\ Gap[0] \in Nat /\ now \in Int
      BY <1>1, <3>4, BoundAssumption, DedupTtlType
      DEF IInv, TypeOK, TimerFields, RequestFields, TimerSamples
    <3>6. FALSE
      BY <1>1, <3>3, <3>4, <3>5 DEF ScheduleInv
    <3> QED BY <3>6
  <2> QED BY <2>1, <2>3, <2>4
<1>2. IInv /\ [Next]_vars => [\A r \in Req : Early(r)]_vars
  BY <1>1
<1> QED BY <1>2, Invariance, PTL DEF Spec, EarlyAnswerIsOldest
\* No packet of a request leaves outside its deduplication window, no replay
\* before it is due.
THEOREM SendWindow == Spec => SendsStayInWindow
<1> DEFINE InWindow(r) ==
        sends'[r] # sends[r] =>
          /\ clock < req'[r].dedup
          /\ outcome'[r].status = "none" => timer'[r].roundStart <= clock + Skew
<1>1. ASSUME IInv, [Next]_vars, NEW x \in Req, sends'[x] # sends[x]
      PROVE  InWindow(x)
  <2>1. PICK r \in Req : \/ \E ok \in SUBSET Endpoint : Submit(r, ok)
                         \/ OnDatagram(r)
                         \/ OnTimeout(r)
    BY <1>1 DEF Next, vars, AppCall, SubmitRejected, CancelRequest, ReportLatency,
                CallbackReturn, Destroy, InstallServers, Tick, StepBack
  <2>2. clock \in Nat /\ Skew \in Nat /\ DedupTtl \in Nat \ {0}
    BY <1>1, BoundAssumption, DedupTtlType DEF IInv, TypeOK, DedupTtl
  <2>3. ASSUME NEW ok \in SUBSET Endpoint, Submit(r, ok) PROVE InWindow(x)
    <3>1. x = r
      BY <1>1, <2>3 DEF Submit, IInv, TypeOK
    <3>2. req'[r].dedup = clock + DedupTtl /\ timer'[r].roundStart = clock
      BY <1>1, <2>3 DEF Submit, StartRound, IInv, TypeOK
    <3> QED BY <2>2, <3>1, <3>2
  <2>4. ASSUME NEW h, NEW status \in {"OK", "TIMEOUT", "IO"}, NEW ok,
               RequestComplete(r, h, status, ok), req' = req
        PROVE  InWindow(x)
    <3>1. x = r /\ ok # {}
      BY <1>1, <2>4 DEF RequestComplete, IInv, TypeOK
    <3>2. clock < req[r].dedup
      BY <2>4, <3>1 DEF RequestComplete, Delivers
    <3>3. outcome'[r].status # "none"
      BY <1>1, <2>4 DEF RequestComplete, IInv, TypeOK
    <3> QED BY <2>4, <3>1, <3>2, <3>3
  <2>5. CASE OnDatagram(r)
    BY <1>1, <2>4, <2>5 DEF OnDatagram, OnDatagramComplete, OnDatagramHold
  <2>6. CASE OnTimeout(r)
    <3>1. PICK now \in TimerSamples(r), ok \in SUBSET Endpoint :
            \/ TimeoutDeliver(r, now, ok)
            \/ TimeoutReplay(r, now, ok)
            \/ TimeoutReplayFails(r, now)
            \/ TimeoutExpire(r, now)
      BY <1>1, <2>6 DEF OnTimeout, TimeoutWait
    <3>2. CASE TimeoutReplay(r, now, ok)
      <4>1. /\ x = r /\ req' = req /\ clock < req[r].dedup /\ ReplayDue(r, now)
            /\ timer'[r] = NextRound(r)
        BY <1>1, <3>2 DEF TimeoutReplay, IInv, TypeOK
      <4>2. NextRound(r).roundStart = timer[r].roundDeadline
        BY <1>1, <4>1, ReplayFacts
      <4>3. timer[r].roundDeadline <= now /\ now <= clock + Skew
        BY <4>1 DEF ReplayDue, Unanswered, TimerDue
      <4>4. timer[r].roundDeadline \in Nat /\ now \in Int
        BY <1>1, <2>2 DEF IInv, TypeOK, TimerFields, TimerSamples
      <4> QED BY <2>2, <4>1, <4>2, <4>3, <4>4
    <3> QED BY <2>4, <3>1, <3>2 DEF TimeoutDeliver, TimeoutReplayFails, TimeoutExpire
  <2> QED BY <2>1, <2>3, <2>5, <2>6
<1>2. IInv /\ [Next]_vars => [\A r \in Req : InWindow(r)]_vars
  BY <1>1
<1> QED BY <1>2, Invariance, PTL DEF Spec, SendsStayInWindow

-----------------------------------------------------------------------------
(* The client implements the contract *)

\* The stages the states of a handle stand for.
LEMMA Stages ==
    /\ ContractStage("unused") = "idle"
    /\ ContractStage("rejected") = "refused"
    /\ ContractStage("inflight") = "open"
    /\ ContractStage("calling") = "decided"
    /\ ContractStage("done") = "decided"
    /\ ContractStage("canceled") = "dropped"
    /\ ContractStage("destroyed") = "dropped"
BY DEF ContractStage

\* The functions the refinement mapping substitutes.
Stage == [r \in Req |-> ContractStage(state[r])]
Answered == [r \in Req |-> heard[r].seen]

\* A step that moves one handle moves its stage.
LEMMA StageStep ==
    ASSUME TypeOK, NEW r \in Req, NEW st, state' = [state EXCEPT ![r] = st]
    PROVE  /\ Stage' = [Stage EXCEPT ![r] = ContractStage(st)]
           /\ Stage[r] = ContractStage(state[r])
<1> DEFINE f == [Stage EXCEPT ![r] = ContractStage(st)]
<1>1. ASSUME NEW x \in Req PROVE Stage'[x] = f[x]
  BY DEF Stage, TypeOK
<1>2. DOMAIN Stage' = Req /\ DOMAIN f = Req
  BY DEF Stage
<1> QED BY <1>1, <1>2 DEF Stage

\* The contract uses the age order of the client.
LEMMA SameAgeOrder ==
    ASSUME NEW known, NEW id, r_is_oldest_known_server(known, id)
    PROVE  Contract!r_is_oldest_known_server(known, id)
BY DEF r_is_oldest_known_server, r_server_is_older, r_server_start_s_from_id,
       R_SERVER_ID_EPOCH_S_2025, Contract!r_is_oldest_known_server,
       Contract!r_server_is_older, Contract!r_server_start_s_from_id,
       Contract!R_SERVER_ID_EPOCH_S_2025

\* The initial states of the client are initial states of the contract.
LEMMA ContractInitially == Init => Contract!ContractInit
BY Stages DEF Init, Contract!ContractInit, NothingHeard, NoOutcome, Contract!NoVerdict,
              NoServer, Contract!NoServer

\* A completion decides the request: with the oldest of the answers it now has,
\* or with an error if it has none.
LEMMA CompletionDecides ==
    ASSUME IInv, NEW r \in Req, CanDeliver(r),
           NEW h \in HeardFields, AnswerInv(h),
           NEW status \in {"OK", "TIMEOUT", "IO"},
           status = "OK" <=> h.best # NoServer,
           NEW extra \in {{s} : s \in Server} \cup {{}},
           h.seen = heard[r].seen \cup extra,
           NEW ok, RequestComplete(r, h, status, ok)
    PROVE  Contract!ContractNext
<1>1. TypeOK
  BY DEF IInv
<1>2. Stage' = [Stage EXCEPT ![r] = "decided"] /\ Stage[r] = "open"
  <2>1. state' = [state EXCEPT ![r] = "calling"] /\ state[r] = "inflight"
    BY DEF RequestComplete, CanDeliver
  <2>2. Stage' = [Stage EXCEPT ![r] = ContractStage("calling")]
        /\ Stage[r] = ContractStage(state[r])
    BY <1>1, <2>1, StageStep
  <2> QED BY <2>1, <2>2, Stages
<1>3. Answered' = [Answered EXCEPT ![r] = h.seen] /\ Answered[r] = heard[r].seen
  BY <1>1 DEF RequestComplete, Answered, TypeOK
<1>4. CASE status = "OK"
  <2>1. h.best \in Server /\ h.best \in h.seen
        /\ r_is_oldest_known_server(h.seen, h.best)
    BY <1>4 DEF AnswerInv, HeardFields
  <2>2. outcome' = [outcome EXCEPT ![r] = [status |-> "OK", server |-> h.best]]
    BY <1>4 DEF RequestComplete
  <2>3. Contract!Decide(r, extra, h.best)
    BY <1>2, <1>3, <2>1, <2>2, SameAgeOrder DEF Contract!Decide, Stage, Answered
  <2> QED BY <2>1, <2>3 DEF Contract!ContractNext
<1>5. CASE status # "OK"
  <2>1. h.seen = {} /\ heard[r].seen = {} /\ Answered' = Answered
    BY <1>1, <1>3, <1>5 DEF AnswerInv, Answered, TypeOK
  <2>2. outcome' = [outcome EXCEPT ![r] = [status |-> status, server |-> NoServer]]
    BY <1>5 DEF RequestComplete
  <2>3. Contract!Fail(r, status)
    BY <1>2, <1>3, <2>1, <2>2
    DEF Contract!Fail, Stage, Answered, NoServer, Contract!NoServer
  <2> QED BY <1>5, <2>3 DEF Contract!ContractNext, Contract!Errors
<1> QED BY <1>4, <1>5
\* Every step of the client is a step of the contract or changes nothing of it.
LEMMA ContractStep ==
    ASSUME IInv, [Next]_vars
    PROVE  [Contract!ContractNext]_(Contract!contractVars)
<1>1. TypeOK
  BY DEF IInv
<1> DEFINE Same == Stage' = Stage /\ Answered' = Answered /\ outcome' = outcome
<1>2. Same => UNCHANGED Contract!contractVars
  BY DEF Contract!contractVars, Stage, Answered
<1>3. ASSUME NEW r \in Req, NEW ok, Submit(r, ok) PROVE Contract!ContractNext
  <2>1. /\ state' = [state EXCEPT ![r] = "inflight"] /\ state[r] = "unused"
        /\ heard' = heard /\ outcome' = outcome
    BY <1>3 DEF Submit, CanSubmit
  <2>2. Stage' = [Stage EXCEPT ![r] = "open"] /\ Stage[r] = "idle" /\ Answered' = Answered
    <3>1. Stage' = [Stage EXCEPT ![r] = ContractStage("inflight")]
          /\ Stage[r] = ContractStage(state[r])
      BY <1>1, <2>1, StageStep
    <3>2. Answered' = Answered
      BY <2>1 DEF Answered
    <3> QED BY <2>1, <3>1, <3>2, Stages
  <2>3. Contract!Open(r)
    BY <2>1, <2>2 DEF Contract!Open, Stage, Answered
  <2> QED BY <2>3 DEF Contract!ContractNext
<1>4. ASSUME NEW r \in Req, SubmitRejected(r) PROVE Contract!ContractNext
  <2>1. /\ state' = [state EXCEPT ![r] = "rejected"] /\ state[r] = "unused"
        /\ heard' = heard /\ outcome' = outcome
    BY <1>4 DEF SubmitRejected, CanSubmit
  <2>2. Stage' = [Stage EXCEPT ![r] = "refused"] /\ Stage[r] = "idle" /\ Answered' = Answered
    <3>1. Stage' = [Stage EXCEPT ![r] = ContractStage("rejected")]
          /\ Stage[r] = ContractStage(state[r])
      BY <1>1, <2>1, StageStep
    <3>2. Answered' = Answered
      BY <2>1 DEF Answered
    <3> QED BY <2>1, <3>1, <3>2, Stages
  <2>3. Contract!Refuse(r)
    BY <2>1, <2>2 DEF Contract!Refuse, Stage, Answered
  <2> QED BY <2>3 DEF Contract!ContractNext
<1>5. ASSUME NEW r \in Req, CancelRequest(r) PROVE Contract!ContractNext
  <2>1. /\ state' = [state EXCEPT ![r] = "canceled"] /\ state[r] = "inflight"
        /\ heard' = heard /\ outcome' = outcome
    BY <1>5 DEF CancelRequest
  <2>2. Stage' = [Stage EXCEPT ![r] = "dropped"] /\ Stage[r] = "open" /\ Answered' = Answered
    <3>1. Stage' = [Stage EXCEPT ![r] = ContractStage("canceled")]
          /\ Stage[r] = ContractStage(state[r])
      BY <1>1, <2>1, StageStep
    <3>2. Answered' = Answered
      BY <2>1 DEF Answered
    <3> QED BY <2>1, <3>1, <3>2, Stages
  <2>3. Contract!Cancel(r)
    BY <2>1, <2>2 DEF Contract!Cancel, Stage, Answered
  <2> QED BY <2>3 DEF Contract!ContractNext
<1>6. ASSUME NEW r \in Req, OnDatagram(r) PROVE Contract!ContractNext
  <2>1. PICK s \in Server, keepPort \in BOOLEAN :
          \/ \E ok \in SUBSET Endpoint : OnDatagramComplete(r, s, keepPort, ok)
          \/ OnDatagramHold(r, s, keepPort)
    BY <1>6 DEF OnDatagram
  <2> DEFINE h == Record(heard[r], s, keepPort)
  <2>2. CanDeliver(r)
    BY <2>1 DEF OnDatagramComplete, OnDatagramHold, CanAccept
  <2>3. /\ h \in HeardFields /\ AnswerInv(h) /\ h.best # NoServer
        /\ h.seen = heard[r].seen \cup {s}
    BY <2>2, InflightFacts, RecordAnswer
  <2>4. ASSUME NEW ok, OnDatagramComplete(r, s, keepPort, ok)
        PROVE  Contract!ContractNext
    <3>1. RequestComplete(r, h, "OK", ok)
      BY <2>4 DEF OnDatagramComplete
    <3>2. {s} \in {{v} : v \in Server} \cup {{}}
      OBVIOUS
    <3> HIDE DEF h
    <3> QED BY <2>2, <2>3, <3>1, <3>2, CompletionDecides
  <2>5. ASSUME OnDatagramHold(r, s, keepPort)
        PROVE  Contract!ContractNext
    <3>1. heard' = [heard EXCEPT ![r] = h] /\ state' = state /\ outcome' = outcome
          /\ state[r] = "inflight"
      BY <2>2, <2>5 DEF OnDatagramHold, CanDeliver
    <3> HIDE DEF h
    <3>2. Stage' = Stage /\ Stage[r] = "open"
          /\ Answered' = [Answered EXCEPT ![r] = Answered[r] \cup {s}]
      BY <1>1, <2>3, <3>1, Stages DEF Stage, Answered, TypeOK
    <3>3. Contract!Hear(r, s)
      BY <3>1, <3>2 DEF Contract!Hear, Stage, Answered
    <3> QED BY <3>3 DEF Contract!ContractNext
  <2> QED BY <2>1, <2>4, <2>5
<1>7. ASSUME NEW r \in Req, OnTimeout(r) PROVE Contract!ContractNext \/ Same
  <2>1. PICK now \in TimerSamples(r), ok \in SUBSET Endpoint :
          \/ TimeoutDeliver(r, now, ok)
          \/ TimeoutReplay(r, now, ok)
          \/ TimeoutReplayFails(r, now)
          \/ TimeoutExpire(r, now)
          \/ TimeoutWait(r, now)
    BY <1>7 DEF OnTimeout
  <2>2. CanDeliver(r)
    BY <2>1 DEF TimeoutDeliver, TimeoutReplay, TimeoutReplayFails, TimeoutExpire,
                TimeoutWait, ReplayDue, LastRoundOver, Unanswered, TimerDue
  <2>3. heard[r] \in HeardFields /\ AnswerInv(heard[r])
    BY <2>2, InflightFacts
  <2>4. ASSUME NEW status \in {"OK", "TIMEOUT", "IO"}, NEW o,
               RequestComplete(r, heard[r], status, o),
               status = "OK" <=> heard[r].best # NoServer
        PROVE  Contract!ContractNext
    <3>1. heard[r].seen = heard[r].seen \cup {} /\ {} \in {{v} : v \in Server} \cup {{}}
      OBVIOUS
    <3> QED BY <2>2, <2>3, <2>4, <3>1, CompletionDecides
  <2>5. CASE TimeoutDeliver(r, now, ok)
    BY <2>4, <2>5 DEF TimeoutDeliver, Held
  <2>6. CASE TimeoutReplayFails(r, now)
    BY <2>4, <2>6 DEF TimeoutReplayFails, ReplayDue, Unanswered, Held
  <2>7. CASE TimeoutExpire(r, now)
    BY <2>4, <2>7 DEF TimeoutExpire, ReplayDue, LastRoundOver, Unanswered, Held
  <2>8. CASE TimeoutReplay(r, now, ok) \/ TimeoutWait(r, now)
    BY <2>8 DEF TimeoutReplay, TimeoutWait, Stage, Answered
  <2> QED BY <2>1, <2>5, <2>6, <2>7, <2>8
<1>8. ASSUME CallbackReturn PROVE Same
  <2>1. callback \in Req /\ state[callback] = "calling"
        /\ state' = [state EXCEPT ![callback] = "done"]
    BY <1>8 DEF CallbackReturn, IInv, TypeOK, CallbackInv
  <2>2. Stage' = [Stage EXCEPT ![callback] = "decided"] /\ Stage[callback] = "decided"
    <3>1. Stage' = [Stage EXCEPT ![callback] = ContractStage("done")]
          /\ Stage[callback] = ContractStage(state[callback])
      BY <1>1, <2>1, StageStep
    <3> QED BY <2>1, <3>1, Stages
  <2>3. Stage' = Stage
    BY <2>1, <2>2 DEF Stage
  <2> QED BY <1>8, <2>3 DEF CallbackReturn, Answered
<1>9. ASSUME Destroy PROVE Contract!ContractNext
  <2>1. /\ state' = [r \in Req |-> IF state[r] = "inflight" THEN "destroyed" ELSE state[r]]
        /\ heard' = heard /\ outcome' = outcome
    BY <1>9 DEF Destroy
  <2>2. ASSUME NEW r \in Req
        PROVE  ContractStage(state'[r])
                 = IF ContractStage(state[r]) = "open" THEN "dropped"
                   ELSE ContractStage(state[r])
    BY <1>1, <2>1, Stages DEF TypeOK, States
  <2>3. Stage' = [r \in Req |-> IF Stage[r] = "open" THEN "dropped" ELSE Stage[r]]
    BY <2>2 DEF Stage
  <2>4. Contract!Abandon
    BY <2>1, <2>3 DEF Contract!Abandon, Stage, Answered
  <2> QED BY <2>4 DEF Contract!ContractNext
<1>10. ASSUME \/ \E ok \in SUBSET Endpoint : ReportLatency(ok)
              \/ \E found \in Discoveries : InstallServers(found)
              \/ Tick
              \/ StepBack
              \/ UNCHANGED vars
       PROVE  Same
  BY <1>10 DEF ReportLatency, InstallServers, Tick, StepBack, vars, Stage, Answered
<1> HIDE DEF Same
<1> QED BY <1>2, <1>3, <1>4, <1>5, <1>6, <1>7, <1>8, <1>9, <1>10 DEF Next, AppCall

\* The client implements the request contract: one decision per accepted
\* request, the oldest answer or an error, nothing after cancel or destroy.
THEOREM Refinement == Spec => ImplementsContract
BY ContractInitially, ContractStep, Invariance, PTL
DEF Spec, ImplementsContract, Contract!ContractSpec

=============================================================================
