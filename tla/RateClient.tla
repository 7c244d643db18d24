---------------------------- MODULE RateClient ----------------------------
(***************************************************************************)
(* The request lifecycle of the core client, src/src/r_client.c: submit,   *)
(* rounds and replays, response selection, timeouts, completion callbacks, *)
(* cancellation, destruction, latency reports and the deferred steering    *)
(* rebind.  The client is single threaded; what interleaves is the order   *)
(* in which the host delivers datagrams, timer events and API calls, and   *)
(* what the application does inside a completion callback.                 *)
(*                                                                         *)
(* The network may lose, delay, duplicate and reorder datagrams: a         *)
(* response of a server the packet reached may be delivered at any later   *)
(* time, any number of times, or never.  The clock is the wall clock of    *)
(* io.now_ms: it advances, and it may be stepped back.                     *)
(***************************************************************************)
EXTENDS ServerAge, FiniteSets

CONSTANTS
    Req,                \* request handles, each used for one submit
    NoReq,              \* no completion callback is running
    Endpoint,           \* addresses that discovery can return
    ServerOf,           \* the server id behind each endpoint
    Discoveries,        \* the endpoint sets a DNS refresh may install
    ReplayCount,        \* policy.replay_count
    Gap,                \* ms of round k: unit_ms * replay_gap units of round k
    Remaining,          \* ms of the schedule that follow the end of round k
    FinalMs,            \* unit_ms * policy.final_receive_units
    CompletionDelivery, \* policy.completion_delivery
    HasHook,            \* io.on_steering_feedback is installed
    ClockMax,           \* UINT64_MAX of the millisecond clock
    Skew,               \* how far now_ms of a timer event may run ahead of io.now_ms
    MaxStepBacks,       \* bound on the wall clock being stepped back
    CounterMax          \* UINT64_MAX of send_failure_count

ASSUME RequestAssumption == NoReq \notin Req

ASSUME EndpointAssumption ==
    /\ IsFiniteSet(Endpoint)
    /\ ServerOf \in [Endpoint -> Server]
    /\ Discoveries \subseteq (SUBSET Endpoint) \ {{}}

\* Remaining is the tail sum of the schedule that r_request_policy_ttl_ms adds up.
ASSUME PolicyAssumption ==
    /\ ReplayCount \in Nat
    /\ FinalMs \in Nat
    /\ Gap \in [0..ReplayCount -> Nat \ {0}]
    /\ Remaining \in [0..ReplayCount -> Nat]
    /\ Remaining[ReplayCount] = FinalMs
    /\ \A k \in 1..ReplayCount : Remaining[k - 1] = Gap[k] + Remaining[k]
    /\ CompletionDelivery \in BOOLEAN
    /\ HasHook \in BOOLEAN

ASSUME BoundAssumption ==
    /\ ClockMax \in Nat
    /\ Skew \in Nat
    /\ MaxStepBacks \in Nat
    /\ CounterMax \in Nat
    /\ Cardinality(Endpoint) <= CounterMax

VARIABLES
    clock,          \* what io.now_ms returns
    stepBacks,      \* how often the clock has been stepped back
    alive,          \* the client has not been destroyed
    servers,        \* client->servers
    sendFailures,   \* client->send_failure_count
    rebindPending,  \* client->steering_rebind_pending
    callback,       \* the request whose completion callback is on the stack
    state,          \* where each handle is in its life
    req,            \* what submit fixed for each handle: start, deadline, targets
    timer,          \* the phase, the round and the deadlines of each handle
    heard,          \* the responses each handle has accepted
    reached,        \* the endpoints the packet of each request got to
    sends,          \* how many send loops got the packet to an endpoint
    outcome         \* what the completion callback was given

vars == <<clock, stepBacks, alive, servers, sendFailures, rebindPending,
          callback, state, req, timer, heard, reached, sends, outcome>>

-----------------------------------------------------------------------------
(* Types *)

States == {"unused", "rejected", "inflight", "calling", "done", "canceled", "destroyed"}

Phases == {"ROUND", "FINAL"}

\* The parts of r_client_req_t: what submit fixes, ...
RequestFields == [start : Nat, dedup : Nat, targets : SUBSET Endpoint]

\* ... the schedule, ...
TimerFields ==
    [phase         : Phases,
     round         : 0..ReplayCount,
     roundStart    : Nat,
     preference    : Nat,
     roundDeadline : Nat,
     attempt       : Nat]

\* ... and the responses: the servers that answered, the best answer, and
\* whether any of them asked for another source port.
HeardFields ==
    [seen   : SUBSET Server,
     best   : Server \cup {NoServer},
     rebind : BOOLEAN]

Statuses == {"none", "OK", "TIMEOUT", "IO"}

Outcomes == [status : Statuses, server : Server \cup {NoServer}]

NoOutcome == [status |-> "none", server |-> NoServer]

\* calloc'ed request memory
BlankReq == [start |-> 0, dedup |-> 0, targets |-> {}]

BlankTimer == [phase |-> "ROUND", round |-> 0, roundStart |-> 0, preference |-> 0,
               roundDeadline |-> 0, attempt |-> 0]

NothingHeard == [seen |-> {}, best |-> NoServer, rebind |-> FALSE]

TypeOK ==
    /\ clock \in Nat
    /\ stepBacks \in 0..MaxStepBacks
    /\ alive \in BOOLEAN
    /\ servers \in SUBSET Endpoint
    /\ sendFailures \in 0..CounterMax
    /\ rebindPending \in BOOLEAN
    /\ callback \in Req \cup {NoReq}
    /\ state \in [Req -> States]
    /\ req \in [Req -> RequestFields]
    /\ timer \in [Req -> TimerFields]
    /\ heard \in [Req -> HeardFields]
    /\ reached \in [Req -> SUBSET Endpoint]
    /\ sends \in [Req -> Nat]
    /\ outcome \in [Req -> Outcomes]

-----------------------------------------------------------------------------
(* Requests, targets and sends *)

Inflight == {r \in Req : state[r] = "inflight"}

\* The deduplication time to live of a request: the whole schedule.
DedupTtl == Gap[0] + Remaining[0]

\* req->allowed_ids: the distinct servers of the snapshot.
AllowedIds(r) == {ServerOf[e] : e \in req[r].targets}

\* Targets whose server has not answered (r_request_target_responded).
MissingTargets(r, h) == {e \in req[r].targets : ServerOf[e] \notin h.seen}

\* r_record_send_failures: a saturating counter.
AddFailures(n) ==
    IF sendFailures > CounterMax - n THEN CounterMax ELSE sendFailures + n

\* r_send_packet_to_targets for a round: every target is tried; ok are the
\* endpoints whose udp_send succeeded.  Partial loss is counted.
SendOutcome(attempted, ok) ==
    /\ ok \subseteq attempted
    /\ sendFailures' = IF ok = {} THEN sendFailures
                       ELSE AddFailures(Cardinality(attempted \ ok))

\* Slip: a round is timed from the moment its timer is handled.
StartRoundLate(begin, k) ==
    LET end == clock + Gap[k]
    IN  [phase |-> "ROUND", round |-> k, roundStart |-> begin,
         preference |-> IF k = 0 THEN end ELSE begin,
         roundDeadline |-> end, attempt |-> end]

\* r_start_round, the deadlines of round k.  The schedule is absolute: begin is
\* the start of the request or the instant the previous round was due to end,
\* however late the timer is.
StartRound(begin, k) ==
    LET end == begin + Gap[k]
    IN  [phase         |-> "ROUND",
         round         |-> k,
         roundStart    |-> begin,
         preference    |-> IF k = 0 THEN end ELSE begin,
         roundDeadline |-> end,
         attempt       |-> end]

\* r_enter_final: receive only, until the deduplication deadline.
EnterFinal(t) ==
    [phase         |-> "FINAL",
     round         |-> t.round,
     roundStart    |-> t.roundDeadline,
     preference    |-> t.roundDeadline,
     roundDeadline |-> t.roundDeadline + FinalMs,
     attempt       |-> t.roundDeadline + FinalMs]

\* Slip: the hook is never called.
NeverNotify(pending, inflight) == rebindPending' = pending

\* r_notify_steering_when_drained: the hook consumes the pending rebind.
NotifySteeringWhenDrained(pending, inflight) ==
    rebindPending' = (pending /\ ~ (inflight = {} /\ HasHook))

-----------------------------------------------------------------------------
(* Completion *)

\* Slip: the completion delivery does not look at the clock.
DeliversAnyTime(r, status) == status = "OK" /\ CompletionDelivery

\* r_completion_delivery applies: after success, before the deduplication deadline.
Delivers(r, status) ==
    /\ status = "OK"
    /\ CompletionDelivery
    /\ clock < req[r].dedup

\* r_request_complete up to and including the start of the user callback: the
\* completion delivery (a best-effort send to the targets that have not
\* answered, while the deduplication deadline has not passed), the removal
\* from the in-flight list and the transfer of the rebind flag.
RequestComplete(r, h, status, ok) ==
    /\ ok \subseteq (IF Delivers(r, status) THEN MissingTargets(r, h) ELSE {})
    /\ heard' = [heard EXCEPT ![r] = h]
    /\ reached' = [reached EXCEPT ![r] = @ \cup ok]
    /\ sends' = [sends EXCEPT ![r] = IF ok # {} THEN @ + 1 ELSE @]
    /\ state' = [state EXCEPT ![r] = "calling"]
    /\ rebindPending' = (rebindPending \/ h.rebind)
    /\ outcome' = [outcome EXCEPT ![r] =
                      [status |-> status,
                       server |-> IF status = "OK" THEN h.best ELSE NoServer]]
    /\ callback' = r

\* The rest of r_request_complete once the user callback has returned.
CallbackReturn ==
    /\ callback # NoReq
    /\ callback' = NoReq
    /\ state' = [state EXCEPT ![callback] = "done"]
    /\ NotifySteeringWhenDrained(rebindPending, Inflight)
    /\ UNCHANGED <<clock, stepBacks, alive, servers, sendFailures, req, timer, heard, reached,
                   sends, outcome>>

-----------------------------------------------------------------------------
(* Calls of the application, outside or inside a completion callback *)

CanSubmit(r) ==
    /\ alive
    /\ state[r] = "unused"

\* Round 0 reached at least one endpoint: the request joins the in-flight list.
Submit(r, ok) ==
    /\ CanSubmit(r)
    /\ servers # {}
    /\ clock <= ClockMax - DedupTtl
    /\ ok # {}
    /\ SendOutcome(servers, ok)
    /\ req' = [req EXCEPT ![r] = [start |-> clock, dedup |-> clock + DedupTtl,
                                  targets |-> servers]]
    /\ timer' = [timer EXCEPT ![r] = StartRound(clock, 0)]
    /\ reached' = [reached EXCEPT ![r] = ok]
    /\ sends' = [sends EXCEPT ![r] = 1]
    /\ state' = [state EXCEPT ![r] = "inflight"]
    /\ UNCHANGED <<clock, stepBacks, alive, servers, rebindPending, callback, heard,
                   outcome>>

\* Every early return of submit: no server is known, the deadline would
\* overflow, the packet cannot be built, or no endpoint took the first send.
\* Nothing was delivered, the request is freed and its callback never fires.
SubmitRejected(r) ==
    /\ CanSubmit(r)
    /\ state' = [state EXCEPT ![r] = "rejected"]
    /\ UNCHANGED <<clock, stepBacks, alive, servers, sendFailures, rebindPending,
                   callback, req, timer, heard, reached, sends, outcome>>

\* r_client_cancel_request; a handle that is not in flight is left alone.  The
\* rebind flag of a canceled request is dropped with it.
CancelRequest(r) ==
    /\ alive
    /\ state[r] = "inflight"
    /\ state' = [state EXCEPT ![r] = "canceled"]
    /\ NotifySteeringWhenDrained(rebindPending, Inflight \ {r})
    /\ UNCHANGED <<clock, stepBacks, alive, servers, sendFailures, callback, req, timer, heard,
                   reached, sends, outcome>>

\* r_client_report_latency: one datagram to every known server.
ReportLatency(ok) ==
    /\ alive
    /\ servers # {}
    /\ SendOutcome(servers, ok)
    /\ UNCHANGED <<clock, stepBacks, alive, servers, rebindPending, callback, state,
                   req, timer, heard, reached, sends, outcome>>

\* r_client_destroy: frees what is in flight without callbacks.  It must not
\* be called from inside a callback.
Destroy ==
    /\ alive
    /\ callback = NoReq
    /\ alive' = FALSE
    /\ state' = [r \in Req |-> IF state[r] = "inflight" THEN "destroyed" ELSE state[r]]
    /\ UNCHANGED <<clock, stepBacks, servers, sendFailures, rebindPending, callback,
                   req, timer, heard, reached, sends, outcome>>

-----------------------------------------------------------------------------
(* Events of the host *)

\* Slip: events still find a request that was canceled.
DeliverAfterCancel(r) ==
    /\ alive
    /\ callback = NoReq
    /\ state[r] \in {"inflight", "canceled"}

\* The host delivers events between callbacks, to requests in flight.
CanDeliver(r) ==
    /\ alive
    /\ callback = NoReq
    /\ state[r] = "inflight"

\* Slip: the latest answer replaces the best one.
RecordLatest(h, s, keepPort) ==
    [seen |-> h.seen \cup {s}, best |-> s, rebind |-> h.rebind \/ ~ keepPort]

\* The answers once the response of server s has been recorded: the rebind
\* wish, the seen server and, if s is the first or the oldest, the best one.
Record(h, s, keepPort) ==
    [seen   |-> h.seen \cup {s},
     best   |-> IF h.best = NoServer \/ r_server_is_older(s, h.best) THEN s ELSE h.best,
     rebind |-> h.rebind \/ ~ keepPort]

\* A datagram of a server the packet reached, accepted by r_client_on_datagram:
\* the request is in flight, not past its deduplication deadline, and the
\* server belongs to the snapshot of the request.
CanAccept(r, s) ==
    /\ CanDeliver(r)
    /\ \E e \in reached[r] : ServerOf[e] = s
    /\ clock <= req[r].dedup
    /\ s \in AllowedIds(r)

\* Slip: oldest among the servers that answered, not among those known.
SettlesAmongSeen(r, h) ==
    \/ r_is_oldest_known_server(h.seen, h.best)
    \/ clock >= timer[r].preference

\* The best answer is final: it comes from the oldest known server or the
\* preference deadline of the round has passed.
Settles(r, h) ==
    \/ r_is_oldest_known_server(AllowedIds(r), h.best)
    \/ clock >= timer[r].preference

OnDatagramComplete(r, s, keepPort, ok) ==
    LET h == Record(heard[r], s, keepPort)
    IN  /\ CanAccept(r, s)
        /\ Settles(r, h)
        /\ RequestComplete(r, h, "OK", ok)
        /\ UNCHANGED <<clock, stepBacks, alive, servers, sendFailures, req, timer>>

\* Otherwise the answer is held and the deadline moves up to the preference.
OnDatagramHold(r, s, keepPort) ==
    LET h == Record(heard[r], s, keepPort)
        t == timer[r]
    IN  /\ CanAccept(r, s)
        /\ ~ Settles(r, h)
        /\ heard' = [heard EXCEPT ![r] = h]
        /\ timer' = [timer EXCEPT ![r].attempt =
                        IF t.preference < t.attempt THEN t.preference ELSE t.attempt]
        /\ UNCHANGED <<clock, stepBacks, alive, servers, sendFailures, rebindPending,
                       callback, state, req, reached, sends, outcome>>

\* r_client_on_timeout is called with a sample of the clock; before the
\* deadline it does nothing.
TimerDue(r, now) ==
    /\ CanDeliver(r)
    /\ now <= clock + Skew
    /\ now >= timer[r].attempt

Held(r) == heard[r].best # NoServer

\* An answer was held and its preference deadline has passed.
TimeoutDeliver(r, now, ok) ==
    /\ TimerDue(r, now)
    /\ Held(r)
    /\ now >= timer[r].preference
    /\ RequestComplete(r, heard[r], "OK", ok)
    /\ UNCHANGED <<clock, stepBacks, alive, servers, sendFailures, req, timer>>

\* The round is over and nobody answered.
Unanswered(r, now) ==
    /\ TimerDue(r, now)
    /\ ~ Held(r)
    /\ now >= timer[r].roundDeadline

ReplayDue(r, now) ==
    /\ Unanswered(r, now)
    /\ timer[r].phase = "ROUND"
    /\ timer[r].round < ReplayCount

LastRoundOver(r, now) ==
    /\ Unanswered(r, now)
    /\ timer[r].phase = "ROUND"
    /\ timer[r].round = ReplayCount

NextRound(r) == StartRound(timer[r].roundDeadline, timer[r].round + 1)

\* r_start_round of the next round, to the targets that have not answered.
TimeoutReplay(r, now, ok) ==
    LET missing == MissingTargets(r, heard[r])
    IN  /\ ReplayDue(r, now)
        /\ clock < req[r].dedup
        /\ ok # {} \/ missing = {}
        /\ SendOutcome(missing, ok)
        /\ timer' = [timer EXCEPT ![r] = NextRound(r)]
        /\ reached' = [reached EXCEPT ![r] = @ \cup ok]
        /\ sends' = [sends EXCEPT ![r] = IF ok # {} THEN @ + 1 ELSE @]
        /\ UNCHANGED <<clock, stepBacks, alive, servers, rebindPending, callback,
                       state, req, heard, outcome>>

\* The replay reached no endpoint: the request fails with RCLIENT_ERR_IO.
TimeoutReplayFails(r, now) ==
    /\ ReplayDue(r, now)
    /\ clock < req[r].dedup
    /\ MissingTargets(r, heard[r]) # {}
    /\ timer' = [timer EXCEPT ![r] = NextRound(r)]
    /\ RequestComplete(r, heard[r], "IO", {})
    /\ UNCHANGED <<clock, stepBacks, alive, servers, sendFailures, req>>

\* Slip: the end of the final window is not handled.
ExpireOutsideFinal(r, now) ==
    /\ \/ ReplayDue(r, now) /\ clock >= req[r].dedup
       \/ LastRoundOver(r, now) /\ FinalMs = 0
    /\ RequestComplete(r, heard[r], "TIMEOUT", {})
    /\ UNCHANGED <<clock, stepBacks, alive, servers, sendFailures, req, timer>>

\* The timer came after the deduplication deadline, or no receive window is
\* left: the request times out.
TimeoutExpire(r, now) ==
    /\ \/ ReplayDue(r, now) /\ clock >= req[r].dedup
       \/ LastRoundOver(r, now) /\ FinalMs = 0
       \/ Unanswered(r, now) /\ timer[r].phase = "FINAL"
    /\ RequestComplete(r, heard[r], "TIMEOUT", {})
    /\ UNCHANGED <<clock, stepBacks, alive, servers, sendFailures, req, timer>>

\* The timer neither sends nor completes: the deadline is put back to the one
\* that has not passed yet, or the final receive window opens.
TimeoutWait(r, now) ==
    LET t         == timer[r]
        preferred == Held(r) /\ now < t.preference
        early     == ~ Held(r) /\ now < t.roundDeadline
    IN  /\ TimerDue(r, now)
        /\ preferred \/ early \/ (LastRoundOver(r, now) /\ FinalMs # 0)
        /\ timer' = [timer EXCEPT ![r] =
                        CASE preferred -> [t EXCEPT !.attempt = t.preference]
                          [] early     -> [t EXCEPT !.attempt = t.roundDeadline]
                          [] OTHER     -> EnterFinal(t)]
        /\ UNCHANGED <<clock, stepBacks, alive, servers, sendFailures, rebindPending,
                       callback, state, req, heard, reached, sends, outcome>>

-----------------------------------------------------------------------------
(* The environment *)

\* r_dns_refresh_finish replaces the server set; requests keep their snapshot.
InstallServers(found) ==
    /\ alive
    /\ found # servers
    /\ servers' = found
    /\ UNCHANGED <<clock, stepBacks, alive, sendFailures, rebindPending, callback,
                   state, req, timer, heard, reached, sends, outcome>>

Tick ==
    /\ alive
    /\ clock < ClockMax
    /\ clock' = clock + 1
    /\ UNCHANGED <<stepBacks, alive, servers, sendFailures, rebindPending, callback,
                   state, req, timer, heard, reached, sends, outcome>>

\* The wall clock is set back.
StepBack ==
    /\ alive
    /\ stepBacks < MaxStepBacks
    /\ clock > 0
    /\ stepBacks' = stepBacks + 1
    /\ clock' = clock - 1
    /\ UNCHANGED <<alive, servers, sendFailures, rebindPending, callback, state, req, timer, heard,
                   reached, sends, outcome>>

-----------------------------------------------------------------------------
(* Specification *)

Init ==
    /\ clock = 0
    /\ stepBacks = 0
    /\ alive = TRUE
    /\ servers = {}
    /\ sendFailures = 0
    /\ rebindPending = FALSE
    /\ callback = NoReq
    /\ state = [r \in Req |-> "unused"]
    /\ req = [r \in Req |-> BlankReq]
    /\ timer = [r \in Req |-> BlankTimer]
    /\ heard = [r \in Req |-> NothingHeard]
    /\ reached = [r \in Req |-> {}]
    /\ sends = [r \in Req |-> 0]
    /\ outcome = [r \in Req |-> NoOutcome]

TimerSamples(r) == timer[r].attempt .. (clock + Skew)

OnDatagram(r) ==
    \E s \in Server, keepPort \in BOOLEAN :
        \/ \E ok \in SUBSET Endpoint : OnDatagramComplete(r, s, keepPort, ok)
        \/ OnDatagramHold(r, s, keepPort)

OnTimeout(r) ==
    \E now \in TimerSamples(r) :
        \/ \E ok \in SUBSET Endpoint :
               \/ TimeoutDeliver(r, now, ok)
               \/ TimeoutReplay(r, now, ok)
        \/ TimeoutReplayFails(r, now)
        \/ TimeoutExpire(r, now)
        \/ TimeoutWait(r, now)

AppCall(r) ==
    \/ \E ok \in SUBSET Endpoint : Submit(r, ok)
    \/ SubmitRejected(r)
    \/ CancelRequest(r)

Next ==
    \/ \E r \in Req : AppCall(r) \/ OnDatagram(r) \/ OnTimeout(r)
    \/ \E ok \in SUBSET Endpoint : ReportLatency(ok)
    \/ CallbackReturn
    \/ Destroy
    \/ \E found \in Discoveries : InstallServers(found)
    \/ Tick
    \/ StepBack

Spec == Init /\ [][Next]_vars

\* Time passes, the host calls r_client_on_timeout once the deadline of a
\* request has passed, and completion callbacks return.  Datagrams, DNS and
\* the application owe nothing.
Fairness ==
    /\ WF_vars(Tick)
    /\ WF_vars(CallbackReturn)
    /\ \A r \in Req : WF_vars(OnTimeout(r))

FairSpec == Spec /\ Fairness

-----------------------------------------------------------------------------
(* Safety *)

\* The callback of r_request_complete is given the answer of the oldest of all
\* the servers whose responses were accepted, in whatever order they arrived
\* (r_candidate_try_update_best).
OldestAnswerWins ==
    \A r \in Req : outcome[r].status = "OK" =>
        /\ outcome[r].server \in heard[r].seen
        /\ r_is_oldest_known_server(heard[r].seen, outcome[r].server)

\* A request fails (r_request_policy_on_timeout) only if no response was ever
\* accepted for it: no valid answer that arrived in time is thrown away.
FailureMeansSilence ==
    \A r \in Req : outcome[r].status \in {"TIMEOUT", "IO"} => heard[r].seen = {}

\* The verdict of a request (r_request_complete) never ignores an answer that
\* was accepted: success reports the oldest of them, failure means none.
VerdictIsRight == OldestAnswerWins /\ FailureMeansSilence

\* r_start_round and r_enter_final keep an absolute schedule: however late the
\* timers are, the rounds end where the schedule says, the last wait ends
\* exactly at the deduplication deadline the servers were told, and the host
\* is never asked to wait beyond it.
ScheduleIsAbsolute ==
    \A r \in Inflight :
        LET t == timer[r]
        IN  /\ t.roundDeadline + (IF t.phase = "FINAL" THEN 0 ELSE Remaining[t.round])
                   = req[r].start + DedupTtl
            /\ t.attempt <= req[r].dedup
            /\ req[r].dedup = req[r].start + DedupTtl

\* A response that r_client_on_datagram holds back for an older server is due
\* no later than the preference deadline of its round.
HeldAnswerIsDue ==
    \A r \in Inflight : Held(r) => timer[r].attempt <= timer[r].preference

\* r_request_policy_on_timeout replays only unanswered requests, so each round
\* sends once and a request is sent at most ReplayCount + 2 times, the
\* completion delivery included.
BoundedTransmissions ==
    \A r \in Req :
        /\ state[r] = "inflight" => sends[r] = timer[r].round + 1
        /\ sends[r] <= ReplayCount + 2

\* The timetable of a request in flight holds whatever is late, lost or refused
\* (r_start_round, r_enter_final, r_client_on_datagram): it ends with the
\* deduplication window, nothing is held past its preference deadline and no
\* round is sent twice.
TimetableHolds == ScheduleIsAbsolute /\ HeldAnswerIsDue /\ BoundedTransmissions

\* A rebind that a completed request asked for is not forgotten: once nothing
\* is in flight and no callback is running, r_notify_steering_when_drained has
\* called the hook.
RebindNotForgotten ==
    HasHook /\ rebindPending /\ alive => callback # NoReq \/ Inflight # {}

-----------------------------------------------------------------------------
(* The inductive invariant, per request: its life, its answers, its schedule *)

LifeInv(r) ==
    /\ state[r] \in {"unused", "rejected"} =>
           req[r] = BlankReq /\ heard[r] = NothingHeard /\ sends[r] = 0
    /\ outcome[r].status = "none" <=> state[r] \notin {"calling", "done"}
    /\ outcome[r].status # "OK" => outcome[r].server = NoServer
    /\ outcome[r].status = "OK" => Held(r) /\ outcome[r].server = heard[r].best
    /\ outcome[r].status \in {"TIMEOUT", "IO"} => ~ Held(r)
    /\ state[r] = "inflight" => sends[r] = timer[r].round + 1 /\ req[r].targets # {}
    /\ sends[r] <= ReplayCount + 2

AnswerInv(h) ==
    /\ h.best = NoServer => h.seen = {}
    /\ h.best # NoServer => /\ h.best \in h.seen
                            /\ r_is_oldest_known_server(h.seen, h.best)

ScheduleInv(q, t, held) ==
    /\ q.dedup = q.start + DedupTtl
    /\ t.phase = "ROUND" => t.roundDeadline + Remaining[t.round] = q.dedup
    /\ t.phase = "FINAL" => t.roundDeadline = q.dedup
    /\ q.start + Gap[0] <= t.preference
    /\ t.preference <= t.roundDeadline
    /\ \/ t.attempt = t.roundDeadline
       \/ held /\ t.attempt = t.preference
    /\ held => t.attempt <= t.preference

RequestInv(r) ==
    /\ LifeInv(r)
    /\ AnswerInv(heard[r])
    /\ state[r] = "inflight" => ScheduleInv(req[r], timer[r], Held(r))

\* The callback on the stack is that of the request being completed.
CallbackInv == \A r \in Req : state[r] = "calling" <=> callback = r

\* What every step of the client preserves and the safety properties follow
\* from: the best answer is the oldest of the answers seen, an outcome agrees
\* with it, and the deadlines of a request in flight add up to its
\* deduplication deadline.
IInv ==
    /\ TypeOK
    /\ \A r \in Req : RequestInv(r)
    /\ CallbackInv
    /\ RebindNotForgotten

-----------------------------------------------------------------------------
(* Action properties *)

\* Before the preference deadline of round 0 only the oldest known server can
\* decide a request; a younger answer is held back.
EarlyAnswerIsOldest ==
    [][\A r \in Req :
          /\ outcome[r].status = "none"
          /\ outcome'[r].status = "OK"
          /\ clock + Skew < req[r].start + Gap[0]
          => r_is_oldest_known_server(AllowedIds(r), outcome'[r].server)]_vars

\* No packet of a request leaves at or after its deduplication deadline, where
\* the servers would no longer recognise it as a repetition, and no replay
\* leaves before its round is due.
SendsStayInWindow ==
    [][\A r \in Req : sends'[r] # sends[r] =>
          /\ clock < req'[r].dedup
          /\ outcome'[r].status = "none" => timer'[r].roundStart <= clock + Skew]_vars

-----------------------------------------------------------------------------
(* Liveness *)

\* Every submitted request comes to an end: its callback runs and returns, or
\* it is canceled or destroyed.
EveryRequestEnds ==
    \A r \in Req :
        state[r] = "inflight" ~> state[r] \in {"done", "canceled", "destroyed"}

\* A pending rebind reaches the hook, unless the client is destroyed or the
\* application keeps submitting: r_notify_steering_when_drained waits until
\* nothing is in flight, which a host whose requests always overlap never
\* sees.
SomeSubmitted == \E r \in Req : state[r] = "unused" /\ state'[r] # "unused"
RebindHappens ==
    HasHook =>
        \/ []<><<SomeSubmitted>>_vars
        \/ rebindPending ~> (~ rebindPending \/ ~ alive)

-----------------------------------------------------------------------------
(* Refinement *)

\* Where a handle is in the life the contract describes.
ContractStage(st) ==
    CASE st = "unused" -> "idle"
      [] st = "rejected" -> "refused"
      [] st = "inflight" -> "open"
      [] st \in {"calling", "done"} -> "decided"
      [] OTHER -> "dropped"

Contract == INSTANCE RequestContract WITH
    stage <- [r \in Req |-> ContractStage(state[r])],
    answered <- [r \in Req |-> heard[r].seen],
    verdict <- outcome

\* The client implements the contract: one decision per accepted request, the
\* oldest answer or an error, nothing after cancel or destroy.
ImplementsContract == Contract!ContractSpec

=============================================================================
