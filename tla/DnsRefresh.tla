---------------------------- MODULE DnsRefresh ----------------------------
(***************************************************************************)
(* Server discovery, src/src/r_client.c: one refresh looks up the SRV      *)
(* records of the tenant, then the addresses of every conforming target,   *)
(* and installs the endpoints once every lookup has ended.                 *)
(*                                                                         *)
(* A resolver may call back before resolve_srv or resolve_addrs returns,   *)
(* from the event loop, from within cancel, or after the client is gone.   *)
(* Control therefore passes between the client, the resolver and the event *)
(* loop; pc says which frame is on top of the call stack.  At most one     *)
(* refresh exists, so the frames below it are known from pc and from       *)
(* lookup->in_resolver_call of the SRV lookup.                             *)
(***************************************************************************)
EXTENDS Integers, FiniteSets

CONSTANTS
    Rec,            \* the SRV records the zone may publish
    Conforming,     \* those whose first label is s-<server id>
    TtlOf,          \* r_srv_record_t.ttl_ms
    Srv,            \* the SRV lookup of a refresh
    NoLookup,       \* NULL
    Interval,       \* config.dns_refresh.refresh_interval_ms
    ForcedMin,      \* config.dns_refresh.forced_refresh_min_interval_ms
    Jitter,         \* config.dns_refresh.forced_refresh_jitter_ms
    HasCancel,      \* resolver.cancel is not NULL
    LocalCancel,    \* cancel calls back no other lookup than the canceled one
    ClockMax,       \* bound on the clock
    Modulus         \* 2^64: the clock difference is an unsigned word

ASSUME RecordAssumption ==
    /\ IsFiniteSet(Rec)
    /\ Conforming \subseteq Rec
    /\ TtlOf \in [Rec -> Nat]
    /\ Srv \notin Rec
    /\ NoLookup \notin Rec \cup {Srv}

ASSUME PacingAssumption ==
    /\ Interval \in Nat \ {0}
    /\ ForcedMin \in Nat \ {0}
    /\ Jitter \in Nat
    /\ HasCancel \in BOOLEAN
    /\ LocalCancel \in BOOLEAN
    /\ ClockMax \in Nat \ {0}
    /\ Modulus \in Nat
    /\ Interval + ClockMax <= Modulus

Lookup == Rec \cup {Srv}

VARIABLES
    clock,          \* io.now_ms
    alive,          \* the client has not been destroyed
    servers,        \* client->servers, as the records they came from
    lastRefresh,    \* client->last_dns_refresh_ms
    refreshTtl,     \* client->dns_refresh_ttl_ms
    inflight,       \* client->dns_refresh_inflight, with client->dns_refresh
    refresh,        \* the refresh object
    lookup,         \* the lookup objects
    owed,           \* lookups the resolver has taken and not called back
    caller,         \* the API call that is in progress
    pc,             \* the frame on top of the stack
    current,        \* the lookup of the resolve_addrs or cancel frame
    todo,           \* records or lookups a loop of the client has not visited
    srvTtl          \* min_ttl_ms of r_dns_srv_cb_fn

clientVars == <<alive, servers, lastRefresh, refreshTtl, inflight>>
vars == <<clock, clientVars, refresh, lookup, owed, caller, pc, current, todo, srvTtl>>

-----------------------------------------------------------------------------
(* Types *)

RefreshFields ==
    [live       : BOOLEAN,      \* allocated
     detached   : BOOLEAN,
     pending    : Nat,
     scheduling : Nat,
     endpoints  : SUBSET Rec,
     minTtl     : Nat]

LookupFields ==
    [linked    : BOOLEAN,       \* allocated and in refresh->lookups
     completed : BOOLEAN,
     inCall    : BOOLEAN,       \* in_resolver_call
     hasId     : BOOLEAN]       \* has_req_id

NoRefresh == [live |-> FALSE, detached |-> FALSE, pending |-> 0, scheduling |-> 0,
              endpoints |-> {}, minTtl |-> 0]

FreeLookup == [linked |-> FALSE, completed |-> FALSE, inCall |-> FALSE, hasId |-> FALSE]

\* A lookup that is about to be handed to the resolver.
NewLookup == [linked |-> TRUE, completed |-> FALSE, inCall |-> TRUE, hasId |-> FALSE]

Frames == {"loop", "resolveSrv", "srvCallback", "resolveAddr", "cancel"}

TypeOK ==
    /\ clock \in 1..ClockMax
    /\ alive \in BOOLEAN
    /\ servers \in SUBSET Rec
    /\ lastRefresh \in 0..ClockMax
    /\ refreshTtl \in Nat
    /\ inflight \in BOOLEAN
    /\ refresh \in RefreshFields
    /\ lookup \in [Lookup -> LookupFields]
    /\ owed \in SUBSET Lookup
    /\ caller \in {"create", "none", "periodic", "forced"}
    /\ pc \in Frames
    /\ current \in Lookup \cup {NoLookup}
    /\ todo \in SUBSET Lookup
    /\ srvTtl \in Nat

-----------------------------------------------------------------------------
(* The refresh and its lookups *)

\* The event loop has control, no API call is in progress.
HostInControl == pc = "loop" /\ caller = "none"

Linked == {l \in Lookup : lookup[l].linked}

\* Slip: the last lookup frees the refresh under the call that scheduled it.
EndedOnPending(rf) == rf.pending = 0

\* Slip: the refresh ends with the call that scheduled it.
EndedOnScheduling(rf) == rf.scheduling = 0

\* Nothing is pending and no frame of the client still uses the refresh.
Ended(rf) == rf.pending = 0 /\ rf.scheduling = 0

\* Slip: a discovery without endpoints is installed as well.
InstallAnything(rf) ==
    /\ servers' = rf.endpoints
    /\ lastRefresh' = clock
    /\ refreshTtl' = rf.minTtl

\* The part of r_dns_refresh_finish that replaces the endpoints: a discovery
\* that found nothing leaves the old ones, and the pacing, as they were.
Install(rf) ==
    IF rf.endpoints # {}
    THEN /\ servers' = rf.endpoints
         /\ lastRefresh' = clock
         /\ refreshTtl' = rf.minTtl
    ELSE UNCHANGED <<servers, lastRefresh, refreshTtl>>

\* r_dns_refresh_maybe_complete and r_dns_refresh_finish for the new values of
\* the refresh and its lookups.
MaybeComplete(rf, lk) ==
    IF ~ Ended(rf)
    THEN /\ refresh' = rf
         /\ lookup' = lk
         /\ UNCHANGED <<servers, lastRefresh, refreshTtl, inflight>>
    ELSE /\ refresh' = NoRefresh
         /\ lookup' = [l \in Lookup |-> FreeLookup]
         /\ IF rf.detached
            THEN UNCHANGED <<servers, lastRefresh, refreshTtl, inflight>>
            ELSE Install(rf) /\ inflight' = FALSE

\* refresh->pending-- with its guard.
OneLess(rf) == [rf EXCEPT !.pending = IF @ > 0 THEN @ - 1 ELSE 0]

\* r_dns_lookup_finish on the lookup: inside its own resolve call it is only
\* marked, the call frees it.
FinishLookup(lk, l) ==
    [lk EXCEPT ![l] = IF @.inCall THEN [@ EXCEPT !.completed = TRUE] ELSE FreeLookup]

-----------------------------------------------------------------------------
(* Starting a refresh *)

\* r_dns_start_refresh up to the call of resolve_srv.
BeginRefresh ==
    /\ ~ inflight
    /\ inflight' = TRUE
    /\ refresh' = [NoRefresh EXCEPT !.live = TRUE, !.pending = 1, !.scheduling = 1]
    /\ lookup' = [lookup EXCEPT ![Srv] = NewLookup]
    /\ owed' = owed \cup {Srv}
    /\ pc' = "resolveSrv"
    /\ UNCHANGED <<alive, servers, lastRefresh, refreshTtl>>

\* No refresh is due, one is in flight, or memory is short; what
\* r_dns_start_refresh has allocated it frees again.
NoNewRefresh == UNCHANGED <<clientVars, refresh, lookup, owed, pc>>

\* The clock difference is unsigned: it wraps when the clock was set back.
SinceRefresh == (clock - lastRefresh) % Modulus

\* The configured interval, or the TTL of the records if that is shorter.
RefreshInterval == IF refreshTtl > 0 /\ refreshTtl < Interval THEN refreshTtl ELSE Interval

PeriodicDue == lastRefresh = 0 \/ SinceRefresh >= RefreshInterval

\* r_dns_maybe_refresh(client, true); jitter is the value r_rand_range returns.
ForcedDue(jitter) == ~ (lastRefresh # 0 /\ SinceRefresh < ForcedMin + jitter)

\* r_client_create starts the first discovery; its result is ignored.
Create ==
    /\ pc = "loop"
    /\ caller = "create"
    /\ caller' = "forced"
    /\ \/ \E jitter \in 0..Jitter : ForcedDue(jitter) /\ BeginRefresh
       \/ NoNewRefresh
    /\ UNCHANGED <<clock, current, todo, srvTtl>>

\* A submit or a latency report first refreshes if the interval has passed.
ApiPeriodic ==
    /\ alive
    /\ HostInControl
    /\ caller' = "periodic"
    /\ \/ PeriodicDue /\ BeginRefresh
       \/ NoNewRefresh
    /\ UNCHANGED <<clock, current, todo, srvTtl>>

\* Back from it without a server, the call forces a refresh.
ApiForced ==
    /\ pc = "loop"
    /\ caller = "periodic"
    /\ servers = {}
    /\ caller' = "forced"
    /\ \/ \E jitter \in 0..Jitter : ForcedDue(jitter) /\ BeginRefresh
       \/ NoNewRefresh
    /\ UNCHANGED <<clock, current, todo, srvTtl>>

\* The call goes on to its own work, or fails with RCLIENT_ERR_DNS.
ApiReturns ==
    /\ pc = "loop"
    /\ \/ caller = "forced"
       \/ caller = "periodic" /\ servers # {}
    /\ caller' = "none"
    /\ UNCHANGED <<clock, clientVars, refresh, lookup, owed, pc, current, todo, srvTtl>>

-----------------------------------------------------------------------------
(* Resolver callbacks *)

\* The smallest TTL above zero among the conforming records, or zero.
MinTtl(records) ==
    LET ttls == {TtlOf[r] : r \in records} \ {0}
    IN  IF ttls = {} THEN 0 ELSE CHOOSE t \in ttls : \A u \in ttls : t <= u

\* r_dns_srv_cb_fn with records, up to the loop that schedules their lookups.
SrvAnswer(records) ==
    /\ Srv \in owed
    /\ pc = "resolveSrv" \/ HostInControl
    /\ ~ refresh.detached
    /\ records # {}
    /\ owed' = owed \ {Srv}
    /\ todo' = records \cap Conforming
    /\ srvTtl' = MinTtl(records \cap Conforming)
    /\ pc' = "srvCallback"
    /\ UNCHANGED <<clock, clientVars, refresh, lookup, caller, current>>

\* Slip: a failed SRV lookup returns without r_dns_lookup_finish.
SrvFailureIgnored ==
    /\ Srv \in owed
    /\ pc = "resolveSrv" \/ HostInControl
    /\ owed' = owed \ {Srv}
    /\ UNCHANGED <<clock, clientVars, refresh, lookup, caller, pc, current, todo, srvTtl>>

\* r_dns_srv_cb_fn after a failure, or for a refresh that was detached.
SrvFails ==
    /\ Srv \in owed
    /\ pc = "resolveSrv" \/ HostInControl
    /\ owed' = owed \ {Srv}
    /\ MaybeComplete(OneLess(refresh), FinishLookup(lookup, Srv))
    /\ UNCHANGED <<clock, alive, caller, pc, current, todo, srvTtl>>

\* r_dns_schedule_addr_lookup for one record, up to the call of resolve_addrs.
ScheduleAddr(rec) ==
    /\ pc = "srvCallback"
    /\ rec \in todo
    /\ todo' = todo \ {rec}
    /\ refresh' = [refresh EXCEPT !.pending = @ + 1, !.scheduling = @ + 1]
    /\ lookup' = [lookup EXCEPT ![rec] = NewLookup]
    /\ owed' = owed \cup {rec}
    /\ current' = rec
    /\ pc' = "resolveAddr"
    /\ UNCHANGED <<clock, clientVars, caller, srvTtl>>

\* The lookup cannot be allocated: the record is passed over.
SkipAddr(rec) ==
    /\ pc = "srvCallback"
    /\ rec \in todo
    /\ todo' = todo \ {rec}
    /\ UNCHANGED <<clock, clientVars, refresh, lookup, owed, caller, pc, current, srvTtl>>

\* The end of r_dns_srv_cb_fn: the TTL, then r_dns_lookup_finish.
SrvCallbackEnds ==
    /\ pc = "srvCallback"
    /\ todo = {}
    /\ MaybeComplete([OneLess(refresh) EXCEPT !.minTtl = srvTtl], FinishLookup(lookup, Srv))
    /\ pc' = IF lookup[Srv].inCall THEN "resolveSrv" ELSE "loop"
    /\ UNCHANGED <<clock, alive, owed, caller, current, todo, srvTtl>>

\* r_dns_addr_cb_fn, with addresses or without, from within any call of the
\* resolver or from the event loop.  A detached refresh takes no endpoints.
AddrAnswer(rec, found) ==
    LET rf == IF found /\ ~ refresh.detached
              THEN [refresh EXCEPT !.endpoints = @ \cup {rec}] ELSE refresh
    IN  /\ rec \in owed
        /\ pc \in {"resolveSrv", "resolveAddr"} \/ HostInControl
        /\ owed' = owed \ {rec}
        /\ MaybeComplete(OneLess(rf), FinishLookup(lookup, rec))
        /\ UNCHANGED <<clock, alive, caller, pc, current, todo, srvTtl>>

-----------------------------------------------------------------------------
(* Return of a resolver call *)

\* Slip: a lookup the resolver refused stays pending.
RefusedStaysPending(l) == refresh

\* A lookup that the resolver refused is not pending any more.
Refused(l) == IF lookup[l].completed THEN refresh ELSE OneLess(refresh)

\* The rest of r_dns_schedule_srv_lookup or r_dns_schedule_addr_lookup.  A
\* resolver that returns an error will not call back.
ResolveReturns(l, failed, hasId) ==
    LET done == failed \/ lookup[l].completed
        rf   == IF failed THEN Refused(l) ELSE refresh
    IN  /\ owed' = IF failed THEN owed \ {l} ELSE owed
        /\ MaybeComplete([rf EXCEPT !.scheduling = @ - 1],
                         [lookup EXCEPT ![l] =
                             IF done THEN FreeLookup
                             ELSE [@ EXCEPT !.inCall = FALSE, !.hasId = hasId]])

ResolveSrvReturns(failed, hasId) ==
    /\ pc = "resolveSrv"
    /\ ResolveReturns(Srv, failed, hasId)
    /\ pc' = "loop"
    /\ UNCHANGED <<clock, alive, caller, current, todo, srvTtl>>

ResolveAddrReturns(failed, hasId) ==
    /\ pc = "resolveAddr"
    /\ ResolveReturns(current, failed, hasId)
    /\ pc' = "srvCallback"
    /\ current' = NoLookup
    /\ UNCHANGED <<clock, alive, caller, todo, srvTtl>>

-----------------------------------------------------------------------------
(* Destruction *)

\* r_client_destroy with no refresh in flight.
DestroyIdle ==
    /\ alive
    /\ HostInControl
    /\ ~ inflight
    /\ alive' = FALSE
    /\ UNCHANGED <<clock, servers, lastRefresh, refreshTtl, inflight, refresh, lookup,
                   owed, caller, pc, current, todo, srvTtl>>

\* Where the cancel loop goes next: some lookup of the list, or its end.
NextLookup(rest) == IF rest = {} THEN {NoLookup} ELSE rest

\* r_dns_refresh_detach up to the loop of r_dns_refresh_cancel_lookups.
DestroyDetaches ==
    /\ alive
    /\ HostInControl
    /\ inflight
    /\ inflight' = FALSE
    /\ refresh' = [refresh EXCEPT !.detached = TRUE, !.scheduling = @ + 1]
    /\ \E first \in NextLookup(IF HasCancel THEN Linked ELSE {}) :
           /\ current' = first
           /\ todo' = IF HasCancel THEN Linked \ {first} ELSE {}
    /\ pc' = "cancel"
    /\ UNCHANGED <<clock, alive, servers, lastRefresh, refreshTtl, lookup, owed, caller,
                   srvTtl>>

\* The lookups that canceling l may call back before cancel returns.
CancelReach(l) ==
    IF lookup[l].completed \/ ~ lookup[l].hasId THEN {}
    ELSE IF LocalCancel THEN {l} \cap owed ELSE owed

\* One turn of the loop.  The next lookup is read before cancel is called;
\* the lookups that are called back leave the list.
CancelLookup(called) ==
    /\ pc = "cancel"
    /\ current # NoLookup
    /\ called \subseteq CancelReach(current)
    /\ owed' = owed \ called
    /\ refresh' = [refresh EXCEPT !.pending = @ - Cardinality(called)]
    /\ lookup' = [l \in Lookup |-> IF l \in called THEN FreeLookup ELSE lookup[l]]
    /\ \E next \in NextLookup(todo) :
           /\ current' = next
           /\ todo' = todo \ (called \cup {next})
    /\ UNCHANGED <<clock, clientVars, caller, pc, srvTtl>>

\* The rest of r_dns_refresh_detach and of r_client_destroy.
DestroyEnds ==
    /\ pc = "cancel"
    /\ current = NoLookup
    /\ MaybeComplete([refresh EXCEPT !.scheduling = @ - 1], lookup)
    /\ alive' = FALSE
    /\ pc' = "loop"
    /\ UNCHANGED <<clock, owed, caller, current, todo, srvTtl>>

-----------------------------------------------------------------------------
(* Specification *)

\* The wall clock may be set to anything.
SetClock ==
    /\ alive
    /\ clock' \in 1..ClockMax
    /\ UNCHANGED <<clientVars, refresh, lookup, owed, caller, pc, current, todo, srvTtl>>

Init ==
    /\ clock = 1
    /\ alive = TRUE
    /\ servers = {}
    /\ lastRefresh = 0
    /\ refreshTtl = 0
    /\ inflight = FALSE
    /\ refresh = NoRefresh
    /\ lookup = [l \in Lookup |-> FreeLookup]
    /\ owed = {}
    /\ caller = "create"
    /\ pc = "loop"
    /\ current = NoLookup
    /\ todo = {}
    /\ srvTtl = 0

\* The resolver calls back a lookup it was given.
Answer(l) ==
    \/ l = Srv /\ (SrvFails \/ \E records \in SUBSET Rec : SrvAnswer(records))
    \/ l \in Rec /\ \E found \in BOOLEAN : AddrAnswer(l, found)

\* Code of the client that runs on, and resolver calls that return.
Proceed ==
    \/ Create \/ ApiForced \/ ApiReturns
    \/ \E rec \in Rec : ScheduleAddr(rec) \/ SkipAddr(rec)
    \/ SrvCallbackEnds
    \/ \E failed, hasId \in BOOLEAN :
           ResolveSrvReturns(failed, hasId) \/ ResolveAddrReturns(failed, hasId)
    \/ \E called \in SUBSET Lookup : CancelLookup(called)
    \/ DestroyEnds

Next ==
    \/ Proceed
    \/ \E l \in Lookup : Answer(l)
    \/ ApiPeriodic
    \/ DestroyIdle
    \/ DestroyDetaches
    \/ SetClock

Spec == Init /\ [][Next]_vars

\* r_dns_refresh_cancel_lookups has canceled the lookup, or is about to.
Canceled(l) == refresh.detached /\ HasCancel /\ lookup[l].hasId

\* Calls return, and the event loop delivers what the resolver owes however
\* often the application makes calls in between.  Whether a canceled lookup
\* is called back is the resolver's choice (r_client_io.h, IO_ABSTRACTION.md).
FairSpec ==
    /\ Spec
    /\ WF_vars(Proceed)
    /\ \A l \in Lookup : SF_vars(~ Canceled(l) /\ Answer(l))

-----------------------------------------------------------------------------
(* Properties *)

\* No frame of the client and no callback the resolver may still make, before
\* or after the client is destroyed, touches a lookup or a refresh that
\* r_dns_lookup_finish or r_dns_refresh_free has freed.
MemorySafe ==
    /\ \A l \in owed : lookup[l].linked
    /\ pc \in {"resolveSrv", "srvCallback", "resolveAddr"} => lookup[Srv].linked
    /\ pc \in {"resolveAddr", "cancel"} /\ current # NoLookup => lookup[current].linked
    /\ pc # "loop" => refresh.live
    /\ \A l \in Lookup : lookup[l].linked => refresh.live

\* Between calls a refresh is kept only for a callback that is still owed:
\* refused and failed lookups leave nothing behind, and the client is never
\* left waiting (dns_refresh_inflight) for a callback nobody will make.  A
\* lookup that was canceled without a callback stays owed.
NothingLeaks ==
    HostInControl => /\ refresh.live => owed # {}
                     /\ inflight <=> refresh.live /\ ~ refresh.detached

\* r_dns_refresh_finish installs a discovery only after its last lookup has
\* been answered, so no answer comes too late to be counted.
InstallAfterLastAnswer ==
    [][inflight /\ ~ inflight' /\ ~ refresh'.live => owed' = {} /\ todo' = {}]_vars

\* A failed or empty discovery never takes away the servers that are known.
ServersSurviveFailure == [][servers # {} => servers' # {}]_vars

\* What r_dns_refresh_finish does to the servers that are known: it replaces
\* them once, after the last answer of a refresh, and never by nothing.
InstallsSoundly == InstallAfterLastAnswer /\ ServersSurviveFailure

\* While no server is known the minimum interval of forced refreshes never
\* holds one back: r_dns_maybe_refresh finds last_dns_refresh_ms = 0.
OutageIsNotThrottled == servers = {} <=> lastRefresh = 0

\* A clock that was set back behind the last refresh does not hold up the next
\* one until it has caught up: the unsigned difference makes it due at once.
StepBackIsDue == clock < lastRefresh => PeriodicDue

\* The pacing of r_dns_maybe_refresh never stands in the way of a refresh that
\* is needed, neither in an outage nor after the clock was set back.
PacingIsSafe == OutageIsNotThrottled /\ StepBackIsDue

\* A refresh that started comes to an end once the resolver has called back,
\* and what a destroyed client left behind is freed unless one of its lookups
\* was canceled: a resolver that drops a canceled lookup without a callback
\* leaves the detached refresh allocated (r_dns_refresh_detach).
RefreshEnds ==
    /\ inflight ~> ~ inflight
    /\ (~ alive /\ \A l \in owed : ~ Canceled(l)) ~> ~ refresh.live

-----------------------------------------------------------------------------
(* The inductive invariant *)

\* Lookups that have not ended; refresh->pending counts them.
Unfinished == {l \in Lookup : lookup[l].linked /\ ~ lookup[l].completed}

\* The SRV callback is on the stack.
InSrvCallback == pc \in {"srvCallback", "resolveAddr"}

\* The counters agree with the lookups and with the frames on the stack.
CountInv ==
    /\ refresh.pending = Cardinality(Unfinished)
    /\ refresh.scheduling = (IF lookup[Srv].inCall THEN 1 ELSE 0)
                               + (IF pc \in {"resolveAddr", "cancel"} THEN 1 ELSE 0)
    /\ refresh.live <=> ~ Ended(refresh)

\* What is unfinished is owed by the resolver or is the SRV lookup whose
\* callback runs.
OwedInv ==
    /\ owed = Unfinished \ (IF InSrvCallback THEN {Srv} ELSE {})
    /\ InSrvCallback => Srv \in Unfinished
    /\ Srv \in owed => Linked = {Srv}

\* Only a lookup whose resolver call is on the stack outlives its end.
CallInv ==
    /\ \A l \in Lookup :
           /\ lookup[l].inCall => lookup[l].linked
           /\ lookup[l].completed => lookup[l].inCall
           /\ lookup[l].inCall /\ l # Srv => pc = "resolveAddr" /\ l = current
    /\ lookup[Srv].inCall => pc \in {"resolveSrv", "srvCallback", "resolveAddr"}
    /\ pc = "resolveSrv" => lookup[Srv].inCall
    /\ pc = "resolveAddr" => current \in Rec /\ lookup[current].inCall

\* Where each loop is, and who may have detached the refresh.
LoopInv ==
    /\ InSrvCallback => todo \subseteq Rec \ Linked
    /\ pc = "cancel" => /\ todo \subseteq Linked
                        /\ current # NoLookup => current \in Linked \ todo
    /\ inflight <=> refresh.live /\ ~ refresh.detached
    /\ refresh.detached => pc = "cancel" \/ ~ alive
    /\ pc = "cancel" => refresh.detached /\ caller = "none"
    /\ ~ alive => pc = "loop" /\ caller = "none" /\ ~ inflight

\* The loops over records and lookups have run to their end once control has
\* left them.
TodoInv ==
    /\ NoLookup \notin todo
    /\ pc \in {"loop", "resolveSrv"} => todo = {}
    /\ pc = "cancel" /\ current = NoLookup => todo = {}

\* The memory of the refresh and of its lookups is exactly what the counters,
\* the resolver and the stack account for.
IInv ==
    /\ TypeOK
    /\ CountInv
    /\ OwedInv
    /\ CallInv
    /\ LoopInv
    /\ OutageIsNotThrottled

=============================================================================
