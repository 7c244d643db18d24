------------------------------ MODULE PerfClient ------------------------------
(***************************************************************************)
(* The load generator bin/perf_client.c: main parses its arguments, spawns  *)
(* one worker thread per client and a progress thread, joins them and       *)
(* reports.  Each worker owns a socket and a client and makes one request   *)
(* at a time: a number of them, as many as fit a duration, or one on each   *)
(* slot of a paced schedule.  Requests end as RequestContract says.         *)
(*                                                                          *)
(* A step of a worker is what it does between two waits: until then it      *)
(* touches only its own state and adds to atomic counters.  Texts of        *)
(* arguments are abstracted to their form and number; one counter per       *)
(* direction stands for its datagrams and bytes, which are added together.  *)
(***************************************************************************)
EXTENDS PerfPacer

CONSTANTS
    MaxClients,     \* 1024, scaled; memory suffices for no more
    MaxRequests,    \* bound: requests of all workers that run for a duration
    MaxEndpoints,   \* bound: endpoints in the lists of all workers together
    MaxDatagrams,   \* bound: replays and noise of a request
    RequestTicks,   \* ticks until the last deadline of a request
    SetupMax,       \* bound: tick by which every paced worker is set up
    ClockMax,       \* bound: last tick
    U64,            \* 2^64, scaled
    CounterMax,     \* UINT64_MAX of the traffic counters, scaled
    RpsMax,         \* 1000000, scaled
    DurationMax,    \* 86400, scaled
    ClientsArg, RequestsArg, DurationArg, RpsArg   \* arguments to try

ASSUME PerfAssumption ==
    /\ MaxClients \in Nat \ {0} /\ MaxRequests \in Nat /\ MaxDatagrams \in Nat
    /\ MaxEndpoints \in Nat /\ DurationMax \in Nat
    /\ RequestTicks \in Nat /\ SetupMax \in Nat /\ ClockMax \in Nat
    /\ CounterMax \in Nat \ {0} /\ RpsMax \in Nat /\ U64 \in Nat \ {0}
    /\ ClientsArg \cup RequestsArg \cup DurationArg \cup RpsArg
           \subseteq [form : STRING, n : 0 .. U64 - 1]

Worker == 0 .. MaxClients - 1
None == "none"
NoSlot == -1
Failed == "error"
Granted == "granted"
Denied == "denied"

VARIABLES
    clock,          \* CLOCK_MONOTONIC
    cfg,            \* perf_config_t
    \* main
    mpc, code,
    endpoints,      \* endpoints of the servers that the cache holds
    held,           \* the cache of DNS and the tables that main has allocated
    hists,          \* workers whose latency_hist is allocated
    next,           \* the worker that main makes a histogram for, or joins, next
    started,        \* bool *started
    errors,         \* worker_errors
    stopProgress,   \* g_stop_progress
    ppc,            \* the progress thread
    \* per worker
    wpc, workerError,
    fds,            \* open sockets of the worker
    client,         \* r_client_t exists
    inflight,       \* requests of the client
    ordinal,        \* pacer.next_ordinal
    due,            \* the slot it sleeps for, or NoSlot
    begin,          \* start_ns
    reqStart,       \* req_start
    count,          \* request_count
    heard,          \* replays and noise of this request
    traffic,        \* io.traffic
    saved,          \* worker->traffic
    hist,           \* latency_hist
    stats,          \* perf_stats_t, shared atomics
    \* history: what really happened
    slots,          \* slots whose request has begun
    wire,           \* datagrams that were sent, received or refused
    lats            \* how many answered requests took so many microseconds

clocks == <<clock, cfg>>
mains == <<mpc, code, endpoints, held, hists, next, started, errors,
           stopProgress, ppc>>
owned == <<workerError, fds, client>>
loops == <<inflight, ordinal, due, begin, reqStart, count, heard>>
records == <<traffic, saved, hist, stats, slots, wire, lats>>
vars == <<clocks, mains, wpc, owned, loops, records>>

-----------------------------------------------------------------------------
(* Arguments                                                               *)

\* perf_find_arg: a name without a value at the end of the line is no value.
perf_find_arg(a) == a.form \notin {"absent", "bare"}

\* strtoull as perf_parse_u64 uses it: a suffix is ignored, a minus wraps.
perf_parse_u64(a, fallback) ==
    CASE a.form \in {"number", "suffixed"} -> a.n
      [] a.form = "negative" -> (U64 - a.n) % U64
      [] OTHER -> fallback

perf_parse_positive_u64(a) == a.form = "number" /\ a.n > 0

DefaultClients == 2
DefaultRequests == 1

Paced(c) == c.rps # 0

\* perf_config_from_args: the values, read leniently ...
ConfigOf(clients, requests, duration, rps) ==
    [clients |-> perf_parse_u64(clients, DefaultClients),
     requests |-> perf_parse_u64(requests, DefaultRequests),
     hasDuration |-> perf_find_arg(duration),
     duration |-> perf_parse_u64(duration, 0),
     rps |-> IF perf_find_arg(rps) THEN rps.n ELSE 0]

\* ... and for a paced run checked strictly.
StrictEnough(clients, duration, rps) ==
    /\ rps.form # "bare"
    /\ perf_find_arg(rps) =>
        /\ perf_parse_positive_u64(rps) /\ rps.n <= RpsMax
        /\ perf_find_arg(duration) /\ perf_parse_positive_u64(duration)
        /\ duration.n <= DurationMax
        /\ perf_find_arg(clients) =>
               perf_parse_positive_u64(clients) /\ clients.n <= MaxClients

ParseArgs(clients, requests, duration, rps) ==
    /\ mpc = "args"
    /\ IF StrictEnough(clients, duration, rps)
         THEN /\ cfg' = ConfigOf(clients, requests, duration, rps)
              /\ mpc' = "dns"
              /\ UNCHANGED code
         ELSE mpc' = "exit" /\ code' = 2 /\ UNCHANGED cfg
    /\ UNCHANGED <<clock, endpoints, held, hists, next, started, errors,
                   stopProgress, ppc, wpc, owned, loops, records>>

-----------------------------------------------------------------------------
(* main                                                                    *)

Tables == {"threads", "workers", "started"}

\* The rest of main is as it was: for the steps before the workers are spawned.
Preparing ==
    UNCHANGED <<clocks, started, errors, stopProgress, ppc, wpc, owned, loops,
                records>>

\* perf_dns_cache_init finds n endpoints, which every client is given; it gives
\* everything back itself when it fails (Startup).
PrepareDns(ok, n) ==
    /\ mpc = "dns"
    /\ n * Min({cfg.clients, MaxClients}) <= MaxEndpoints
    /\ endpoints' = n
    /\ held' = IF ok THEN held \cup {"cache"} ELSE held
    /\ mpc' = IF ok THEN "tables" ELSE "exit"
    /\ code' = IF ok THEN code ELSE 1
    /\ UNCHANGED <<hists, next>>
    /\ Preparing

\* All three tables are asked for before any is looked at.
AllocateTables(got) ==
    /\ mpc = "tables"
    /\ got = Tables => cfg.clients <= MaxClients
    /\ held' = held \cup got
    /\ mpc' = IF got = Tables THEN "hists" ELSE "noTables"
    /\ UNCHANGED <<code, endpoints, hists, next>>
    /\ Preparing

\* main gives up: the tables, the cache and the histograms in done are freed.
GiveUp(done) ==
    /\ held' = held \ (Tables \cup {"cache"})
    /\ hists' = hists \ done
    /\ mpc' = "exit"
    /\ code' = 1

NoTables ==
    /\ mpc = "noTables"
    /\ GiveUp({})
    /\ UNCHANGED <<endpoints, next>>
    /\ Preparing

\* Mutant: the histograms made before the one that failed are forgotten.
HistogramFailsForgetting ==
    /\ mpc = "hists" /\ next < cfg.clients
    /\ GiveUp({})
    /\ UNCHANGED <<endpoints, next>>
    /\ Preparing

HistogramFails ==
    /\ mpc = "hists" /\ next < cfg.clients
    /\ GiveUp(0 .. next - 1)
    /\ UNCHANGED <<endpoints, next>>
    /\ Preparing

AllocateHistogram ==
    /\ mpc = "hists" /\ next < cfg.clients
    /\ hists' = hists \cup {next}
    /\ next' = next + 1
    /\ UNCHANGED <<mpc, code, endpoints, held>>
    /\ Preparing

Prepared ==
    /\ mpc = "hists" /\ next = cfg.clients
    /\ mpc' = "spawn"
    /\ next' = 0
    /\ UNCHANGED <<code, endpoints, held, hists>>
    /\ Preparing

PacedStart == Second
PacedEnd == PacedStart + cfg.duration * Second

\* The threads of the workers in up, and the progress thread, can be made.
Spawn(up, progress) ==
    /\ mpc = "spawn"
    /\ up \subseteq 0 .. cfg.clients - 1
    /\ started' = [w \in Worker |-> w \in up]
    /\ wpc' = [w \in Worker |-> IF w \in up THEN "setup" ELSE None]
    /\ workerError' = [w \in Worker |-> w < cfg.clients /\ w \notin up]
    /\ ppc' = IF progress THEN "running" ELSE None
    /\ mpc' = "join"
    /\ UNCHANGED <<clocks, code, endpoints, held, hists, next, errors, stopProgress, fds,
                   client, loops, records>>

\* A worker that fails has set worker_error.
Join ==
    /\ mpc = "join"
    /\ next < cfg.clients
    /\ started[next] => wpc[next] = "ended"
    /\ errors' = errors + (IF workerError[next] THEN 1 ELSE 0)
    /\ next' = next + 1
    /\ UNCHANGED <<clocks, mpc, code, endpoints, held, hists, started,
                   stopProgress, ppc, wpc, owned, loops, records>>

StopProgress ==
    /\ mpc = "join"
    /\ next = cfg.clients
    /\ stopProgress' = TRUE
    /\ mpc' = "progress"
    /\ UNCHANGED <<clocks, code, endpoints, held, hists, next, started, errors, ppc, wpc,
                   owned, loops, records>>

JoinProgress ==
    /\ mpc = "progress"
    /\ ppc \in {None, "ended"}
    /\ mpc' = "report"
    /\ UNCHANGED <<clocks, code, endpoints, held, hists, next, started, errors,
                   stopProgress, ppc, wpc, owned, loops, records>>

\* The totals are read; without memory for the summary main gives up, ...
Report(ok) ==
    /\ mpc = "report"
    /\ \/ /\ ok
          /\ held' = held \cup {"summary"}
          /\ mpc' = "cleanup"
          /\ UNCHANGED <<code, hists>>
       \/ ~ok /\ GiveUp(0 .. cfg.clients - 1)
    /\ UNCHANGED <<clocks, endpoints, next, started, errors, stopProgress, ppc,
                   wpc, owned, loops, records>>

\* ... and with it they are printed and everything is freed.
Cleanup ==
    /\ mpc = "cleanup"
    /\ held' = held \ (Tables \cup {"summary", "cache"})
    /\ hists' = hists \ (0 .. cfg.clients - 1)
    /\ mpc' = "exit"
    /\ code' = IF errors > 0 THEN 1 ELSE 0
    /\ UNCHANGED <<clocks, endpoints, next, started, errors, stopProgress, ppc,
                   wpc, owned, loops, records>>

\* perf_progress_thread: looks at the flag ten times a second.
ProgressEnds ==
    /\ ppc = "running"
    /\ stopProgress
    /\ ppc' = "ended"
    /\ UNCHANGED <<clocks, mpc, code, endpoints, held, hists, next, started, errors,
                   stopProgress, wpc, owned, loops, records>>

-----------------------------------------------------------------------------
(* Traffic and statistics                                                  *)

Field == {"sent", "received", "failures"}

Saturated(n) == IF n > CounterMax THEN CounterMax ELSE n

\* Mutant: the counter stops without a warning.
AddQuietly(t, n) ==
    [sent |-> Saturated(t.sent + n.sent),
     received |-> Saturated(t.received + n.received),
     failures |-> Saturated(t.failures + n.failures),
     incomplete |-> t.incomplete]

\* perf_traffic_add and perf_record_traffic, of n datagrams of each kind.
AddTraffic(t, n) ==
    [sent |-> Saturated(t.sent + n.sent),
     received |-> Saturated(t.received + n.received),
     failures |-> Saturated(t.failures + n.failures),
     incomplete |-> t.incomplete \/ \E f \in Field : t[f] + n[f] > CounterMax]

StatField == {"starts", "sent", "received", Granted, Denied, Failed}
NoTraffic == [sent |-> 0, received |-> 0, failures |-> 0, incomplete |-> FALSE]

\* perf_traffic_merge, over the workers that were started.
MergedField(field) ==
    SumFirst([w \in Worker |-> IF started[w] THEN saved[w][field] ELSE 0],
             MaxClients)

perf_traffic_merge ==
    [field \in Field |-> Min({CounterMax, MergedField(field)})]

MergeIncomplete ==
    \/ \E w \in Worker : started[w] /\ saved[w].incomplete
    \/ \E field \in Field : MergedField(field) > CounterMax

\* Datagrams of worker w: sent or refused by perf_udp_send, or received by
\* perf_udp_receive.
Datagrams(w, n) ==
    /\ traffic' = [traffic EXCEPT ![w] = AddTraffic(@, n)]
    /\ wire' = [f \in Field |-> wire[f] + n[f]]

Datagram(sent, received, failures) ==
    [sent |-> sent, received |-> received, failures |-> failures]

\* r_send_packet_to_targets: a packet is sent to n endpoints and leaves for
\* some of them.
Round(n) == {Datagram(sent, 0, n - sent) : sent \in 0 .. n}

\* r_completion_delivery: an accepted answer is followed by a last packet to
\* the endpoints that have not answered, if the deadline for it is not over.
Delivery(received) ==
    {n \in [sent : 0 .. endpoints, received : {received}, failures : 0 .. endpoints] :
        n.sent + n.failures < endpoints}

\* What atomic_fetch_add does to counters of perf_stats_t.
Bump(fields) ==
    [f \in StatField |-> IF f \in fields THEN stats[f] + 1 ELSE stats[f]]

\* perf_record_stats, with the outcome counted next to it, and logical_starts
\* of a request that was refused at once.
RecordStats(w, o, from) ==
    LET us == (clock - from) * TickUs IN
    /\ stats' = Bump({"sent", o}
                        \cup (IF wpc[w] = "wait" THEN {} ELSE {"starts"})
                        \cup (IF o = Failed THEN {} ELSE {"received"}))
    /\ IF o = Failed
         THEN UNCHANGED <<hist, lats>>
         ELSE /\ hist' = [hist EXCEPT ![w][perf_latency_bucket(us)] = @ + 1]
              /\ lats' = [lats EXCEPT ![us] = @ + 1]

\* The latencies that a request can have, in microseconds.
LatencyUs == 0 .. RequestTicks * TickUs

MergedHist ==
    [b \in Bucket |-> SumFirst([w \in Worker |-> hist[w][b]], MaxClients)]

-----------------------------------------------------------------------------
(* perf_worker                                                             *)

\* Every return with an error ends the worker, which gives back what it says.
SetupFails(w) ==
    /\ workerError' = [workerError EXCEPT ![w] = TRUE]
    /\ wpc' = [wpc EXCEPT ![w] = "ended"]
    /\ UNCHANGED begin

CloseSocket(w) == fds' = [fds EXCEPT ![w] = @ - 1]

DestroyClient(w) == client' = [client EXCEPT ![w] = FALSE]

SaveTraffic(w) == saved' = [saved EXCEPT ![w] = traffic[w]]

\* perf_setup_socket: socket() ...
OpenSocket(w) ==
    /\ wpc[w] = "setup"
    /\ \/ /\ fds' = [fds EXCEPT ![w] = @ + 1]
          /\ wpc' = [wpc EXCEPT ![w] = "bind"]
          /\ UNCHANGED <<workerError, begin>>
       \/ SetupFails(w) /\ UNCHANGED fds
    /\ UNCHANGED <<client, saved>>

\* ... and bind().
BindSocket(w) ==
    /\ wpc[w] = "bind"
    /\ \/ /\ wpc' = [wpc EXCEPT ![w] = "create"]
          /\ UNCHANGED <<workerError, begin, fds>>
       \/ SetupFails(w) /\ CloseSocket(w)
    /\ UNCHANGED <<client, saved>>

\* r_client_create, which gives everything back itself when it fails (Startup).
CreateClient(w) ==
    /\ wpc[w] = "create"
    /\ \/ /\ client' = [client EXCEPT ![w] = TRUE]
          /\ wpc' = [wpc EXCEPT ![w] = "named"]
          /\ UNCHANGED <<workerError, begin, fds, saved>>
       \/ SetupFails(w) /\ SaveTraffic(w) /\ CloseSocket(w) /\ UNCHANGED client

\* The name or the identifier of the bucket cannot be made.
NamingFails(w) ==
    /\ wpc[w] = "named"
    /\ SetupFails(w)
    /\ SaveTraffic(w) /\ DestroyClient(w) /\ CloseSocket(w)

AcceptsPace(w) ==
    Paced(cfg) => PacerAccepts(cfg.rps, cfg.clients, w, cfg.duration)

\* start_ns is of use to these runs only.
TimedRun == cfg.hasDuration /\ ~Paced(cfg)

\* perf_pacer_init may refuse, and then the traffic is not saved: there is none
\* yet.  (After StrictEnough it has no reason to.)
SetsUp(w) ==
    /\ wpc[w] = "named"
    /\ IF AcceptsPace(w)
         THEN /\ begin' = [begin EXCEPT ![w] = IF TimedRun THEN clock ELSE @]
              /\ wpc' = [wpc EXCEPT ![w] = "loop"]
              /\ UNCHANGED owned
         ELSE SetupFails(w) /\ DestroyClient(w) /\ CloseSocket(w)
    /\ UNCHANGED saved

Setup(w) ==
    /\ \/ OpenSocket(w) \/ BindSocket(w) \/ CreateClient(w)
       \/ NamingFails(w) \/ SetsUp(w)
    /\ UNCHANGED <<clocks, mains, inflight, ordinal, due, reqStart, count,
                   heard, traffic, hist, stats, slots, wire, lats>>

Elapsed == IF clock > PacedStart THEN clock - PacedStart ELSE 0

SettledOrdinal(w) ==
    PacerOrdinal(cfg.rps, cfg.clients, w, ordinal[w], Elapsed)

SettledSlot(w) == SlotOf(w, SettledOrdinal(w), cfg.clients)

\* perf_pacer_next finds a slot before the end.
HasSlot(w) ==
    /\ clock < PacedEnd
    /\ Offset(cfg.rps, SettledSlot(w)) < cfg.duration * Second

\* Mutant: the slot is not used up.
PaceNextAgain(w) ==
    /\ wpc[w] = "loop" /\ Paced(cfg)
    /\ HasSlot(w)
    /\ ordinal' = [ordinal EXCEPT ![w] = SettledOrdinal(w)]
    /\ due' = [due EXCEPT ![w] = SettledSlot(w)]
    /\ wpc' = [wpc EXCEPT ![w] = "sleep"]
    /\ UNCHANGED <<clocks, mains, owned, inflight, begin, reqStart, count,
                   heard, records>>

PaceNext(w) ==
    /\ wpc[w] = "loop" /\ Paced(cfg)
    /\ HasSlot(w)
    /\ ordinal' = [ordinal EXCEPT ![w] = SettledOrdinal(w) + 1]
    /\ due' = [due EXCEPT ![w] = SettledSlot(w)]
    /\ wpc' = [wpc EXCEPT ![w] = "sleep"]
    /\ UNCHANGED <<clocks, mains, owned, inflight, begin, reqStart, count,
                   heard, records>>

\* r_client_destroy frees what is in flight.
Close(w) ==
    /\ wpc' = [wpc EXCEPT ![w] = "ended"]
    /\ inflight' = [inflight EXCEPT ![w] = 0]
    /\ due' = [due EXCEPT ![w] = NoSlot]
    /\ DestroyClient(w) /\ SaveTraffic(w) /\ CloseSocket(w)

\* perf_sleep_until_ns fails.
SleepFails(w) ==
    /\ wpc[w] = "sleep"
    /\ workerError' = [workerError EXCEPT ![w] = TRUE]
    /\ Close(w)
    /\ UNCHANGED <<clocks, mains, ordinal, begin, reqStart, count, heard,
                   traffic, hist, stats, slots, wire, lats>>

Due(w) == due[w] # NoSlot /\ clock >= PacedStart + Offset(cfg.rps, due[w])

\* The loop goes on, in each of the three ways to run.
GoesOn(w) ==
    \/ wpc[w] = "sleep" /\ Due(w) /\ clock < PacedEnd
    \/ /\ wpc[w] = "loop" /\ ~Paced(cfg)
       /\ IF cfg.hasDuration
            THEN /\ clock - begin[w] < cfg.duration * Second
                 /\ stats.starts < MaxRequests
            ELSE count[w] < cfg.requests

Leaves(w) ==
    \/ wpc[w] = "sleep" /\ Due(w) /\ clock >= PacedEnd
    \/ wpc[w] = "loop" /\ Paced(cfg) /\ ~HasSlot(w)
    \/ /\ wpc[w] = "loop" /\ ~Paced(cfg)
       /\ IF cfg.hasDuration THEN clock - begin[w] >= cfg.duration * Second
                             ELSE count[w] >= cfg.requests

LeaveLoop(w) ==
    /\ Leaves(w)
    /\ Close(w)
    /\ UNCHANGED <<clocks, mains, workerError, ordinal, begin, reqStart, count,
                   heard, traffic, hist, stats, slots, wire, lats>>

\* The request is over for the worker.
Finish(w, o, from) ==
    /\ RecordStats(w, o, from)
    /\ count' = [count EXCEPT ![w] = IF Paced(cfg) THEN @ ELSE @ + 1]
    /\ wpc' = [wpc EXCEPT ![w] = "loop"]
    /\ reqStart' = [reqStart EXCEPT ![w] = 0]
    /\ heard' = [heard EXCEPT ![w] = 0]

\* A request begins, and the paced worker no longer sleeps for its slot.
Begin(w) ==
    /\ GoesOn(w)
    /\ slots' = IF Paced(cfg) THEN slots \cup {due[w]} ELSE slots
    /\ due' = [due EXCEPT ![w] = NoSlot]
    /\ UNCHANGED <<clocks, mains, owned, ordinal, begin, saved>>

\* r_client_check_rate_limit_async_borrowed takes it: it is in flight, and its
\* packet has left for some endpoint ...
Start(w) ==
    /\ Begin(w)
    /\ \E n \in Round(endpoints) : n.sent > 0 /\ Datagrams(w, n)
    /\ stats' = Bump({"starts"})
    /\ reqStart' = [reqStart EXCEPT ![w] = clock]
    /\ inflight' = [inflight EXCEPT ![w] = @ + 1]
    /\ wpc' = [wpc EXCEPT ![w] = "wait"]
    /\ UNCHANGED <<count, heard, hist, lats>>

\* ... or refuses it, before the first packet or because none left.
StartFails(w) ==
    /\ Begin(w)
    /\ \E failures \in {0, endpoints} : Datagrams(w, Datagram(0, 0, failures))
    /\ Finish(w, Failed, clock)
    /\ UNCHANGED inflight

\* on_rate_limit ends the wait.  The steering hook that may follow replaces the
\* socket by one on another port, or keeps it.
Done(w, o) ==
    /\ Finish(w, o, reqStart[w])
    /\ inflight' = [inflight EXCEPT ![w] = @ - 1]

\* perf_wait_for_request reads a datagram: noise or an answer that is held,
\* or the one that completes the request.
Receive(w) ==
    /\ wpc[w] = "wait"
    /\ \/ /\ heard[w] < MaxDatagrams
          /\ heard' = [heard EXCEPT ![w] = @ + 1]
          /\ Datagrams(w, Datagram(0, 1, 0))
          /\ UNCHANGED <<wpc, inflight, reqStart, count, hist, stats, lats>>
       \/ /\ \E n \in Delivery(1) : Datagrams(w, n)
          /\ \E o \in {Granted, Denied} : Done(w, o)
    /\ UNCHANGED <<clocks, mains, owned, ordinal, due, begin, saved, slots>>

\* A deadline: another round, to the endpoints that are silent, ends the
\* request if it reaches none of them, ...
Replay(w) ==
    /\ wpc[w] = "wait"
    /\ heard[w] < MaxDatagrams
    /\ \E n \in UNION {Round(silent) : silent \in 1 .. endpoints} :
        /\ Datagrams(w, n)
        /\ \/ /\ n.sent > 0
              /\ heard' = [heard EXCEPT ![w] = @ + 1]
              /\ UNCHANGED <<wpc, inflight, reqStart, count, hist, stats, lats>>
           \/ n.sent = 0 /\ Done(w, Failed)
    /\ UNCHANGED <<clocks, mains, owned, ordinal, due, begin, saved, slots>>

\* ... or the last one, with an answer held or none.
Timeout(w) ==
    /\ wpc[w] = "wait"
    /\ \/ /\ \E n \in Delivery(0) : Datagrams(w, n)
          /\ \E o \in {Granted, Denied} : Done(w, o)
       \/ Done(w, Failed) /\ UNCHANGED <<traffic, wire>>
    /\ UNCHANGED <<clocks, mains, owned, ordinal, due, begin, saved, slots>>

\* poll() fails: the worker gives up, the request stays in flight.
PollFails(w) ==
    /\ wpc[w] = "wait"
    /\ Finish(w, Failed, reqStart[w])
    /\ UNCHANGED <<clocks, mains, owned, inflight, ordinal, due, begin,
                   traffic, saved, slots, wire>>

-----------------------------------------------------------------------------
SettingUp == {"setup", "bind", "create", "named"}

\* Requests end by their last deadline.  Bounds: set-up ends by SetupMax if
\* the run is paced, and else with the first tick; nothing waits for more.
Tick ==
    /\ clock < ClockMax
    /\ mpc = "join"
    /\ \A w \in Worker :
        /\ wpc[w] = "wait" => clock - reqStart[w] < RequestTicks
        /\ wpc[w] \in SettingUp => clock < (IF Paced(cfg) THEN SetupMax ELSE 1)
    /\ clock' = clock + 1
    /\ UNCHANGED <<cfg, mains, wpc, owned, loops, records>>

Init ==
    /\ clock = 0
    /\ cfg = [clients |-> 0, requests |-> 0, hasDuration |-> FALSE,
              duration |-> 0, rps |-> 0]
    /\ mpc = "args" /\ code = 0 /\ endpoints = 0 /\ held = {} /\ hists = {}
    /\ next = 0 /\ errors = 0
    /\ stopProgress = FALSE /\ ppc = None
    /\ started = [w \in Worker |-> FALSE]
    /\ wpc = [w \in Worker |-> None]
    /\ workerError = [w \in Worker |-> FALSE]
    /\ fds = [w \in Worker |-> 0]
    /\ client = [w \in Worker |-> FALSE]
    /\ inflight = [w \in Worker |-> 0]
    /\ ordinal = [w \in Worker |-> 0]
    /\ due = [w \in Worker |-> NoSlot]
    /\ begin = [w \in Worker |-> 0]
    /\ reqStart = [w \in Worker |-> 0]
    /\ count = [w \in Worker |-> 0]
    /\ heard = [w \in Worker |-> 0]
    /\ traffic = [w \in Worker |-> NoTraffic]
    /\ saved = [w \in Worker |-> NoTraffic]
    /\ hist = [w \in Worker |-> [b \in Bucket |-> 0]]
    /\ stats = [f \in StatField |-> 0]
    /\ slots = {}
    /\ wire = [field \in Field |-> 0]
    /\ lats = [us \in LatencyUs |-> 0]

PrepareStep ==
    \/ \E ok \in BOOLEAN, n \in 0 .. MaxEndpoints : PrepareDns(ok, n)
    \/ \E got \in SUBSET Tables : AllocateTables(got)
    \/ NoTables \/ AllocateHistogram \/ HistogramFails \/ Prepared

Main ==
    \/ \E clients \in ClientsArg, requests \in RequestsArg,
          duration \in DurationArg, rps \in RpsArg :
            ParseArgs(clients, requests, duration, rps)
    \/ PrepareStep
    \/ \E ok \in BOOLEAN : Report(ok)
    \/ \E up \in SUBSET Worker, progress \in BOOLEAN : Spawn(up, progress)
    \/ Join \/ StopProgress \/ JoinProgress \/ Cleanup

Run(w) ==
    \/ Setup(w) \/ PaceNext(w) \/ LeaveLoop(w)
    \/ Start(w) \/ StartFails(w)

Wait(w) == Receive(w) \/ Replay(w) \/ Timeout(w) \/ PollFails(w)

Next ==
    \/ Tick \/ Main \/ ProgressEnds
    \/ \E w \in Worker : Run(w) \/ SleepFails(w) \/ Wait(w)

Spec == Init /\ [][Next]_vars

\* The threads and the clock run, and a request ends (RequestContract).  No
\* sleep and no poll() has to fail.
FairSpec ==
    /\ Spec
    /\ WF_vars(Tick) /\ WF_vars(Main) /\ WF_vars(ProgressEnds)
    /\ \A w \in Worker : WF_vars(Run(w)) /\ WF_vars(Timeout(w))

-----------------------------------------------------------------------------
(* Properties                                                              *)

Planned == cfg.rps * cfg.duration

(* Of a paced run every logical start has a slot of its own, of the        *)
(* planned ones, not before the deadline of the slot; so "Missed logical   *)
(* slots", planned - logical_started in unsigned arithmetic, never wraps,  *)
(* however late workers are set up or answers come.                        *)
StartsFitPlan ==
    Paced(cfg) =>
        /\ stats.starts = Cardinality(slots)
        /\ \A s \in slots :
               s < Planned /\ clock >= PacedStart + Offset(cfg.rps, s)

\* The slots of a worker that it has neither used nor skipped and whose
\* deadline is not over.
Usable(w) ==
    {s \in 0 .. Planned - 1 :
        /\ s % cfg.clients = w
        /\ s >= SlotOf(w, ordinal[w], cfg.clients)
        /\ PacedStart + Offset(cfg.rps, s) >= clock}

(* The pacer settles on the first slot of the worker whose deadline has    *)
(* not passed and ends when there is none: a slow worker skips obsolete    *)
(* slots instead of sending a catch-up burst (perf_pacer.h:8), and skips   *)
(* no slot it could still serve.                                           *)
PacesByDeadline ==
    [][\A w \in Worker :
        wpc[w] = "loop" /\ Paced(cfg) /\ wpc'[w] # "loop" =>
            IF Usable(w) # {} /\ clock < PacedEnd
              THEN due'[w] = Min(Usable(w))
              ELSE wpc'[w] = "ended"]_vars

\* Starts and completions, answers and errors, grants and denials.
RequestsAddUp ==
    /\ stats.sent = stats.starts
    /\ stats.sent = stats.received + stats.error
    /\ stats.received = stats.granted + stats.denied

(* What main reports is true once the workers are joined: every start was  *)
(* completed, completions are answers and errors, answers are grants and   *)
(* denials, and the traffic totals are what went over the wire unless the  *)
(* report carries the warning that they are not (CounterMax reached in a   *)
(* worker or while merging).                                               *)
ReportAddsUp ==
    mpc = "report" =>
        /\ RequestsAddUp
        /\ MergeIncomplete \/ perf_traffic_merge = wire

(* The printed percentile bounds the latencies from above: at least that   *)
(* share of the answered requests took less, or the bound is the end of    *)
(* the last bin, which main prints as ">=".                                *)
PercentileIsUpperBound ==
    mpc = "report" =>
        \A percentile \in {50, 99} :
            LET bound == perf_latency_percentile_upper_us(MergedHist,
                                               stats.received, percentile)
                below == SumFirst([us \in LatencyUs |->
                                       IF us < bound THEN lats[us] ELSE 0],
                                  RequestTicks * TickUs + 1)
            IN  bound < Bins.top => below * 100 >= stats.received * percentile

(* No socket is open, no client exists and main has freed its tables.      *)
EverythingReleased ==
    /\ held = {} /\ hists = {}
    /\ \A w \in Worker : fds[w] = 0 /\ ~client[w] /\ inflight[w] = 0

(* The benchmark ends with everything given back.  Whichever step of main's *)
(* preparation or of which worker's set-up failed, what the ones before it *)
(* acquired (cache, tables, histograms, sockets, clients) is released, and *)
(* so is what was left in flight; no worker sleeps or waits forever, none  *)
(* has to be woken by a failing sleep, and main never joins a progress     *)
(* thread that has not been told to stop.                                  *)
BenchmarkEnds == <>(mpc = "exit" /\ EverythingReleased)

-----------------------------------------------------------------------------
(* The inductive invariant of the schedule and the counters                *)

Waiting == {w \in Worker : wpc[w] = "wait"}

BeforeWorkers == {"args", "dns", "tables", "noTables", "hists", "spawn"}
MainStep == BeforeWorkers \cup {"join", "progress", "report", "cleanup", "exit"}
WorkerStep == SettingUp \cup {None, "loop", "sleep", "wait", "ended"}

TypeOK ==
    /\ clock \in Nat
    /\ cfg \in [clients : Nat, requests : Nat, hasDuration : BOOLEAN,
                duration : Nat, rps : Nat]
    /\ mpc \in MainStep
    /\ next \in Nat
    /\ started \in [Worker -> BOOLEAN]
    /\ wpc \in [Worker -> WorkerStep]
    /\ ordinal \in [Worker -> Nat]
    /\ due \in [Worker -> Nat \cup {NoSlot}]
    /\ stats \in [StatField -> Nat]
    /\ slots \in SUBSET Nat /\ IsFiniteSet(slots)

\* A paced run has a rate, a duration and a worker; no thread runs before it
\* is spawned, none beyond the configured clients, and main has joined what
\* it has counted.
PhaseInv ==
    /\ Paced(cfg) => cfg.duration > 0 /\ cfg.clients > 0
    /\ mpc \in BeforeWorkers =>
           /\ \A w \in Worker : wpc[w] = None /\ due[w] = NoSlot
           /\ slots = {} /\ stats.starts = 0
    /\ mpc = "spawn" => next = 0
    /\ \A w \in Worker : wpc[w] # None => w < cfg.clients /\ started[w]
    /\ \A w \in Worker : w < next => wpc[w] \in {None, "ended"}
    /\ mpc \in {"progress", "report"} => next = cfg.clients

\* The slot a worker sleeps for is the last it took from its own residue
\* class, planned and not used.
SleepInv ==
    \A w \in Worker :
        /\ wpc[w] # "sleep" => due[w] = NoSlot
        /\ wpc[w] = "sleep" =>
               /\ Paced(cfg)
               /\ ordinal[w] > 0
               /\ due[w] = SlotOf(w, ordinal[w] - 1, cfg.clients)
               /\ due[w] < Planned

\* The ordinals of a worker whose slots it has used or skipped.
Past(w) == IF wpc[w] = "sleep" THEN ordinal[w] - 1 ELSE ordinal[w]

\* The slots that are used were taken, by the worker that owns them.
SlotInv ==
    /\ ~Paced(cfg) => slots = {}
    /\ \A s \in slots :
        /\ s < Planned /\ clock >= PacedStart + Offset(cfg.rps, s)
        /\ \E w \in Worker : \E o \in 0 .. Past(w) - 1 :
               w < cfg.clients /\ s = SlotOf(w, o, cfg.clients)

\* A start is completed, or its worker still waits.
CountInv ==
    /\ Paced(cfg) => stats.starts = Cardinality(slots)
    /\ stats.starts = stats.sent + Cardinality(Waiting)
    /\ stats.sent = stats.received + stats.error
    /\ stats.received = stats.granted + stats.denied

IInv == TypeOK /\ PhaseInv /\ SleepInv /\ SlotInv /\ CountInv

-----------------------------------------------------------------------------
(* The inductive invariant of the report                                   *)

Traffic ==
    [sent : Nat, received : Nat, failures : Nat, incomplete : BOOLEAN]

RecordTypes ==
    /\ endpoints \in Nat
    /\ reqStart \in [Worker -> Nat]
    /\ traffic \in [Worker -> Traffic] /\ saved \in [Worker -> Traffic]
    /\ hist \in [Worker -> [Bucket -> Nat]]
    /\ wire \in [Field -> Nat]
    /\ lats \in [LatencyUs -> Nat]

\* A worker that has ended has saved its counters; one that was not started
\* or is not set up has none.
SavedInv ==
    \A w \in Worker :
        /\ started[w] => wpc[w] # None
        /\ wpc[w] \in SettingUp \cup {None} =>
               traffic[w] = NoTraffic /\ saved[w] = NoTraffic
        /\ wpc[w] = "ended" => saved[w] = traffic[w]

\* All counters together are what went over the wire, unless one has stopped.
TrafficInv ==
    \/ \E w \in Worker : traffic[w].incomplete
    \/ \A field \in Field :
           wire[field] =
               SumFirst([w \in Worker |-> traffic[w][field]], MaxClients)

\* How many answers are in the buckets up to b, by their latencies.
AnswersUpTo(b) ==
    SumFirst([us \in LatencyUs |->
                  IF perf_latency_bucket(us) <= b THEN lats[us] ELSE 0],
             RequestTicks * TickUs + 1)

\* No wait is longer than RequestTicks.
WaitInv ==
    \A w \in Worker :
        wpc[w] = "wait" =>
            reqStart[w] <= clock /\ clock <= reqStart[w] + RequestTicks

\* The histograms together hold every answer in the bucket of its latency.
HistInv ==
    /\ stats.received = Seen(MergedHist, Overflow)
    /\ \A b \in Bucket : Seen(MergedHist, b) = AnswersUpTo(b)

ReportInv == RecordTypes /\ SavedInv /\ TrafficInv /\ WaitInv /\ HistInv

-----------------------------------------------------------------------------
(* The inductive invariant of what is held                                 *)

\* The steps from the first histogram to the last report.
WithWorkers == {"spawn", "join", "progress", "report", "cleanup"}

\* main holds what its step says, no more.
MainHolds ==
    /\ held \subseteq Tables \cup {"cache", "summary"}
    /\ "summary" \in held => mpc = "cleanup"
    /\ mpc \in {"args", "dns", "exit"} => held = {}
    /\ mpc \in {"args", "dns", "tables"} => next = 0
    /\ hists = CASE mpc = "hists" -> 0 .. next - 1
                [] mpc \in WithWorkers -> 0 .. cfg.clients - 1
                [] OTHER -> {}

\* A worker holds a socket from socket() on, a client from r_client_create on
\* and requests in its loop; main has joined the workers before it reports.
WorkersHold ==
    /\ fds \in [Worker -> Nat] /\ client \in [Worker -> BOOLEAN]
    /\ inflight \in [Worker -> Int]
    /\ \A w \in Worker :
        /\ fds[w] = IF wpc[w] \in {None, "setup", "ended"} THEN 0 ELSE 1
        /\ client[w] => wpc[w] \in {"named", "loop", "sleep", "wait"}
        /\ wpc[w] \notin {"loop", "sleep", "wait"} => inflight[w] = 0
        /\ mpc \in {"progress", "report", "cleanup", "exit"} =>
               wpc[w] \in {None, "ended"}

ReleaseInv == MainHolds /\ WorkersHold
=============================================================================
