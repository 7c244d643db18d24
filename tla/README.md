# Verification of the Ratelimitly C client

TLA+ modules, TLC configurations and TLAPS proofs for `rl-c-client`: the C11
library in `src/src` with its public headers in `src/include`, the test
responder in `src/tools`, the load generator in `src/bin` and the threaded
servers among `src/examples`. The client asks a set of rate-limit servers over UDP
whether work may begin, replays unanswered requests on a fixed schedule, prefers
the answer of the oldest server, and gives one verdict per request.

`PROJECT.json` is the index: the lines each definition models, the runs, the
mutants that show each property can fail, the hazards, the theorems.

## 1. Inventory

### The parts and their state

| Part | Source | State | Operations |
| --- | --- | --- | --- |
| Request lifecycle | `r_client.c` 60-130, 401-560, 945-1512, 1661-2227 | list of requests in flight; per request the targets, the round, four deadlines, the best answer, the responders seen; the pending rebind; the send failure counter | submit, datagram, timer event, cancel, latency report, destroy; the completion callback and the steering hook go the other way |
| Server discovery | `r_client.c` 540-945 | server list, time and TTL of the last refresh, the refresh object and its lookups | periodic and forced refresh, SRV and address callbacks, cancel, detach |
| Schedule arithmetic | `r_client.c` 210-330, `r_policy.c` | none | units of a round, announced deduplication TTL, deadlines |
| Wire protocol | `r_protocol.c`, `r_client.c` 990-1103 and 1225-1393 | none | build and parse headers, TLVs, blocks; authenticate |
| Credentials | `r_crypto.c` | none | decode a key: bech32, version, id, secret, quota word; content ids, AES-GCM |
| Start-up | `r_client_runtime.c` 408-841, `r_client.c` 537-943 and 1514-1660, `perf_client.c` 534-819 | what is allocated and open, options, the key, records and endpoints of the first discovery | options from the environment, init, create, inspect a key; the resolvers over libresolv, DnsQuery, a fixed host and the load generator's cache |
| Public runtime | `r_client_runtime.c` | up to two UDP sockets, the core client | readable, timeout, rebind, destroy |
| Source-port steering | `r_client_steering.c` | none | next port, scan of the port range |
| Admission workflow | `r_client_workflow.c`, `r_client_runtime.c` 960-1018 | a caller-owned object used for one admission after another | start, complete, run protected work, report, cancel |
| Test responder | `r_test_responder*.c` | scenario, quota table, last guard | process one datagram |
| Load generator | `bin/` | per worker a socket, a client, a pacer, counters and a histogram; main's plan and totals | parse arguments, prepare, start threads, run by count, by duration or paced, join, report, clean up |
| Threaded bridges | `examples/civetweb`, `lwan`, `onion` | a queue under a mutex, a wakeup pipe, the jobs in flight, the ownership of each job | hand in, wake, start, complete, expire, poll, fail all, stop |
| Other examples | `examples/` | a watch set per event loop | wrap the runtime's calls in one event loop each |

### How they interact

The library runs on the host's thread. The host owns the event loop: it submits,
polls the runtime's sockets and calls `on_readable`, calls `on_timeout` when a
deadline has passed, and may submit or cancel inside a completion callback
(docs/api.md:372). The core calls out through `r_io_ops_t`: `udp_send`, `now_ms`,
the resolver (which may call back before it returns, later, from within cancel,
or after destroy), and `on_steering_feedback`, on which the runtime replaces both
sockets. Admission sits on top of submit, cancel and report, and calls
application code that may re-enter it.

Threads exist in the programs around the library. The load generator gives each
worker a client of its own and shares counters, the end of the run and a
progress thread. The three bridges let many HTTP threads use one client: they
put jobs into a queue and wake the thread that owns the client; who frees a job
differs in each (the worker's stack, two references, the bridge).

### What is hard

* Datagrams are lost, repeated and reordered, several servers answer one request
  in any order, timers come late, the wall clock steps back.
* Threads meet at a queue, a pipe and a condition, while requests expire, peers
  disconnect, poll fails, sockets are replaced and the program stops.
* Callbacks re-enter: submit, cancel and start inside callbacks; resolver
  callbacks inside resolver calls; protected work that starts the next admission.
* Objects live across calls that may free them: lookups, requests, sockets whose
  numbers other code may be given.
* Several steps of which one fails: sends to several endpoints, two sockets to
  replace, several lookups, a quota table that fills up within one request.
* Arithmetic in 32 and 64 bits: schedules, deadlines, saturating counters,
  packet sizes at the limit of 1200 bytes, packed quota fields, numbers read from
  the environment and from names in DNS, slots of a paced schedule.

### What makes each part correct

* Requests: one verdict per accepted request and none after cancel or destroy;
  the verdict is the oldest accepted answer; no failure once an answer was
  accepted; the schedule is absolute and ends with the deduplication window; a
  rebind that was asked for happens, once nothing is in flight (a host whose
  requests always overlap never gets there).
* Discovery: no lookup or refresh is used after it is freed, none leaks, servers
  are installed only by a refresh that found some and after its last answer, an
  outage is not prolonged by pacing.
* Schedule: the announced TTL is the exact length of the schedule; no sum wraps.
* Wire: both ends agree on the format up to the size limit; damaged answers leave
  their request in flight.
* Runtime: only descriptors it owns are read, sockets move together or not at
  all, nothing leaks.
* Admission: work once and report at most once per admission, for its own use
  unless the work itself turns the event loop.
* Start-up: the options are the ones written, the client is the one its key was
  issued for, its servers are the ones published, a refusal leaves nothing open.
* Bridges: no job is reachable after it was freed, each one is answered, and not
  against what was done for it; nothing is left after the stop.
* Load generator: paced starts keep to the plan without bursts, the report adds
  up, percentiles are bounds, the run ends with everything given back.

## 2. Modules

| Module | What it models | Checked by | Proved in |
| --- | --- | --- | --- |
| `ServerAge` | which server is older (`r_server_is_older`) | `rate_client*` | `RateClientProofs` |
| `RequestContract` | abstract specification: what a host may rely on for each handle | `rate_client` (as `ImplementsContract`) | `RateClientProofs` |
| `RateClient` | request lifecycle | `rate_client`, `rate_client_dual` | `RateClientProofs` |
| `DnsRefresh` | server discovery | `dns_refresh` | `DnsRefreshProofs` |
| `HaSchedule` | schedule arithmetic | `startup` | `HaScheduleProofs` |
| `WireExchange` | wire format, client and test responder | `wire_exchange`, `guard_limit`, `scenarios` | `WireExchangeProofs` |
| `Steering`, `SteeringWalk` | choice of source ports, and the ports one family goes through | `runtime` | `RuntimeProofs` |
| `Runtime` (uses `Steering`) | sockets, read loop, rebind | `runtime` | `RuntimeProofs` |
| `Admission` | admission object and protected work | `startup` | `AdmissionProofs` |
| `EnvOptions` | options from the environment | `startup` | `AdmissionProofs` |
| `ApiKey` | the decoder of a key and its quota word | `startup` | `AdmissionProofs` |
| `SrvAnswers` | what resolvers and client make of DNS answers | `startup` | `AdmissionProofs` |
| `Startup` (extends the three) | from the environment to a client with servers | `startup`, `server_ids` | `AdmissionProofs` |
| `Bridge` | the bridge thread of three servers and its jobs | `bridge`, `bridge_rebind` | `BridgeProofs` |
| `PerfPacer` | pacer and histogram of the load generator | `perf_client` | `PerfClientProofs` |
| `PerfClient` (extends it) | the load generator | `perf_client` | `PerfClientProofs` |

`MCRateClient`, `MCDnsRefresh`, `MCRuntime`, `MCWireExchange`, `MCStartup` and
`MCPerfClient` give the constants their small values. Two of them put modules
without common state side by side, and a behaviour is one of one of them:
`MCRuntime` has `Runtime` and the walk over ports of `SteeringWalk`, `MCStartup`
has `Startup` and, for what a started program works with, `Admission` and
`HaSchedule`.

The modules meet at their assumptions. `HaSchedule` discharges, on small words,
what `RateClient` assumes of `Gap` and `Remaining`. `Runtime` sees the core as
the number of requests in flight and the pending rebind, which `RateClient`
keeps; `Admission` sees it as the contract that `RateClient` is shown to
implement; `RateClient` sees discovery as a step that replaces the server list,
which is `Install` of `DnsRefresh`. `WireExchange` decides what a datagram means,
`RateClient` what an accepted one does. `Bridge` and `PerfClient` are hosts of the
contract: a request they start ends once, by an answer, a timeout or a cancel,
and `Bridge` has the runtime replace both sockets when nothing is in flight, as
`Runtime` is proved to do. `Startup` is the discovery of `DnsRefresh` with
resolvers that answer at once, looked at from the side of its data.

### RateClient

`state[r]` is where a handle is: unused, in flight, its callback on the stack,
done, canceled, destroyed, rejected. `req`, `timer` and `heard` are the fields
of `r_client_req_t`; `reached`, `sends` and `outcome` are history. The actions
are the API calls and events: `Submit`, `SubmitRejected`, `OnDatagramComplete`,
`OnDatagramHold`, the five `Timeout...` branches of
`r_request_policy_on_timeout`, `CallbackReturn`, `CancelRequest`,
`ReportLatency`, `Destroy`, `InstallServers`, `Tick`, `StepBack`. A send loop is
one step whose outcome is the set of endpoints that took the packet.

Left out, with the reason:
* an empty request, which calls back at once and keeps no state;
* `request_profile_cb`, which only observes;
* exhausted memory while the list of responders grows;
* the clock is read once per call; no step passes between two reads in one call;
* a refresh that a submit starts and the resolver answers at once is an
  `InstallServers` before the `Submit`; `DnsRefresh` has the call itself.

Two facts about the code came out of the model. The branches of
`r_request_policy_on_timeout` that re-arm a timer (2155, 2160) are reached only
by a timer event whose time lies before the deadlines, which `r_client_on_timeout`
has already excluded; and since a request is replayed only while nothing was
accepted, a replay always goes to all targets. `NextRound` and `SendOutcome` keep
the code's form all the same.

### DnsRefresh

One refresh at a time, its SRV lookup and one lookup per conforming record; `pc`
is the frame on top of the call stack, so a resolver that answers inside
`resolve_srv` or `resolve_addrs` is a step between call and return. `owed` is
what the resolver has still to call back. `dns_refresh_inflight` and
`client->dns_refresh` are one flag, since the code sets and clears them together.
Endpoints are the records they came from.

### Runtime, Steering, SteeringWalk

`table` is the process's descriptor table, in which other code opens and closes
entries at any time. `OnReadable` and `ReadIgnored`, `ReadCompletes`, `ReadEnds`
are the read loop of `r_runtime_client_on_readable`; `OpenReplacement`,
`RebindFails`, `SwapSockets` are `runtime_on_steering_feedback`. `Rebuild` is the
host's discipline: `"rebind"` polls again after a callback or a cancel, as
docs/api.md:566 asks; `"batch"` works through the handles of one poll, and then
`OnlyOwnedRead` fails, which is the finding of section 3.

### Admission

One object, used `MaxStarts` times. `stack` holds the callbacks and the protected
work the application is inside of. The application obeys the header: it does not
prepare the object again before the callback or a cancel. Work may turn the event
loop, so requests complete above it; a callback may not (docs/api.md), and
`turned` marks the frames under which something completed. Latencies are abstract;
an unreadable clock is work that ends without a report.

### WireExchange

A datagram is the record of its fields. Byte counts are exact, byte values are
abstract: a label is its length, a tag is what it vouches for. Declared sizes and
the bytes that travelled are separate, so a truncated packet is one that claims
more than it has. The network keeps all datagrams, so it loses, repeats and
reorders. Each of the twelve scenarios of docs/test-responder.md is a value of
`setup.scenario`. The responder's log, including the comparison of a report with
the last guard, is left out. One server is known, so its first answer decides.

### HaSchedule

C's unsigned arithmetic with words of 3 bits for `uint32_t` and 6 for `uint64_t`:
every product of two 32-bit values fits the 64-bit word, as in C.

### EnvOptions, ApiKey, SrvAnswers, Startup

A text is a sequence of characters, a machine word the set of its one bits, so
that 64-bit identifiers and packed quota fields keep their width; the numbers of
the environment and of DNS names wrap at a small power of two. A key is its
checks (case, prefix, length, alphabet, checksum, padding, version) and its
bytes; that 32 letters encode 5 bits each, and the checksum polynomial, are a yes
or no. `Startup` goes from allocation to allocation, each of which may fail, and
from test to test, each with the frees of its own return (`Acquire`, `Test`,
`Free`); `heap` is what is allocated or open. `r_client_destroy` and
`r_runtime_client_destroy` are followed free by free. There are
four programs: the runtime, the load generator, an embedder that states what it
believes of its key, and a caller that only inspects one. What was issued is
written down independently (`Issue`, `Meant`, `Grantable`), and the decoder
has to give it back.

### Bridge

One module for the three programs, which share the bridge thread line by line:
`server` chooses, and `Complete`, `Submit`, `Return` and `Disconnect` follow each one's way of
owning a job. A critical section is a step, but `complete_job` is two: a job is
`completing` from the moment its result can be seen until civetweb has unlocked
the mutex on the worker's stack, or lwan has dropped the thread's reference; `pipe` has room for a few bytes, so
it fills up. `bpc` is where the bridge thread is: waiting in poll, draining,
starting what it took, expiring, reading, failing everything. A job's memory is
live or freed, and `JobsAreAlive` is about who can still reach it. The
program may be told to stop at any step.

### PerfPacer, PerfClient

A worker's step is what it does between two waits; its set-up, and main's, go
from acquisition to acquisition, each of which may fail with the frees of its own
return. A round goes to each of up to `MaxEndpoints` endpoints and may fail for
some. Arguments are their form and
number; bytes and datagrams are one counter, since they are added together, and
the counters saturate at `CounterMax`. A second has three ticks and two slots, so
that deadlines are rounded. `wire` and `lats` remember what really happened, for
`ReportAddsUp` and `PercentileIsUpperBound` to compare the report with. The cache
of DNS answers is the resolver `"perf"` of `Startup`.

## 3. Runs

Passing runs. State counts are distinct states.

| Run | Instance | What it shows |
| --- | --- | --- |
| `rate_client` (299,448) | two requests, two servers, one replay, a final window, every interval 1 ms, the clock to 3 with a step back, fairness | timetable, early answers, send window, the contract of `RequestContract`, every request ends, a rebind asked for happens |
| `rate_client_dual` (224,948) | one request, three servers (one with two addresses), a discovery that drops the oldest, timers ahead of the clock, no final window | the verdict is the oldest accepted answer, failure means there was none |
| `dns_refresh` (13,032) | two conforming records and one that is not, clock to 3 modulo 8, fairness | memory safety, no leak, pacing, installation, a refresh ends once its callbacks are made |
| `wire_exchange` (349,931) | two calls out of 23 contents at and around each limit, both credentials at either end, all scenarios, 3 packets | formats agree and calls are refused exactly when oversized; documented codes; the outcome of each scenario; listings within the quota |
| `runtime` (7,809) | 5 descriptors (symmetric), ports 2 to 4, 2 requests; the walk over these ports with all answers of `bind` | only owned descriptors are read, none is lost, sockets move together; the scan finds the nearest port, and does not come back to one early |
| `startup` (2,056,186) | numbers around each limit in up to three variables, issued keys with every quota field at its limits, keys with one flaw, 9 kinds of records in answers of up to 3 with room for 2, every allocation failing; 3 uses of an admission with answers of up to 2 guards and 2 resources; all schedules of 3-bit words, up to 3 replays, several units, quotas and start times | options exact, client as issued, servers as published, refusals leave nothing; work and reports once, for their own use, live handles; TTL equals the schedule and rounds end with it |
| `bridge` (158,778) | each of the three servers, two jobs, a pipe with room for one byte, two sockets, a stop at any time, fairness | jobs stay alive while reachable, work is answered as allowed, nothing is left, every job is answered |
| `perf_client` (776,418) | one worker sending to up to two endpoints or two workers with one each, arguments of each form, every acquisition failing, 2 slots in a second of 3 ticks, counters that saturate at 2, fairness | starts fit the plan, the report adds up, percentiles bound, pacing by deadline, the run ends with everything released |

The bounds are the smallest at which the cases happen. Choosing between held
answers needs a silent oldest server and two others, hence three servers; a
rebind races a callback with two requests; one replay has a first, a middle and a
last round boundary; descriptor reuse needs two old, two new and a foreign
descriptor; the quota table overflows with three buckets and room for two, and
is charged twice by one request; the packet limit is met at its true 1200 bytes
(31 guards with AES are exactly that); a pipe of one byte is full after one
wakeup, and two jobs are the fewest of which one can be in flight while another
is queued; two workers share slots of a paced plan that rounds; answers of three
records exceed the room for two. `rate_client` sets `CompletionDelivery`; without
it the same client takes fewer steps, those with no repeated send, which are all
among the ones of the run. `CHECK_DEADLOCK FALSE` stands where the
system may stop: all handles used, the client destroyed, the bound on uses
reached, the responder's `--max-packets` observed, the server or the benchmark
at its end.

Every property of these runs has a mutant in `PROJECT.json`, a plausible slip in
the definition it names, under which TLC finds the property violated.

### Where code and documents part

| Run | What the text says | What the code does |
| --- | --- | --- |
| `bridge_rebind` | docs/api.md:566: "Hosts must rebuild their poll/watch set after a request callback" | `poll_client` of civetweb, `bridge_loop` of lwan and onion and the epoll example's batch hand in the second handle of a poll after the completion read from the first has replaced both; the read fails with `RCLIENT_ERR_IO`, the bridge thread leaves its loop and later requests are answered 503, `examples/civetweb/main.c:278` |
| `guard_limit` | docs/api.md:280: "at most 27 guards with no resources", and "Oversized requests fail at submit" | size alone decides: 30 guards are accepted with a cookie, 31 with AES-GCM, `r_client.c:1047` |
| `scenarios` | docs/test-responder.md:95: "Allow the first `--allow-count=<n>` rate requests per bucket"; 104-107: `allow` succeeds, `deny` and `guard-deny` do not | the quota counts listings, so a replay, or a bucket listed twice, is charged again (the counterexample TLC finds first); a guard with threshold 0 fails in `allow`; `deny` without a resource and `guard-deny` without a guard succeed, `r_test_responder_protocol.c:273-378` |
| `server_ids` | IO_ABSTRACTION.md:88: the first label "must encode that server's 64-bit ID in decimal", others are "silently skipped" | a label of digits past 64 bits makes a server with the number modulo 2^64, `r_client.c:558` |

`OutcomeOfScenario`, `ListingsWithinQuota` and `ServersArePublished` say what the
code does in these places, and hold.

Met on the way, without a run of their own:
* `r_client_io.h:53` has the steering hook "called only after the completion
  callback returns"; a callback that cancels the last other request runs it at
  once, under that callback (`r_client.c:2224`).
* docs/api.md:295 and IO_ABSTRACTION.md:61 say that a failing first `udp_send`
  aborts the submit; the loop goes on, and the submit succeeds if one endpoint
  took the packet (`r_client.c:1170`).
* Of the variables of the environment an empty `SERVER_HOST` alone is not
  "unset": options with it are refused at init.
* The port is read with `strtoul`, so a minus sign and a number close to 2^64
  give a valid port; the other numbers take digits only. `OptionsExact` leaves
  such ports out.
* docs/api.md:555 bounds discovery at 32 valid records. Over libresolv the first
  32 answers are taken and then filtered; over DnsQuery valid ones are counted.
  `ServersArePublished` asks for the weaker of the two.
* Server numbers of a DNS name are compared after parsing, so names that differ
  in leading zeros are one server.
* The load generator multiplies a TTL in 32 bits (`perf_client.c:648`); a TTL
  above 49 days would wrap to a short one. `Startup` has the wrap.
* When `poll` fails, a worker of the load generator counts its request as an
  error and goes on while the client still has it; the context of the next one
  reuses the place on the stack (`perf_client.c:885`). `PerfClient` has both
  completions go to the same place, and the report still adds up.
* In onion the server is freed before `bridge_stop` answers the jobs that
  yielded; `Bridge` follows the job's memory, not the connection's.
* Canceling the last request outside a callback also replaces the sockets, so a
  host has to poll again after a cancel too; the documents name callbacks only.
  `Runtime` assumes that it does.
* `r_dns_refresh_cancel_lookups` keeps a next pointer across `resolver.cancel`
  (`r_client.c:703`). A resolver whose cancel ends other lookups too would leave
  it dangling; IO_ABSTRACTION.md does not say that it must not. `LocalCancel`
  in `DnsRefresh` states the requirement, and with `LocalCancel = FALSE` TLC
  finds `MemorySafe` violated.
* `r_runtime_admission_run_and_report` reports by the object, not by the use
  (`r_client_runtime.c:1013`). Work that starts the next use of its own object and
  turns the event loop until that use is admitted has its measurement reported
  for that use. `ReportsOwnWork` excludes work that turned the loop.
* A resolver whose cancel drops a lookup without a callback, which
  `r_client_io.h:110` allows, leaves a detached refresh allocated
  (`r_client.c:711-730`). `RefreshEnds` excludes such lookups, and in
  `NothingLeaks` they stay owed.

## 4. Fairness

`RateClient`: time passes, callbacks return, and the host calls `on_timeout` for
each request whose deadline has passed (docs/api.md:600 makes it the host's
duty). Datagrams, discovery and the application owe nothing. `RebindHappens`
holds of behaviours in which the application does not submit for ever: the bound
on handles makes every behaviour of the run such a one, and the property names
the condition. `DnsRefresh`: calls return, and a resolver calls back each lookup
it has taken (IO_ABSTRACTION.md) and not been asked to cancel: cancel is best
effort and need not call back;
strong fairness, since a lookup may be between calls again and again. `Bridge`:
the bridge thread, main and workers that were woken run on (weak); `poll` is not
interrupted forever and a deadline passes although other jobs keep the loop
busy (strong, since the step is disabled whenever the thread is elsewhere); a
drain of a socket ends, because datagrams do not arrive faster than they are
read forever. Nobody has to send requests, answers or a signal. `PerfClient`: the
threads and the clock run, and a request times out if nothing else ends it; no
sleep, poll or set-up has to fail, so a sleeper is woken by its slot alone. The
safety properties use none of this.

## 5. Proofs

TLAPS proves the following for every value of the constants that satisfies the
named assumptions, from `Init => IInv`, `IInv /\ [Next]_vars => IInv'` and
`IInv => property`, with one step per action.

* `RateClientProofs`: any number of requests, endpoints and servers, any policy,
  clock range and skew. `IInv` adds to the properties what their steps need: the
  best answer is the oldest of those seen (`AnswerInv`); an outcome agrees with
  it (`LifeInv`); the deadlines of a request in flight add up to the
  deduplication deadline in each phase, and a timer is armed at the round's end
  or, with an answer held, at the preference deadline (`ScheduleInv`); the
  callback on the stack belongs to the request being completed (`CallbackInv`).
  `OldestAnswerWins` alone is not inductive: it says nothing of a request that
  still holds its answer. Proved: `TypeOK`, `OldestAnswerWins`,
  `FailureMeansSilence`, `ScheduleIsAbsolute`, `HeldAnswerIsDue`,
  `BoundedTransmissions`, `RebindNotForgotten`, the action properties
  `EarlyAnswerIsOldest` and `SendsStayInWindow`, and that `RateClient` implements
  `RequestContract`. The runs check them as `VerdictIsRight` and
  `TimetableHolds`, which are proved as well. Assumptions: `RequestAssumption`, `EndpointAssumption`,
  `PolicyAssumption`, `BoundAssumption`.
* `DnsRefreshProofs`: any finite set of records, under `LocalCancel`. `IInv`
  relates the pending and scheduling counters to the lookups that exist, the
  callbacks owed, the frame on the stack and the place of the cancel loop.
  Proved: `MemorySafe`, `NothingLeaks`, and `PacingIsSafe`, of which the
  outage comes from `IInv` and the clock that was set back from the wrapped
  difference: below zero by at most `ClockMax`, it is at least `Modulus -
  ClockMax`, hence above every interval. `InstallsSoundly` takes two more
  arguments: no step takes known servers away (each end of a refresh replaces
  them or leaves them, with no invariant and without `LocalCancel`), and
  `TodoInv`, inductive by itself, with `MemorySafe'` of the state after the step:
  a refresh that is gone is owed nothing and has run its loops to the end.
* `RuntimeProofs`: any set of descriptors, any port range, any number of
  requests, for a host with `Rebuild = "rebind"`. `IInv` relates the socket
  array, the replacements, the descriptor table, the frame and the handles the
  host still holds. Proved: `OnlyOwnedRead`, `NoDescriptorLeak`, `MovesTogether`.
  The scan of `Steering` finds the nearest port that `bind` grants
  (`SelectsNearest`): the least offset that is granted exists by well-foundedness,
  and a port lies at exactly one offset. `NoEarlyReuse` follows because the scan
  starts behind the port in use and so returns to it last.
* `AdmissionProofs`: any number of uses. `IInv` relates the flags of the object
  to the history of its present use, and the frames under which nothing has
  completed to that use. Proved: `WorkOncePerAdmission`,
  `OneReportPerAdmission`, `HandleIsLive`, `ReportsOwnWork`. Of `Startup`, for
  any environments, keys and answers, `RefusalReleasesAll`: `HeapInv` says for
  every place of the program, between any two allocations, tests and frees,
  which buffers, sockets and objects exist. And for
  texts of any length and words of any width, `OptionsExact`: turn by turn, the
  loops of `runtime_parse_u64` and `strtoul` hold the number written so far or
  have given up, because the code's comparison of a quotient and a remainder
  says whether one more digit passes the limit (`DigitFits`).
  `ClientMatchesKey`, for any identifiers and quotas of their widths: a field put
  below a word is its lowest slice, and every other slice lies as much higher
  (`FieldsSlice`), so the six fields come back (`PackedFields`); bytes in their
  order give back the word (`LittleEndian`); 78 characters are the only number
  that makes 45 bytes without a remainder to spare (`AcceptedWasIssued`).
  `KeyInv` says how many tests the key has passed at each place of the decoder.
  `ServersArePublished`, for answers of any length: a loop that keeps some
  entries of a list keeps exactly those (`PickedHolds`), so each resolver returns
  whole records and, of the first `MaxSrv`, all (`RuntimeAnswers`,
  `CacheAnswers`); endpoints are dropped only without memory (`AddHolds`); the
  number of a server is what its name says, modulo the word (`ServerIdExact`). Of the
  end alone nothing is inductive: `AnswerInv` says of each published record that
  it waits to be looked up, or that all of its addresses are held and its TTL is
  in the minimum. A TTL that the load generator wraps to zero has no part in the
  minimum, but then every 32-bit interval is shorter than it (`Timely`).
* `BridgeProofs`: any set of jobs, any room in the pipe, all three servers.
  `JobsAreAlive` is not inductive: that a freed job is reachable
  nowhere needs to be known for each place of the bridge thread. `IInv` says
  where a job is (with its worker, queued, taken, in flight, answered), who holds
  a reference to it in the server at hand, what stops with the thread, and
  (`CompleteInv`) that a job inside `complete_job` is answered, on no list, and
  its worker cannot have returned over it.
  Proved: `JobsAreAlive`, `WorkIsAnsweredAllowed`, `NothingLeft`.
* `WireExchangeProofs`: every set of requests and reports that a host can
  pass (`IsContent`), any number of calls, packets and buckets, all
  scenarios. `BuildsIffFits` shows of each builder that its staged checks come to
  one comparison with 1200; then `SentInv` (what is on the wire was built from a
  call), `AnswerInv` (an answer is that of a call, spoilt as the scenario says),
  `OutcomeInv` and `QuotaInv` are inductive together. A responder charges the
  blocks of a request one by one: that exactly the first listings of a bucket are
  allowed (`FirstAllowed`) is proved from a least counterexample, and that the
  table never holds more than its capacity (`KnownFits`) from the cardinality of
  its domain. Proved: `FormatsAgree`, `IngressAsDocumented`,
  `OutcomeOfScenario`, `ListingsWithinQuota`.
* `HaScheduleProofs`: words of any width in which a product of two short ones
  fits, every policy, quota and start. The code's arithmetic is compared with
  unbounded numbers: `Power` and `SumUnits` are shown to exist and to step, each
  comparison against a quotient in the code decides whether the unbounded product
  fits (`QuotientBounds`), so each word equals its number or the policy is
  refused. `WalkEndsAtTtl` speaks of the last window only; `WindowsInv` says where
  each one ends and is inductive with `ScheduleTypeOK` and `TtlIsWholeSchedule`.
  Proved: `TtlIsWholeSchedule`, `WalkEndsAtTtl`.
* `PerfClientProofs`: any number of workers, rate, duration, bins and arguments.
  The roundings of the pacer are solved for the slots they let through
  (`CurrentSlots`, `DesiredOrdinals`); slots of different workers are different
  residues (`OwnSlots`); `IInv` says that the slots used were taken, by their
  owner, below its ordinal. `ReportInv`, relative to `IInv`, is about sums: what
  all workers have counted is what went over the wire, and as many answers are in
  the buckets up to each one as their latencies put there. Proved:
  `StartsFitPlan`, `PacesByDeadline`, `ReportAddsUp`, `PercentileIsUpperBound`,
  that the buckets tile the latencies (`BucketHoldsLatency`), and that the program
  exits with everything given back (`ReleasedAtExit`): `ReleaseInv` says for each
  place of main and of a worker what it holds.

Assumptions are those named in the modules. Beyond the types of the constants
they ask for what the code's own constants satisfy: the widths of the bins divide
their ranges (`PacerAssumption`), a product of two short words fits a long one
(`WidthAssumption`), buckets are finitely many and contents of requests are
sequences of guards and resources, or of reports (`WireAssumption`), environments
hold texts (`TextAssumption`), the value for no job is not a job
(`BridgeAssumption`). Two are about the world outside. `KeyAssumption`: a text
that has the prefix, length, checksum and version of a key was issued, since
that is what a checksum is for; what is issued fits the widths of its fields.
`ReplyAssumption`: an answer is a list of records, and a lookup of a name that an
answer has, or of the fixed endpoint, finds a list of addresses, perhaps empty.

The backends cannot instantiate the library's induction theorems, which take a
predicate. Where a proof needs induction over data it is stated for a set of
numbers (`Induction`: a set that holds 0 and with each number the next holds all,
from the well-foundedness of the numbers), and recursive functions are first
shown to exist and to step (`SumSteps`, `PowerSteps`, `Turns`, `PickedSteps`,
`AddSteps`).

Every invariant and every action property of the passing runs is proved. Only
model-checked is liveness, which needs fairness and is beyond TLAPS:
`EveryRequestEnds`, `RebindHappens`, `RefreshEnds`, `EveryJobAnswered`,
`BenchmarkEnds`.

Each inductive invariant was model-checked on small instances before it was
proved; what is proved and follows from it (`TypeOK`, `RebindNotForgotten`) is in
no run of its own.

## 6. Not modelled

* The bech32 alphabet and polynomial, BLAKE2s and AES-GCM as computations: pure
  functions over bytes. `ApiKey` keeps the order and the effect of their checks.
* Windows helpers: one ioctl; a read that fails with `WSAECONNRESET` is the
  retried read of `Runtime`.
* The single-threaded examples but for the epoll loop: they call the same five
  entry points from event loops whose libraries are not in the repository.
* The responder's event log, its options and signals; what the load generator
  prints; packaging and CI.
* Exhausted memory in the path of a response (`r_client.c:2100`); start-up and
  discovery have it.

## 7. Plan

Next, in this order:
1. A module that composes `Admission` with `RequestContract` by `INSTANCE`, so
   that the core's promise is used rather than restated.
2. Other event loops of `examples/` with a watch set of their own, against
   `Runtime`.
