------------------------------- MODULE Bridge -------------------------------
(***************************************************************************)
(* The thread bridges of examples/civetweb, examples/lwan and               *)
(* examples/onion: HTTP threads hand jobs to one thread that owns the       *)
(* client, over a queue under a mutex and a wakeup pipe.  The three         *)
(* programs share the bridge thread line by line and differ in who owns a   *)
(* job: the stack of the waiting worker (civetweb), two references (lwan),  *)
(* the bridge after the handler has yielded (onion).                        *)
(*                                                                          *)
(* A critical section under queue_mutex is one step.  The runtime is what   *)
(* Runtime says of it: both sockets are replaced together, once nothing is  *)
(* in flight; a request ends as RequestContract says.                       *)
(***************************************************************************)
EXTENDS Integers, FiniteSets, SequencesExt

CONSTANTS
    Job,            \* handler calls, each with one job
    NoJob,          \* the null pointer
    Servers,        \* the programs to check
    Outcome,        \* decisions of the server to tell apart
    PipeRoom        \* bytes the wakeup pipe takes

ASSUME BridgeAssumption ==
    /\ Servers \subseteq {"civetweb", "lwan", "onion"}
    /\ Outcome \subseteq {"allowed", "rate", "latency", "both"}
    /\ PipeRoom \in Nat \ {0}
    /\ NoJob \notin Job

Socket == {1, 2}
None == "none"

VARIABLES
    \* shared, under queue_mutex, and the pipe
    server,         \* which program runs
    queue,          \* queue_head .. queue_tail
    stop,           \* bridge->stop
    pipe,           \* bytes in the wakeup pipe
    \* the bridge thread
    bpc,            \* where it is
    taken,          \* the detached list it works on
    active,         \* bridge->active
    cursor,         \* the next job of expire_requests
    stale,          \* the sockets in poll_fds have been replaced
    ready,          \* indices that poll() reported readable
    faulty,         \* poll() or a socket has failed
    \* the client runtime
    steer,          \* steering feedback waits for the drain
    \* jobs and their handlers
    hpc,            \* where the handler is
    mem,            \* the job's memory
    refs,           \* references (lwan)
    result,         \* status and outcome once done, else None
    work,           \* times the protected work was run
    reply,          \* the HTTP status sent
    completing,     \* the job that complete_job has published and still touches
    \* main
    mpc

shared == <<queue, stop, pipe>>
thread == <<taken, active, cursor, stale, ready, faulty>>
jobs == <<mem, refs, result, work, reply, completing>>
vars == <<server, shared, bpc, thread, steer, hpc, jobs, mpc>>

-----------------------------------------------------------------------------
(* Jobs                                                                    *)

Failure == {"IO", "TIMEOUT"}

\* limited_handler and send_denial
CivetHttp(r) ==
    IF r \in Failure \cup {"latency"} THEN 503
    ELSE IF r = "allowed" THEN 200 ELSE 429

\* limited: the status table of lwan has no 429.
LwanHttp(r) ==
    IF r \in Failure \cup {"latency"} THEN 503
    ELSE IF r = "allowed" THEN 200 ELSE 403

\* finish_job, which looks for the reasons it knows.
OnionHttp(r) ==
    IF r = "allowed" THEN 200 ELSE IF r \in {"rate", "both"} THEN 429 ELSE 503

\* The worker holds the job's mutex until it waits for the condition.
Unlocked(j) == server = "civetweb" => hpc[j] = "waiting"

\* release_job: the last reference frees the job.
Release(j) ==
    /\ refs' = [refs EXCEPT ![j] = @ - 1]
    /\ mem' = IF refs[j] = 1 THEN [mem EXCEPT ![j] = "freed"] ELSE mem

\* complete_job of civetweb sets done and signals under the job's mutex, which
\* lies in the worker's frame like the job.
CivetComplete(j, r) ==
    /\ result' = [result EXCEPT ![j] = r]
    /\ completing' = j
    /\ UNCHANGED <<mem, refs, reply>>

\* complete_job of lwan publishes done; the thread still has its reference.
LwanComplete(j, r) ==
    /\ result' = [result EXCEPT ![j] = r]
    /\ completing' = j
    /\ UNCHANGED <<mem, refs, reply>>

\* finish_job of onion: the bridge answers and frees everything.
OnionFinish(j, r) ==
    /\ reply' = [reply EXCEPT ![j] = OnionHttp(r)]
    /\ mem' = [mem EXCEPT ![j] = "freed"]
    /\ UNCHANGED <<result, refs, completing>>

Complete(j, r) ==
    /\ Unlocked(j)
    /\ \/ server = "civetweb" /\ CivetComplete(j, r)
       \/ server = "lwan" /\ LwanComplete(j, r)
       \/ server = "onion" /\ OnionFinish(j, r)

\* remove_active unlinks the first match.
RemoveActive(j) == RemoveFirst(active, j)

\* The client has no request left: a pending steering feedback replaces the
\* sockets, or fails to and leaves them.
Drained(left, feedback) ==
    IF left = <<>> /\ feedback
        THEN stale' \in {stale, TRUE} /\ steer' = FALSE
        ELSE UNCHANGED stale /\ steer' = feedback

\* Mutant: the work is run for every answer.
OnAdmissionUnguarded(j, r, feedback) ==
    /\ active' = RemoveActive(j)
    /\ work' = [work EXCEPT ![j] = @ + 1]
    /\ Complete(j, r)
    /\ Drained(RemoveActive(j), feedback)

\* on_admission: unlink, run the admitted work, complete.  The work is not
\* run when the clock that measures it cannot be read.
OnAdmission(j, r, feedback) ==
    /\ active' = RemoveActive(j)
    /\ work' \in {work, [work EXCEPT ![j] = @ + 1]}
    /\ r # "allowed" => work' = work
    /\ Complete(j, r)
    /\ Drained(RemoveActive(j), feedback)

-----------------------------------------------------------------------------
(* The bridge thread                                                       *)

\* Where the thread is when it is not inside complete_job.
At(step) == bpc = step /\ completing = NoJob

\* The end of complete_job: civetweb unlocks the mutex and touches the job no
\* more, lwan drops the thread's reference.
CompleteEnds(j) ==
    /\ completing = j
    /\ \/ server = "civetweb" /\ UNCHANGED <<mem, refs>>
       \/ server = "lwan" /\ Release(j)
    /\ completing' = NoJob
    /\ UNCHANGED <<server, shared, bpc, thread, steer, hpc, result, work, reply, mpc>>

\* bridge_should_stop, and the poll_fds of the next poll().
Top ==
    /\ At("top")
    /\ bpc' = IF stop THEN "mark" ELSE "poll"
    /\ stale' = FALSE
    /\ UNCHANGED <<server, shared, taken, active, cursor, ready, faulty,
                   steer, hpc, jobs, mpc>>

\* poll_client of civetweb looks at the queue in any case.
CivetAfterPoll == IF pipe > 0 THEN "drain" ELSE "take"

\* The loops of lwan and onion look at it when the pipe was readable.
LwanAfterPoll == IF pipe > 0 THEN "drain" ELSE "read"
OnionAfterPoll == IF pipe > 0 THEN "drain" ELSE "read"

\* poll() returns: readable sockets, the pipe, a deadline or the 1000 ms
\* bound.
PollReturns(readable) ==
    /\ At("poll")
    /\ ready' = readable
    /\ \/ server = "civetweb" /\ bpc' = CivetAfterPoll
       \/ server = "lwan" /\ bpc' = LwanAfterPoll
       \/ server = "onion" /\ bpc' = OnionAfterPoll
    /\ UNCHANGED <<server, shared, taken, active, cursor, stale, faulty,
                   steer, hpc, jobs, mpc>>

PollInterrupted ==
    /\ At("poll")
    /\ bpc' = "top"
    /\ UNCHANGED <<server, shared, thread, steer, hpc, jobs, mpc>>

\* poll() fails, the pipe or a socket has an error, or the clock that
\* expire_requests reads fails: the loop is left.
Fault ==
    /\ At("poll") \/ At("read") \/ At("expire")
    /\ bpc' = "mark"
    /\ faulty' = TRUE
    /\ ready' = {}
    /\ cursor' = NoJob
    /\ UNCHANGED <<server, shared, taken, active, stale, steer, hpc, jobs, mpc>>

DrainWakePipe ==
    /\ At("drain")
    /\ pipe' = 0
    /\ bpc' = "take"
    /\ UNCHANGED <<server, queue, stop, thread, steer, hpc, jobs, mpc>>

TakeQueue ==
    /\ At("take") \/ At("failtake")
    /\ taken' = queue
    /\ queue' = <<>>
    /\ bpc' = IF bpc = "take" THEN "start" ELSE "fail"
    /\ UNCHANGED <<server, stop, pipe, active, cursor, stale, ready, faulty,
                   steer, hpc, jobs, mpc>>

\* start_queued_jobs: one job of the detached list.  A failing start unlinks
\* the job again and completes it.
StartJob(ok) ==
    /\ At("start")
    /\ taken # <<>>
    /\ taken' = Tail(taken)
    /\ LET j == Head(taken) IN
        \/ /\ ok
           /\ active' = <<j>> \o active
           /\ UNCHANGED jobs
        \/ /\ ~ok
           /\ Complete(j, "IO")
           /\ UNCHANGED <<active, work>>
    /\ UNCHANGED <<server, shared, bpc, cursor, stale, ready, faulty,
                   steer, hpc, mpc>>

StartDone ==
    /\ At("start")
    /\ taken = <<>>
    /\ bpc' = "read"
    /\ UNCHANGED <<server, shared, thread, steer, hpc, jobs, mpc>>

\* The socket loop of poll_client: the lowest readable index is next.
Reading(i) == At("read") /\ i \in ready /\ \A k \in ready : i <= k

\* r_runtime_client_on_readable takes a datagram that completes a request.
\* It returns if the completion has replaced the sockets.
ReadCompletes(i, j, r, feedback) ==
    /\ Reading(i)
    /\ ~stale
    /\ j \in ToSet(active)
    /\ OnAdmission(j, r, steer \/ feedback)
    /\ ready' = IF stale' THEN ready \ {i} ELSE ready
    /\ UNCHANGED <<server, shared, bpc, taken, cursor, faulty, hpc, mpc>>

\* Nothing more to read.
ReadEnds(i) ==
    /\ Reading(i)
    /\ ~stale
    /\ ready' = ready \ {i}
    /\ UNCHANGED <<server, shared, bpc, taken, active, cursor, stale,
                   faulty, steer, hpc, jobs, mpc>>

\* The handle of poll_fds was replaced and closed: recvfrom fails with
\* EBADF, which on_readable reports as an I/O error.
ReadStale(i) ==
    /\ Reading(i)
    /\ stale
    /\ bpc' = "mark"
    /\ ready' = {}
    /\ UNCHANGED <<server, shared, taken, active, cursor, stale, faulty,
                   steer, hpc, jobs, mpc>>

ReadDone ==
    /\ At("read")
    /\ ready = {}
    /\ bpc' = "expire"
    /\ cursor' = IF active = <<>> THEN NoJob ELSE Head(active)
    /\ UNCHANGED <<server, shared, taken, active, stale, ready, faulty,
                   steer, hpc, jobs, mpc>>

\* job->next
NextOf(j) ==
    LET i == CHOOSE k \in DOMAIN active : active[k] = j IN
    IF i < Len(active) THEN active[i + 1] ELSE NoJob

\* expire_requests, one job: next is read before a timeout may unlink it.
ExpireStep(j) ==
    /\ At("expire")
    /\ cursor = j
    /\ cursor' = NextOf(j)
    /\ UNCHANGED <<server, shared, bpc, taken, ready, faulty, hpc, mpc>>

\* The deadline lies ahead, or another round begins.
ExpireKeeps(j) ==
    /\ ExpireStep(j)
    /\ UNCHANGED <<stale, active, steer, jobs>>

\* The last deadline has passed: a held answer, or none.
ExpireEnds(j) ==
    /\ ExpireStep(j)
    /\ \E r \in {"TIMEOUT"} \cup Outcome : OnAdmission(j, r, steer)

ExpireDone ==
    /\ At("expire")
    /\ cursor = NoJob
    /\ bpc' = "top"
    /\ UNCHANGED <<server, shared, thread, steer, hpc, jobs, mpc>>

\* Mutant: the thread ends and handlers go on queueing to it.
MarkNothing ==
    /\ At("mark")
    /\ bpc' = "failtake"
    /\ UNCHANGED <<server, shared, thread, steer, hpc, jobs, mpc>>

\* mark_bridge_stopped, called by the thread when its loop is over.
MarkStopped ==
    /\ At("mark")
    /\ stop' = TRUE
    /\ bpc' = "failtake"
    /\ UNCHANGED <<server, queue, pipe, thread, steer, hpc, jobs, mpc>>

\* fail_all_jobs: the queued jobs, then the active ones, which are canceled.
FailJob ==
    /\ At("fail")
    /\ \/ /\ taken # <<>>
          /\ taken' = Tail(taken)
          /\ Complete(Head(taken), "IO")
          /\ UNCHANGED <<active, stale, steer>>
       \/ /\ taken = <<>> /\ active # <<>>
          /\ active' = Tail(active)
          /\ Drained(Tail(active), steer)
          /\ Complete(Head(active), "IO")
          /\ UNCHANGED taken
    /\ UNCHANGED <<server, shared, bpc, cursor, ready, faulty, work, hpc, mpc>>

ThreadEnds ==
    /\ At("fail")
    /\ taken = <<>> /\ active = <<>>
    /\ bpc' = "ended"
    /\ UNCHANGED <<server, shared, thread, steer, hpc, jobs, mpc>>

BridgeThread ==
    \/ Top \/ PollInterrupted \/ Fault \/ DrainWakePipe \/ TakeQueue
    \/ \E readable \in SUBSET Socket : PollReturns(readable)
    \/ \E ok \in BOOLEAN : StartJob(ok)
    \/ StartDone \/ ReadDone \/ ExpireDone
    \/ \E i \in Socket : ReadEnds(i) \/ ReadStale(i)
    \/ \E i \in Socket, j \in Job, r \in Outcome, feedback \in BOOLEAN :
            ReadCompletes(i, j, r, feedback)
    \/ \E j \in Job : ExpireKeeps(j) \/ ExpireEnds(j)
    \/ \E j \in Job : CompleteEnds(j)
    \/ MarkStopped \/ FailJob \/ ThreadEnds

-----------------------------------------------------------------------------
(* The handlers                                                            *)

\* write() of one byte; a full pipe refuses it, which loses nothing.
WakeBridge == pipe' = IF pipe < PipeRoom THEN pipe + 1 ELSE pipe

\* The handler cannot set up a job: no memory, no mutex.
SubmitFails(j) ==
    /\ mpc = "serving" /\ hpc[j] = "idle"
    /\ hpc' = [hpc EXCEPT ![j] = "done"]
    /\ reply' = [reply EXCEPT ![j] = 503]
    /\ UNCHANGED <<server, shared, bpc, thread, steer, mem, refs, result,
                   work, completing, mpc>>

Enqueue(j) ==
    /\ queue' = Append(queue, j)
    /\ mem' = [mem EXCEPT ![j] = "live"]
    /\ hpc' = [hpc EXCEPT ![j] = "waking"]

\* enqueue_and_wait, up to the unlocking of the queue.
CivetSubmit(j) ==
    /\ server = "civetweb"
    /\ \/ ~stop /\ Enqueue(j) /\ UNCHANGED result
       \/ /\ stop
          /\ mem' = [mem EXCEPT ![j] = "live"]
          /\ result' = [result EXCEPT ![j] = "IO"]
          /\ hpc' = [hpc EXCEPT ![j] = "waiting"]
          /\ UNCHANGED queue
    /\ UNCHANGED <<refs, reply>>

\* submit_job: two references, one of which a stopped bridge gives up.
LwanSubmit(j) ==
    /\ server = "lwan"
    /\ \/ ~stop /\ Enqueue(j)
          /\ refs' = [refs EXCEPT ![j] = 2]
          /\ UNCHANGED result
       \/ /\ stop
          /\ mem' = [mem EXCEPT ![j] = "live"]
          /\ refs' = [refs EXCEPT ![j] = 1]
          /\ result' = [result EXCEPT ![j] = "IO"]
          /\ hpc' = [hpc EXCEPT ![j] = "waiting"]
          /\ UNCHANGED queue
    /\ UNCHANGED reply

\* limited of onion: a stopped bridge is answered at once.
OnionSubmit(j) ==
    /\ server = "onion"
    /\ \/ ~stop /\ Enqueue(j) /\ UNCHANGED reply
       \/ /\ stop
          /\ reply' = [reply EXCEPT ![j] = 503]
          /\ hpc' = [hpc EXCEPT ![j] = "done"]
          /\ UNCHANGED <<queue, mem>>
    /\ UNCHANGED <<refs, result>>

Submit(j) ==
    /\ mpc = "serving" /\ hpc[j] = "idle"
    /\ CivetSubmit(j) \/ LwanSubmit(j) \/ OnionSubmit(j)
    /\ UNCHANGED <<server, stop, pipe, bpc, thread, steer, work, completing, mpc>>

\* wake_bridge, after the queue was unlocked.  The onion handler yields.
Wake(j) ==
    /\ hpc[j] = "waking"
    /\ WakeBridge
    /\ hpc' = [hpc EXCEPT ![j] =
                   IF server = "onion" THEN "yielded" ELSE "waiting"]
    /\ UNCHANGED <<server, queue, stop, bpc, thread, steer, jobs, mpc>>

\* Mutant: the worker looks at done without the mutex.
CivetReturnUnlocked(j) ==
    /\ server = "civetweb"
    /\ mem' = [mem EXCEPT ![j] = "freed"]
    /\ UNCHANGED refs

\* The worker has the mutex and sees done, sends the response and leaves its
\* frame.
CivetReturn(j) ==
    /\ server = "civetweb"
    /\ completing # j
    /\ mem' = [mem EXCEPT ![j] = "freed"]
    /\ UNCHANGED refs

\* Mutant: the deferred release_job is missing.
LwanReturnLeaks(j) == server = "lwan" /\ UNCHANGED <<refs, mem>>

\* The coroutine sees done; its deferred release_job runs.
LwanReturn(j) == server = "lwan" /\ Release(j)

Return(j) ==
    /\ hpc[j] = "waiting"
    /\ result[j] # None
    /\ \/ /\ CivetReturn(j)
          /\ reply' = [reply EXCEPT ![j] = CivetHttp(result[j])]
       \/ /\ LwanReturn(j)
          /\ reply' = [reply EXCEPT ![j] = LwanHttp(result[j])]
    /\ hpc' = [hpc EXCEPT ![j] = "done"]
    /\ UNCHANGED <<server, shared, bpc, thread, steer, result, work, completing,
                   mpc>>

\* The peer disconnects, or the server shuts down: lwan destroys the
\* sleeping coroutine, whose deferred release_job runs.
Disconnect(j) ==
    /\ server = "lwan"
    /\ hpc[j] = "waiting"
    /\ Release(j)
    /\ hpc' = [hpc EXCEPT ![j] = "gone"]
    /\ UNCHANGED <<server, shared, bpc, thread, steer, result, work, reply,
                   completing, mpc>>

-----------------------------------------------------------------------------
(* main                                                                    *)

\* bridge_start: the thread runs, or all that was made is undone.
BridgeStart ==
    /\ mpc = "init"
    /\ \/ mpc' = "started" /\ bpc' = "top"
       \/ mpc' = "destroyed" /\ UNCHANGED bpc
    /\ UNCHANGED <<server, shared, thread, steer, hpc, jobs>>

\* main creates the HTTP server, which may fail; lwan_init has no result.
CivetStart == server = "civetweb" /\ mpc' \in {"serving", "stopping"}
LwanStart == server = "lwan" /\ mpc' = "serving"
OnionStart == server = "onion" /\ mpc' \in {"serving", "stopping"}

StartServer ==
    /\ mpc = "started"
    /\ CivetStart \/ LwanStart \/ OnionStart
    /\ UNCHANGED <<server, shared, bpc, thread, steer, hpc, jobs>>

\* A signal: the HTTP server stops taking requests and joins its threads.
StopServer ==
    /\ mpc = "serving"
    /\ mpc' = "draining"
    /\ UNCHANGED <<server, shared, bpc, thread, steer, hpc, jobs>>

ServerStopped ==
    /\ mpc = "draining"
    /\ \A j \in Job : hpc[j] \in {"idle", "done", "gone", "yielded"}
    /\ mpc' = "stopping"
    /\ UNCHANGED <<server, shared, bpc, thread, steer, hpc, jobs>>

\* bridge_stop: mark, wake, join, then the queue's mutex, the pipe and the
\* runtime are destroyed.
BridgeStop ==
    \/ /\ mpc = "stopping"
       /\ stop' = TRUE
       /\ mpc' = "waking"
       /\ UNCHANGED <<server, queue, pipe, bpc, thread, steer, hpc, jobs>>
    \/ /\ mpc = "waking"
       /\ WakeBridge
       /\ mpc' = "joining"
       /\ UNCHANGED <<server, queue, stop, bpc, thread, steer, hpc, jobs>>
    \/ /\ mpc = "joining"
       /\ bpc = "ended"
       /\ mpc' = "destroyed"
       /\ UNCHANGED <<server, shared, bpc, thread, steer, hpc, jobs>>

-----------------------------------------------------------------------------
Init ==
    /\ server \in Servers
    /\ queue = <<>> /\ stop = FALSE /\ pipe = 0
    /\ bpc = "none" /\ taken = <<>> /\ active = <<>> /\ cursor = NoJob
    /\ stale = FALSE /\ ready = {} /\ faulty = FALSE /\ steer = FALSE
    /\ hpc = [j \in Job |-> "idle"]
    /\ mem = [j \in Job |-> None]
    /\ refs = [j \in Job |-> 0]
    /\ result = [j \in Job |-> None]
    /\ work = [j \in Job |-> 0]
    /\ reply = [j \in Job |-> 0]
    /\ completing = NoJob
    /\ mpc = "init"

Handler(j) ==
    Submit(j) \/ SubmitFails(j) \/ Wake(j) \/ Return(j) \/ Disconnect(j)

Next ==
    \/ BridgeThread
    \/ \E j \in Job : Handler(j)
    \/ BridgeStart \/ StartServer \/ StopServer \/ ServerStopped \/ BridgeStop

Spec == Init /\ [][Next]_vars

\* The threads run; the clock passes every deadline; poll() is not
\* interrupted forever; a drain of a socket ends.  Nobody is obliged to send
\* a request or a signal, to answer or to disconnect.
FairSpec ==
    /\ Spec
    /\ WF_vars(BridgeThread) /\ WF_vars(BridgeStop) /\ WF_vars(ServerStopped)
    /\ SF_vars(\E readable \in SUBSET Socket : PollReturns(readable))
    /\ \A i \in Socket : WF_vars(ReadEnds(i))
    /\ \A j \in Job : WF_vars(Wake(j)) /\ WF_vars(Return(j))
    /\ \A j \in Job : SF_vars(ExpireEnds(j))

-----------------------------------------------------------------------------
(* Properties                                                              *)

(* Every job the bridge thread can still reach, from the queue, the        *)
(* detached list, the active list, the saved next pointer of               *)
(* expire_requests or inside complete_job, and every job a handler still   *)
(* waits on, is allocated, and no job is in two lists: a worker that       *)
(* returns as soon as it sees done, a peer that disconnects and a shutdown *)
(* never leave the other side a dangling job (complete_job, release_job,   *)
(* finish_job).                                                            *)
JobsAreAlive ==
    LET reachable == queue \o taken \o active IN
    /\ IsInjective(reachable)
    /\ \A j \in ToSet(reachable) \cup ({cursor, completing} \ {NoJob}) :
           mem[j] = "live"
    /\ \A j \in Job : hpc[j] = "waiting" => mem[j] = "live"

(* Protected work is run at most once per job, only for one that was       *)
(* admitted, and a peer is never told "denied" or "unavailable" about work *)
(* that was run, also when the loop fails or stops around the completion   *)
(* (on_admission against fail_all_jobs).                                   *)
WorkIsAnsweredAllowed ==
    \A j \in Job :
        /\ work[j] <= 1
        /\ work[j] = 1 => result[j] \in {None, "allowed"} /\ reply[j] \in {0, 200}

(* Once the bridge is destroyed nothing is left in its lists and no job is *)
(* allocated any more, whatever was queued, in flight or being waited for  *)
(* when it stopped (fail_all_jobs, bridge_stop).                           *)
NothingLeft ==
    mpc = "destroyed" =>
        /\ queue = <<>> /\ taken = <<>> /\ active = <<>>
        /\ \A j \in Job : mem[j] # "live"

(* Every queued job is answered, or its peer has gone: no wakeup is lost   *)
(* between the queue and the pipe, also with a full pipe; no job is left   *)
(* in the queue of a thread that has stopped; and a worker and the bridge  *)
(* thread never wait for each other.                                       *)
EveryJobAnswered ==
    \A j \in Job :
        hpc[j] = "waking" ~> reply[j] # 0 \/ hpc[j] = "gone"

(* The loop of the bridge ends only when it is told to or when poll() or a *)
(* socket fails, not because the client has replaced its sockets: docs/    *)
(* api.md:566 has hosts rebuild their poll set after a request callback,   *)
(* which poll_client does not do between its two sockets.                  *)
RebindKeepsBridge == bpc = "mark" => stop \/ faulty

-----------------------------------------------------------------------------
(* The inductive invariant                                                 *)

\* The jobs in the bridge's lists, and the ones a handler still holds.
Listed == ToSet(queue) \cup ToSet(taken) \cup ToSet(active)
Held == {j \in Job : hpc[j] \in {"waking", "waiting"}}

TypeOK ==
    /\ server \in Servers
    /\ queue \in Seq(Job) /\ taken \in Seq(Job) /\ active \in Seq(Job)
    /\ stop \in BOOLEAN /\ pipe \in 0..PipeRoom
    /\ bpc \in {"none", "top", "poll", "drain", "take", "start", "read",
                "expire", "mark", "failtake", "fail", "ended"}
    /\ cursor \in Job \cup {NoJob} /\ completing \in Job \cup {NoJob}
    /\ stale \in BOOLEAN /\ faulty \in BOOLEAN /\ steer \in BOOLEAN
    /\ ready \in SUBSET Socket
    /\ hpc \in [Job -> {"idle", "waking", "waiting", "yielded", "done", "gone"}]
    /\ mem \in [Job -> {None, "live", "freed"}]
    /\ refs \in [Job -> 0..2]
    /\ result \in [Job -> {None} \cup Failure \cup Outcome]
    /\ work \in [Job -> 0..1]
    /\ reply \in [Job -> {0, 200, 403, 429, 503}]
    /\ mpc \in {"init", "started", "serving", "draining", "stopping",
                "waking", "joining", "destroyed"}

\* A job is in one list once; expire_requests saves a pointer into the
\* active list and into no other.
ListInv ==
    /\ IsInjective(queue) /\ IsInjective(taken) /\ IsInjective(active)
    /\ ToSet(queue) \cap ToSet(taken) = {}
    /\ ToSet(queue) \cap ToSet(active) = {}
    /\ ToSet(taken) \cap ToSet(active) = {}
    /\ taken # <<>> => bpc \in {"start", "fail"}
    /\ cursor # NoJob => bpc = "expire" /\ cursor \in ToSet(active)

\* Who owns the memory of a job: the worker, as long as it holds the job;
\* whoever has one of the two references; the lists of the bridge.
OwnerInv ==
    \A j \in Job :
        /\ mem[j] = "live" <=>
               \/ server = "civetweb" /\ j \in Held
               \/ server = "lwan" /\ refs[j] > 0
               \/ server = "onion" /\ j \in Listed
        /\ server = "civetweb" /\ j \in Listed => j \in Held
        /\ server = "lwan" =>
               refs[j] = (IF j \in Listed THEN 1 ELSE 0)
                           + (IF j \in Held THEN 1 ELSE 0)
                           + (IF j = completing THEN 1 ELSE 0)
        /\ server = "onion" => hpc[j] # "waiting"

\* What is already known of a job: nothing while it is listed, and the
\* work was run for those alone that end as allowed.
AnswerInv ==
    \A j \in Job :
        /\ j \in Listed => result[j] = None /\ work[j] = 0 /\ reply[j] = 0
        /\ hpc[j] = "idle" => j \notin Listed
        /\ hpc[j] = "idle" => result[j] = None /\ work[j] = 0 /\ reply[j] = 0
        /\ j \in Held /\ server # "onion" => reply[j] = 0
        /\ j \in Held => result[j] # None \/ j \in Listed \/ server = "onion"
        /\ work[j] = 1 =>
               IF server = "onion" THEN result[j] = None /\ reply[j] = 200
                                   ELSE result[j] = "allowed" /\ reply[j] \in {0, 200}

\* A job being completed is in no list any more; its worker cannot return.
CompleteInv ==
    completing # NoJob =>
        /\ completing \notin Listed
        /\ result[completing] # None
        /\ server # "onion"
        /\ server = "civetweb" => hpc[completing] = "waiting"

\* How main, the handlers and the bridge thread follow each other.
PhaseInv ==
    /\ mpc = "init" => bpc = "none"
    /\ bpc = "none" => mpc \in {"init", "destroyed"}
    /\ bpc = "none" => queue = <<>> /\ active = <<>>
    /\ mpc \in {"init", "started"} => \A j \in Job : hpc[j] = "idle"
    /\ mpc \in {"stopping", "waking", "joining", "destroyed"} => Held = {}
    /\ mpc = "destroyed" => bpc \in {"none", "ended"}
    /\ bpc \in {"failtake", "fail", "ended"} => stop
    /\ bpc \in {"fail", "ended"} => queue = <<>>
    /\ bpc = "ended" => active = <<>>
    /\ bpc \in {"none", "ended"} => completing = NoJob

IInv == TypeOK /\ ListInv /\ OwnerInv /\ AnswerInv /\ CompleteInv /\ PhaseInv
=============================================================================
