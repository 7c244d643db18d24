----------------------------- MODULE Admission -----------------------------
(***************************************************************************)
(* The admission workflow, src/src/r_client_workflow.c, and the runtime's  *)
(* helper that runs the protected work, r_client_runtime.c: one caller-    *)
(* owned r_admission_request_t that is used for one admission after        *)
(* another.  Each use has a number; the core client keeps the requests     *)
(* that are in flight and ends each with one callback or not at all, as    *)
(* RequestContract says.                                                   *)
(*                                                                         *)
(* The application is in control in its event loop, inside the completion  *)
(* callback and inside the protected work, and may start, cancel, report   *)
(* and run work from each of them; stack holds the frames it is inside of. *)
(* Work that was not started from a callback may also turn the event loop, *)
(* so that requests complete while it runs.                                *)
(***************************************************************************)
EXTENDS Integers, Sequences

CONSTANTS
    MaxStarts,      \* bound on the uses of the request
    MaxCount        \* bound on the results in one answer

ASSUME BoundAssumption == MaxStarts \in Nat /\ MaxCount \in Nat

Use == 1 .. MaxStarts
NoUse == 0

VARIABLES
    use,                \* the use the object was last prepared for
    handle,             \* request->handle, as the use it belongs to
    active,             \* request->active
    admitted,           \* request->admitted
    work_executed,      \* request->work_executed
    latency_reported,   \* request->latency_reported
    outcome,            \* request->outcome
    live,               \* uses whose core request is in flight
    stack,              \* callbacks and protected work on the stack
    fate,               \* how each use ended
    ran,                \* how often its protected work was started
    sent                \* how many of its reports were sent

request == <<use, handle, active, admitted, work_executed, latency_reported,
             outcome>>
history == <<fate, ran, sent>>
vars == <<request, live, stack, history>>

-----------------------------------------------------------------------------
(* r_client_admission_classify.  An answer has the deficit of each         *)
(* resource and, for each guard, whether it passed.                        *)

Lists(S) == UNION {[1 .. n -> S] : n \in 0 .. MaxCount}

Answer == [success : BOOLEAN, deficits : Lists(0 .. 1), passed : Lists(BOOLEAN)]

\* The answers the parser makes: success is what the blocks say.
Parsed ==
    {answer \in Answer :
        answer.success <=>
            /\ \A i \in DOMAIN answer.passed : answer.passed[i]
            /\ \A i \in DOMAIN answer.deficits : answer.deficits[i] = 0}

Decision == {"ALLOWED", "RATE_LIMITED", "LATENCY_LIMITED",
             "RATE_AND_LATENCY_LIMITED", "ERROR"}

NoOutcome == [decision |-> "ERROR", allowed |-> FALSE,
              rate_limited |-> FALSE, latency_limited |-> FALSE]

Allowed == [NoOutcome EXCEPT !.decision = "ALLOWED", !.allowed = TRUE]

InDeficit(answer) ==
    \E i \in DOMAIN answer.deficits : answer.deficits[i] > 0

Denied(answer) ==
    LET latency == \E i \in DOMAIN answer.passed : ~answer.passed[i]
        rate == InDeficit(answer) \/ ~latency
    IN  [decision |-> IF rate /\ latency THEN "RATE_AND_LATENCY_LIMITED"
                      ELSE IF latency THEN "LATENCY_LIMITED"
                      ELSE "RATE_LIMITED",
         allowed |-> FALSE, rate_limited |-> rate, latency_limited |-> latency]

classify(answer) == IF answer.success THEN Allowed ELSE Denied(answer)

-----------------------------------------------------------------------------
Init ==
    /\ use = NoUse
    /\ handle = NoUse
    /\ active = FALSE
    /\ admitted = FALSE
    /\ work_executed = FALSE
    /\ latency_reported = FALSE
    /\ outcome = NoOutcome
    /\ live = {}
    /\ stack = <<>>
    /\ fate = [u \in Use |-> "none"]
    /\ ran = [u \in Use |-> 0]
    /\ sent = [u \in Use |-> 0]

\* The object must not be touched before its callback or its cancel.
MayPrepare == ~active /\ use < MaxStarts

\* r_client_admission_prepare: memset and the fields of the request.
Prepare ==
    /\ MayPrepare
    /\ use' = use + 1
    /\ admitted' = FALSE
    /\ work_executed' = FALSE
    /\ latency_reported' = FALSE
    /\ outcome' = NoOutcome

StartAccepted ==
    /\ Prepare
    /\ active' = TRUE
    /\ handle' = use + 1
    /\ live' = live \cup {use + 1}
    /\ UNCHANGED <<stack, history>>

\* No server is known, no packet could be sent, or prepare alone was called.
StartRefused ==
    /\ Prepare
    /\ active' = FALSE
    /\ handle' = NoUse
    /\ UNCHANGED <<live, stack, history>>

Entered(frame, u) == [frame |-> frame, of |-> u, turned |-> FALSE]

\* Mutant: the handle of the completed request is kept.
AdmissionCompleteKeepsHandle(result) ==
    /\ active' = FALSE
    /\ outcome' = result
    /\ admitted' = result.allowed
    /\ UNCHANGED <<use, handle, work_executed, latency_reported>>

(* r_admission_complete: the request of use u ends, and the object its     *)
(* user pointer names is updated before the callback runs.                 *)
AdmissionComplete(result) ==
    /\ handle' = NoUse
    /\ active' = FALSE
    /\ outcome' = result
    /\ admitted' = result.allowed
    /\ UNCHANGED <<use, work_executed, latency_reported>>

\* on_readable and on_timeout are called by the event loop, or by work that
\* turns it; a completion callback may not call them (docs/api.md).
MayTurnLoop == \A i \in DOMAIN stack : stack[i].frame = "work"

(* Every frame on the stack has now let a request complete above it.       *)
Turned == [i \in DOMAIN stack |-> [stack[i] EXCEPT !.turned = TRUE]]

\* A datagram or a timer ends a request.
Completes(u, result) ==
    /\ MayTurnLoop
    /\ u \in live
    /\ live' = live \ {u}
    /\ AdmissionComplete(result)
    /\ stack' = Append(Turned, Entered("callback", u))
    /\ fate' = [fate EXCEPT ![u] = IF result.allowed THEN "allowed"
                                   ELSE "not allowed"]
    /\ UNCHANGED <<ran, sent>>

Answered(u, answer) == Completes(u, classify(answer))

\* A timeout, a failed send, or an answer whose arrays are missing.
Failed(u) == Completes(u, NoOutcome)

Top == stack[Len(stack)]
Below == SubSeq(stack, 1, Len(stack) - 1)

CallbackReturns ==
    /\ stack # <<>>
    /\ Top.frame = "callback"
    /\ stack' = Below
    /\ UNCHANGED <<request, live, history>>

Cancel ==
    /\ active
    /\ handle # NoUse
    /\ live' = live \ {handle}
    /\ handle' = NoUse
    /\ active' = FALSE
    /\ admitted' = FALSE
    /\ fate' = [fate EXCEPT ![handle] = "canceled"]
    /\ UNCHANGED <<use, work_executed, latency_reported, outcome, stack, ran,
                   sent>>

-----------------------------------------------------------------------------
(* Protected work and its report.                                          *)

\* Mutant: the mark is set when the work has returned.
MayRunUnmarked == admitted

\* r_runtime_admission_run_and_report, its early returns.
MayRun == admitted /\ ~work_executed

RunWork ==
    /\ MayRun
    /\ work_executed' = TRUE
    /\ stack' = Append(stack, Entered("work", use))
    /\ ran' = [ran EXCEPT ![use] = @ + 1]
    /\ UNCHANGED <<use, handle, active, admitted, latency_reported, outcome,
                   live, fate, sent>>

InWork == stack # <<>> /\ Top.frame = "work"

\* The work fails, or the clock does: no report.
WorkFails ==
    /\ InWork
    /\ stack' = Below
    /\ UNCHANGED <<request, live, history>>

\* Mutant: reports whether or not the object is in use again.
MayReportAnyUse == ~latency_reported

\* r_client_admission_report_latency, its early returns.
MayReport == ~active /\ admitted /\ ~latency_reported

\* Mutant: a report that was sent is not remembered.
ReportUnmarked(ok) ==
    /\ sent' = IF ok THEN [sent EXCEPT ![use] = @ + 1] ELSE sent
    /\ UNCHANGED <<latency_reported, use, handle, active, admitted,
                   work_executed, outcome, live, fate, ran>>

\* r_client_report_latency reaches some server (ok) or none.
Report(ok) ==
    /\ latency_reported' = ok
    /\ sent' = IF ok THEN [sent EXCEPT ![use] = @ + 1] ELSE sent
    /\ UNCHANGED <<use, handle, active, admitted, work_executed, outcome,
                   live, fate, ran>>

WorkSucceeds(ok) ==
    /\ InWork
    /\ stack' = Below
    /\ IF MayReport THEN Report(ok) ELSE UNCHANGED <<request, live, history>>

\* The application reports by itself: a retry, or work of its own.
ReportLatency(ok) ==
    /\ MayReport
    /\ Report(ok)
    /\ UNCHANGED stack

Next ==
    \/ StartAccepted \/ StartRefused \/ Cancel
    \/ \E u \in live : Failed(u) \/ \E answer \in Parsed : Answered(u, answer)
    \/ CallbackReturns
    \/ RunWork \/ WorkFails
    \/ \E ok \in BOOLEAN : WorkSucceeds(ok) \/ ReportLatency(ok)

Spec == Init /\ [][Next]_vars

-----------------------------------------------------------------------------
(* Properties.                                                             *)

Fate == {"none", "allowed", "not allowed", "canceled"}
StackFrame == [frame : {"callback", "work"}, of : Use, turned : BOOLEAN]

\* Every variable has its type.
TypeOK ==
    /\ use \in Use \cup {NoUse}
    /\ handle \in Use \cup {NoUse}
    /\ active \in BOOLEAN
    /\ admitted \in BOOLEAN
    /\ work_executed \in BOOLEAN
    /\ latency_reported \in BOOLEAN
    /\ outcome \in [decision : Decision, allowed : BOOLEAN,
                    rate_limited : BOOLEAN, latency_limited : BOOLEAN]
    /\ live \subseteq Use
    /\ stack \in Seq(StackFrame)
    /\ fate \in [Use -> Fate]
    /\ ran \in [Use -> Nat]
    /\ sent \in [Use -> Nat]

(* The protected work of an admission starts at most once, even if it      *)
(* calls the helper again, and only if the servers allowed it              *)
(* (r_runtime_admission_run_and_report).                                   *)
WorkOncePerAdmission ==
    \A u \in Use : ran[u] <= 1 /\ (ran[u] > 0 => fate[u] = "allowed")

(* At most one latency report is sent per admission, after any number of   *)
(* failed attempts and whichever call sends it, and none for a use that    *)
(* was denied, canceled or never answered                                  *)
(* (r_client_admission_report_latency).                                    *)
OneReportPerAdmission ==
    \A u \in Use : sent[u] <= 1 /\ (sent[u] > 0 => fate[u] = "allowed")

(* The handle the deadline, timeout and cancel helpers hand to the core    *)
(* belongs to a request that is still in flight, and the object whose      *)
(* fields that request borrows has not been prepared for another use       *)
(* (r_client_admission_start, r_admission_complete, cancel).               *)
HandleIsLive ==
    /\ handle # NoUse => active
    /\ active => handle \in live
    /\ live \subseteq {use} \cap {handle}

(* A measurement is reported only for the admission whose work was         *)
(* measured, though the work may have started the next use of the object,  *)
(* canceled it or had it refused, unless the work turned the event loop:   *)
(* the next use may then be admitted under it and be given its measurement *)
(* (r_runtime_admission_run_and_report).                                   *)
ReportsOwnWork ==
    [][\A u \in Use :
        sent'[u] > sent[u] /\ stack' # stack /\ ~Top.turned => Top.of = u]_vars

-----------------------------------------------------------------------------
(* The inductive invariant of the proofs: the flags of the object tell the *)
(* history of its present use, and no later use has a history.             *)
UseInv ==
    /\ \A u \in Use : u > use => fate[u] = "none" /\ ran[u] = 0 /\ sent[u] = 0
    /\ admitted => use # NoUse /\ fate[use] = "allowed" /\ ~active
    /\ admitted /\ ~work_executed => ran[use] = 0
    /\ admitted /\ ~latency_reported => sent[use] = 0
    /\ \A u \in live : fate[u] = "none" /\ ran[u] = 0 /\ sent[u] = 0
    /\ \A i \in DOMAIN stack : admitted /\ ~stack[i].turned => stack[i].of = use
    /\ latency_reported => admitted

IInv ==
    /\ TypeOK
    /\ WorkOncePerAdmission
    /\ OneReportPerAdmission
    /\ HandleIsLive
    /\ UseInv
=============================================================================
