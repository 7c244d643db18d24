-------------------------- MODULE AdmissionProofs --------------------------
(***************************************************************************)
(* Proofs about Admission for any number of uses of the request object and *)
(* answers of any size: work and reports happen at most once per admission *)
(* and only for admissions the servers allowed.  And about Startup, which  *)
(* makes the client that admits: a refusal leaves nothing behind, the      *)
(* options are what the environment says, the client is what its key was   *)
(* issued for, and its servers are what was published.                     *)
(***************************************************************************)
EXTENDS Admission, Startup, WellFoundedInduction, FiniteSetTheorems, TLAPS

OutcomeType == [decision : Decision, allowed : BOOLEAN,
                rate_limited : BOOLEAN, latency_limited : BOOLEAN]

(* Every classification is an outcome, and only a successful answer is     *)
(* allowed (r_client_admission_classify).                                  *)
LEMMA ClassifyType ==
    ASSUME NEW answer \in Answer
    PROVE  classify(answer) \in OutcomeType
<1>1. InDeficit(answer) \in BOOLEAN
  BY DEF InDeficit
<1>2. Allowed \in OutcomeType
  BY DEF Allowed, NoOutcome, OutcomeType, Decision
<1>3. Denied(answer) \in OutcomeType
  <2> DEFINE latency == \E i \in DOMAIN answer.passed : ~answer.passed[i]
             rate == InDeficit(answer) \/ ~latency
             word == IF rate /\ latency THEN "RATE_AND_LATENCY_LIMITED"
                     ELSE IF latency THEN "LATENCY_LIMITED" ELSE "RATE_LIMITED"
  <2>1. latency \in BOOLEAN /\ rate \in BOOLEAN /\ word \in Decision
    BY <1>1 DEF Decision
  <2>2. Denied(answer) = [decision |-> word, allowed |-> FALSE,
                          rate_limited |-> rate, latency_limited |-> latency]
    BY DEF Denied
  <2> HIDE DEF latency, rate, word
  <2> QED BY <2>1, <2>2 DEF OutcomeType
<1> QED BY <1>2, <1>3 DEF classify

(* Popping a frame leaves the frames below it.                             *)
LEMMA PopFacts ==
    ASSUME stack \in Seq(StackFrame), stack # <<>>
    PROVE  /\ Below \in Seq(StackFrame)
           /\ \A i \in DOMAIN Below : i \in DOMAIN stack /\ Below[i] = stack[i]
           /\ Below # stack
  BY DEF Below

(* The object is prepared for its next use.                                *)
LEMMA StartStep ==
    ASSUME IInv, StartAccepted \/ StartRefused
    PROVE  IInv'
<1> USE DEF IInv
<1> DEFINE u == use + 1
<1>1. u \in Use /\ u > use /\ use \in Nat /\ ~active
  BY BoundAssumption DEF StartAccepted, StartRefused, Prepare, MayPrepare,
                         TypeOK, Use, NoUse
<1>2. /\ use' = u /\ ~admitted' /\ ~work_executed' /\ ~latency_reported'
      /\ outcome' = NoOutcome
      /\ UNCHANGED <<stack, fate, ran, sent>>
  BY DEF StartAccepted, StartRefused, Prepare, history
<1>3. live = {}
  BY <1>1 DEF HandleIsLive, TypeOK, Use, NoUse
<1>4. \/ active' = TRUE /\ handle' = u /\ live' = {u}
      \/ active' = FALSE /\ handle' = NoUse /\ live' = {}
  BY <1>3 DEF StartAccepted, StartRefused
<1>5. fate[u] = "none" /\ ran[u] = 0 /\ sent[u] = 0
  BY <1>1 DEF UseInv
<1>6. outcome' \in OutcomeType
  BY <1>2 DEF NoOutcome, OutcomeType, Decision
<1>7. admitted' = FALSE /\ work_executed' = FALSE /\ latency_reported' = FALSE
  BY DEF StartAccepted, StartRefused, Prepare
<1>8. u # NoUse
  BY <1>1 DEF Use, NoUse
<1> HIDE DEF u
<1>9. TypeOK'
  BY <1>1, <1>2, <1>4, <1>6, <1>7 DEF TypeOK, OutcomeType
<1>10. WorkOncePerAdmission' /\ OneReportPerAdmission'
  BY <1>2 DEF WorkOncePerAdmission, OneReportPerAdmission
<1>11. HandleIsLive'
  BY <1>2, <1>4, <1>8 DEF HandleIsLive
<1>12. UseInv'
  <2>1. \A v \in Use : v > u => v > use
    BY <1>1 DEF Use, u
  <2> QED BY <1>2, <1>4, <1>5, <2>1 DEF UseInv
<1> QED BY <1>9, <1>10, <1>11, <1>12

(* Once a request completes, only its callback has let none complete.      *)
LEMMA TurnedFacts ==
    ASSUME stack \in Seq(StackFrame), NEW u \in Use
    PROVE  LET now == Append(Turned, Entered("callback", u))
           IN  /\ now \in Seq(StackFrame)
               /\ \A i \in DOMAIN now : ~now[i].turned => now[i].of = u
<1> DEFINE top == Entered("callback", u)
           below == Turned
           now == Append(below, top)
<1>1. top \in StackFrame /\ top.of = u
  BY DEF Entered, StackFrame
<1>2. DOMAIN stack = 1 .. Len(stack) /\ Len(stack) \in Nat
  OBVIOUS
<1>3. \A i \in DOMAIN stack :
        LET f == [stack[i] EXCEPT !.turned = TRUE]
        IN  f \in StackFrame /\ f.turned
  <2> SUFFICES ASSUME NEW i \in DOMAIN stack
               PROVE  LET f == [stack[i] EXCEPT !.turned = TRUE]
                      IN  f \in StackFrame /\ f.turned
    OBVIOUS
  <2>1. stack[i] \in StackFrame
    OBVIOUS
  <2> QED BY <2>1 DEF StackFrame
<1>4. /\ below \in [1 .. Len(stack) -> StackFrame]
      /\ \A i \in 1 .. Len(stack) : below[i].turned
  BY <1>2, <1>3 DEF Turned
<1> HIDE DEF below, top
<1>5. below \in Seq(StackFrame) /\ Len(below) = Len(stack)
  BY <1>2, <1>4
<1>6. /\ now \in Seq(StackFrame)
      /\ \A i \in DOMAIN now : \/ i \in 1 .. Len(below) /\ now[i] = below[i]
                               \/ now[i] = top
  BY <1>1, <1>5
<1> QED BY <1>1, <1>4, <1>5, <1>6 DEF top, below

(* A request ends and its callback begins.                                 *)
LEMMA CompletesStep ==
    ASSUME IInv, NEW u \in live, NEW result \in OutcomeType,
           Completes(u, result)
    PROVE  IInv'
<1> USE DEF IInv
<1>1. u = use /\ u = handle /\ u \in Use /\ live = {u}
  BY DEF HandleIsLive, TypeOK
<1>2. /\ handle' = NoUse /\ active' = FALSE /\ outcome' = result
      /\ admitted' = result.allowed /\ live' = {}
      /\ stack' = Append(Turned, Entered("callback", u))
      /\ UNCHANGED <<use, work_executed, latency_reported, ran, sent>>
  BY <1>1 DEF Completes, AdmissionComplete
<1>3. fate' = [fate EXCEPT ![u] = IF result.allowed THEN "allowed"
                                  ELSE "not allowed"]
  BY DEF Completes
<1>4. ran[u] = 0 /\ sent[u] = 0 /\ fate[u] = "none"
  BY DEF UseInv
<1>5. result.allowed \in BOOLEAN
  BY DEF OutcomeType
<1>6. fate' \in [Use -> Fate]
  BY <1>1, <1>3 DEF TypeOK, Fate
<1>7. /\ stack' \in Seq(StackFrame)
      /\ \A i \in DOMAIN stack' : ~stack'[i].turned => stack'[i].of = u
  BY <1>1, <1>2, TurnedFacts DEF TypeOK
<1>8. ~latency_reported
  <2>1. active
    BY <1>1 DEF HandleIsLive, TypeOK, Use, NoUse
  <2> QED BY <2>1 DEF UseInv, TypeOK
<1>9. TypeOK'
  BY <1>2, <1>5, <1>6, <1>7 DEF TypeOK, OutcomeType
<1>10. WorkOncePerAdmission' /\ OneReportPerAdmission'
  BY <1>1, <1>2, <1>3, <1>4
     DEF WorkOncePerAdmission, OneReportPerAdmission, TypeOK
<1>11. HandleIsLive'
  BY <1>2 DEF HandleIsLive
<1>12. UseInv'
  <2>1. u # NoUse /\ u \in Nat
    BY <1>1 DEF Use, NoUse
  <2>2. \A v \in Use : v > u => fate'[v] = fate[v]
    <3>1. \A v \in Use : v > u => v # u
      BY <2>1 DEF Use
    <3> QED BY <1>1, <1>3, <3>1 DEF TypeOK
  <2>3. result.allowed => fate'[u] = "allowed"
    BY <1>1, <1>3 DEF TypeOK
  <2>5. \A v \in Use : v > use' =>
            fate'[v] = "none" /\ ran'[v] = 0 /\ sent'[v] = 0
    BY <1>1, <1>2, <2>2 DEF UseInv
  <2>6. \A i \in DOMAIN stack' : ~stack'[i].turned => stack'[i].of = use'
    BY <1>1, <1>2, <1>7
  <2>7. admitted' => use' # NoUse /\ fate'[use'] = "allowed" /\ ~active'
    BY <1>1, <1>2, <2>1, <2>3
  <2>8. ran'[use'] = 0 /\ sent'[use'] = 0 /\ live' = {} /\ ~latency_reported'
    BY <1>1, <1>2, <1>4, <1>8
  <2> QED BY <2>5, <2>6, <2>7, <2>8, Zenon DEF UseInv
<1> QED BY <1>9, <1>10, <1>11, <1>12

(* A callback or the protected work returns, with or without a report.     *)
LEMMA PopStep ==
    ASSUME IInv, stack # <<>>, stack' = Below,
           UNCHANGED <<request, live, history>>
    PROVE  IInv'
<1> USE DEF IInv
<1>1. UNCHANGED <<use, handle, active, admitted, work_executed,
                  latency_reported, outcome, live, fate, ran, sent>>
  BY DEF request, history
<1>2. /\ Below \in Seq(StackFrame)
      /\ \A i \in DOMAIN Below : i \in DOMAIN stack /\ Below[i] = stack[i]
  BY PopFacts DEF TypeOK
<1>3. TypeOK'
  BY <1>1, <1>2 DEF TypeOK
<1>4. WorkOncePerAdmission' /\ OneReportPerAdmission' /\ HandleIsLive'
  BY <1>1 DEF WorkOncePerAdmission, OneReportPerAdmission, HandleIsLive
<1>5. UseInv'
  BY <1>1, <1>2 DEF UseInv
<1> QED BY <1>3, <1>4, <1>5

(* A report that is sent is remembered, one that is not may be retried.    *)
LEMMA ReportStep ==
    ASSUME IInv, NEW ok \in BOOLEAN, MayReport, Report(ok),
           \/ UNCHANGED stack
           \/ stack # <<>> /\ stack' = Below
    PROVE  IInv'
<1> USE DEF IInv
<1>1. /\ UNCHANGED <<use, handle, active, admitted, work_executed, outcome,
                     live, fate, ran>>
      /\ latency_reported' = ok
      /\ sent' = IF ok THEN [sent EXCEPT ![use] = @ + 1] ELSE sent
  BY DEF Report
<1>2. /\ use \in Use /\ use # NoUse /\ fate[use] = "allowed" /\ sent[use] = 0
      /\ admitted /\ ~active
  BY DEF MayReport, UseInv, TypeOK, Use, NoUse
<1>3. use \notin live
  BY <1>2 DEF UseInv
<1>4. /\ sent' \in [Use -> Nat]
      /\ \A v \in Use \ {use} : sent'[v] = sent[v]
      /\ sent'[use] = IF ok THEN 1 ELSE 0
  BY <1>1, <1>2 DEF TypeOK
<1>5. /\ stack' \in Seq(StackFrame)
      /\ \A i \in DOMAIN stack' : i \in DOMAIN stack /\ stack'[i] = stack[i]
  BY PopFacts DEF TypeOK
<1>6. TypeOK'
  BY <1>1, <1>4, <1>5 DEF TypeOK
<1>7. WorkOncePerAdmission' /\ HandleIsLive'
  BY <1>1 DEF WorkOncePerAdmission, HandleIsLive
<1>8. OneReportPerAdmission'
  BY <1>1, <1>2, <1>4 DEF OneReportPerAdmission
<1>9. UseInv'
  <2>1. \A v \in Use : v > use => v # use
    BY <1>2 DEF Use
  <2>2. \A v \in Use : v > use => sent'[v] = 0
    BY <1>4, <2>1 DEF UseInv
  <2>3. \A v \in live : sent'[v] = 0
    BY <1>3, <1>4 DEF UseInv, TypeOK
  <2>4. ~latency_reported' => sent'[use] = 0
    BY <1>1, <1>4
  <2> QED BY <1>1, <1>2, <1>5, <2>2, <2>3, <2>4 DEF UseInv
<1> QED BY <1>6, <1>7, <1>8, <1>9

(* The protected work starts.                                              *)
LEMMA RunStep ==
    ASSUME IInv, RunWork
    PROVE  IInv'
<1> USE DEF IInv
<1> DEFINE top == Entered("work", use)
<1>1. /\ UNCHANGED <<use, handle, active, admitted, latency_reported, outcome,
                     live, fate, sent>>
      /\ work_executed' = TRUE
      /\ ran' = [ran EXCEPT ![use] = @ + 1]
      /\ stack' = Append(stack, top)
  BY DEF RunWork
<1>2. /\ use \in Use /\ use # NoUse /\ fate[use] = "allowed" /\ ran[use] = 0
      /\ admitted
  BY DEF RunWork, MayRun, UseInv, TypeOK, Use, NoUse
<1>3. use \notin live
  BY <1>2 DEF UseInv
<1>4. /\ ran' \in [Use -> Nat]
      /\ \A v \in Use \ {use} : ran'[v] = ran[v]
      /\ ran'[use] = 1
  BY <1>1, <1>2 DEF TypeOK
<1>5. top \in StackFrame /\ top.of = use
  BY <1>2 DEF StackFrame, Entered
<1> HIDE DEF top
<1>6. /\ stack' \in Seq(StackFrame)
      /\ \A i \in DOMAIN stack' :
            (i \in DOMAIN stack /\ stack'[i] = stack[i]) \/ stack'[i] = top
  BY <1>1, <1>5 DEF TypeOK
<1>7. TypeOK'
  BY <1>1, <1>4, <1>6 DEF TypeOK
<1>8. OneReportPerAdmission' /\ HandleIsLive'
  BY <1>1 DEF OneReportPerAdmission, HandleIsLive
<1>9. WorkOncePerAdmission'
  BY <1>1, <1>2, <1>4 DEF WorkOncePerAdmission
<1>10. UseInv'
  <2>1. \A v \in Use : v > use => v # use
    BY <1>2 DEF Use
  <2>2. \A v \in Use : v > use => ran'[v] = 0
    BY <1>4, <2>1 DEF UseInv
  <2>3. \A v \in live : ran'[v] = 0
    BY <1>3, <1>4 DEF UseInv, TypeOK
  <2>4. \A i \in DOMAIN stack' : ~stack'[i].turned => stack'[i].of = use
    BY <1>2, <1>5, <1>6 DEF UseInv
  <2> QED BY <1>1, <1>2, <2>2, <2>3, <2>4 DEF UseInv
<1> QED BY <1>7, <1>8, <1>9, <1>10

(* The application gives the request up.                                   *)
LEMMA CancelStep ==
    ASSUME IInv, Cancel
    PROVE  IInv'
<1> USE DEF IInv
<1>1. /\ active /\ handle # NoUse
      /\ live' = live \ {handle} /\ handle' = NoUse
      /\ active' = FALSE /\ admitted' = FALSE
      /\ fate' = [fate EXCEPT ![handle] = "canceled"]
      /\ UNCHANGED <<use, work_executed, latency_reported, outcome, stack, ran,
                     sent>>
  BY DEF Cancel
<1>2. handle = use /\ live = {use} /\ use \in Use
  BY <1>1 DEF HandleIsLive, TypeOK
<1>3. ran[use] = 0 /\ sent[use] = 0
  BY <1>2 DEF UseInv
<1>4. ~latency_reported
  BY <1>1 DEF UseInv
<1>5. /\ fate' \in [Use -> Fate]
      /\ \A v \in Use \ {use} : fate'[v] = fate[v]
  BY <1>1, <1>2 DEF TypeOK, Fate
<1>6. TypeOK'
  BY <1>1, <1>2, <1>5 DEF TypeOK
<1>7. HandleIsLive'
  BY <1>1, <1>2 DEF HandleIsLive
<1>8. WorkOncePerAdmission' /\ OneReportPerAdmission'
  BY <1>1, <1>3, <1>5
     DEF WorkOncePerAdmission, OneReportPerAdmission, TypeOK
<1>9. UseInv'
  <2>1. \A v \in Use : v > use => v # use
    BY <1>2 DEF Use
  <2>2. live' = {}
    BY <1>1, <1>2
  <2> QED BY <1>1, <1>4, <1>5, <2>1, <2>2 DEF UseInv
<1> QED BY <1>6, <1>7, <1>8, <1>9

-----------------------------------------------------------------------------
(* The flags of the object tell the history of its use in every state.     *)
THEOREM Bookkeeping == Spec => []IInv
<1>1. Init => IInv
  <2> SUFFICES ASSUME Init PROVE IInv
    OBVIOUS
  <2>1. TypeOK
    <3>1. NoOutcome \in OutcomeType
      BY DEF NoOutcome, OutcomeType, Decision
    <3>2. stack \in Seq(StackFrame)
      BY DEF Init
    <3> QED BY <3>1, <3>2 DEF Init, TypeOK, OutcomeType, Fate
  <2>2. WorkOncePerAdmission /\ OneReportPerAdmission /\ HandleIsLive
    BY DEF Init, WorkOncePerAdmission, OneReportPerAdmission, HandleIsLive
  <2>3. UseInv
    BY DEF Init, UseInv
  <2> QED BY <2>1, <2>2, <2>3 DEF IInv
<1>2. IInv /\ [Next]_vars => IInv'
  <2> SUFFICES ASSUME IInv, [Next]_vars PROVE IInv'
    OBVIOUS
  <2>1. CASE StartAccepted \/ StartRefused
    BY <2>1, StartStep
  <2>2. CASE Cancel
    BY <2>2, CancelStep
  <2>3. ASSUME NEW u \in live, Failed(u) PROVE IInv'
    <3>1. NoOutcome \in OutcomeType
      BY DEF NoOutcome, OutcomeType, Decision
    <3> QED BY <2>3, <3>1, CompletesStep DEF Failed
  <2>4. ASSUME NEW u \in live, NEW answer \in Parsed, Answered(u, answer)
        PROVE  IInv'
    <3>1. answer \in Answer
      BY DEF Parsed
    <3> QED BY <2>4, <3>1, ClassifyType, CompletesStep DEF Answered
  <2>5. CASE CallbackReturns \/ WorkFails
    BY <2>5, PopStep DEF CallbackReturns, WorkFails, InWork
  <2>6. CASE RunWork
    BY <2>6, RunStep
  <2>7. ASSUME NEW ok \in BOOLEAN, WorkSucceeds(ok) PROVE IInv'
    BY <2>7, PopStep, ReportStep DEF WorkSucceeds, InWork
  <2>8. ASSUME NEW ok \in BOOLEAN, ReportLatency(ok) PROVE IInv'
    BY <2>8, ReportStep DEF ReportLatency
  <2>9. CASE UNCHANGED vars
    BY <2>9 DEF vars, request, history, IInv, TypeOK, WorkOncePerAdmission,
                OneReportPerAdmission, HandleIsLive, UseInv
  <2> QED
    BY <2>1, <2>2, <2>3, <2>4, <2>5, <2>6, <2>7, <2>8, <2>9 DEF Next
<1> QED BY <1>1, <1>2, PTL DEF Spec

(* Protected work starts at most once per admission and only when the      *)
(* servers allowed it (r_runtime_admission_run_and_report).                *)
THEOREM WorkOnce == Spec => []WorkOncePerAdmission
<1>1. IInv => WorkOncePerAdmission
  BY DEF IInv
<1> QED BY <1>1, Bookkeeping, PTL

(* At most one report is sent per admission and only when the servers      *)
(* allowed it (r_client_admission_report_latency).                         *)
THEOREM ReportOnce == Spec => []OneReportPerAdmission
<1>1. IInv => OneReportPerAdmission
  BY DEF IInv
<1> QED BY <1>1, Bookkeeping, PTL

(* The handle kept in the object is never that of a request that has ended *)
(* (r_admission_complete, r_client_admission_cancel).                      *)
THEOREM NoDanglingHandle == Spec => []HandleIsLive
<1>1. IInv => HandleIsLive
  BY DEF IInv
<1> QED BY <1>1, Bookkeeping, PTL

(* A measurement is reported only for the admission whose work was         *)
(* measured, unless that work let the event loop complete requests         *)
(* (r_runtime_admission_run_and_report).                                   *)
THEOREM OwnWork == Spec => ReportsOwnWork
<1> DEFINE Own == \A u \in Use : sent'[u] > sent[u] /\ stack' # stack
                                        /\ ~Top.turned => Top.of = u
<1>1. IInv /\ [Next]_vars => [Own]_vars
  <2> SUFFICES ASSUME IInv, Next, NEW u \in Use, sent'[u] > sent[u],
                      stack' # stack, ~Top.turned
               PROVE  Top.of = u
    OBVIOUS
  <2>1. sent[u] \in Nat
    BY DEF IInv, TypeOK
  <2>2. PICK ok \in BOOLEAN : WorkSucceeds(ok) /\ MayReport /\ Report(ok)
    <3>1. sent' # sent
      BY <2>1
    <3> QED
      BY <3>1 DEF Next, StartAccepted, StartRefused, Cancel, Failed, Answered,
         Completes, CallbackReturns, RunWork, WorkFails, WorkSucceeds,
         ReportLatency, history
  <2>3. u = use
    BY <2>1, <2>2 DEF Report, IInv, TypeOK
  <2>4. stack # <<>> /\ admitted
    BY <2>2 DEF WorkSucceeds, InWork, MayReport
  <2>5. Len(stack) \in DOMAIN stack
    BY <2>4 DEF IInv, TypeOK
  <2> QED BY <2>3, <2>4, <2>5 DEF IInv, UseInv, Top
<1>2. Spec => [][Next]_vars
  BY DEF Spec
<1> QED BY <1>1, <1>2, Bookkeeping, PTL DEF ReportsOwnWork

-----------------------------------------------------------------------------
(* Startup.                                                                *)

(* What each program holds at each place: at most the buffers of the       *)
(* decoder that are in use there, and either nothing more (the inspector,  *)
(* and the load generator before it has a client) or a client with its     *)
(* copy of the key and what its host opened for it.                        *)
DecoderHolds(buffers) ==
    \/ "client" \notin heap /\ heap \subseteq buffers
    \/ /\ "client" \in heap /\ "secret" \in heap /\ host # "inspector"
       /\ heap \subseteq buffers \cup {"client", "secret"} \cup HostParts

ClientHolds(parts, more) ==
    /\ parts \subseteq heap
    /\ heap \subseteq parts \cup more \cup HostParts

DecoderInv ==
    /\ pc \in {"text", "copy", "decoded", "failed"} => DecoderHolds({})
    /\ pc \in {"separator", "data"} => DecoderHolds({"copy"})
    /\ pc \in {"alphabet", "values", "payload"} => DecoderHolds({"copy", "data"})
    /\ pc = "sum" => DecoderHolds({"copy", "data", "values"})
    /\ pc \in {"bits", "prefix", "length", "version", "quotas"} =>
          DecoderHolds({"copy", "data", "payload"})

HeapInv ==
    /\ DecoderInv
    /\ ending \in {"refused", "closed"}
    /\ pc \in {"start", "options", "refused", "closed", "inspected"} => heap = {}
    /\ pc \in {"options", "open4", "open6", "opened"} => host = "runtime"
    /\ pc \in {"open4", "cacheTenant"} => heap = {}
    /\ pc \in {"open6", "opened", "freeHost"} => heap \subseteq HostParts
    /\ pc \in {"cacheTenant", "resolver", "cacheName", "entries", "filled"} =>
          host = "perf" /\ heap \subseteq CacheParts \cup {"resolver"}
    /\ pc = "resolver" => heap \subseteq CacheParts
    /\ pc = "create" => heap \subseteq HostParts /\ host # "inspector"
    /\ pc = "secret" => ClientHolds({"client"}, {}) /\ host # "inspector"
    /\ pc = "name" => ClientHolds({"client", "secret"}, {})
    /\ pc \in {"made", "query", "lookup"} => ClientHolds({"client", "secret", "dns"}, {})
    /\ pc = "up" => ClientHolds({"client", "secret", "dns"}, {"servers"})
    /\ pc = "freeServers" => ClientHolds({}, {"client", "secret", "dns", "servers"})
    /\ pc = "freeName" => ClientHolds({}, {"client", "secret", "dns"})
    /\ pc = "freeSecret" => ClientHolds({}, {"client", "secret"})
    /\ pc = "freeClient" => ClientHolds({}, {"client"})

LEMMA StartupStarts == StartupInit => HeapInv
  BY DEF StartupInit, HeapInv, DecoderInv

(* The steps of the decoder: what it allocates it holds, and gives back on *)
(* each of its returns.                                                    *)
LEMMA DecoderKeeps ==
    ASSUME HeapInv, Decode
    PROVE  HeapInv'
<1>1. host' = host /\ HostParts' = HostParts /\ ending' = ending
  BY DEF Decode, HostParts
<1>2. ending' \in {"refused", "closed"}
  BY <1>1 DEF HeapInv
<1>3. DecoderInv
  BY DEF HeapInv
<1>4. CASE ReadText
  <2>1. DecoderHolds({})
    BY <1>3, <1>4 DEF ReadText, Test, DecoderInv
  <2>2. \/ pc' = "copy" /\ DecoderHolds({})'
        \/ pc' = "failed" /\ DecoderHolds({})'
    BY <1>1, <1>4, <2>1 DEF ReadText, Test, DecoderHolds
  <2> QED BY <1>2, <2>2 DEF HeapInv, DecoderInv
<1>5. CASE CopyText
  <2>1. DecoderHolds({})
    BY <1>3, <1>5 DEF CopyText, Acquire, DecoderInv
  <2>2. \/ pc' = "separator" /\ DecoderHolds({"copy"})'
        \/ pc' = "failed" /\ DecoderHolds({})'
    BY <1>1, <1>5, <2>1 DEF CopyText, Acquire, DecoderHolds
  <2> QED BY <1>2, <2>2 DEF HeapInv, DecoderInv
<1>6. CASE SplitText
  <2>1. DecoderHolds({"copy"})
    BY <1>3, <1>6 DEF SplitText, Test, DecoderInv
  <2>2. \/ pc' = "data" /\ DecoderHolds({"copy"})'
        \/ pc' = "failed" /\ DecoderHolds({})'
    BY <1>1, <1>6, <2>1 DEF SplitText, Test, DecoderHolds
  <2> QED BY <1>2, <2>2 DEF HeapInv, DecoderInv
<1>7. CASE AllocateData
  <2>1. DecoderHolds({"copy"})
    BY <1>3, <1>7 DEF AllocateData, Acquire, DecoderInv
  <2>2. \/ pc' = "alphabet" /\ DecoderHolds({"copy", "data"})'
        \/ pc' = "failed" /\ DecoderHolds({})'
    BY <1>1, <1>7, <2>1 DEF AllocateData, Acquire, DecoderHolds
  <2> QED BY <1>2, <2>2 DEF HeapInv, DecoderInv
<1>8. CASE ReadData
  <2>1. DecoderHolds({"copy", "data"})
    BY <1>3, <1>8 DEF ReadData, Test, DecoderInv
  <2>2. \/ pc' = "values" /\ DecoderHolds({"copy", "data"})'
        \/ pc' = "failed" /\ DecoderHolds({})'
    BY <1>1, <1>8, <2>1 DEF ReadData, Test, DecoderHolds
  <2> QED BY <1>2, <2>2 DEF HeapInv, DecoderInv
<1>9. CASE AllocateValues
  <2>1. DecoderHolds({"copy", "data"})
    BY <1>3, <1>9 DEF AllocateValues, Acquire, DecoderInv
  <2>2. \/ pc' = "sum" /\ DecoderHolds({"copy", "data", "values"})'
        \/ pc' = "failed" /\ DecoderHolds({})'
    BY <1>1, <1>9, <2>1 DEF AllocateValues, Acquire, DecoderHolds
  <2> QED BY <1>2, <2>2 DEF HeapInv, DecoderInv
<1>10. CASE VerifyChecksum
  <2>1. DecoderHolds({"copy", "data", "values"})
    BY <1>3, <1>10 DEF VerifyChecksum, Free, DecoderInv
  <2>2. \/ pc' = "payload" /\ DecoderHolds({"copy", "data"})'
        \/ pc' = "failed" /\ DecoderHolds({})'
    BY <1>1, <1>10, <2>1 DEF VerifyChecksum, Free, DecoderHolds
  <2> QED BY <1>2, <2>2 DEF HeapInv, DecoderInv
<1>11. CASE AllocatePayload
  <2>1. DecoderHolds({"copy", "data"})
    BY <1>3, <1>11 DEF AllocatePayload, Acquire, DecoderInv
  <2>2. \/ pc' = "bits" /\ DecoderHolds({"copy", "data", "payload"})'
        \/ pc' = "failed" /\ DecoderHolds({})'
    BY <1>1, <1>11, <2>1 DEF AllocatePayload, Acquire, DecoderHolds
  <2> QED BY <1>2, <2>2 DEF HeapInv, DecoderInv
<1>12. CASE ConvertBits
  <2>1. DecoderHolds({"copy", "data", "payload"})
    BY <1>3, <1>12 DEF ConvertBits, PayloadTest, Test, DecoderInv
  <2>2. \/ pc' = "prefix" /\ DecoderHolds({"copy", "data", "payload"})'
        \/ pc' = "failed" /\ DecoderHolds({})'
    BY <1>1, <1>12, <2>1 DEF ConvertBits, PayloadTest, Test, DecoderHolds
  <2> QED BY <1>2, <2>2 DEF HeapInv, DecoderInv
<1>13. CASE MatchPrefix
  <2>1. DecoderHolds({"copy", "data", "payload"})
    BY <1>3, <1>13 DEF MatchPrefix, PayloadTest, Test, DecoderInv
  <2>2. \/ pc' = "length" /\ DecoderHolds({"copy", "data", "payload"})'
        \/ pc' = "failed" /\ DecoderHolds({})'
    BY <1>1, <1>13, <2>1 DEF MatchPrefix, PayloadTest, Test, DecoderHolds
  <2> QED BY <1>2, <2>2 DEF HeapInv, DecoderInv
<1>14. CASE MatchLength
  <2>1. DecoderHolds({"copy", "data", "payload"})
    BY <1>3, <1>14 DEF MatchLength, PayloadTest, Test, DecoderInv
  <2>2. \/ pc' = "version" /\ DecoderHolds({"copy", "data", "payload"})'
        \/ pc' = "failed" /\ DecoderHolds({})'
    BY <1>1, <1>14, <2>1 DEF MatchLength, PayloadTest, Test, DecoderHolds
  <2> QED BY <1>2, <2>2 DEF HeapInv, DecoderInv
<1>15. CASE MatchVersion
  <2>1. DecoderHolds({"copy", "data", "payload"})
    BY <1>3, <1>15 DEF MatchVersion, PayloadTest, Test, DecoderInv
  <2>2. \/ pc' = "quotas" /\ DecoderHolds({"copy", "data", "payload"})'
        \/ pc' = "failed" /\ DecoderHolds({})'
    BY <1>1, <1>15, <2>1 DEF MatchVersion, PayloadTest, Test, DecoderHolds
  <2> QED BY <1>2, <2>2 DEF HeapInv, DecoderInv
<1>16. CASE ReadQuotas
  <2>1. DecoderHolds({"copy", "data", "payload"})
    BY <1>3, <1>16 DEF ReadQuotas, Free, DecoderInv
  <2>2. \/ pc' = "decoded" /\ DecoderHolds({})'
        \/ pc' = "failed" /\ DecoderHolds({})'
    BY <1>1, <1>16, <2>1 DEF ReadQuotas, Free, DecoderHolds
  <2> QED BY <1>2, <2>2 DEF HeapInv, DecoderInv
<1> QED BY <1>4, <1>5, <1>6, <1>7, <1>8, <1>9, <1>10, <1>11, <1>12, <1>13, <1>14, <1>15, <1>16 DEF Decode

(* The steps of r_client_create. *)
LEMMA CreateKeeps ==
    ASSUME HeapInv,
           Create \/ CopySecret \/ ConfigureAuth \/ ConfigureDns \/ DecodeFails
    PROVE  HeapInv'
<1>1. host' = host /\ HostParts' = HostParts /\ ending' = ending
  BY DEF Create, CopySecret, ConfigureAuth, ConfigureDns, DecodeFails, HostParts
<1>2. ending' \in {"refused", "closed"}
  BY <1>1 DEF HeapInv
<1>3. CASE Create
  <2>1. heap \subseteq HostParts /\ host # "inspector"
    BY <1>3 DEF Create, HeapInv
  <2>2. \/ pc' = "secret" /\ heap' = heap \cup {"client"}
        \/ pc' = "freeHost" /\ heap' = heap
    BY <1>3 DEF Create, Acquire
  <2> QED BY <1>1, <1>2, <2>1, <2>2 DEF HeapInv, DecoderInv, ClientHolds
<1>4. CASE CopySecret
  <2>1. ClientHolds({"client"}, {}) /\ host # "inspector"
    BY <1>4 DEF CopySecret, Acquire, HeapInv
  <2>2. \/ pc' = "text" /\ heap' = heap \cup {"secret"}
        \/ pc' = "freeServers" /\ heap' = heap
    BY <1>4 DEF CopySecret, Acquire
  <2>3. CASE pc' = "text" /\ heap' = heap \cup {"secret"}
    <3>1. DecoderHolds({})'
      BY <1>1, <2>1, <2>3 DEF ClientHolds, DecoderHolds
    <3> QED BY <1>2, <2>3, <3>1 DEF HeapInv, DecoderInv
  <2>4. CASE pc' = "freeServers" /\ heap' = heap
    BY <1>1, <1>2, <2>1, <2>4 DEF HeapInv, DecoderInv, ClientHolds
  <2> QED BY <2>2, <2>3, <2>4
<1>5. CASE ConfigureAuth
  <2>1. DecoderHolds({}) /\ "client" \in heap
    BY <1>5 DEF ConfigureAuth, Test, HeapInv, DecoderInv
  <2>2. heap' = heap /\ pc' \in {"name", "freeServers"}
    BY <1>5 DEF ConfigureAuth, Test
  <2> QED BY <1>1, <1>2, <2>1, <2>2
    DEF HeapInv, DecoderInv, DecoderHolds, ClientHolds
<1>6. CASE ConfigureDns
  <2>1. ClientHolds({"client", "secret"}, {})
    BY <1>6 DEF ConfigureDns, Acquire, HeapInv
  <2>2. \/ pc' = "made" /\ heap' = heap \cup {"dns"}
        \/ pc' = "freeServers" /\ heap' = heap
    BY <1>6 DEF ConfigureDns, Acquire
  <2> QED BY <1>1, <1>2, <2>1, <2>2 DEF HeapInv, DecoderInv, ClientHolds
<1>7. CASE DecodeFails
  <2>1. DecoderHolds({}) /\ heap' = heap
    BY <1>7 DEF DecodeFails, HeapInv, DecoderInv
  <2>2. pc' = IF "client" \in heap THEN "freeServers" ELSE "refused"
    BY <1>7 DEF DecodeFails
  <2> QED BY <1>1, <1>2, <2>1, <2>2
    DEF HeapInv, DecoderInv, DecoderHolds, ClientHolds
<1> QED
  BY <1>3, <1>4, <1>5, <1>6, <1>7

(* What the hosts open before they have a client. *)
LEMMA HostKeeps ==
    ASSUME HeapInv,
           \/ ReadEnvironment \/ InitRuntime \/ OpenIpv4 \/ OpenIpv6
           \/ CountSockets \/ ParseAuthKey \/ Inspected \/ BuildCache
           \/ \E named \in BOOLEAN : NoteKey(named)
    PROVE  HeapInv'
<1>1. host' = host /\ HostParts' = HostParts /\ ending' = ending
  BY DEF ReadEnvironment, InitRuntime, OpenIpv4, OpenIpv6, OpenSocket,
     CountSockets, ParseAuthKey, Inspected, BuildCache, NoteKey, HostParts
<1>2. ending' \in {"refused", "closed"}
  BY <1>1 DEF HeapInv
<1>3. host = "runtime" => HostParts = {"sock4", "sock6"}
  BY DEF HostParts
<1>4. host = "perf" => HostParts = CacheParts
  BY DEF HostParts
<1>5. CASE ReadEnvironment \/ InitRuntime
  <2>1. /\ heap = {} /\ heap' = heap /\ host = "runtime"
        /\ pc' \in {"options", "refused", "open4", "freeHost"}
    BY <1>5 DEF ReadEnvironment, InitRuntime, HeapInv
  <2> QED BY <1>1, <1>2, <2>1 DEF HeapInv, DecoderInv
<1>6. CASE OpenIpv4 \/ OpenIpv6 \/ CountSockets
  <2>1. heap \subseteq HostParts /\ host = "runtime"
    BY <1>6 DEF OpenIpv4, OpenIpv6, OpenSocket, CountSockets, HeapInv
  <2>2. /\ pc' \in {"open6", "opened", "create", "freeHost"}
        /\ heap' \in {heap, heap \cup {"sock4"}, heap \cup {"sock6"}}
    BY <1>6 DEF OpenIpv4, OpenIpv6, OpenSocket, CountSockets
  <2> QED BY <1>1, <1>2, <1>3, <2>1, <2>2 DEF HeapInv, DecoderInv
<1>7. CASE ParseAuthKey
  <2>1. heap = {} /\ pc' = "text" /\ heap' = heap
    BY <1>7 DEF ParseAuthKey, HeapInv
  <2> QED BY <1>2, <2>1 DEF HeapInv, DecoderInv, DecoderHolds
<1>8. CASE Inspected
  <2>1. DecoderHolds({}) /\ host = "inspector" /\ pc' = "inspected" /\ heap' = heap
    BY <1>8 DEF Inspected, HeapInv, DecoderInv
  <2>2. heap' = {}
    BY <2>1 DEF DecoderHolds
  <2> QED BY <1>2, <2>1, <2>2 DEF HeapInv, DecoderInv
<1>9. CASE \E named \in BOOLEAN : NoteKey(named)
  <2>1. /\ DecoderHolds({}) /\ host = "perf" /\ "client" \notin heap
        /\ pc' = "cacheTenant" /\ heap' = heap
    BY <1>9 DEF NoteKey, HeapInv, DecoderInv
  <2>2. heap' = {}
    BY <2>1 DEF DecoderHolds
  <2> QED BY <1>1, <1>2, <2>1, <2>2 DEF HeapInv, DecoderInv
<1>10. CASE BuildCache
  <2>1. host = "perf" /\ heap \subseteq CacheParts \cup {"resolver"}
    BY <1>10 DEF BuildCache, CacheTenant, OpenResolver, CacheName, CacheEntries,
       CacheFilled, Acquire, Free, HeapInv
  <2>2. \/ pc' = "refused" /\ heap' = {}
        \/ pc' = "resolver" /\ heap' \subseteq CacheParts
        \/ /\ pc' \in {"cacheName", "entries", "filled"}
           /\ heap' \subseteq CacheParts \cup {"resolver"}
        \/ pc' = "create" /\ heap' \subseteq CacheParts
    <3>1. CASE CacheTenant
      BY <2>1, <3>1 DEF CacheTenant, Acquire, CacheParts, HeapInv
    <3>2. CASE OpenResolver
      BY <2>1, <3>2 DEF OpenResolver, Acquire, CacheParts, HeapInv
    <3>3. CASE CacheName \/ CacheEntries
      BY <2>1, <3>3 DEF CacheName, CacheEntries, Acquire, CacheParts
    <3>4. CASE CacheFilled
      BY <2>1, <3>4 DEF CacheFilled, Free, CacheParts
    <3> QED BY <1>10, <3>1, <3>2, <3>3, <3>4 DEF BuildCache
  <2> QED BY <1>1, <1>2, <1>4, <2>1, <2>2 DEF HeapInv, DecoderInv
<1> QED
  BY <1>5, <1>6, <1>7, <1>8, <1>9, <1>10

(* The first discovery, and the end. *)
LEMMA ClientKeeps ==
    ASSUME HeapInv,
           \/ \E m \in BOOLEAN : StartRefresh(m)
           \/ QuerySrv
           \/ \E m, lost \in BOOLEAN : LookUp(m, lost)
           \/ FinishRefresh \/ Destroy \/ Release
    PROVE  HeapInv'
<1>1. host' = host /\ HostParts' = HostParts
  BY DEF StartRefresh, QuerySrv, LookUp, FinishRefresh, Destroy, Release, HostParts
<1>2. ending' \in {"refused", "closed"}
  BY DEF HeapInv, StartRefresh, QuerySrv, LookUp, FinishRefresh, Destroy, Release
<1>3. CASE \/ \E m \in BOOLEAN : StartRefresh(m)
           \/ QuerySrv \/ \E m, lost \in BOOLEAN : LookUp(m, lost)
  <2>1. /\ ClientHolds({"client", "secret", "dns"}, {})
        /\ pc' \in {"query", "lookup", "up"} /\ heap' = heap
    BY <1>3 DEF StartRefresh, QuerySrv, LookUp, HeapInv
  <2> QED BY <1>1, <1>2, <2>1 DEF HeapInv, DecoderInv, ClientHolds
<1>4. CASE FinishRefresh
  <2>1. /\ ClientHolds({"client", "secret", "dns"}, {})
        /\ pc' = "up" /\ heap' \in {heap, heap \cup {"servers"}}
    BY <1>4 DEF FinishRefresh, HeapInv
  <2> QED BY <1>1, <1>2, <2>1 DEF HeapInv, DecoderInv, ClientHolds
<1>5. CASE Destroy
  <2>1. /\ ClientHolds({"client", "secret", "dns"}, {"servers"})
        /\ pc' = "freeServers" /\ heap' = heap
    BY <1>5 DEF Destroy, HeapInv
  <2> QED BY <1>1, <1>2, <2>1 DEF HeapInv, DecoderInv, ClientHolds
<1>6. CASE Release
  <2>1. CASE FreeServers \/ FreeName \/ FreeSecret \/ FreeClient
    BY <1>1, <1>2, <2>1 DEF FreeServers, FreeName, FreeSecret, FreeClient, Free,
       HeapInv, DecoderInv, ClientHolds
  <2>2. CASE FreeHost
    <3>1. heap' = {} /\ pc' \in {"refused", "closed"}
      BY <2>2 DEF FreeHost, Free, HeapInv
    <3> QED BY <1>1, <1>2, <3>1 DEF HeapInv, DecoderInv
  <2> QED BY <1>6, <2>1, <2>2 DEF Release
<1> QED
  BY <1>3, <1>4, <1>5, <1>6

LEMMA StartupKeeps == HeapInv /\ [StartupNext]_startupVars => HeapInv'
<1> SUFFICES ASSUME HeapInv, [StartupNext]_startupVars PROVE HeapInv'
  OBVIOUS
<1>1. CASE UNCHANGED startupVars
  BY <1>1 DEF startupVars, HeapInv, DecoderInv, DecoderHolds, ClientHolds, HostParts
<1>2. CASE Ended
  BY <1>1, <1>2 DEF Ended
<1> QED
  BY <1>1, <1>2, HostKeeps, DecoderKeeps, CreateKeeps, ClientKeeps DEF StartupNext

(* For any environments, keys, claims and answers: whichever allocation,   *)
(* socket or check fails first, a program that was refused holds nothing,  *)
(* a destroyed client leaves nothing, and a client that was made holds its *)
(* own copies and no buffer of the decoder (the decoder's early returns,   *)
(* r_client_create, r_runtime_client_init, r_client_destroy).              *)
THEOREM RefusalsReleaseAll == StartupSpec => []RefusalReleasesAll
<1>1. HeapInv => RefusalReleasesAll
  BY DEF HeapInv, ClientHolds, HostParts, CacheParts, RefusalReleasesAll,
     DecodeBuffers
<1> QED
  BY <1>1, StartupStarts, StartupKeeps, PTL DEF StartupSpec

-----------------------------------------------------------------------------
(* Loops over texts *)

\* A set of numbers that holds 0 and with each number the next one holds all.
LEMMA Induction ==
    ASSUME NEW G, 0 \in G, \A n \in Nat : n \in G => n + 1 \in G
    PROVE  \A n \in Nat : n \in G
<1> SUFFICES ASSUME NEW m \in Nat, m \notin G PROVE FALSE
  OBVIOUS
<1>1. IsWellFoundedOn(OpToRel(<, Nat), Nat)
  BY NatLessThanWellFounded
<1> DEFINE B == {n \in Nat : n \notin G}
<1>2. PICK x \in B : \A y \in B : <<y, x>> \notin OpToRel(<, Nat)
  <2>1. B # {} /\ B \subseteq Nat
    OBVIOUS
  <2> QED BY <1>1, <2>1, WFMin
<1>3. x # 0 /\ x \in Nat
  OBVIOUS
<1>4. x - 1 \in B
  BY <1>3
<1>5. <<x - 1, x>> \in OpToRel(<, Nat)
  BY <1>3 DEF OpToRel
<1> QED BY <1>2, <1>4, <1>5

\* A loop over a text, one turn at a time.
LEMMA Turns ==
    ASSUME NEW turn, NEW text
    PROVE  /\ AfterTurns(turn, text, 0) = 0
           /\ \A k \in Nat : AfterTurns(turn, text, k + 1)
                                = turn[AfterTurns(turn, text, k)][text[k + 1]]
<1> DEFINE IsS(h, k) == h = [i \in 0 .. k |-> IF i = 0 THEN 0 ELSE turn[h[i - 1]][text[i]]]
           S(k) == CHOOSE h : IsS(h, k)
<1>1. ASSUME NEW k \in Nat PROVE AfterTurns(turn, text, k) = S(k)[k]
  BY DEF AfterTurns
<1>2. ASSUME NEW k \in Nat PROVE IsS(S(k), k)
  <2> DEFINE G == {n \in Nat : \E h : IsS(h, n)}
  <2>1. 0 \in G
    <3>1. IsS([i \in 0 .. 0 |-> 0], 0)
      OBVIOUS
    <3> HIDE DEF IsS
    <3> QED BY <3>1
  <2>2. ASSUME NEW n \in Nat, n \in G PROVE n + 1 \in G
    <3>1. PICK h : IsS(h, n)
      BY <2>2
    <3> DEFINE e == [i \in 0 .. n + 1 |-> IF i = n + 1 THEN turn[h[n]][text[n + 1]] ELSE h[i]]
    <3>2. ASSUME NEW i \in 0 .. n + 1
          PROVE  e[i] = IF i = 0 THEN 0 ELSE turn[e[i - 1]][text[i]]
      <4>1. CASE i = n + 1
        <5>1. n \in 0 .. n + 1 /\ n # n + 1 /\ i - 1 = n /\ i # 0
          BY <4>1
        <5>2. e[n] = h[n] /\ e[i] = turn[h[n]][text[n + 1]]
          BY <4>1, <5>1
        <5> HIDE DEF e
        <5> QED BY <4>1, <5>1, <5>2
      <4>2. CASE i # n + 1
        <5>1. i \in 0 .. n /\ e[i] = h[i]
          BY <4>2
        <5>2. h[i] = IF i = 0 THEN 0 ELSE turn[h[i - 1]][text[i]]
          BY <3>1, <5>1
        <5>3. i # 0 => e[i - 1] = h[i - 1]
          BY <5>1
        <5> QED BY <5>1, <5>2, <5>3
      <4> QED BY <4>1, <4>2
    <3>3. e = [i \in 0 .. n + 1 |-> e[i]]
      OBVIOUS
    <3>4. IsS(e, n + 1)
      <4> HIDE DEF e
      <4> QED BY <3>2, <3>3
    <3> HIDE DEF IsS, e
    <3> QED BY <3>4
  <2> HIDE DEF G
  <2>3. k \in G
    BY <2>1, <2>2, Induction
  <2> HIDE DEF IsS
  <2> QED BY <2>3 DEF G
<1>3. ASSUME NEW k \in Nat, NEW i \in 0 .. k PROVE S(k)[i] = S(k + 1)[i]
  <2> HIDE DEF S
  <2> DEFINE G == {n \in Nat : n <= k => S(k)[n] = S(k + 1)[n]}
  <2>0. IsS(S(k), k) /\ IsS(S(k + 1), k + 1)
    <3>1. k + 1 \in Nat
      OBVIOUS
    <3> HIDE DEF IsS
    <3> QED BY <1>2, <3>1
  <2>1. \A n \in 0 .. k : S(k)[n] = IF n = 0 THEN 0 ELSE turn[S(k)[n - 1]][text[n]]
    BY <2>0
  <2>2. \A n \in 0 .. k + 1 :
            S(k + 1)[n] = IF n = 0 THEN 0 ELSE turn[S(k + 1)[n - 1]][text[n]]
    BY <2>0
  <2>3. 0 \in G
    <3>1. 0 \in 0 .. k /\ 0 \in 0 .. k + 1
      OBVIOUS
    <3>2. S(k)[0] = 0 /\ S(k + 1)[0] = 0
      BY <2>1, <2>2, <3>1
    <3> QED BY <3>2
  <2>4. ASSUME NEW n \in Nat, n \in G PROVE n + 1 \in G
    <3> SUFFICES ASSUME n + 1 <= k PROVE S(k)[n + 1] = S(k + 1)[n + 1]
      OBVIOUS
    <3>1. S(k)[n] = S(k + 1)[n]
      BY <2>4
    <3>2. n + 1 \in 0 .. k /\ n + 1 \in 0 .. k + 1 /\ n + 1 # 0 /\ (n + 1) - 1 = n
      OBVIOUS
    <3> QED BY <2>1, <2>2, <3>1, <3>2
  <2> HIDE DEF G
  <2>5. i \in G
    BY <2>3, <2>4, Induction
  <2> QED BY <2>5 DEF G
<1>4. AfterTurns(turn, text, 0) = 0
  <2> HIDE DEF S
  <2>1. AfterTurns(turn, text, 0) = S(0)[0] /\ IsS(S(0), 0)
    BY <1>1, <1>2
  <2> QED BY <2>1
<1>5. ASSUME NEW k \in Nat
      PROVE  AfterTurns(turn, text, k + 1) = turn[AfterTurns(turn, text, k)][text[k + 1]]
  <2> HIDE DEF S
  <2>1. k + 1 \in Nat /\ k \in 0 .. k
    OBVIOUS
  <2>2. AfterTurns(turn, text, k) = S(k)[k] /\ AfterTurns(turn, text, k + 1) = S(k + 1)[k + 1]
    BY <1>1, <2>1
  <2>3. S(k)[k] = S(k + 1)[k]
    BY <1>3, <2>1
  <2>4. S(k + 1) = [i \in 0 .. k + 1 |-> IF i = 0 THEN 0
                                         ELSE turn[S(k + 1)[i - 1]][text[i]]]
    BY <1>2, <2>1
  <2>5. S(k + 1)[k + 1] = turn[S(k + 1)[k]][text[k + 1]]
    BY <2>4
  <2> QED BY <2>2, <2>3, <2>5
<1> QED BY <1>4, <1>5

-----------------------------------------------------------------------------
(* Numbers in texts *)

\* The number that the first n characters of a text stand for.
ValueOf(text, n) == AfterTurns([v \in Int |-> [c \in Int |-> 10 * v + c]], text, n)

\* Whether they are all digits.
DigitsTo(text, n) == \A i \in 1 .. n : text[i] \in Digit

LEMMA ValueSteps ==
    ASSUME NEW text \in Seq(Char)
    PROVE  /\ ValueOf(text, 0) = 0
           /\ \A n \in 0 .. Len(text) : ValueOf(text, n) \in Nat
           /\ \A n \in 0 .. Len(text) - 1 :
                  /\ text[n + 1] \in Char
                  /\ ValueOf(text, n + 1) = 10 * ValueOf(text, n) + text[n + 1]
<1> DEFINE turn == [v \in Int |-> [c \in Int |-> 10 * v + c]]
           G == {n \in Nat : n <= Len(text) => ValueOf(text, n) \in Nat}
<1>1. /\ ValueOf(text, 0) = 0
      /\ \A k \in Nat : ValueOf(text, k + 1) = turn[ValueOf(text, k)][text[k + 1]]
  <2> HIDE DEF turn
  <2>1. \A n : ValueOf(text, n) = AfterTurns(turn, text, n)
    BY DEF ValueOf, turn
  <2> QED BY <2>1, Turns
<1>2. ASSUME NEW n \in 0 .. Len(text) - 1 PROVE text[n + 1] \in Char /\ text[n + 1] \in Nat
  <2>1. n + 1 \in 1 .. Len(text)
    OBVIOUS
  <2> QED BY <2>1 DEF Char, Digit, Minus, Plus, Blank, Letter
<1>3. ASSUME NEW n \in Nat, ValueOf(text, n) \in Nat, n < Len(text)
      PROVE  ValueOf(text, n + 1) = 10 * ValueOf(text, n) + text[n + 1]
  <2>1. n \in 0 .. Len(text) - 1
    BY <1>3
  <2>2. text[n + 1] \in Int /\ ValueOf(text, n) \in Int
    BY <1>2, <1>3, <2>1
  <2>3. turn[ValueOf(text, n)][text[n + 1]] = 10 * ValueOf(text, n) + text[n + 1]
    BY <2>2
  <2> HIDE DEF turn
  <2> QED BY <1>1, <2>3
<1>4. 0 \in G
  BY <1>1
<1>5. ASSUME NEW n \in Nat, n \in G PROVE n + 1 \in G
  <2> SUFFICES ASSUME n + 1 <= Len(text) PROVE ValueOf(text, n + 1) \in Nat
    OBVIOUS
  <2>1. n < Len(text) /\ n \in 0 .. Len(text) - 1 /\ ValueOf(text, n) \in Nat
    BY <1>5
  <2>2. text[n + 1] \in Nat
    BY <1>2, <2>1
  <2> QED BY <1>3, <2>1, <2>2
<1> HIDE DEF G
<1>6. \A n \in Nat : n \in G
  BY <1>4, <1>5, Induction
<1>7. ASSUME NEW n \in 0 .. Len(text) PROVE ValueOf(text, n) \in Nat
  BY <1>6 DEF G
<1>8. ASSUME NEW n \in 0 .. Len(text) - 1
      PROVE  ValueOf(text, n + 1) = 10 * ValueOf(text, n) + text[n + 1]
  BY <1>3, <1>7
<1> HIDE DEF turn
<1> QED BY <1>1, <1>2, <1>7, <1>8

\* One more digit carries a number over the limit exactly if the code's
\* comparison of quotient and remainder says so.
LEMMA DigitFits ==
    ASSUME NEW max \in Nat, NEW v \in Nat, NEW c \in Digit
    PROVE  (v > max \div 10 \/ (v = max \div 10 /\ c > max % 10)) <=> 10 * v + c > max
  BY DEF Digit

\* runtime_parse_u64 reads numerals up to its limit and refuses the rest.
LEMMA ParseExact ==
    ASSUME NEW text \in Seq(Char), text # <<>>, NEW max \in 0 .. (U64 - 1)
    PROVE  /\ Value(text) \in Nat
           /\ runtime_parse_u64(text, max)
                 = IF Numeral(text) /\ Value(text) <= max THEN Value(text) ELSE Refused
<1> DEFINE turn == [p \in Int |-> [c \in Int |-> TakeDigit(max, p, c)]]
           at(n) == AfterTurns(turn, text, n)
           Right(n) == at(n) = IF DigitsTo(text, n) /\ ValueOf(text, n) <= max
                               THEN ValueOf(text, n) ELSE Refused
           G == {n \in Nat : n <= Len(text) => Right(n)}
<1>1. at(0) = 0 /\ \A k \in Nat : at(k + 1) = turn[at(k)][text[k + 1]]
  <2> HIDE DEF turn
  <2> QED BY Turns
<1>2. max \in Nat /\ max < U64 /\ U64 \in Nat
  BY EnvAssumption
<1>3. 0 \in G
  <2>1. DigitsTo(text, 0) /\ ValueOf(text, 0) = 0
    BY ValueSteps DEF DigitsTo
  <2> HIDE DEF at
  <2> QED BY <1>1, <1>2, <2>1
<1>4. ASSUME NEW n \in Nat, n \in G PROVE n + 1 \in G
  <2> SUFFICES ASSUME n + 1 <= Len(text) PROVE Right(n + 1)
    OBVIOUS
  <2> DEFINE v == ValueOf(text, n)
             w == ValueOf(text, n + 1)
             c == text[n + 1]
             p == at(n)
  <2>1. n \in 0 .. Len(text) - 1 /\ n \in 0 .. Len(text)
    OBVIOUS
  <2>2. v \in Nat /\ c \in Char /\ w = 10 * v + c
    BY <2>1, ValueSteps
  <2>3. p = IF DigitsTo(text, n) /\ v <= max THEN v ELSE Refused
    BY <1>4, <2>1
  <2>4. DigitsTo(text, n + 1) <=> DigitsTo(text, n) /\ c \in Digit
    <3>1. 1 .. (n + 1) = (1 .. n) \cup {n + 1}
      OBVIOUS
    <3> QED BY <3>1 DEF DigitsTo
  <2>5. c \in Nat
    BY <2>2 DEF Char, Digit, Minus, Plus, Blank, Letter
  <2> HIDE DEF v, w, c, at
  <2>6. p \in Int /\ Refused = -1
    BY <2>2, <2>3 DEF Refused
  <2> HIDE DEF p
  <2>7. at(n + 1) = TakeDigit(max, p, c)
    <3>1. turn[p][c] = TakeDigit(max, p, c)
      BY <2>5, <2>6
    <3> HIDE DEF turn
    <3> QED BY <1>1, <3>1 DEF p, c
  <2> SUFFICES TakeDigit(max, p, c) = IF DigitsTo(text, n + 1) /\ w <= max THEN w ELSE Refused
    BY <2>7 DEF w
  <2>8. CASE ~ DigitsTo(text, n) \/ c \notin Digit
    BY <2>3, <2>4, <2>8 DEF TakeDigit
  <2>9. CASE DigitsTo(text, n) /\ c \in Digit /\ v > max
    <3>1. w > max
      BY <1>2, <2>2, <2>5, <2>9
    <3>2. ~ (v <= max) /\ ~ (w <= max)
      BY <1>2, <2>2, <2>5, <2>9, <3>1
    <3>3. p = Refused
      BY <2>3, <3>2
    <3> QED BY <3>2, <3>3 DEF TakeDigit
  <2>10. CASE DigitsTo(text, n) /\ c \in Digit /\ v <= max
    <3>1. p = v /\ p # Refused
      BY <2>2, <2>3, <2>6, <2>10
    <3>2. (v > max \div 10 \/ (v = max \div 10 /\ c > max % 10)) <=> w > max
      BY <1>2, <2>2, <2>10, DigitFits
    <3>3. w \in Nat
      BY <2>2, <2>5
    <3>4. CASE w > max
      BY <1>2, <2>4, <2>10, <3>1, <3>2, <3>3, <3>4 DEF TakeDigit
    <3>5. CASE w <= max
      <4>1. w % U64 = w
        BY <1>2, <3>3, <3>5
      <4>2. p * 10 + c = w
        BY <2>2, <2>5, <3>1
      <4>3. TakeDigit(max, p, c) = (p * 10 + c) % U64
        BY <1>2, <2>10, <3>1, <3>2, <3>3, <3>5 DEF TakeDigit
      <4> QED BY <2>4, <2>10, <3>5, <4>1, <4>2, <4>3
    <3> QED BY <1>2, <3>3, <3>4, <3>5
  <2> QED BY <1>2, <2>2, <2>8, <2>9, <2>10
<1> HIDE DEF G
<1>5. Len(text) \in G
  <2>1. Len(text) \in Nat
    OBVIOUS
  <2> QED BY <1>3, <1>4, <2>1, Induction
<1>6. Right(Len(text))
  BY <1>5 DEF G
<1>7. Numeral(text) <=> DigitsTo(text, Len(text))
  BY DEF Numeral, DigitsTo
<1>8. Value(text) = ValueOf(text, Len(text)) /\ Value(text) \in Nat
  <2>1. Value(text) = ValueOf(text, Len(text))
    BY DEF Value, ValueOf
  <2>2. Len(text) \in 0 .. Len(text)
    OBVIOUS
  <2> QED BY <2>1, <2>2, ValueSteps
<1>9. runtime_parse_u64(text, max) = at(Len(text))
  BY DEF runtime_parse_u64
<1> HIDE DEF at
<1> QED BY <1>6, <1>7, <1>8, <1>9

\* Nothing of a plain text is skipped.
LEMMA NothingSkipped ==
    ASSUME NEW text \in Seq(Char), text # <<>>, Plain(text)
    PROVE  SkipAll(text, {Blank}) = text /\ text[1] \notin {Minus, Plus}
<1> DEFINE kept == {i \in 1 .. Len(text) : text[i] \notin {Blank}}
<1>1. Len(text) \in Nat /\ 1 \in 1 .. Len(text)
  OBVIOUS
<1>2. kept = 1 .. Len(text)
  BY DEF Plain
<1>3. (CHOOSE i \in kept : \A j \in kept : i <= j) = 1
  BY <1>1, <1>2
<1>4. SkipAll(text, {Blank})
          = IF kept = {} THEN <<>>
            ELSE SubSeq(text, CHOOSE i \in kept : \A j \in kept : i <= j, Len(text))
  BY DEF SkipAll
<1> HIDE DEF kept
<1>5. SkipAll(text, {Blank}) = SubSeq(text, 1, Len(text))
  BY <1>1, <1>2, <1>3, <1>4
<1>6. SubSeq(text, 1, Len(text)) = text
  OBVIOUS
<1>7. text[1] \notin {Minus, Plus}
  BY <1>1 DEF Plain
<1> QED BY <1>5, <1>6, <1>7

\* strtoul reads every numeral, and says which are too large.
LEMMA StrtoulExact ==
    ASSUME NEW text \in Seq(Char), text # <<>>, Plain(text)
    PROVE  strtoul(text) = IF ~ Numeral(text) THEN Refused
                           ELSE IF Value(text) < U64 THEN Value(text) ELSE TooLarge
<1> DEFINE turn == [p \in Int |-> [c \in Int |->
                       IF p = TooLarge \/ p * 10 + c >= U64 THEN TooLarge
                       ELSE p * 10 + c]]
           at(n) == AfterTurns(turn, text, n)
           Right(n) == at(n) = IF ValueOf(text, n) < U64 THEN ValueOf(text, n) ELSE TooLarge
           G == {n \in Nat : n <= Len(text) => Right(n)}
<1>1. at(0) = 0 /\ \A k \in Nat : at(k + 1) = turn[at(k)][text[k + 1]]
  <2> HIDE DEF turn
  <2> QED BY Turns
<1>2. U64 \in Nat \ {0} /\ TooLarge = -2
  BY EnvAssumption DEF TooLarge
<1>3. 0 \in G
  <2>1. ValueOf(text, 0) = 0
    BY ValueSteps
  <2> HIDE DEF at
  <2> QED BY <1>1, <1>2, <2>1
<1>4. ASSUME NEW n \in Nat, n \in G PROVE n + 1 \in G
  <2> SUFFICES ASSUME n + 1 <= Len(text) PROVE Right(n + 1)
    OBVIOUS
  <2> DEFINE v == ValueOf(text, n)
             w == ValueOf(text, n + 1)
             c == text[n + 1]
             p == at(n)
  <2>1. n \in 0 .. Len(text) - 1 /\ n \in 0 .. Len(text)
    OBVIOUS
  <2>2. v \in Nat /\ c \in Char /\ w = 10 * v + c
    BY <2>1, ValueSteps
  <2>3. p = IF v < U64 THEN v ELSE TooLarge
    BY <1>4, <2>1
  <2>4. c \in Nat
    BY <2>2 DEF Char, Digit, Minus, Plus, Blank, Letter
  <2> HIDE DEF v, w, c, at
  <2>5. p \in Int
    BY <1>2, <2>2, <2>3
  <2> HIDE DEF p
  <2>6. at(n + 1) = IF p = TooLarge \/ p * 10 + c >= U64 THEN TooLarge ELSE p * 10 + c
    <3>1. turn[p][c] = IF p = TooLarge \/ p * 10 + c >= U64 THEN TooLarge ELSE p * 10 + c
      BY <2>4, <2>5
    <3> HIDE DEF turn
    <3> QED BY <1>1, <3>1 DEF p, c
  <2>7. at(n + 1) = IF w < U64 THEN w ELSE TooLarge
    <3>1. CASE v < U64
      <4>1. p = v /\ p # TooLarge /\ p * 10 + c = w /\ w \in Nat
        BY <1>2, <2>2, <2>3, <2>4, <3>1
      <4> QED BY <1>2, <2>6, <4>1
    <3>2. CASE ~ (v < U64)
      <4>1. p = TooLarge /\ ~ (w < U64)
        BY <1>2, <2>2, <2>3, <2>4, <3>2
      <4> QED BY <2>6, <4>1
    <3> QED BY <3>1, <3>2
  <2> QED BY <2>7 DEF w
<1> HIDE DEF G
<1>5. Len(text) \in G
  <2>1. Len(text) \in Nat
    OBVIOUS
  <2> QED BY <1>3, <1>4, <2>1, Induction
<1>6. Right(Len(text))
  BY <1>5 DEF G
<1>7. Value(text) = ValueOf(text, Len(text))
  BY DEF Value, ValueOf
<1>8. strtoul(text) = IF text = <<>> \/ \E i \in DOMAIN text : text[i] \notin Digit
                      THEN Refused ELSE at(Len(text))
  BY NothingSkipped DEF strtoul
<1> HIDE DEF at
<1> QED BY <1>6, <1>7, <1>8 DEF Numeral

\* What r_runtime_options_from_env tests and stores, number by number.
LEMMA EnvironmentExact ==
    ASSUME NEW e \in Environments, Given(e, "PORT") => Plain(e["PORT"])
    PROVE  /\ AcceptsEnvironment(e) <=>
                /\ Given(e, "AUTH_KEY")
                /\ Within(e, "UNIT_MS", 1, U64 - 1)
                /\ Within(e, "REPLAY_COUNT", 0, MaxReplay)
                /\ Within(e, "PORT", 1, PortMax)
                /\ Given(e, "PROFILE") => e["PROFILE"] = <<1>>
                /\ ("HOST" \in DOMAIN e) = Given(e, "PORT")
           /\ AcceptsEnvironment(e) =>
                /\ Given(e, "UNIT_MS") => Unit(e) = Value(e["UNIT_MS"])
                /\ Given(e, "REPLAY_COUNT") => Replay(e) = Value(e["REPLAY_COUNT"])
                /\ Given(e, "PORT") => Port(e) = Value(e["PORT"])
<1>1. \A v : Given(e, v) => e[v] \in Seq(Char) /\ e[v] # <<>>
  BY TextAssumption DEF Given
<1>2. /\ U64 \in Nat /\ U64 - 1 \in 0 .. (U64 - 1)
      /\ MaxReplay \in 0 .. (U64 - 1) /\ PortMax \in 1 .. (U64 - 1)
  BY EnvAssumption
<1>3. ASSUME Given(e, "UNIT_MS")
      PROVE  /\ UnitReadable(e) <=> Within(e, "UNIT_MS", 1, U64 - 1)
             /\ UnitReadable(e) => Unit(e) = Value(e["UNIT_MS"])
  <2> DEFINE x == Value(e["UNIT_MS"])
             num == Numeral(e["UNIT_MS"])
  <2>1. x \in Nat /\ Unit(e) = IF num /\ x <= U64 - 1 THEN x ELSE Refused
    BY <1>1, <1>2, <1>3, ParseExact DEF Unit
  <2>2. /\ UnitReadable(e) <=> Unit(e) \notin {Refused, 0}
        /\ Within(e, "UNIT_MS", 1, U64 - 1) <=> num /\ x \in 1 .. (U64 - 1)
    BY <1>3 DEF UnitReadable, Within
  <2> HIDE DEF x, num
  <2>3. UnitReadable(e) <=> num /\ x <= U64 - 1 /\ x # 0
    BY <2>1, <2>2 DEF Refused
  <2>4. UnitReadable(e) => Unit(e) = x
    BY <2>1, <2>3
  <2>5. x \in 1 .. (U64 - 1) <=> x <= U64 - 1 /\ x # 0
    BY <1>2, <2>1
  <2> QED BY <2>2, <2>3, <2>4, <2>5 DEF x
<1>4. ASSUME Given(e, "REPLAY_COUNT")
      PROVE  /\ ReplayReadable(e) <=> Within(e, "REPLAY_COUNT", 0, MaxReplay)
             /\ ReplayReadable(e) => Replay(e) = Value(e["REPLAY_COUNT"])
  <2> DEFINE x == Value(e["REPLAY_COUNT"])
             num == Numeral(e["REPLAY_COUNT"])
  <2>1. x \in Nat /\ Replay(e) = IF num /\ x <= MaxReplay THEN x ELSE Refused
    BY <1>1, <1>2, <1>4, ParseExact DEF Replay
  <2>2. /\ ReplayReadable(e) <=> Replay(e) # Refused
        /\ Within(e, "REPLAY_COUNT", 0, MaxReplay) <=> num /\ x \in 0 .. MaxReplay
    BY <1>4 DEF ReplayReadable, Within
  <2> HIDE DEF x, num
  <2>3. ReplayReadable(e) <=> num /\ x <= MaxReplay
    BY <2>1, <2>2 DEF Refused
  <2>4. ReplayReadable(e) => Replay(e) = x
    BY <2>1, <2>3
  <2>5. x \in 0 .. MaxReplay <=> x <= MaxReplay
    BY <1>2, <2>1
  <2> QED BY <2>2, <2>3, <2>4, <2>5 DEF x
<1>5. ASSUME Given(e, "PORT")
      PROVE  /\ PortReadable(e) <=> Within(e, "PORT", 1, PortMax)
             /\ PortReadable(e) => Port(e) = Value(e["PORT"])
  <2> DEFINE x == Value(e["PORT"])
             num == Numeral(e["PORT"])
  <2>1. Port(e) = IF ~ num THEN Refused ELSE IF x < U64 THEN x ELSE TooLarge
    BY <1>1, <1>5, StrtoulExact DEF Port
  <2>2. x \in Nat
    BY <1>1, <1>2, <1>5, ParseExact
  <2>3. /\ PortReadable(e) <=> Port(e) \in 1 .. PortMax
        /\ Within(e, "PORT", 1, PortMax) <=> num /\ x \in 1 .. PortMax
    BY <1>5 DEF PortReadable, Within
  <2> HIDE DEF x, num
  <2>4. PortReadable(e) <=> num /\ x \in 1 .. PortMax
    BY <1>2, <2>1, <2>2, <2>3 DEF Refused, TooLarge
  <2>5. PortReadable(e) => Port(e) = x
    BY <1>2, <2>1, <2>2, <2>4
  <2> QED BY <2>3, <2>4, <2>5 DEF x
<1>6. /\ UnitReadable(e) <=> Within(e, "UNIT_MS", 1, U64 - 1)
      /\ ReplayReadable(e) <=> Within(e, "REPLAY_COUNT", 0, MaxReplay)
      /\ PortReadable(e) <=> Within(e, "PORT", 1, PortMax)
  BY <1>3, <1>4, <1>5 DEF UnitReadable, ReplayReadable, PortReadable, Within
<1>7. AcceptsEnvironment(e) <=>
        /\ UnitReadable(e) /\ ReplayReadable(e) /\ ProfileReadable(e) /\ PortReadable(e)
        /\ Given(e, "AUTH_KEY") /\ EndpointPaired(e)
  BY DEF AcceptsEnvironment
<1> QED BY <1>3, <1>4, <1>5, <1>6, <1>7 DEF ProfileReadable, EndpointPaired

\* An environment is kept only while its options wait for the runtime, or
\* because it was refused.
OptionsInv ==
    env # Nothing =>
        /\ env \in Environments
        /\ \/ pc = "options" /\ AcceptsEnvironment(env) /\ options = OptionsOf(env)
           \/ pc = "refused" /\ ~ AcceptsEnvironment(env)

LEMMA OptionsKept == OptionsInv /\ [StartupNext]_startupVars => OptionsInv'
<1> SUFFICES ASSUME OptionsInv, [StartupNext]_startupVars PROVE OptionsInv'
  OBVIOUS
<1>1. CASE UNCHANGED startupVars
  BY <1>1 DEF startupVars, OptionsInv
<1>2. CASE ReadEnvironment
  BY <1>2 DEF ReadEnvironment, OptionsInv
<1>3. CASE InitRuntime
  BY <1>3 DEF InitRuntime, OptionsInv
<1>4. CASE pc \notin {"options", "refused"} /\ env' = env
  BY <1>4 DEF OptionsInv
<1>5. ASSUME Decode \/ BuildCache \/ Release
      PROVE  pc \notin {"options", "refused"} /\ env' = env
  <2>1. env' = env
    BY <1>5 DEF Decode, BuildCache, Release, configuring
  <2>2. pc \notin {"options", "refused"}
    BY <1>5 DEF Decode, ReadText, CopyText, SplitText, AllocateData, ReadData,
       AllocateValues, VerifyChecksum, AllocatePayload, ConvertBits, MatchPrefix,
       MatchLength, MatchVersion, ReadQuotas, PayloadTest, BuildCache, CacheTenant,
       OpenResolver, CacheName, CacheEntries, CacheFilled, Release, FreeServers,
       FreeName, FreeSecret, FreeClient, FreeHost, Acquire, Test, Free
  <2> QED BY <2>1, <2>2
<1>6. ASSUME \/ \E named \in BOOLEAN : NoteKey(named)
             \/ \E m \in BOOLEAN : StartRefresh(m)
             \/ \E m, lost \in BOOLEAN : LookUp(m, lost)
      PROVE  pc \notin {"options", "refused"} /\ env' = env
  BY <1>6 DEF NoteKey, StartRefresh, LookUp, configuring
<1>7. ASSUME \/ OpenIpv4 \/ OpenIpv6 \/ CountSockets \/ ParseAuthKey \/ DecodeFails
             \/ Inspected \/ Create \/ CopySecret \/ ConfigureAuth \/ ConfigureDns
             \/ QuerySrv \/ FinishRefresh \/ Destroy
      PROVE  pc \notin {"options", "refused"} /\ env' = env
  BY <1>7 DEF OpenIpv4, OpenIpv6, OpenSocket, CountSockets, ParseAuthKey,
     DecodeFails, Inspected, Create, CopySecret, ConfigureAuth, ConfigureDns,
     QuerySrv, FinishRefresh, Destroy, Acquire, Test, configuring
<1>8. CASE Ended
  BY <1>1, <1>8 DEF Ended
<1> QED BY <1>1, <1>2, <1>3, <1>4, <1>5, <1>6, <1>7, <1>8 DEF StartupNext

\* For any environments: one is accepted exactly if it names a key, its
\* numbers are decimal and in their ranges and host and port come together,
\* and each number in the options is the one that was written
\* (runtime_parse_u64, r_runtime_options_from_env).
THEOREM OptionsAreExact == StartupSpec => []OptionsExact
<1>1. StartupInit => OptionsInv
  BY DEF StartupInit, OptionsInv
<1>2. OptionsInv => OptionsExact
  <2> SUFFICES ASSUME OptionsInv, env # Nothing, Given(env, "PORT") => Plain(env["PORT"])
               PROVE  OptionsExact
    BY DEF OptionsExact
  <2>1. env \in Environments
    BY DEF OptionsInv
  <2>2. CASE pc = "options" /\ AcceptsEnvironment(env) /\ options = OptionsOf(env)
    <3>1. /\ Given(env, "UNIT_MS") => options.request.unit = Unit(env)
          /\ Given(env, "REPLAY_COUNT") => options.request.replay = Replay(env)
          /\ Given(env, "PORT") => options.port = Port(env)
      BY <2>2 DEF OptionsOf
    <3> QED BY <2>1, <2>2, <3>1, EnvironmentExact DEF OptionsExact
  <2>3. CASE pc = "refused" /\ ~ AcceptsEnvironment(env)
    <3>1. pc # "options"
      BY <2>3
    <3> QED BY <2>1, <2>3, <3>1, EnvironmentExact DEF OptionsExact
  <2> QED BY <2>2, <2>3 DEF OptionsInv
<1> QED BY <1>1, <1>2, OptionsKept, PTL DEF StartupSpec

-----------------------------------------------------------------------------
(* Keys: bit by bit, the decoder takes out of the quota word and the       *)
(* identifier what the issuer put there; KeyInv then follows the key       *)
(* through the decoder and the creation of the client.                     *)

LEMMA WeightValues ==
    /\ Weight[0 + 1] = 1 /\ Weight[1 + 1] = 2 /\ Weight[2 + 1] = 4
    /\ Weight[3 + 1] = 8 /\ Weight[4 + 1] = 16 /\ Weight[5 + 1] = 32
    /\ Weight[6 + 1] = 64 /\ Weight[7 + 1] = 128
  BY DEF Weight

\* A number below 256 is the sum of what its bits weigh.
LEMMA NumberOfBits ==
    ASSUME NEW n \in 0 .. 255
    PROVE  Number(Bits(n)) = n
<1> DEFINE Bit(w) == (n \div w) % 2
<1>1. \A b \in 0 .. 7 : b \in Bits(n) <=> (n \div Weight[b + 1]) % 2 = 1
  BY DEF Bits
<1>2. /\ 0 \in Bits(n) <=> Bit(1) = 1
      /\ 1 \in Bits(n) <=> Bit(2) = 1
      /\ 2 \in Bits(n) <=> Bit(4) = 1
      /\ 3 \in Bits(n) <=> Bit(8) = 1
      /\ 4 \in Bits(n) <=> Bit(16) = 1
      /\ 5 \in Bits(n) <=> Bit(32) = 1
      /\ 6 \in Bits(n) <=> Bit(64) = 1
      /\ 7 \in Bits(n) <=> Bit(128) = 1
  BY <1>1, WeightValues
<1>3. n = Bit(1) + 2 * Bit(2) + 4 * Bit(4) + 8 * Bit(8) + 16 * Bit(16)
             + 32 * Bit(32) + 64 * Bit(64) + 128 * Bit(128)
  OBVIOUS
<1>4. /\ Bit(1) \in 0 .. 1 /\ Bit(2) \in 0 .. 1 /\ Bit(4) \in 0 .. 1
      /\ Bit(8) \in 0 .. 1 /\ Bit(16) \in 0 .. 1 /\ Bit(32) \in 0 .. 1
      /\ Bit(64) \in 0 .. 1 /\ Bit(128) \in 0 .. 1
  OBVIOUS
<1> HIDE DEF Bit
<1> QED BY <1>2, <1>3, <1>4, WeightValues DEF Number

\* A field of four or five bits has no other.
LEMMA LowBits ==
    ASSUME NEW n \in Nat
    PROVE  /\ Bits(n) \subseteq 0 .. 7
           /\ n < 32 => Bits(n) \subseteq 0 .. 4
           /\ n < 16 => Bits(n) \subseteq 0 .. 3
<1>1. Bits(n) \subseteq 0 .. 7
  BY DEF Bits
<1>2. ASSUME n < 32 PROVE 5 \notin Bits(n) /\ 6 \notin Bits(n) /\ 7 \notin Bits(n)
  BY <1>2, WeightValues DEF Bits
<1>3. ASSUME n < 16 PROVE 4 \notin Bits(n)
  BY <1>3, WeightValues DEF Bits
<1> QED BY <1>1, <1>2, <1>3

\* A field whose bits lie in its width, and a word of bits.
Fits(field, width) == width \in Nat /\ Bits(field) \subseteq 0 .. width - 1
Word(w) == w \subseteq Nat

\* The lowest field of a word is what was put below the others, and any other
\* field is as far up as the lowest one is wide.
LEMMA FieldsSlice ==
    ASSUME NEW rest, NEW width, NEW field, NEW word,
           Word(rest), Fits(field, width), word = PutBelow(rest, width, field)
    PROVE  /\ Word(word)
           /\ Slice(word, 0, width) = Number(Bits(field))
           /\ \A low, w, from \in Nat : from = width + low =>
                  Slice(word, from, w) = Slice(rest, low, w)
<1>1. Word(word)
  <2>1. ASSUME NEW b \in rest PROVE width + b \in Nat
    BY DEF Word, Fits
  <2>2. ASSUME NEW x \in word PROVE x \in Nat
    BY <2>1, <2>2 DEF Fits, PutBelow
  <2> QED BY <2>2 DEF Word
<1>2. Slice(word, 0, width) = Number(Bits(field))
  <2>1. {i - 0 : i \in PutBelow(rest, width, field) \cap (0 .. (0 + width - 1))} = Bits(field)
    BY DEF PutBelow, Word, Fits
  <2> QED BY <2>1 DEF Slice
<1>3. ASSUME NEW low \in Nat, NEW w \in Nat, NEW from \in Nat, from = width + low
      PROVE  Slice(word, from, w) = Slice(rest, low, w)
  <2>0. width \in Nat /\ rest \subseteq Nat /\ Bits(field) \subseteq 0 .. width - 1
    BY DEF Word, Fits
  <2> DEFINE A == PutBelow(rest, width, field) \cap ((width + low) .. (width + low + w - 1))
             B == rest \cap (low .. (low + w - 1))
  <2>1. ASSUME NEW i \in A PROVE i - width \in B /\ i \in Int
    <3>1. i \in Int /\ i >= width + low /\ i <= width + low + w - 1
      BY <2>0
    <3>2. i \notin Bits(field)
      BY <2>0, <3>1
    <3>3. PICK b \in rest : i = width + b
      BY <3>2 DEF PutBelow
    <3>4. i - width = b
      BY <2>0, <3>3
    <3>5. b \in low .. (low + w - 1)
      BY <2>0, <3>1, <3>3
    <3> QED BY <3>1, <3>4, <3>5
  <2>2. ASSUME NEW j \in B PROVE width + j \in A /\ j \in Int
    BY <2>0, <2>2 DEF PutBelow
  <2>3. {i - (width + low) : i \in A} = {j - low : j \in B}
    <3> HIDE DEF A, B
    <3>1. ASSUME NEW i \in A PROVE \E j \in B : j - low = i - (width + low)
      <4>1. (i - width) - low = i - (width + low)
        BY <2>0, <2>1, <3>1
      <4> QED BY <2>1, <3>1, <4>1
    <3>2. ASSUME NEW j \in B PROVE \E i \in A : i - (width + low) = j - low
      <4>1. (width + j) - (width + low) = j - low
        BY <2>0, <2>2, <3>2
      <4> QED BY <2>2, <3>2, <4>1
    <3> QED BY <3>1, <3>2
  <2>4. Slice(PutBelow(rest, width, field), width + low, w) = Number({i - (width + low) : i \in A})
    BY DEF Slice
  <2>5. Slice(rest, low, w) = Number({j - low : j \in B})
    BY DEF Slice
  <2> HIDE DEF A, B
  <2> QED BY <1>3, <2>3, <2>4, <2>5
<1> QED BY <1>1, <1>2, <1>3

\* A word written to bytes is read back.
LEMMA LittleEndian ==
    ASSUME NEW len \in Nat, NEW word \in SUBSET (0 .. 8 * len - 1)
    PROVE  ReadLe(WriteLe(word, len)) = word
<1>1. DOMAIN WriteLe(word, len) = 0 .. len - 1
  BY DEF WriteLe
<1>2. \A j \in 0 .. len - 1 : WriteLe(word, len)[j] = {b \in 0 .. 7 : 8 * j + b \in word}
  BY DEF WriteLe, ByteOf
<1>3. ASSUME NEW x \in word
      PROVE  \E j \in 0 .. len - 1 : \E b \in WriteLe(word, len)[j] : x = 8 * j + b
  <2>1. x \div 8 \in 0 .. len - 1 /\ x % 8 \in 0 .. 7 /\ x = 8 * (x \div 8) + (x % 8)
    OBVIOUS
  <2>2. x % 8 \in WriteLe(word, len)[x \div 8]
    BY <1>2, <2>1
  <2> QED BY <2>1, <2>2
<1>4. ASSUME NEW j \in 0 .. len - 1, NEW b \in WriteLe(word, len)[j]
      PROVE  8 * j + b \in word
  BY <1>2
<1>5. ReadLe(WriteLe(word, len))
         = UNION {{8 * j + b : b \in WriteLe(word, len)[j]} : j \in 0 .. len - 1}
  BY <1>1 DEF ReadLe
<1> DEFINE bytes == WriteLe(word, len)
<1>6. ASSUME NEW x \in ReadLe(bytes) PROVE x \in word
  BY <1>4, <1>5
<1>7. ASSUME NEW x \in word PROVE x \in ReadLe(bytes)
  BY <1>3, <1>5
<1> QED BY <1>6, <1>7

\* The decoder's shifts and masks take a word apart where the issuer put it
\* together.
LEMMA PackedFields ==
    ASSUME NEW f \in Fields
    PROVE  /\ RateExp(Pack(f)) = f[1] /\ LatencyExp(Pack(f)) = f[2]
           /\ LabelsExp(Pack(f)) = f[3] /\ BufferExp(Pack(f)) = f[4]
           /\ DedupUnits(Pack(f)) = f[5] /\ WindowExp(Pack(f)) = f[6]
           /\ Pack(f) \subseteq 0 .. 31
<1> DEFINE w6 == Bits(f[6])
           w5 == PutBelow(w6, 8, f[5])
           w4 == PutBelow(w5, 4, f[4])
           w3 == PutBelow(w4, 5, f[3])
           w2 == PutBelow(w3, 5, f[2])
           w1 == PutBelow(w2, 5, f[1])
<1>1. /\ f[1] \in 0 .. 31 /\ f[2] \in 0 .. 31 /\ f[3] \in 0 .. 31
      /\ f[4] \in 0 .. 15 /\ f[5] \in 0 .. 255 /\ f[6] \in 0 .. 31
  BY DEF Fields
<1>2. /\ Fits(f[1], 5) /\ Fits(f[2], 5) /\ Fits(f[3], 5) /\ Fits(f[4], 4)
      /\ Fits(f[5], 8) /\ w6 \subseteq 0 .. 4
  <2>1. /\ Bits(f[1]) \subseteq 0 .. 4 /\ Bits(f[2]) \subseteq 0 .. 4
        /\ Bits(f[3]) \subseteq 0 .. 4 /\ Bits(f[4]) \subseteq 0 .. 3
        /\ Bits(f[5]) \subseteq 0 .. 7 /\ Bits(f[6]) \subseteq 0 .. 4
    BY <1>1, LowBits
  <2> QED BY <2>1 DEF Fits
<1>3. /\ Number(Bits(f[1])) = f[1] /\ Number(Bits(f[2])) = f[2]
      /\ Number(Bits(f[3])) = f[3] /\ Number(Bits(f[4])) = f[4]
      /\ Number(Bits(f[5])) = f[5] /\ Number(Bits(f[6])) = f[6]
  <2>1. /\ f[1] \in 0 .. 255 /\ f[2] \in 0 .. 255 /\ f[3] \in 0 .. 255
        /\ f[4] \in 0 .. 255 /\ f[5] \in 0 .. 255 /\ f[6] \in 0 .. 255
    BY <1>1
  <2> QED BY <2>1, NumberOfBits
<1>4. Word(w6) /\ Slice(w6, 0, 5) = f[6]
  <2>1. {i - 0 : i \in w6 \cap (0 .. (0 + 5 - 1))} = w6
    BY <1>2
  <2>2. Slice(w6, 0, 5) = Number(w6)
    <3> HIDE DEF w6
    <3> QED BY <2>1 DEF Slice
  <2> QED BY <1>2, <1>3, <2>2 DEF Word
<1>5. /\ Word(w5)
      /\ Slice(w5, 0, 8) = f[5]
      /\ Slice(w5, 8, 5) = f[6]
  <2>1. /\ Word(w5)
        /\ Slice(w5, 0, 8) = Number(Bits(f[5]))
        /\ \A low, w, from \in Nat : from = 8 + low =>
               Slice(w5, from, w) = Slice(w6, low, w)
    <3> HIDE DEF w6
    <3>1. PICK word : word = w5
      OBVIOUS
    <3>2. word = PutBelow(w6, 8, f[5])
      BY <3>1
    <3> HIDE DEF w5
    <3>3. /\ Word(word)
          /\ Slice(word, 0, 8) = Number(Bits(f[5]))
          /\ \A low, w, from \in Nat : from = 8 + low =>
                 Slice(word, from, w) = Slice(w6, low, w)
      BY ONLY <1>2, <1>4, <3>2, FieldsSlice
    <3> QED BY <3>1, <3>3
  <2> HIDE DEF w5, w6
  <2> QED BY <1>3, <1>4, <2>1
<1>6. /\ Word(w4)
      /\ Slice(w4, 0, 4) = f[4]
      /\ Slice(w4, 4, 8) = f[5]
      /\ Slice(w4, 12, 5) = f[6]
  <2>1. /\ Word(w4)
        /\ Slice(w4, 0, 4) = Number(Bits(f[4]))
        /\ \A low, w, from \in Nat : from = 4 + low =>
               Slice(w4, from, w) = Slice(w5, low, w)
    <3> HIDE DEF w5
    <3>1. PICK word : word = w4
      OBVIOUS
    <3>2. word = PutBelow(w5, 4, f[4])
      BY <3>1
    <3> HIDE DEF w4
    <3>3. /\ Word(word)
          /\ Slice(word, 0, 4) = Number(Bits(f[4]))
          /\ \A low, w, from \in Nat : from = 4 + low =>
                 Slice(word, from, w) = Slice(w5, low, w)
      BY ONLY <1>2, <1>5, <3>2, FieldsSlice
    <3> QED BY <3>1, <3>3
  <2> HIDE DEF w4, w5
  <2> QED BY <1>3, <1>5, <2>1
<1>7. /\ Word(w3)
      /\ Slice(w3, 0, 5) = f[3]
      /\ Slice(w3, 5, 4) = f[4]
      /\ Slice(w3, 9, 8) = f[5]
      /\ Slice(w3, 17, 5) = f[6]
  <2>1. /\ Word(w3)
        /\ Slice(w3, 0, 5) = Number(Bits(f[3]))
        /\ \A low, w, from \in Nat : from = 5 + low =>
               Slice(w3, from, w) = Slice(w4, low, w)
    <3> HIDE DEF w4
    <3>1. PICK word : word = w3
      OBVIOUS
    <3>2. word = PutBelow(w4, 5, f[3])
      BY <3>1
    <3> HIDE DEF w3
    <3>3. /\ Word(word)
          /\ Slice(word, 0, 5) = Number(Bits(f[3]))
          /\ \A low, w, from \in Nat : from = 5 + low =>
                 Slice(word, from, w) = Slice(w4, low, w)
      BY ONLY <1>2, <1>6, <3>2, FieldsSlice
    <3> QED BY <3>1, <3>3
  <2> HIDE DEF w3, w4
  <2> QED BY <1>3, <1>6, <2>1
<1>8. /\ Word(w2)
      /\ Slice(w2, 0, 5) = f[2]
      /\ Slice(w2, 5, 5) = f[3]
      /\ Slice(w2, 10, 4) = f[4]
      /\ Slice(w2, 14, 8) = f[5]
      /\ Slice(w2, 22, 5) = f[6]
  <2>1. /\ Word(w2)
        /\ Slice(w2, 0, 5) = Number(Bits(f[2]))
        /\ \A low, w, from \in Nat : from = 5 + low =>
               Slice(w2, from, w) = Slice(w3, low, w)
    <3> HIDE DEF w3
    <3>1. PICK word : word = w2
      OBVIOUS
    <3>2. word = PutBelow(w3, 5, f[2])
      BY <3>1
    <3> HIDE DEF w2
    <3>3. /\ Word(word)
          /\ Slice(word, 0, 5) = Number(Bits(f[2]))
          /\ \A low, w, from \in Nat : from = 5 + low =>
                 Slice(word, from, w) = Slice(w3, low, w)
      BY ONLY <1>2, <1>7, <3>2, FieldsSlice
    <3> QED BY <3>1, <3>3
  <2> HIDE DEF w2, w3
  <2> QED BY <1>3, <1>7, <2>1
<1>9. /\ Word(w1)
      /\ Slice(w1, 0, 5) = f[1]
      /\ Slice(w1, 5, 5) = f[2]
      /\ Slice(w1, 10, 5) = f[3]
      /\ Slice(w1, 15, 4) = f[4]
      /\ Slice(w1, 19, 8) = f[5]
      /\ Slice(w1, 27, 5) = f[6]
  <2>1. /\ Word(w1)
        /\ Slice(w1, 0, 5) = Number(Bits(f[1]))
        /\ \A low, w, from \in Nat : from = 5 + low =>
               Slice(w1, from, w) = Slice(w2, low, w)
    <3> HIDE DEF w2
    <3>1. PICK word : word = w1
      OBVIOUS
    <3>2. word = PutBelow(w2, 5, f[1])
      BY <3>1
    <3> HIDE DEF w1
    <3>3. /\ Word(word)
          /\ Slice(word, 0, 5) = Number(Bits(f[1]))
          /\ \A low, w, from \in Nat : from = 5 + low =>
                 Slice(word, from, w) = Slice(w2, low, w)
      BY ONLY <1>2, <1>8, <3>2, FieldsSlice
    <3> QED BY <3>1, <3>3
  <2> HIDE DEF w1, w2
  <2> QED BY <1>3, <1>8, <2>1
<1>10. w1 \subseteq 0 .. 31
  <2>1. \A i : Bits(f[i]) \subseteq 0 .. 7
    BY DEF Bits
  <2>2. w5 \subseteq 0 .. 12
    <3>1. w6 \subseteq 0 .. 4 /\ Bits(f[5]) \subseteq 0 .. 7
      BY <1>2, <2>1
    <3> HIDE DEF w6
    <3>2. w5 = Bits(f[5]) \cup {8 + b : b \in w6}
      BY DEF PutBelow
    <3> HIDE DEF w5
    <3> QED BY ONLY <3>1, <3>2
  <2>3. w4 \subseteq 0 .. 16
    <3> HIDE DEF w5
    <3> QED BY <2>1, <2>2 DEF PutBelow
  <2>4. w3 \subseteq 0 .. 21
    <3> HIDE DEF w4
    <3> QED BY <2>1, <2>3 DEF PutBelow
  <2>5. w2 \subseteq 0 .. 26
    <3> HIDE DEF w3
    <3> QED BY <2>1, <2>4 DEF PutBelow
  <2> HIDE DEF w2
  <2> QED BY <2>1, <2>5 DEF PutBelow
<1>11. Pack(f) = w1
  BY DEF Pack
<1> HIDE DEF w1
<1> QED BY <1>9, <1>10, <1>11
  DEF RateExp, LatencyExp, LabelsExp, BufferExp, DedupUnits, WindowExp

(* The tests of the decoder, all passed. *)
Accepted(k) ==
    /\ CharactersPass(k) /\ Separated(k)
    /\ InAlphabet(k) /\ ChecksumPasses(k)
    /\ BitsConvert(k) /\ PrefixKnown(k) /\ PayloadFits(k) /\ VersionKnown(k)
    /\ QuotasInRange(ReadLe(k.word))

(* What the caller states of the key is true, or nothing. *)
StatedTruly ==
    /\ claim.type \in {"none", TypeOf(key)}
    /\ claim.id \in {{}, ReadLe(key.id)}

(* How far the decoder has got with the key at each of its places. *)
TestsInv ==
    /\ pc \in {"copy", "separator", "data", "alphabet", "values", "sum", "payload",
               "bits", "prefix", "length", "version", "quotas"} => CharactersPass(key)
    /\ pc \in {"data", "alphabet", "values", "sum", "payload", "bits", "prefix",
               "length", "version", "quotas"} => Separated(key)
    /\ pc \in {"values", "sum", "payload", "bits", "prefix", "length", "version",
               "quotas"} => InAlphabet(key)
    /\ pc \in {"payload", "bits", "prefix", "length", "version", "quotas"} =>
          ChecksumPasses(key)
    /\ pc \in {"prefix", "length", "version", "quotas"} => BitsConvert(key)
    /\ pc \in {"length", "version", "quotas"} => PrefixKnown(key)
    /\ pc \in {"version", "quotas"} => PayloadFits(key)
    /\ pc = "quotas" => VersionKnown(key)

DecoderAt == {"text", "copy", "separator", "data", "alphabet", "values", "sum",
              "payload", "bits", "prefix", "length", "version", "quotas"}

CacheAt == {"cacheTenant", "resolver", "cacheName", "entries", "filled"}

ReleasesAt == {"freeServers", "freeName", "freeSecret", "freeClient", "freeHost"}

(* The key between its choice and the end of the creation: that client,    *)
(* name and refusal follow it, and that a program which never had a key    *)
(* or has forgotten it ends without one.                                   *)
KeyInv ==
    /\ TestsInv
    /\ starved \in BOOLEAN
    /\ pc \in {"start", "options", "open4", "open6", "opened"} =>
          key = Nothing /\ claim = NoClaim
    /\ pc = "start" => tenant = NoName
    /\ pc \in {"options", "open4", "open6", "opened"} => host = "runtime"
    /\ pc \in CacheAt => host = "perf"
    /\ host = "inspector" => claim = NoClaim
    /\ tenant.kind = "derived" => host = "perf" /\ tenant.id = ReadLe(key.id)
    /\ pc \in CacheAt \/ (pc = "create" /\ host = "perf") => key \in Keys
    /\ pc \in DecoderAt \cup {"secret", "decoded", "failed"} => key \in Keys
    /\ pc = "decoded" => Accepted(key) /\ decoded = Decoded(key)
    /\ pc = "failed" => starved \/ ~Accepted(key)
    /\ pc \in {"name", "made", "inspected"} =>
         /\ key \in Keys /\ Accepted(key) /\ StatedTruly
         /\ client = Named(Decoded(key), client.dns)
         /\ client.dns.kind = "derived" => client.dns.id = ReadLe(key.id)
    /\ pc \in {"query", "lookup", "up"} => key = Nothing
    /\ (pc \in ReleasesAt \cup {"refused"} /\ key # Nothing /\ ~starved) =>
         ~(Accepted(key) /\ StatedTruly)

\* An issued key is read back as it was issued, and passes every test of the
\* decoder if and only if its quotas may be granted.
LEMMA IssuedReadBack ==
    ASSUME NEW i \in Issued
    PROVE  /\ TypeOf(Text[i]) = IF i.hrp = "rl-cookie" THEN "cookie" ELSE "aes"
           /\ ReadLe(Text[i].id) = i.id
           /\ QuotasOf(ReadLe(Text[i].word)) = Meant(i.fields)
           /\ Accepted(Text[i]) <=> Grantable(i.fields)
<1>1. /\ i.hrp \in {"rl-cookie", "rl-aes"} /\ i.id \in SUBSET (0 .. 63)
      /\ i.fields \in Fields
  BY KeyAssumption
<1>2. PICK k : k = Issue(i.hrp, i.id, i.fields)
  OBVIOUS
<1>3. Text[i] = k
  BY <1>2 DEF Text
<1>4. /\ k.text = "fine" /\ k.hrp = i.hrp /\ k.chars = 78 /\ k.pad = 0
      /\ k.version = FormatVersion
      /\ k.id = WriteLe(i.id, IdLen) /\ k.word = WriteLe(Pack(i.fields), QuotaLen)
  BY <1>2 DEF Issue
<1>5. k.alphabet /\ k.checksum
  BY <1>2 DEF Issue
<1>6. ReadLe(k.id) = i.id
  <2>1. i.id \in SUBSET (0 .. 8 * 8 - 1) /\ 8 \in Nat
    BY <1>1
  <2>2. ReadLe(WriteLe(i.id, 8)) = i.id
    BY ONLY <2>1, LittleEndian
  <2> QED BY <1>4, <2>2 DEF IdLen
<1>7. ReadLe(k.word) = Pack(i.fields)
  <2>1. Pack(i.fields) \in SUBSET (0 .. 31)
    BY <1>1, PackedFields
  <2>2. Pack(i.fields) \in SUBSET (0 .. 8 * 4 - 1) /\ 4 \in Nat
    BY <2>1
  <2>3. ReadLe(WriteLe(Pack(i.fields), 4)) = Pack(i.fields)
    BY ONLY <2>2, LittleEndian
  <2> QED BY <1>4, <2>3 DEF QuotaLen
<1>8. /\ RateExp(ReadLe(k.word)) = i.fields[1] /\ LatencyExp(ReadLe(k.word)) = i.fields[2]
      /\ LabelsExp(ReadLe(k.word)) = i.fields[3] /\ BufferExp(ReadLe(k.word)) = i.fields[4]
      /\ DedupUnits(ReadLe(k.word)) = i.fields[5] /\ WindowExp(ReadLe(k.word)) = i.fields[6]
  BY <1>1, <1>7, PackedFields
<1>9. QuotasOf(ReadLe(k.word)) = Meant(i.fields)
  BY <1>8 DEF QuotasOf, Meant
<1>10. QuotasInRange(ReadLe(k.word)) <=> Grantable(i.fields)
  BY <1>8 DEF QuotasInRange, Grantable
<1>11. BitsConvert(k) /\ PayloadFits(k)
  BY <1>4 DEF BitsConvert, PayloadFits, LeftOver, PayloadBytes, ChecksumLen,
     PayloadLen, IdLen, QuotaLen
<1>12. Accepted(k) <=> QuotasInRange(ReadLe(k.word))
  BY <1>1, <1>4, <1>5, <1>11 DEF Accepted, CharactersPass, Separated, InAlphabet,
     ChecksumPasses, PrefixKnown, VersionKnown, ChecksumLen
<1> QED BY <1>3, <1>4, <1>6, <1>9, <1>10, <1>12 DEF TypeOf

\* A text that passes every test is one that was issued: only a payload of
\* 78 characters has the length of a key and no bits left over.
LEMMA AcceptedWasIssued ==
    ASSUME NEW k \in Keys, Accepted(k)
    PROVE  \E i \in Issued : k = Text[i]
<1>1. k.chars \in Nat
  BY KeyAssumption
<1>2. k.chars = 78 /\ k.pad = 0
  <2>1. BitsConvert(k) /\ PayloadFits(k) /\ k.chars >= 6
    BY DEF Accepted, Separated, ChecksumLen
  <2>2. PICK n : n = k.chars - 6
    OBVIOUS
  <2>3. n \in Nat /\ (5 * n) % 8 < 5 /\ (5 * n) \div 8 = 45 /\ k.pad = 0
    BY <1>1, <2>1, <2>2 DEF BitsConvert, PayloadFits, LeftOver, PayloadBytes,
       ChecksumLen, PayloadLen, IdLen, QuotaLen
  <2>4. n = 72
    BY ONLY <2>3
  <2> QED BY <1>1, <2>2, <2>3, <2>4
<1>3. Formed(k)
  BY <1>2 DEF Formed, Accepted, CharactersPass, InAlphabet, ChecksumPasses,
     PrefixKnown, VersionKnown
<1> QED BY <1>3, KeyAssumption

LEMMA KeyStarts == StartupInit => KeyInv
<1> SUFFICES ASSUME StartupInit PROVE KeyInv
  OBVIOUS
<1>1. pc = "start" /\ key = Nothing /\ claim = NoClaim /\ tenant = NoName
  BY DEF StartupInit
<1>2. starved \in BOOLEAN
  BY DEF StartupInit
<1>3. tenant.kind # "derived"
  BY <1>1 DEF NoName
<1> QED BY <1>1, <1>2, <1>3
  DEF KeyInv, TestsInv, CacheAt, DecoderAt, ReleasesAt

\* Nothing that is said of a key changes while the key and what is stated of
\* it stay.
LEMMA SameKey ==
    ASSUME key' = key, claim' = claim
    PROVE  /\ CharactersPass(key)' = CharactersPass(key)
           /\ Separated(key)' = Separated(key)
           /\ InAlphabet(key)' = InAlphabet(key)
           /\ ChecksumPasses(key)' = ChecksumPasses(key)
           /\ BitsConvert(key)' = BitsConvert(key)
           /\ PrefixKnown(key)' = PrefixKnown(key)
           /\ PayloadFits(key)' = PayloadFits(key)
           /\ VersionKnown(key)' = VersionKnown(key)
           /\ Accepted(key)' = Accepted(key)
           /\ StatedTruly' = StatedTruly
           /\ Decoded(key)' = Decoded(key)
  BY DEF Accepted, StatedTruly, CharactersPass, Separated, InAlphabet,
     ChecksumPasses, BitsConvert, PrefixKnown, PayloadFits, VersionKnown,
     QuotasInRange, TypeOf, Decoded

\* One step of the decoder.
LEMMA KeyDecoded ==
    ASSUME KeyInv, Decode
    PROVE  KeyInv'
<1>1. UNCHANGED <<host, tenant, key, claim>>
  BY DEF Decode, configuring
<1>2. TestsInv /\ starved \in BOOLEAN
  BY DEF KeyInv
<1>3. pc \in DecoderAt
  BY DEF Decode, ReadText, CopyText, SplitText, AllocateData, ReadData,
     AllocateValues, VerifyChecksum, AllocatePayload, ConvertBits, MatchPrefix,
     MatchLength, MatchVersion, ReadQuotas, PayloadTest, Acquire, Test, Free,
     DecoderAt
<1>4. key \in Keys
  BY <1>3 DEF KeyInv
<1>5. ASSUME \/ TestsInv' /\ pc' \in DecoderAt /\ starved' \in BOOLEAN
             \/ pc' = "failed" /\ (starved' \/ ~Accepted(key)) /\ starved' \in BOOLEAN
             \/ pc' = "decoded" /\ Accepted(key) /\ decoded' = Decoded(key)
                  /\ starved' \in BOOLEAN
      PROVE  KeyInv'
  <2>1. /\ host' = "inspector" => claim' = NoClaim
        /\ tenant'.kind = "derived" => host' = "perf" /\ tenant'.id = ReadLe(key'.id)
    BY <1>1 DEF KeyInv
  <2> QED BY <1>1, <1>4, <1>5, <2>1, SameKey
    DEF KeyInv, TestsInv, CacheAt, DecoderAt, ReleasesAt
<1>6. CASE ReadText
  BY <1>1, <1>2, <1>5, <1>6, SameKey
  DEF ReadText, Test, TestsInv, DecoderAt, Accepted
<1>7. CASE CopyText
  BY <1>1, <1>2, <1>5, <1>7, SameKey DEF CopyText, Acquire, TestsInv, DecoderAt
<1>8. CASE SplitText
  BY <1>1, <1>2, <1>5, <1>8, SameKey
  DEF SplitText, Test, TestsInv, DecoderAt, Accepted
<1>9. CASE AllocateData
  BY <1>1, <1>2, <1>5, <1>9, SameKey DEF AllocateData, Acquire, TestsInv, DecoderAt
<1>10. CASE ReadData
  BY <1>1, <1>2, <1>5, <1>10, SameKey
  DEF ReadData, Test, TestsInv, DecoderAt, Accepted
<1>11. CASE AllocateValues
  BY <1>1, <1>2, <1>5, <1>11, SameKey DEF AllocateValues, Acquire, TestsInv, DecoderAt
<1>12. CASE VerifyChecksum
  BY <1>1, <1>2, <1>5, <1>12, SameKey
  DEF VerifyChecksum, Free, TestsInv, DecoderAt, Accepted
<1>13. CASE AllocatePayload
  BY <1>1, <1>2, <1>5, <1>13, SameKey DEF AllocatePayload, Acquire, TestsInv, DecoderAt
<1>14. CASE ConvertBits
  BY <1>1, <1>2, <1>5, <1>14, SameKey
  DEF ConvertBits, PayloadTest, Test, TestsInv, DecoderAt, Accepted
<1>15. CASE MatchPrefix
  BY <1>1, <1>2, <1>5, <1>15, SameKey
  DEF MatchPrefix, PayloadTest, Test, TestsInv, DecoderAt, Accepted
<1>16. CASE MatchLength
  BY <1>1, <1>2, <1>5, <1>16, SameKey
  DEF MatchLength, PayloadTest, Test, TestsInv, DecoderAt, Accepted
<1>17. CASE MatchVersion
  BY <1>1, <1>2, <1>5, <1>17, SameKey
  DEF MatchVersion, PayloadTest, Test, TestsInv, DecoderAt, Accepted
<1>18. CASE ReadQuotas
  BY <1>2, <1>5, <1>18 DEF ReadQuotas, Free, TestsInv, Accepted
<1> QED BY <1>6, <1>7, <1>8, <1>9, <1>10, <1>11, <1>12, <1>13, <1>14, <1>15, <1>16, <1>17, <1>18 DEF Decode

\* A key is chosen, by itself or for a client.
LEMMA KeyChosen ==
    ASSUME KeyInv, ParseAuthKey \/ Create
    PROVE  KeyInv'
<1>1. CASE ParseAuthKey
  <2>1. /\ UNCHANGED <<host, tenant, claim, starved>>
        /\ pc = "start" /\ pc' = "text" /\ key' \in Keys
    BY <1>1 DEF ParseAuthKey, configuring
  <2>2. tenant'.kind # "derived"
    BY <2>1 DEF KeyInv, NoName
  <2>3. starved' \in BOOLEAN /\ (host' = "inspector" => claim' = NoClaim)
    BY <2>1 DEF KeyInv
  <2> QED BY <2>1, <2>2, <2>3 DEF KeyInv, TestsInv, CacheAt, DecoderAt, ReleasesAt
<1>2. CASE Create
  <2>1. /\ host' = host /\ key' \in Keys
        /\ \/ pc' = "secret" /\ starved' = starved
           \/ pc' = "freeHost" /\ starved'
    BY <1>2 DEF Create, Acquire, KeyInv
  <2>2. starved' \in BOOLEAN
    BY <1>2 DEF Create, Acquire, KeyInv
  <2>3. host' = "inspector" => claim' = NoClaim
    BY <1>2, <2>1 DEF Create, KeyInv
  <2>4. tenant'.kind = "derived" => host' = "perf" /\ tenant'.id = ReadLe(key'.id)
    <3>1. CASE pc = "create"
      <4>1. tenant' = tenant /\ (host = "perf" => key' = key)
        BY <1>2, <3>1 DEF Create
      <4> QED BY <2>1, <4>1 DEF KeyInv
    <3>2. CASE pc = "start"
      <4>1. tenant' \in {NoName, OwnName}
        BY <1>2, <3>2 DEF Create
      <4> QED BY <4>1 DEF NoName, OwnName
    <3> QED BY <1>2, <3>1, <3>2 DEF Create
  <2> QED BY <2>1, <2>2, <2>3, <2>4
    DEF KeyInv, TestsInv, CacheAt, DecoderAt, ReleasesAt
<1> QED BY <1>1, <1>2

\* What was decoded becomes the client, the inspector's answer or the load
\* generator's claim.
LEMMA KeyUsed ==
    ASSUME KeyInv, Inspected \/ ConfigureAuth \/ \E named \in BOOLEAN : NoteKey(named)
    PROVE  KeyInv'
<1>0. /\ pc = "decoded" /\ key \in Keys /\ Accepted(key) /\ decoded = Decoded(key)
      /\ host' = host /\ key' = key
  BY DEF KeyInv, Inspected, ConfigureAuth, NoteKey, Test
<1>1. Accepted(key)' = Accepted(key)
  BY <1>0 DEF Accepted, CharactersPass, Separated, InAlphabet,
     ChecksumPasses, BitsConvert, PrefixKnown, PayloadFits,
     VersionKnown, QuotasInRange
<1>2. /\ decoded.type = TypeOf(key) /\ decoded.id = ReadLe(key.id)
      /\ Decoded(key') = Decoded(key)
  BY <1>0 DEF Decoded
<1>3. ASSUME client' = Named(decoded, NoName)
      PROVE  client' = Named(Decoded(key'), client'.dns) /\ client'.dns.kind # "derived"
  <2>1. client'.dns = NoName
    BY <1>3 DEF Named
  <2> QED BY <1>0, <1>2, <1>3, <2>1 DEF NoName
<1>4. CASE Inspected
  <2>1. /\ UNCHANGED <<tenant, claim, starved>> /\ host = "inspector"
        /\ pc' = "inspected" /\ client' = Named(decoded, NoName)
    BY <1>4 DEF Inspected, configuring
  <2>2. claim' = NoClaim
    BY <2>1 DEF KeyInv
  <2>3. StatedTruly'
    BY <2>2 DEF StatedTruly, NoClaim
  <2>4. starved' \in BOOLEAN
    BY <2>1 DEF KeyInv
  <2>5. tenant'.kind = "derived" => host' = "perf" /\ tenant'.id = ReadLe(key'.id)
    BY <1>0, <2>1 DEF KeyInv
  <2> QED BY <1>0, <1>1, <1>3, <2>1, <2>2, <2>3, <2>4, <2>5
    DEF KeyInv, TestsInv, CacheAt, DecoderAt, ReleasesAt
<1>5. CASE ConfigureAuth
  <2>1. /\ UNCHANGED <<tenant, claim, starved>>
        /\ IF ClaimHolds THEN pc' = "name" /\ client' = Named(decoded, NoName)
                         ELSE pc' = "freeServers"
    BY <1>5 DEF ConfigureAuth, configuring, Test
  <2>2. StatedTruly' <=> ClaimHolds
    BY <1>0, <1>2, <2>1 DEF StatedTruly, ClaimHolds, NoClaim, TypeOf
  <2>3. starved' \in BOOLEAN /\ (host' = "inspector" => claim' = NoClaim)
    BY <1>0, <2>1 DEF KeyInv
  <2>4. tenant'.kind = "derived" => host' = "perf" /\ tenant'.id = ReadLe(key'.id)
    BY <1>0, <2>1 DEF KeyInv
  <2> QED BY <1>0, <1>1, <1>3, <2>1, <2>2, <2>3, <2>4
    DEF KeyInv, TestsInv, CacheAt, DecoderAt, ReleasesAt
<1>6. CASE \E named \in BOOLEAN : NoteKey(named)
  <2>1. PICK named \in BOOLEAN : NoteKey(named)
    BY <1>6
  <2>2. /\ host = "perf" /\ starved' = starved /\ pc' = "cacheTenant"
        /\ tenant' \in {OwnName, DerivedName(decoded.id)}
    BY <2>1 DEF NoteKey
  <2>3. tenant'.kind = "derived" => host' = "perf" /\ tenant'.id = ReadLe(key'.id)
    BY <1>0, <1>2, <2>2 DEF OwnName, DerivedName
  <2>4. starved' \in BOOLEAN
    BY <2>2 DEF KeyInv
  <2> QED BY <1>0, <2>2, <2>3, <2>4
    DEF KeyInv, TestsInv, CacheAt, DecoderAt, ReleasesAt
<1> QED BY <1>4, <1>5, <1>6

LEMMA KeyNamed ==
    ASSUME KeyInv, ConfigureDns
    PROVE  KeyInv'
<1>1. /\ pc = "name" /\ UNCHANGED <<host, tenant, key, claim>>
      /\ \/ pc' = "made" /\ starved' = starved
         \/ pc' = "freeServers" /\ starved'
  BY DEF ConfigureDns, Acquire, configuring
<1>2. /\ key \in Keys /\ Accepted(key) /\ StatedTruly
      /\ client = Named(Decoded(key), client.dns)
  BY <1>1 DEF KeyInv
<1>3. Accepted(key)' = Accepted(key) /\ StatedTruly' = StatedTruly
  BY <1>1, SameKey
<1>4. starved' \in BOOLEAN
  BY DEF ConfigureDns, Acquire, KeyInv
<1>5. ASSUME pc' = "made"
      PROVE  /\ client' = Named(Decoded(key'), client'.dns)
             /\ client'.dns.kind = "derived" => client'.dns.id = ReadLe(key'.id)
  <2>1. PICK name : /\ name = IF tenant = NoName THEN DerivedName(client.id) ELSE tenant
                    /\ client' = [client EXCEPT !.dns = name]
    BY <1>1, <1>5 DEF ConfigureDns
  <2>2. client.id = ReadLe(key.id)
    BY <1>2 DEF Named, Decoded
  <2>3. client' = Named(Decoded(key), name) /\ client'.dns = name
    BY <1>2, <2>1 DEF Named
  <2>4. name.kind = "derived" => name.id = ReadLe(key.id)
    BY <2>1, <2>2 DEF KeyInv, DerivedName
  <2> QED BY <1>1, <2>3, <2>4
<1>6. /\ host' = "inspector" => claim' = NoClaim
      /\ tenant'.kind = "derived" => host' = "perf" /\ tenant'.id = ReadLe(key'.id)
  BY <1>1 DEF KeyInv
<1> QED BY <1>1, <1>2, <1>3, <1>4, <1>5, <1>6
  DEF KeyInv, TestsInv, CacheAt, DecoderAt, ReleasesAt

\* The steps that leave the key, its owner's name and what is stated of it.
LEMMA KeyLeft ==
    ASSUME HeapInv, KeyInv,
           \/ OpenIpv4 \/ OpenIpv6 \/ CountSockets \/ BuildCache
           \/ CopySecret \/ DecodeFails \/ Release
    PROVE  KeyInv'
<1>1. UNCHANGED <<host, tenant, key, claim>>
  BY DEF OpenIpv4, OpenIpv6, OpenSocket, CountSockets, BuildCache, CopySecret,
     DecodeFails, Release, configuring, creating
<1>2. starved' \in BOOLEAN
  BY DEF OpenIpv4, OpenIpv6, OpenSocket, CountSockets, BuildCache, CacheTenant,
     OpenResolver, CacheName, CacheEntries, CacheFilled, CopySecret, DecodeFails,
     Release, FreeServers, FreeName, FreeSecret, FreeClient, FreeHost, Acquire,
     Free, KeyInv
<1>3. /\ host' = "inspector" => claim' = NoClaim
      /\ tenant'.kind = "derived" => host' = "perf" /\ tenant'.id = ReadLe(key'.id)
  BY <1>1 DEF KeyInv
<1>4. CASE OpenIpv4 \/ OpenIpv6 \/ CountSockets
  <2>1. /\ key = Nothing /\ claim = NoClaim /\ host = "runtime"
        /\ pc' \in {"open6", "opened", "create", "freeHost"}
    BY <1>4 DEF OpenIpv4, OpenIpv6, OpenSocket, CountSockets, KeyInv
  <2> QED BY <1>1, <1>2, <1>3, <2>1
    DEF KeyInv, TestsInv, CacheAt, DecoderAt, ReleasesAt
<1>5. CASE BuildCache
  <2>1. key \in Keys /\ host = "perf"
    BY <1>5 DEF BuildCache, CacheTenant, OpenResolver, CacheName, CacheEntries,
       CacheFilled, Acquire, Free, KeyInv, CacheAt
  <2>2. \/ pc' \in CacheAt \cup {"create"}
        \/ pc' = "refused" /\ starved'
    BY <1>5 DEF BuildCache, CacheTenant, OpenResolver, CacheName, CacheEntries,
       CacheFilled, Acquire, Free, CacheAt
  <2> QED BY <1>1, <1>2, <1>3, <2>1, <2>2
    DEF KeyInv, TestsInv, CacheAt, DecoderAt, ReleasesAt
<1>6. CASE CopySecret
  <2>1. /\ key \in Keys
        /\ pc' = "text" \/ (pc' = "freeServers" /\ starved')
    BY <1>6 DEF CopySecret, Acquire, KeyInv
  <2> QED BY <1>1, <1>2, <1>3, <2>1
    DEF KeyInv, TestsInv, CacheAt, DecoderAt, ReleasesAt
<1>7. CASE DecodeFails
  <2>1. /\ starved \/ ~Accepted(key)
        /\ starved' = starved /\ pc' \in {"freeServers", "refused"}
    BY <1>7 DEF DecodeFails, KeyInv
  <2> QED BY <1>1, <1>2, <1>3, <2>1, SameKey
    DEF KeyInv, TestsInv, CacheAt, DecoderAt, ReleasesAt
<1>8. CASE Release /\ ending \in {"refused", "closed"}
  <2>1. /\ pc \in ReleasesAt /\ starved' = starved
        /\ pc' \in ReleasesAt \cup {"refused", "closed"}
    BY <1>8 DEF Release, FreeServers, FreeName, FreeSecret, FreeClient, FreeHost,
       Free, ReleasesAt
  <2>2. (key # Nothing /\ ~starved) => ~(Accepted(key) /\ StatedTruly)
    BY <2>1 DEF KeyInv
  <2> QED BY <1>1, <1>2, <1>3, <2>1, <2>2, SameKey
    DEF KeyInv, TestsInv, CacheAt, DecoderAt, ReleasesAt
<1> QED BY <1>4, <1>5, <1>6, <1>7, <1>8 DEF HeapInv

LEMMA KeyKept == HeapInv /\ KeyInv /\ [StartupNext]_startupVars => KeyInv'
<1> SUFFICES ASSUME HeapInv, KeyInv, [StartupNext]_startupVars PROVE KeyInv'
  OBVIOUS
<1>1. CASE ReadEnvironment
  <2>1. /\ UNCHANGED <<host, tenant, key, claim, starved>> /\ pc = "start"
        /\ host = "runtime" /\ pc' \in {"options", "refused"}
    BY <1>1 DEF ReadEnvironment, creating
  <2>2. key' = Nothing /\ claim' = NoClaim /\ tenant' = NoName /\ starved' \in BOOLEAN
    BY <2>1 DEF KeyInv
  <2>3. tenant'.kind # "derived"
    BY <2>2 DEF NoName
  <2> QED BY <2>1, <2>2, <2>3 DEF KeyInv, TestsInv, CacheAt, DecoderAt, ReleasesAt
<1>2. CASE InitRuntime
  <2>1. /\ UNCHANGED <<host, key, claim, starved>> /\ pc = "options"
        /\ pc' \in {"open4", "freeHost"}
        /\ tenant' \in {OwnName, NoName, tenant}
    BY <1>2 DEF InitRuntime, creating
  <2>2. key' = Nothing /\ claim' = NoClaim /\ starved' \in BOOLEAN /\ host = "runtime"
    BY <2>1 DEF KeyInv
  <2>3. tenant'.kind = "derived" => host' = "perf" /\ tenant'.id = ReadLe(key'.id)
    BY <2>1 DEF KeyInv, OwnName, NoName
  <2> QED BY <2>1, <2>2, <2>3 DEF KeyInv, TestsInv, CacheAt, DecoderAt, ReleasesAt
<1>3. ASSUME NEW m \in BOOLEAN, StartRefresh(m) PROVE KeyInv'
  <2>1. /\ host' = host /\ pc' \in {"query", "up"} /\ starved' \in BOOLEAN
        /\ key' = Nothing /\ claim' = NoClaim /\ tenant' = NoName
    BY <1>3 DEF StartRefresh
  <2>2. tenant'.kind # "derived"
    BY <2>1 DEF NoName
  <2> QED BY <2>1, <2>2 DEF KeyInv, TestsInv, CacheAt, DecoderAt, ReleasesAt
<1>4. CASE QuerySrv \/ FinishRefresh \/ \E m, lost \in BOOLEAN : LookUp(m, lost)
  <2>1. /\ UNCHANGED <<host, tenant, key, claim>> /\ pc' \in {"lookup", "up"}
        /\ key = Nothing
    BY <1>4 DEF QuerySrv, FinishRefresh, LookUp, configuring, creating, KeyInv
  <2>2. starved' \in BOOLEAN
    BY <1>4 DEF QuerySrv, FinishRefresh, LookUp, KeyInv
  <2> QED BY <2>1, <2>2 DEF KeyInv, TestsInv, CacheAt, DecoderAt, ReleasesAt
<1>5. CASE Destroy
  <2>1. /\ UNCHANGED <<host, key, claim>> /\ pc' = "freeServers" /\ tenant' = NoName
        /\ starved' \in BOOLEAN /\ key = Nothing
    BY <1>5 DEF Destroy, creating, KeyInv
  <2>2. tenant'.kind # "derived"
    BY <2>1 DEF NoName
  <2> QED BY <2>1, <2>2 DEF KeyInv, TestsInv, CacheAt, DecoderAt, ReleasesAt
<1>6. CASE UNCHANGED startupVars
  <2>1. /\ UNCHANGED <<host, pc, key, claim, tenant, starved, decoded, client>>
    BY <1>6 DEF startupVars
  <2> QED BY <2>1, SameKey DEF KeyInv, TestsInv, CacheAt, DecoderAt, ReleasesAt,
    Named, Decoded, TypeOf
<1> QED BY <1>1, <1>2, <1>3, <1>4, <1>5, <1>6, KeyDecoded, KeyChosen, KeyUsed,
           KeyNamed, KeyLeft DEF StartupNext, Ended

\* A client or an inspected key is what was issued, all that its caller
\* stated of it is true, and a key as issued is refused only if memory ran
\* out or the caller stated otherwise: of all keys, with any quotas, that fit
\* the format.
THEOREM ClientsMatchKeys == StartupSpec => []ClientMatchesKey
<1>1. KeyInv => ClientMatchesKey
  <2> SUFFICES ASSUME KeyInv PROVE ClientMatchesKey
    OBVIOUS
  <2>1. ASSUME pc \in {"made", "inspected"}
        PROVE  \E i \in Issued :
                  /\ key = Text[i] /\ Grantable(i.fields) /\ Agrees(i)
                  /\ client.type = IF i.hrp = "rl-cookie" THEN "cookie" ELSE "aes"
                  /\ client.id = i.id
                  /\ client.quotas = Meant(i.fields)
                  /\ client.dns.kind = "derived" => client.dns.id = i.id
    <3>1. /\ key \in Keys /\ Accepted(key) /\ StatedTruly
          /\ client = Named(Decoded(key), client.dns)
          /\ client.dns.kind = "derived" => client.dns.id = ReadLe(key.id)
      BY <2>1 DEF KeyInv
    <3>2. PICK i \in Issued : key = Text[i]
      BY <3>1, AcceptedWasIssued
    <3>3. /\ TypeOf(key) = IF i.hrp = "rl-cookie" THEN "cookie" ELSE "aes"
          /\ ReadLe(key.id) = i.id
          /\ QuotasOf(ReadLe(key.word)) = Meant(i.fields)
          /\ Grantable(i.fields)
      BY <3>1, <3>2, IssuedReadBack
    <3>4. /\ client.type = TypeOf(key) /\ client.id = ReadLe(key.id)
          /\ client.quotas = QuotasOf(ReadLe(key.word))
      BY <3>1 DEF Named, Decoded
    <3>5. Agrees(i)
      BY <3>1, <3>3 DEF StatedTruly, Agrees
    <3> QED BY <3>1, <3>2, <3>3, <3>4, <3>5
  <2>2. ASSUME pc = "refused", key # Nothing, ~starved,
               NEW i \in Issued, key = Text[i], Grantable(i.fields), Agrees(i)
        PROVE  FALSE
    <3>1. Accepted(key) /\ ReadLe(key.id) = i.id
          /\ TypeOf(key) = IF i.hrp = "rl-cookie" THEN "cookie" ELSE "aes"
      BY <2>2, IssuedReadBack
    <3>2. StatedTruly
      BY <2>2, <3>1 DEF StatedTruly, Agrees
    <3> QED BY <2>2, <3>1, <3>2 DEF KeyInv
  <2> QED BY <2>1, <2>2 DEF ClientMatchesKey
<1> QED
  BY <1>1, StartupStarts, StartupKeeps, KeyStarts, KeyKept, PTL DEF StartupSpec

-----------------------------------------------------------------------------
(* The first discovery: what the loops of the resolvers and of the client  *)
(* keep, then AnswerInv, which follows each published record from the      *)
(* answer to the servers.                                                  *)

\* A loop that keeps some entries of a list, one turn at a time.
LEMMA PickedSteps ==
    ASSUME NEW list, NEW positions
    PROVE  /\ Picked(list, positions, 0) = <<>>
           /\ \A k \in Nat : Picked(list, positions, k + 1)
                 = IF k + 1 \in positions
                   THEN Append(Picked(list, positions, k), list[k + 1])
                   ELSE Picked(list, positions, k)
<1> DEFINE Step(x, i) == IF i \in positions THEN Append(x, list[i]) ELSE x
           IsS(h, k) == h = [i \in 0 .. k |-> IF i = 0 THEN <<>> ELSE Step(h[i - 1], i)]
           S(k) == CHOOSE h : IsS(h, k)
<1>1. ASSUME NEW k \in Nat PROVE Picked(list, positions, k) = S(k)[k]
  BY DEF Picked
<1> HIDE DEF Step
<1>2. ASSUME NEW k \in Nat PROVE IsS(S(k), k)
  <2> DEFINE G == {n \in Nat : \E h : IsS(h, n)}
  <2>1. 0 \in G
    <3>1. IsS([i \in 0 .. 0 |-> <<>>], 0)
      OBVIOUS
    <3> HIDE DEF IsS
    <3> QED BY <3>1
  <2>2. ASSUME NEW n \in Nat, n \in G PROVE n + 1 \in G
    <3>1. PICK h : IsS(h, n)
      BY <2>2
    <3> DEFINE e == [i \in 0 .. n + 1 |-> IF i = n + 1 THEN Step(h[n], n + 1) ELSE h[i]]
    <3>2. ASSUME NEW i \in 0 .. n + 1
          PROVE  e[i] = IF i = 0 THEN <<>> ELSE Step(e[i - 1], i)
      <4>1. CASE i = n + 1
        <5>1. n \in 0 .. n + 1 /\ n # n + 1 /\ i - 1 = n /\ i # 0
          BY <4>1
        <5>2. e[n] = h[n] /\ e[i] = Step(h[n], n + 1)
          BY <4>1, <5>1
        <5> HIDE DEF e
        <5> QED BY <4>1, <5>1, <5>2
      <4>2. CASE i # n + 1
        <5>1. i \in 0 .. n /\ e[i] = h[i]
          BY <4>2
        <5>2. h[i] = IF i = 0 THEN <<>> ELSE Step(h[i - 1], i)
          BY <3>1, <5>1
        <5>3. i # 0 => e[i - 1] = h[i - 1]
          BY <5>1
        <5> QED BY <5>1, <5>2, <5>3
      <4> QED BY <4>1, <4>2
    <3>3. e = [i \in 0 .. n + 1 |-> e[i]]
      OBVIOUS
    <3>4. IsS(e, n + 1)
      <4> HIDE DEF e
      <4> QED BY <3>2, <3>3
    <3> HIDE DEF IsS, e
    <3> QED BY <3>4
  <2> HIDE DEF G
  <2>3. k \in G
    BY <2>1, <2>2, Induction
  <2> HIDE DEF IsS
  <2> QED BY <2>3 DEF G
<1>3. ASSUME NEW k \in Nat, NEW i \in 0 .. k PROVE S(k)[i] = S(k + 1)[i]
  <2> HIDE DEF S
  <2> DEFINE G == {n \in Nat : n <= k => S(k)[n] = S(k + 1)[n]}
  <2>0. IsS(S(k), k) /\ IsS(S(k + 1), k + 1)
    <3>1. k + 1 \in Nat
      OBVIOUS
    <3> HIDE DEF IsS
    <3> QED BY <1>2, <3>1
  <2>1. \A n \in 0 .. k : S(k)[n] = IF n = 0 THEN <<>> ELSE Step(S(k)[n - 1], n)
    BY <2>0
  <2>2. \A n \in 0 .. k + 1 :
            S(k + 1)[n] = IF n = 0 THEN <<>> ELSE Step(S(k + 1)[n - 1], n)
    BY <2>0
  <2>3. 0 \in G
    <3>1. 0 \in 0 .. k /\ 0 \in 0 .. k + 1
      OBVIOUS
    <3>2. S(k)[0] = <<>> /\ S(k + 1)[0] = <<>>
      BY <2>1, <2>2, <3>1
    <3> QED BY <3>2
  <2>4. ASSUME NEW n \in Nat, n \in G PROVE n + 1 \in G
    <3> SUFFICES ASSUME n + 1 <= k PROVE S(k)[n + 1] = S(k + 1)[n + 1]
      OBVIOUS
    <3>1. S(k)[n] = S(k + 1)[n]
      BY <2>4
    <3>2. n + 1 \in 0 .. k /\ n + 1 \in 0 .. k + 1 /\ n + 1 # 0 /\ (n + 1) - 1 = n
      OBVIOUS
    <3> QED BY <2>1, <2>2, <3>1, <3>2
  <2> HIDE DEF G
  <2>5. i \in G
    BY <2>3, <2>4, Induction
  <2> QED BY <2>5 DEF G
<1>4. Picked(list, positions, 0) = <<>>
  <2> HIDE DEF S
  <2>1. Picked(list, positions, 0) = S(0)[0] /\ IsS(S(0), 0)
    BY <1>1, <1>2
  <2> QED BY <2>1
<1>5. ASSUME NEW k \in Nat
      PROVE  Picked(list, positions, k + 1) = Step(Picked(list, positions, k), k + 1)
  <2> HIDE DEF S
  <2>1. k + 1 \in Nat /\ k \in 0 .. k
    OBVIOUS
  <2>2. Picked(list, positions, k) = S(k)[k] /\ Picked(list, positions, k + 1) = S(k + 1)[k + 1]
    BY <1>1, <2>1
  <2>3. S(k)[k] = S(k + 1)[k]
    BY <1>3, <2>1
  <2>4. S(k + 1) = [i \in 0 .. k + 1 |-> IF i = 0 THEN <<>>
                                         ELSE Step(S(k + 1)[i - 1], i)]
    BY <1>2, <2>1
  <2>5. S(k + 1)[k + 1] = Step(S(k + 1)[k], k + 1)
    BY <2>4
  <2> QED BY <2>2, <2>3, <2>5
<1> QED BY <1>4, <1>5 DEF Step


\* The loop of r_dns_addr_cb_fn, one turn at a time.
LEMMA AddSteps ==
    ASSUME NEW h0, NEW addrs, NEW record, NEW memory
    PROVE  /\ AddAddresses(h0, addrs, 0, record, memory) = h0
           /\ \A k \in Nat : AddAddresses(h0, addrs, k + 1, record, memory)
                 = AddEndpoint(AddAddresses(h0, addrs, k, record, memory),
                               Endpoint(addrs[k + 1], record), memory)
<1> DEFINE Step(x, i) == AddEndpoint(x, Endpoint(addrs[i], record), memory)
           IsS(h, k) == h = [i \in 0 .. k |-> IF i = 0 THEN h0 ELSE Step(h[i - 1], i)]
           S(k) == CHOOSE h : IsS(h, k)
<1>1. ASSUME NEW k \in Nat PROVE AddAddresses(h0, addrs, k, record, memory) = S(k)[k]
  BY DEF AddAddresses
<1> HIDE DEF Step
<1>2. ASSUME NEW k \in Nat PROVE IsS(S(k), k)
  <2> DEFINE G == {n \in Nat : \E h : IsS(h, n)}
  <2>1. 0 \in G
    <3>1. IsS([i \in 0 .. 0 |-> h0], 0)
      OBVIOUS
    <3> HIDE DEF IsS
    <3> QED BY <3>1
  <2>2. ASSUME NEW n \in Nat, n \in G PROVE n + 1 \in G
    <3>1. PICK h : IsS(h, n)
      BY <2>2
    <3> DEFINE e == [i \in 0 .. n + 1 |-> IF i = n + 1 THEN Step(h[n], n + 1) ELSE h[i]]
    <3>2. ASSUME NEW i \in 0 .. n + 1
          PROVE  e[i] = IF i = 0 THEN h0 ELSE Step(e[i - 1], i)
      <4>1. CASE i = n + 1
        <5>1. n \in 0 .. n + 1 /\ n # n + 1 /\ i - 1 = n /\ i # 0
          BY <4>1
        <5>2. e[n] = h[n] /\ e[i] = Step(h[n], n + 1)
          BY <4>1, <5>1
        <5> HIDE DEF e
        <5> QED BY <4>1, <5>1, <5>2
      <4>2. CASE i # n + 1
        <5>1. i \in 0 .. n /\ e[i] = h[i]
          BY <4>2
        <5>2. h[i] = IF i = 0 THEN h0 ELSE Step(h[i - 1], i)
          BY <3>1, <5>1
        <5>3. i # 0 => e[i - 1] = h[i - 1]
          BY <5>1
        <5> QED BY <5>1, <5>2, <5>3
      <4> QED BY <4>1, <4>2
    <3>3. e = [i \in 0 .. n + 1 |-> e[i]]
      OBVIOUS
    <3>4. IsS(e, n + 1)
      <4> HIDE DEF e
      <4> QED BY <3>2, <3>3
    <3> HIDE DEF IsS, e
    <3> QED BY <3>4
  <2> HIDE DEF G
  <2>3. k \in G
    BY <2>1, <2>2, Induction
  <2> HIDE DEF IsS
  <2> QED BY <2>3 DEF G
<1>3. ASSUME NEW k \in Nat, NEW i \in 0 .. k PROVE S(k)[i] = S(k + 1)[i]
  <2> HIDE DEF S
  <2> DEFINE G == {n \in Nat : n <= k => S(k)[n] = S(k + 1)[n]}
  <2>0. IsS(S(k), k) /\ IsS(S(k + 1), k + 1)
    <3>1. k + 1 \in Nat
      OBVIOUS
    <3> HIDE DEF IsS
    <3> QED BY <1>2, <3>1
  <2>1. \A n \in 0 .. k : S(k)[n] = IF n = 0 THEN h0 ELSE Step(S(k)[n - 1], n)
    BY <2>0
  <2>2. \A n \in 0 .. k + 1 :
            S(k + 1)[n] = IF n = 0 THEN h0 ELSE Step(S(k + 1)[n - 1], n)
    BY <2>0
  <2>3. 0 \in G
    <3>1. 0 \in 0 .. k /\ 0 \in 0 .. k + 1
      OBVIOUS
    <3>2. S(k)[0] = h0 /\ S(k + 1)[0] = h0
      BY <2>1, <2>2, <3>1
    <3> QED BY <3>2
  <2>4. ASSUME NEW n \in Nat, n \in G PROVE n + 1 \in G
    <3> SUFFICES ASSUME n + 1 <= k PROVE S(k)[n + 1] = S(k + 1)[n + 1]
      OBVIOUS
    <3>1. S(k)[n] = S(k + 1)[n]
      BY <2>4
    <3>2. n + 1 \in 0 .. k /\ n + 1 \in 0 .. k + 1 /\ n + 1 # 0 /\ (n + 1) - 1 = n
      OBVIOUS
    <3> QED BY <2>1, <2>2, <3>1, <3>2
  <2> HIDE DEF G
  <2>5. i \in G
    BY <2>3, <2>4, Induction
  <2> QED BY <2>5 DEF G
<1>4. AddAddresses(h0, addrs, 0, record, memory) = h0
  <2> HIDE DEF S
  <2>1. AddAddresses(h0, addrs, 0, record, memory) = S(0)[0] /\ IsS(S(0), 0)
    BY <1>1, <1>2
  <2> QED BY <2>1
<1>5. ASSUME NEW k \in Nat
      PROVE  AddAddresses(h0, addrs, k + 1, record, memory) = Step(AddAddresses(h0, addrs, k, record, memory), k + 1)
  <2> HIDE DEF S
  <2>1. k + 1 \in Nat /\ k \in 0 .. k
    OBVIOUS
  <2>2. AddAddresses(h0, addrs, k, record, memory) = S(k)[k] /\ AddAddresses(h0, addrs, k + 1, record, memory) = S(k + 1)[k + 1]
    BY <1>1, <2>1
  <2>3. S(k)[k] = S(k + 1)[k]
    BY <1>3, <2>1
  <2>4. S(k + 1) = [i \in 0 .. k + 1 |-> IF i = 0 THEN h0
                                         ELSE Step(S(k + 1)[i - 1], i)]
    BY <1>2, <2>1
  <2>5. S(k + 1)[k + 1] = Step(S(k + 1)[k], k + 1)
    BY <2>4
  <2> QED BY <2>2, <2>3, <2>5
<1> QED BY <1>4, <1>5 DEF Step

\* The loop keeps exactly the entries at the positions.
LEMMA PickedHolds ==
    ASSUME NEW T, NEW list \in Seq(T), NEW positions
    PROVE  /\ Picked(list, positions, Len(list)) \in Seq(T)
           /\ \A k \in DOMAIN Picked(list, positions, Len(list)) :
                 \E i \in DOMAIN list : /\ i \in positions
                                        /\ Picked(list, positions, Len(list))[k] = list[i]
           /\ \A i \in DOMAIN list : i \in positions =>
                 \E k \in DOMAIN Picked(list, positions, Len(list)) :
                    Picked(list, positions, Len(list))[k] = list[i]
<1> DEFINE P(n) == Picked(list, positions, n)
           In(n) == \A k \in DOMAIN P(n) :
                       \E i \in 1 .. n : i \in positions /\ P(n)[k] = list[i]
           All(n) == \A i \in 1 .. n : i \in positions =>
                        \E k \in DOMAIN P(n) : P(n)[k] = list[i]
           G == {n \in Nat : n <= Len(list) => P(n) \in Seq(T) /\ In(n) /\ All(n)}
<1>s. \A l1, p1 :
        /\ Picked(l1, p1, 0) = <<>>
        /\ \A k \in Nat : Picked(l1, p1, k + 1)
              = IF k + 1 \in p1 THEN Append(Picked(l1, p1, k), l1[k + 1])
                                ELSE Picked(l1, p1, k)
  BY PickedSteps
<1>0. /\ P(0) = <<>>
      /\ \A n \in Nat : P(n + 1) = IF n + 1 \in positions
                                   THEN Append(P(n), list[n + 1]) ELSE P(n)
  BY <1>s
<1>p. P(Len(list)) = Picked(list, positions, Len(list))
  OBVIOUS
<1> HIDE DEF P
<1>1. 0 \in G
  <2>0. P(0) = <<>>
    BY <1>0
  <2>1. P(0) \in Seq(T) /\ \A k \in DOMAIN P(0) : FALSE
    <3>1. \A p : p = <<>> => p \in Seq(T) /\ \A k \in DOMAIN p : FALSE
      OBVIOUS
    <3> QED BY <2>0, <3>1
  <2>2. In(0) /\ All(0)
    BY <2>1
  <2> HIDE DEF In, All
  <2> QED BY <2>1, <2>2
<1>2. ASSUME NEW n \in Nat, n \in G PROVE n + 1 \in G
  <2> SUFFICES ASSUME n + 1 <= Len(list)
               PROVE  P(n + 1) \in Seq(T) /\ In(n + 1) /\ All(n + 1)
    <3> HIDE DEF In, All
    <3> QED OBVIOUS
  <2>1. P(n) \in Seq(T) /\ In(n) /\ All(n)
    <3>1. n <= Len(list) => P(n) \in Seq(T) /\ In(n) /\ All(n)
      <4> HIDE DEF In, All
      <4> QED BY <1>2
    <3>2. n <= Len(list)
      OBVIOUS
    <3> QED BY <3>1, <3>2
  <2>2. list[n + 1] \in T
    OBVIOUS
  <2>3. P(n + 1) = IF n + 1 \in positions THEN Append(P(n), list[n + 1]) ELSE P(n)
    BY <1>0
  <2>4. \A i \in 1 .. n + 1 : i \in 1 .. n \/ i = n + 1
    OBVIOUS
  <2>5. (\A i \in 1 .. n : i \in 1 .. n + 1) /\ n + 1 \in 1 .. n + 1
    OBVIOUS
  <2>6. CASE n + 1 \in positions
    <3>1. PICK p : p = P(n)
      OBVIOUS
    <3>2. PICK x : x = list[n + 1]
      OBVIOUS
    <3>4. PICK q : q = P(n + 1)
      OBVIOUS
    <3>3. q = Append(p, x) /\ p \in Seq(T) /\ x \in T
      BY <2>1, <2>2, <2>3, <2>6, <3>1, <3>2, <3>4
    <3>5. /\ q \in Seq(T)
          /\ \A k \in DOMAIN q : q[k] = x \/ \E j \in DOMAIN p : q[k] = p[j]
          /\ \A j \in DOMAIN p : \E k \in DOMAIN q : q[k] = p[j]
          /\ \E k \in DOMAIN q : q[k] = x
      BY ONLY <3>3
    <3>6. In(n + 1)
      <4>1. ASSUME NEW k \in DOMAIN q
            PROVE  \E i \in 1 .. n + 1 : i \in positions /\ q[k] = list[i]
        <5>1. CASE q[k] = x
          BY <2>5, <2>6, <3>2, <5>1
        <5>2. CASE \E j \in DOMAIN p : q[k] = p[j]
          BY <2>1, <2>5, <3>1, <5>2
        <5> QED BY <3>5, <5>1, <5>2
      <4> QED BY <3>4, <4>1
    <3>7. All(n + 1)
      <4>1. ASSUME NEW i \in 1 .. n + 1, i \in positions
            PROVE  \E k \in DOMAIN q : q[k] = list[i]
        <5>1. CASE i = n + 1
          BY <3>2, <3>5, <5>1
        <5>2. CASE i \in 1 .. n
          <6>1. PICK j \in DOMAIN p : p[j] = list[i]
            BY <2>1, <3>1, <4>1, <5>2
          <6> QED BY <3>5, <6>1
        <5> QED BY <2>4, <5>1, <5>2
      <4> QED BY <3>4, <4>1
    <3> QED BY <3>4, <3>5, <3>6, <3>7
  <2>7. CASE n + 1 \notin positions
    <3>1. P(n + 1) = P(n)
      BY <2>3, <2>7
    <3>2. In(n + 1)
      BY <2>1, <2>5, <3>1
    <3>3. All(n + 1)
      BY <2>1, <2>4, <2>7, <3>1
    <3> QED BY <2>1, <3>1, <3>2, <3>3
  <2> QED BY <2>6, <2>7
<1> HIDE DEF G
<1>3. Len(list) \in Nat /\ DOMAIN list = 1 .. Len(list)
  OBVIOUS
<1>4. Len(list) \in G
  BY <1>1, <1>2, <1>3, Induction
<1>5. P(Len(list)) \in Seq(T) /\ In(Len(list)) /\ All(Len(list))
  BY <1>3, <1>4 DEF G
<1> QED BY <1>3, <1>5, <1>p

\* A list of endpoints with the room that was made for it.
IsHeld(h, T) == h = [list |-> h.list, room |-> h.room] /\ h.list \in Seq(T)

\* r_dns_refresh_add_endpoint drops an endpoint only without memory.
LEMMA AddedOne ==
    ASSUME NEW T, NEW h, IsHeld(h, T), NEW e \in T, NEW memory,
           NEW g, g = AddEndpoint(h, e, memory)
    PROVE  /\ IsHeld(g, T)
           /\ g.list = Append(h.list, e) \/ (~memory /\ g.list = h.list)
<1>1. CASE Len(h.list) < h.room
  <2>1. g = [h EXCEPT !.list = Append(h.list, e)]
    BY <1>1 DEF AddEndpoint
  <2>2. g = [list |-> Append(h.list, e), room |-> h.room]
    BY <2>1 DEF IsHeld
  <2> QED BY <2>2 DEF IsHeld
<1>2. CASE ~(Len(h.list) < h.room) /\ ~memory
  BY <1>2 DEF AddEndpoint
<1>3. CASE ~(Len(h.list) < h.room) /\ memory
  <2>1. PICK r : g = [list |-> Append(h.list, e), room |-> r]
    BY <1>3 DEF AddEndpoint
  <2> QED BY <2>1 DEF IsHeld
<1> QED BY <1>1, <1>2, <1>3

\* What is held stays held, what is new is an endpoint of the record, and with
\* memory every address of the answer is there.
LEMMA AddHolds ==
    ASSUME NEW T, NEW h0, IsHeld(h0, T), NEW record, NEW memory,
           NEW A, NEW addrs \in Seq(A), \A a \in A : Endpoint(a, record) \in T,
           NEW g, g = AddAddresses(h0, addrs, Len(addrs), record, memory)
    PROVE  /\ IsHeld(g, T)
           /\ \A k \in DOMAIN g.list :
                 \/ \E j \in DOMAIN h0.list : g.list[k] = h0.list[j]
                 \/ \E i \in DOMAIN addrs : g.list[k] = Endpoint(addrs[i], record)
           /\ \A j \in DOMAIN h0.list : \E k \in DOMAIN g.list : g.list[k] = h0.list[j]
           /\ memory => \A i \in DOMAIN addrs : \E k \in DOMAIN g.list :
                           g.list[k] = Endpoint(addrs[i], record)
<1> DEFINE H(n) == AddAddresses(h0, addrs, n, record, memory)
           In(n) == \A k \in DOMAIN H(n).list :
                       \/ \E j \in DOMAIN h0.list : H(n).list[k] = h0.list[j]
                       \/ \E i \in DOMAIN addrs : H(n).list[k] = Endpoint(addrs[i], record)
           Old(n) == \A j \in DOMAIN h0.list :
                        \E k \in DOMAIN H(n).list : H(n).list[k] = h0.list[j]
           All(n) == memory => \A i \in 1 .. n : \E k \in DOMAIN H(n).list :
                                  H(n).list[k] = Endpoint(addrs[i], record)
           G == {n \in Nat : n <= Len(addrs) =>
                    IsHeld(H(n), T) /\ In(n) /\ Old(n) /\ All(n)}
<1>s. \A h1, a1, r1, m1 :
        /\ AddAddresses(h1, a1, 0, r1, m1) = h1
        /\ \A k \in Nat : AddAddresses(h1, a1, k + 1, r1, m1)
              = AddEndpoint(AddAddresses(h1, a1, k, r1, m1), Endpoint(a1[k + 1], r1), m1)
  BY AddSteps
<1>0. H(0) = h0
  BY <1>s
<1>k. ASSUME NEW n \in Nat
      PROVE  H(n + 1) = AddEndpoint(H(n), Endpoint(addrs[n + 1], record), memory)
  BY <1>s
<1>h. g = H(Len(addrs))
  OBVIOUS
<1> HIDE DEF H
<1>1. 0 \in G
  <2> QED BY <1>0
<1>2. ASSUME NEW n \in Nat, n \in G PROVE n + 1 \in G
  <2> SUFFICES ASSUME n + 1 <= Len(addrs)
               PROVE  IsHeld(H(n + 1), T) /\ In(n + 1) /\ Old(n + 1) /\ All(n + 1)
    OBVIOUS
  <2>1. IsHeld(H(n), T) /\ In(n) /\ Old(n) /\ All(n)
    BY <1>2
  <2>2. PICK e : e = Endpoint(addrs[n + 1], record)
    OBVIOUS
  <2>3. n + 1 \in DOMAIN addrs /\ addrs[n + 1] \in A
    OBVIOUS
  <2>4. e \in T
    BY <2>2, <2>3
  <2>5. H(n + 1) = AddEndpoint(H(n), e, memory)
    BY <1>k, <2>2
  <2>6. \A i \in 1 .. n + 1 : i \in 1 .. n \/ i = n + 1
    OBVIOUS
  <2>7. PICK h, g1 : h = H(n) /\ g1 = H(n + 1)
    OBVIOUS
  <2>8. /\ IsHeld(g1, T) /\ IsHeld(h, T)
        /\ g1.list = Append(h.list, e) \/ (~memory /\ g1.list = h.list)
    <3>1. IsHeld(h, T) /\ g1 = AddEndpoint(h, e, memory)
      BY <2>1, <2>5, <2>7
    <3> QED BY ONLY <3>1, <2>4, AddedOne
  <2>9. CASE ~memory /\ g1.list = h.list
    BY <2>1, <2>7, <2>8, <2>9
  <2>10. CASE g1.list = Append(h.list, e)
    <3>1. PICK p, q : p = h.list /\ q = g1.list
      OBVIOUS
    <3>2. q = Append(p, e) /\ p \in Seq(T) /\ e \in T
      BY <2>4, <2>8, <2>10, <3>1 DEF IsHeld
    <3>3. /\ q \in Seq(T)
          /\ \A k \in DOMAIN q : q[k] = e \/ \E j \in DOMAIN p : q[k] = p[j]
          /\ \A j \in DOMAIN p : \E k \in DOMAIN q : q[k] = p[j]
          /\ \E k \in DOMAIN q : q[k] = e
      BY ONLY <3>2
    <3>4. In(n + 1)
      <4>1. ASSUME NEW k \in DOMAIN q
            PROVE  \/ \E j \in DOMAIN h0.list : q[k] = h0.list[j]
                   \/ \E i \in DOMAIN addrs : q[k] = Endpoint(addrs[i], record)
        <5>1. CASE q[k] = e
          BY <2>2, <2>3, <5>1
        <5>2. CASE \E j \in DOMAIN p : q[k] = p[j]
          BY <2>1, <2>7, <3>1, <5>2
        <5> QED BY <3>3, <5>1, <5>2
      <4> QED BY <2>7, <3>1, <4>1
    <3>5. Old(n + 1)
      <4>1. ASSUME NEW j \in DOMAIN h0.list
            PROVE  \E k \in DOMAIN q : q[k] = h0.list[j]
        <5>1. PICK l \in DOMAIN p : p[l] = h0.list[j]
          BY <2>1, <2>7, <3>1
        <5> QED BY <3>3, <5>1
      <4> QED BY <2>7, <3>1, <4>1
    <3>6. All(n + 1)
      <4>1. ASSUME memory, NEW i \in 1 .. n + 1
            PROVE  \E k \in DOMAIN q : q[k] = Endpoint(addrs[i], record)
        <5>1. CASE i = n + 1
          BY <2>2, <3>3, <5>1
        <5>2. CASE i \in 1 .. n
          <6>1. PICK l \in DOMAIN p : p[l] = Endpoint(addrs[i], record)
            BY <2>1, <2>7, <3>1, <4>1, <5>2
          <6> QED BY <3>3, <6>1
        <5> QED BY <2>6, <5>1, <5>2
      <4> QED BY <2>7, <3>1, <4>1
    <3> QED BY <2>7, <2>8, <3>4, <3>5, <3>6
  <2> QED BY <2>8, <2>9, <2>10
<1> HIDE DEF G
<1>3. Len(addrs) \in Nat /\ DOMAIN addrs = 1 .. Len(addrs)
  OBVIOUS
<1>4. Len(addrs) \in G
  BY <1>1, <1>2, <1>3, Induction
<1>5. /\ IsHeld(H(Len(addrs)), T) /\ In(Len(addrs)) /\ Old(Len(addrs))
      /\ All(Len(addrs))
  BY <1>3, <1>4 DEF G
<1> QED BY <1>3, <1>5, <1>h

(* Quotient and remainder, and that they are the only such numbers. *)
LEMMA Division ==
    ASSUME NEW u \in Nat \ {0}, NEW x \in Int
    PROVE  \E n \in Int, t \in 0 .. u - 1 : x = u * n + t /\ x % u = t
<1>1. x = u * (x \div u) + (x % u) /\ x % u \in 0 .. u - 1 /\ x \div u \in Int
  OBVIOUS
<1> QED BY <1>1

LEMMA RemainderIs ==
    ASSUME NEW u \in Nat \ {0}, NEW m \in Int, NEW s \in 0 .. u - 1
    PROVE  (u * m + s) % u = s
<1>1. PICK x \in Int : x = u * m + s
  OBVIOUS
<1>2. PICK n \in Int, t \in 0 .. u - 1 : x = u * n + t /\ x % u = t
  BY Division
<1>3. PICK k \in Int : k = m - n
  OBVIOUS
<1>4. u * k = t - s
  BY <1>1, <1>2, <1>3
<1>5. k >= 1 => u * k >= u
  OBVIOUS
<1>6. k <= -1 => u * k <= -u
  OBVIOUS
<1>7. k = 0
  BY <1>4, <1>5, <1>6
<1> QED BY <1>1, <1>2, <1>4, <1>7

(* A turn of the loop may take the remainder before or after it. *)
LEMMA RemainderTurns ==
    ASSUME NEW u \in Nat \ {0}, NEW v \in Nat, NEW c \in Nat
    PROVE  ((v % u) * 10 + c) % u = (10 * v + c) % u
<1>1. PICK q \in Int, r \in 0 .. u - 1 : v = u * q + r /\ v % u = r
  <2>1. v \in Int
    OBVIOUS
  <2> QED BY <2>1, Division
<1>2. PICK b \in Int, s \in 0 .. u - 1 : r * 10 + c = u * b + s /\ (r * 10 + c) % u = s
  <2>1. r * 10 + c \in Int
    OBVIOUS
  <2> QED BY <2>1, Division
<1>3. PICK m \in Int : m = 10 * q + b
  OBVIOUS
<1>4. u * m = 10 * (u * q) + u * b
  <2>1. u * (10 * q + b) = u * (10 * q) + u * b
    OBVIOUS
  <2>2. u * (10 * q) = 10 * (u * q)
    OBVIOUS
  <2> QED BY <1>3, <2>1, <2>2
<1>5. 10 * v + c = u * m + s
  <2>1. PICK x \in Int, y \in Int : x = u * q /\ y = u * b
    OBVIOUS
  <2> QED BY <1>1, <1>2, <1>4, <2>1
<1>6. (u * m + s) % u = s
  BY RemainderIs
<1> QED BY <1>1, <1>2, <1>5, <1>6

(* The number that the client reads is the one written, modulo 2^64. *)
LEMMA ServerIdExact ==
    ASSUME NEW text \in Seq(Char), NamesServer(text)
    PROVE  ServerId(text) = Value(text) % U64
<1> DEFINE turn == [v \in Int |-> [c \in Int |-> (v * 10 + c) % U64]]
           Id(n) == AfterTurns(turn, text, n)
           G == {n \in Nat : n <= Len(text) => Id(n) = ValueOf(text, n) % U64}
<1>0. U64 \in Nat \ {0}
  BY EnvAssumption
<1>1. 0 \in G
  <2> HIDE DEF turn
  <2>1. Id(0) = 0 /\ ValueOf(text, 0) = 0
    BY Turns, ValueSteps
  <2> HIDE DEF Id
  <2> QED BY <1>0, <2>1
<1>2. ASSUME NEW n \in Nat, n \in G PROVE n + 1 \in G
  <2> SUFFICES ASSUME n + 1 <= Len(text)
               PROVE  Id(n + 1) = ValueOf(text, n + 1) % U64
    OBVIOUS
  <2>1. PICK v, c : v = ValueOf(text, n) /\ c = text[n + 1]
    OBVIOUS
  <2>2. n \in 0 .. Len(text) - 1 /\ n \in 0 .. Len(text) /\ n + 1 \in DOMAIN text
    OBVIOUS
  <2>3. v \in Nat /\ ValueOf(text, n + 1) = 10 * v + c
    BY <2>1, <2>2, ValueSteps
  <2>4. c \in Nat
    BY <2>1, <2>2 DEF NamesServer, Digit
  <2>5. Id(n) = v % U64
    BY <1>2, <2>1, <2>2
  <2>6. Id(n + 1) = turn[Id(n)][text[n + 1]]
    <3> HIDE DEF turn
    <3> QED BY Turns
  <2>7. PICK w \in Int : w = v % U64
    BY <1>0, <2>3
  <2>8. turn[w][c] = (w * 10 + c) % U64
    BY <2>4
  <2>9. (w * 10 + c) % U64 = (10 * v + c) % U64
    BY ONLY <1>0, <2>3, <2>4, <2>7, RemainderTurns
  <2> HIDE DEF turn, Id
  <2> QED BY <2>1, <2>3, <2>5, <2>6, <2>7, <2>8, <2>9
<1> HIDE DEF G
<1>3. Len(text) \in Nat
  OBVIOUS
<1>4. Len(text) \in G
  BY <1>1, <1>2, <1>3, Induction
<1>5. Value(text) = ValueOf(text, Len(text)) /\ ServerId(text) = Id(Len(text))
  BY DEF Value, ValueOf, ServerId
<1> HIDE DEF Id
<1> QED BY <1>3, <1>4, <1>5 DEF G

(* The answers of the resolvers.                                          *)

\* A list, whatever it is a list of.
IsList(s) == \E T : s \in Seq(T)

\* What is kept of a list.
Keeps(out, list, positions) ==
    /\ IsList(out)
    /\ \A k \in DOMAIN out :
          \E i \in DOMAIN list : i \in positions /\ out[k] = list[i]
    /\ \A i \in DOMAIN list : i \in positions =>
          \E k \in DOMAIN out : out[k] = list[i]

LEMMA PickedKeeps ==
    ASSUME NEW l1, NEW p1, IsList(l1)
    PROVE  Keeps(Picked(l1, p1, Len(l1)), l1, p1)
<1>1. PICK T1 : l1 \in Seq(T1)
  BY DEF IsList
<1>2. PICK o1 : o1 = Picked(l1, p1, Len(l1))
  OBVIOUS
<1>3. \A T2, l2, p2 : l2 \in Seq(T2) =>
        \A o2 : o2 = Picked(l2, p2, Len(l2)) =>
         /\ o2 \in Seq(T2)
         /\ \A k \in DOMAIN o2 : \E i \in DOMAIN l2 : i \in p2 /\ o2[k] = l2[i]
         /\ \A i \in DOMAIN l2 : i \in p2 => \E k \in DOMAIN o2 : o2[k] = l2[i]
  <2> SUFFICES ASSUME NEW T2, NEW l2, NEW p2, l2 \in Seq(T2)
               PROVE  \A o2 : o2 = Picked(l2, p2, Len(l2)) =>
                       /\ o2 \in Seq(T2)
                       /\ \A k \in DOMAIN o2 :
                             \E i \in DOMAIN l2 : i \in p2 /\ o2[k] = l2[i]
                       /\ \A i \in DOMAIN l2 : i \in p2 =>
                             \E k \in DOMAIN o2 : o2[k] = l2[i]
    OBVIOUS
  <2>1. /\ Picked(l2, p2, Len(l2)) \in Seq(T2)
        /\ \A k \in DOMAIN Picked(l2, p2, Len(l2)) :
              \E i \in DOMAIN l2 : i \in p2 /\ Picked(l2, p2, Len(l2))[k] = l2[i]
        /\ \A i \in DOMAIN l2 : i \in p2 =>
              \E k \in DOMAIN Picked(l2, p2, Len(l2)) : Picked(l2, p2, Len(l2))[k] = l2[i]
    BY PickedHolds
  <2> QED BY <2>1
<1>4. /\ o1 \in Seq(T1)
      /\ \A k \in DOMAIN o1 : \E i \in DOMAIN l1 : i \in p1 /\ o1[k] = l1[i]
      /\ \A i \in DOMAIN l1 : i \in p1 => \E k \in DOMAIN o1 : o1[k] = l1[i]
  BY <1>1, <1>2, <1>3
<1>5. Keeps(o1, l1, p1)
  BY <1>4 DEF Keeps, IsList
<1> QED BY <1>2, <1>5

\* What a resolver calls back with: records of the answer that are good, and
\* all of them that are sure to be returned.
Answers(out, answer, good, sure, recs) ==
    /\ IsList(out)
    /\ \A k \in DOMAIN out : \E i \in good : out[k] = recs[i]
    /\ \A i \in sure : \E k \in DOMAIN out : out[k] = recs[i]

LEMMA RecordsPicked ==
    ASSUME NEW answer \in Seq(SrvRecord), NEW recs,
           recs = [i \in DOMAIN answer |-> recs[i]],
           NEW positions, positions \subseteq DOMAIN answer,
           NEW good, positions \subseteq good,
           NEW sure, sure \subseteq positions,
           NEW out, out = Picked(recs, positions, Len(answer))
    PROVE  Answers(out, answer, good, sure, recs)
<1> DEFINE T == {recs[i] : i \in DOMAIN answer}
<1>1. DOMAIN answer = 1 .. Len(answer) /\ Len(answer) \in Nat
  OBVIOUS
<1>2. IsList(recs) /\ Len(recs) = Len(answer) /\ DOMAIN recs = DOMAIN answer
  <2>1. recs \in [1 .. Len(answer) -> T]
    BY <1>1
  <2> HIDE DEF T
  <2>2. recs \in Seq(T)
    BY <1>1, <2>1
  <2> QED BY <1>1, <2>1, <2>2 DEF IsList
<1>3. Keeps(out, recs, positions)
  BY <1>2, PickedKeeps
<1> QED BY <1>2, <1>3 DEF Keeps, Answers

\* The records that the runtime may return, and those that it must.
Kept(answer) == {i \in DOMAIN answer : Whole(answer[i])}
First(answer) == {i \in DOMAIN answer : i <= MaxSrv /\ Whole(answer[i])}

\* The runtime's resolver returns whole records, and all of them that are
\* among the first MaxSrv.
LEMMA RuntimeAnswers ==
    ASSUME NEW answer \in Seq(SrvRecord), NEW out,
           out = ResQuery(answer) \/ out = WindowsQuery(answer)
    PROVE  Answers(out, answer, Kept(answer), First(answer), Clamped(answer))
<1>1. PICK recs : recs = Clamped(answer)
  OBVIOUS
<1>2. recs = [i \in DOMAIN answer |-> recs[i]]
  BY <1>1 DEF Clamped
<1>3. ASSUME NEW positions, out = Picked(recs, positions, Len(answer)),
             positions \subseteq Kept(answer), First(answer) \subseteq positions
      PROVE  Answers(out, answer, Kept(answer), First(answer), recs)
  <2>1. positions \subseteq DOMAIN answer
    BY <1>3 DEF Kept
  <2> QED BY <1>2, <1>3, <2>1, RecordsPicked
<1>4. CASE out = ResQuery(answer)
  <2>1. out = Picked(recs, First(answer), Len(answer))
    BY <1>1, <1>4 DEF ResQuery, First
  <2>2. First(answer) \subseteq Kept(answer)
    BY DEF First, Kept
  <2> QED BY <1>1, <1>3, <2>1, <2>2
<1>5. CASE out = WindowsQuery(answer)
  <2>1. PICK positions :
          positions = {i \in DOMAIN answer : /\ Whole(answer[i])
                                             /\ Cardinality(WholeBefore(answer, i)) < MaxSrv}
    OBVIOUS
  <2>2. out = Picked(recs, positions, Len(answer))
    BY <1>1, <1>5, <2>1 DEF WindowsQuery
  <2>3. ASSUME NEW i \in DOMAIN answer, i <= MaxSrv, Whole(answer[i])
        PROVE  i \in positions
    <3>1. i \in Nat /\ i >= 1 /\ MaxSrv \in Nat
      BY SrvAssumption
    <3>2. WholeBefore(answer, i) \subseteq 1 .. (i - 1)
      BY DEF WholeBefore
    <3>3. IsFiniteSet(1 .. (i - 1)) /\ Cardinality(1 .. (i - 1)) = i - 1
      <4>1. PICK b \in Int : b = i - 1
        BY <3>1
      <4>2. /\ IsFiniteSet(1 .. b)
            /\ Cardinality(1 .. b) = IF 1 > b THEN 0 ELSE b - 1 + 1
        BY ONLY b \in Int, FS_Interval
      <4> QED BY <3>1, <4>1, <4>2
    <3>4. /\ Cardinality(WholeBefore(answer, i)) <= i - 1
          /\ Cardinality(WholeBefore(answer, i)) \in Nat
      BY <3>2, <3>3, FS_Subset, FS_CardinalityType
    <3>6. Cardinality(WholeBefore(answer, i)) < MaxSrv
      BY <2>3, <3>1, <3>4
    <3> QED BY <2>1, <2>3, <3>6
  <2>4. positions \subseteq Kept(answer) /\ First(answer) \subseteq positions
    BY <2>1, <2>3 DEF Kept, First
  <2> QED BY <1>1, <1>3, <2>2, <2>4
<1> QED BY <1>4, <1>5

\* The load generator's cache holds whole records of the Internet class, and
\* all of them if none was lost.
LEMMA CacheAnswers ==
    ASSUME NEW answer \in Seq(SrvRecord), NEW lost, NEW out,
           out = CacheQuery(answer, lost),
           NEW good, good = {i \in DOMAIN answer : Whole(answer[i]) /\ answer[i].class = "in"}
    PROVE  Answers(out, answer, good, good \ lost, Wrapped(answer))
<1>1. PICK recs : recs = Wrapped(answer)
  OBVIOUS
<1>2. recs = [i \in DOMAIN answer |-> recs[i]]
  BY <1>1 DEF Wrapped
<1>3. out = Picked(recs, good \ lost, Len(answer))
  <2>1. good \ lost = {i \in DOMAIN answer :
                         /\ Whole(answer[i]) /\ answer[i].class = "in"
                         /\ i \notin lost}
    OBVIOUS
  <2> QED BY <1>1, <2>1 DEF CacheQuery
<1>4. good \ lost \subseteq good /\ good \ lost \subseteq DOMAIN answer
  OBVIOUS
<1>5. PICK positions : positions = good \ lost
  OBVIOUS
<1>6. Answers(out, answer, good, positions, recs)
  BY <1>2, <1>3, <1>4, <1>5, RecordsPicked
<1> QED BY <1>1, <1>5, <1>6

\* A list of addresses of the book, with all of them that are of a family.
Finds(out, found, families) ==
    /\ IsList(out)
    /\ \A k \in DOMAIN out : \E i \in DOMAIN found : out[k] = found[i]
    /\ \A i \in DOMAIN found : found[i].family \in families =>
          \E k \in DOMAIN out : out[k] = found[i]

LEMMA FamilyFound ==
    ASSUME NEW found \in Seq(Address), NEW families
    PROVE  Finds(OfFamily(found, families), found, families)
<1>1. PICK positions : positions = {i \in DOMAIN found : found[i].family \in families}
  OBVIOUS
<1>2. OfFamily(found, families) = Picked(found, positions, Len(found))
  BY <1>1 DEF OfFamily
<1>3. IsList(found)
  BY DEF IsList
<1>4. Keeps(OfFamily(found, families), found, positions)
  BY <1>2, <1>3, PickedKeeps
<1> QED BY <1>1, <1>4 DEF Keeps, Finds

\* Two lists, one after the other.
Joins(out, a, b) ==
    /\ IsList(out)
    /\ \A k \in DOMAIN out : \/ \E j \in DOMAIN a : out[k] = a[j]
                             \/ \E j \in DOMAIN b : out[k] = b[j]
    /\ \A j \in DOMAIN a : \E k \in DOMAIN out : out[k] = a[j]
    /\ \A j \in DOMAIN b : \E k \in DOMAIN out : out[k] = b[j]

LEMMA Joined ==
    ASSUME NEW a, IsList(a), NEW b, IsList(b), NEW out, out = a \o b
    PROVE  Joins(out, a, b)
<1>1. PICK A, B : a \in Seq(A) /\ b \in Seq(B)
  BY DEF IsList
<1>2. /\ Len(a) \in Nat /\ Len(b) \in Nat
      /\ DOMAIN a = 1 .. Len(a) /\ DOMAIN b = 1 .. Len(b)
  BY <1>1
<1> DEFINE T == A \cup B
<1>3. a \in Seq(T) /\ b \in Seq(T)
  BY <1>1
<1> HIDE DEF T
<1>4. /\ out \in Seq(T) /\ DOMAIN out = 1 .. Len(a) + Len(b)
      /\ \A k \in 1 .. Len(a) + Len(b) :
            out[k] = IF k <= Len(a) THEN a[k] ELSE b[k - Len(a)]
  BY <1>2, <1>3
<1>5. ASSUME NEW k \in DOMAIN out
      PROVE  \/ \E j \in DOMAIN a : out[k] = a[j]
             \/ \E j \in DOMAIN b : out[k] = b[j]
  <2>1. CASE k <= Len(a)
    <3>1. k \in DOMAIN a /\ out[k] = a[k]
      BY <1>2, <1>4, <1>5, <2>1
    <3> QED BY <3>1
  <2>2. CASE ~(k <= Len(a))
    <3>1. k - Len(a) \in DOMAIN b /\ out[k] = b[k - Len(a)]
      BY <1>2, <1>4, <1>5, <2>2
    <3> QED BY <3>1
  <2> QED BY <2>1, <2>2
<1>6. ASSUME NEW j \in DOMAIN a PROVE j \in DOMAIN out /\ out[j] = a[j]
  BY <1>2, <1>4, <1>6
<1>7. ASSUME NEW j \in DOMAIN b
      PROVE  Len(a) + j \in DOMAIN out /\ out[Len(a) + j] = b[j]
  <2>1. /\ Len(a) + j \in 1 .. Len(a) + Len(b) /\ ~(Len(a) + j <= Len(a))
        /\ (Len(a) + j) - Len(a) = j
    BY <1>2, <1>7
  <2> QED BY <1>4, <2>1
<1>8. IsList(out)
  BY <1>4 DEF IsList
<1> QED BY <1>5, <1>6, <1>7, <1>8 DEF Joins

\* A lookup finds addresses of the book, all of them that are of a family of
\* the Internet.
LEMMA AddressesFound ==
    ASSUME NEW target, reply.book[target] \in Seq(Address)
    PROVE  Finds(AddressesOf(target), reply.book[target], {"v4", "v6"})
<1>1. PICK found, out : found = reply.book[target] /\ out = AddressesOf(target)
  OBVIOUS
<1>2. CASE host # "perf"
  <2>1. out = OfFamily(found, {"v4", "v6"})
    BY <1>1, <1>2 DEF AddressesOf, resolve_addresses
  <2> QED BY <1>1, <2>1, FamilyFound
<1>3. CASE host = "perf"
  <2>1. PICK a, b : a = OfFamily(found, {"v4"}) /\ b = OfFamily(found, {"v6"})
    OBVIOUS
  <2>2. out = a \o b
    BY <1>1, <1>3, <2>1 DEF AddressesOf, dns_query_addrs
  <2>3. Finds(a, found, {"v4"}) /\ Finds(b, found, {"v6"})
    BY <1>1, <2>1, FamilyFound
  <2>4. IsList(a) /\ IsList(b)
    BY <2>3 DEF Finds
  <2>5. Joins(out, a, b)
    BY <2>2, <2>4, Joined
  <2>6. ASSUME NEW k \in DOMAIN out PROVE \E i \in DOMAIN found : out[k] = found[i]
    BY <2>3, <2>5 DEF Finds, Joins
  <2>7. ASSUME NEW i \in DOMAIN found, found[i].family \in {"v4", "v6"}
        PROVE  \E k \in DOMAIN out : out[k] = found[i]
    <3>1. (\E j \in DOMAIN a : a[j] = found[i]) \/ \E j \in DOMAIN b : b[j] = found[i]
      BY <2>3, <2>7 DEF Finds
    <3> QED BY <2>5, <3>1 DEF Joins
  <2>8. Finds(out, found, {"v4", "v6"})
    BY <2>5, <2>6, <2>7 DEF Finds, Joins
  <2> QED BY <1>1, <2>8
<1> QED BY <1>2, <1>3

(* The first discovery.  A record that the client may use waits to be      *)
(* looked up, as the resolver handed it on, or all of its addresses are    *)
(* held and its TTL is in the minimum.                                     *)

\* A TTL in the 32 bits of a record: wrapped by the load generator, held at
\* the largest number by the runtime.
Cut(t) ==
    IF host = "perf" THEN t % U32 ELSE IF t > U32 - 1 THEN U32 - 1 ELSE t

HandedOn(r) == [target |-> r.target, port |-> r.port, ttl |-> Cut(r.ttl)]

Waits(r) == \E i \in DOMAIN records : records[i] = HandedOn(r)

Reached(r) ==
    \A j \in DOMAIN reply.book[r.target] :
       reply.book[r.target][j].family # "other" =>
          \E k \in DOMAIN held.list :
             /\ held.list[k].addr = reply.book[r.target][j]
             /\ IsServerOf(held.list[k], r)

\* A TTL that the load generator wraps to zero has no part in the minimum.
Timely(r) ==
    r.ttl > 0 => /\ ttl <= r.ttl
                 /\ ttl > 0 \/ r.ttl >= U32
                 /\ host = "runtime" => ttl > 0

ReplyShape ==
    /\ reply.answer \in Seq(SrvRecord)
    /\ \A i \in DOMAIN reply.answer : reply.answer[i].target \in DOMAIN reply.book
    /\ FixedTarget \in DOMAIN reply.book
    /\ \A t \in DOMAIN reply.book : reply.book[t] \in Seq(Address)

WasPublished(record) ==
    NamesServer(record.target) =>
       \E r \in Published : r.target = record.target /\ r.port = record.port

RecordsInv ==
    /\ IsList(records)
    /\ \A i \in DOMAIN records :
          records[i].ttl \in 0 .. (U32 - 1) /\ WasPublished(records[i])

HeldInv ==
    /\ held = [list |-> held.list, room |-> held.room] /\ IsList(held.list)
    /\ \A k \in DOMAIN held.list : \E r \in Published : IsServerOf(held.list[k], r)

LookUpInv ==
    /\ ReplyShape
    /\ RecordsInv
    /\ HeldInv
    /\ host = "embedder" => records = <<>> /\ held.list = <<>>
    /\ (~starved /\ host # "embedder") =>
         \A r \in FirstPublished : Waits(r) \/ (Reached(r) /\ Timely(r))
    /\ ttl \in 0 .. (U32 - 1)

AnswerInv ==
    /\ starved \in BOOLEAN
    /\ host \in {"runtime", "perf", "embedder", "inspector"}
    /\ pc \in {"name", "made", "query", "lookup", "up"} => host # "inspector"
    /\ pc \notin {"lookup", "up"} => reply = Nothing /\ ttl = 0
    /\ pc # "lookup" => held = [list |-> <<>>, room |-> 0]
    /\ pc = "lookup" => LookUpInv
    /\ pc = "up" => ServersArePublished

\* A published record names a server, and there is an answer for its name.
LEMMA PublishedShape ==
    ASSUME ReplyShape
    PROVE  /\ \A r \in Published :
                 /\ r.target \in DOMAIN reply.book /\ r.target \in Seq(Char)
                 /\ NamesServer(r.target) /\ r.ttl \in Nat
                 /\ reply.book[r.target] \in Seq(Address)
           /\ FirstPublished \subseteq Published
<1>1. CASE host = "runtime" /\ fixedPort # 0
  <2>1. /\ Published = {[target |-> FixedTarget, port |-> fixedPort, ttl |-> FixedTtl]}
        /\ FirstPublished = Published
    BY <1>1 DEF Published, FirstPublished
  <2>2. FixedTarget \in Seq(Char) /\ NamesServer(FixedTarget) /\ FixedTtl \in Nat
    BY SrvAssumption DEF FixedTarget, NamesServer, Digit, Char
  <2> QED BY <2>1, <2>2 DEF ReplyShape
<1>2. CASE ~(host = "runtime" /\ fixedPort # 0)
  <2>1. ASSUME NEW r \in Published
        PROVE  \E i \in DOMAIN reply.answer :
                  /\ Numeral(reply.answer[i].target)
                  /\ r.target = reply.answer[i].target
                  /\ r.ttl = reply.answer[i].ttl * MsPerSec
    BY <1>2 DEF Published, Usable
  <2>2. \A i \in DOMAIN reply.answer :
           reply.answer[i].target \in Seq(Char) /\ reply.answer[i].ttl \in Nat
    <3>1. \A i \in DOMAIN reply.answer : reply.answer[i] \in SrvRecord
      BY DEF ReplyShape
    <3> QED BY <3>1 DEF SrvRecord
  <2>3. \A i \in DOMAIN reply.answer : reply.answer[i].ttl * MsPerSec \in Nat
    BY <2>2, SrvAssumption
  <2>4. FirstPublished \subseteq Published
    BY <1>2 DEF Published, FirstPublished
  <2>5. ASSUME NEW r \in Published
        PROVE  /\ r.target \in DOMAIN reply.book /\ r.target \in Seq(Char)
               /\ NamesServer(r.target) /\ r.ttl \in Nat
               /\ reply.book[r.target] \in Seq(Address)
    <3>1. PICK i \in DOMAIN reply.answer :
                  /\ Numeral(reply.answer[i].target)
                  /\ r.target = reply.answer[i].target
                  /\ r.ttl = reply.answer[i].ttl * MsPerSec
      BY <2>1
    <3>2. NamesServer(r.target)
      BY <3>1 DEF Numeral, NamesServer
    <3> QED BY <2>2, <2>3, <3>1, <3>2 DEF ReplyShape
  <2> QED BY <2>4, <2>5
<1> QED BY <1>1, <1>2

\* A TTL is never made longer, and only one past 32 bits may become zero, in
\* the load generator.
LEMMA CutShort ==
    ASSUME NEW t \in Nat
    PROVE  /\ Cut(t) \in 0 .. (U32 - 1) /\ Cut(t) <= t
           /\ t > 0 => Cut(t) > 0 \/ t >= U32
           /\ t > 0 /\ host # "perf" => Cut(t) > 0
<1>1. U32 \in Nat /\ U32 >= 2
  BY SrvAssumption
<1>2. t % U32 \in 0 .. (U32 - 1) /\ (t < U32 => t % U32 = t)
  BY <1>1
<1>3. t % U32 <= t
  BY <1>1, <1>2
<1>4. CASE host = "perf"
  <2>1. Cut(t) = t % U32
    BY <1>4 DEF Cut
  <2> QED BY <1>1, <1>2, <1>3, <1>4, <2>1
<1>5. CASE host # "perf"
  <2>1. Cut(t) = IF t > U32 - 1 THEN U32 - 1 ELSE t
    BY <1>5 DEF Cut
  <2> QED BY <1>1, <2>1
<1> QED BY <1>4, <1>5

LEMMA Lowered ==
    ASSUME NEW old \in Nat, NEW x \in Nat, NEW least, least = LowerTtl(old, x)
    PROVE  /\ least \in {old, x}
           /\ x > 0 => least > 0 /\ least <= x
           /\ old > 0 => least > 0 /\ least <= old
  BY DEF LowerTtl

\* A later record lowers the minimum or leaves it.
LEMMA TimelyKept ==
    ASSUME NEW r, r.ttl \in Nat, ttl \in 0 .. (U32 - 1), NEW x \in 0 .. (U32 - 1),
           ttl' = LowerTtl(ttl, x), host' = host,
           Timely(r) \/ x = Cut(r.ttl)
    PROVE  Timely(r)' /\ ttl' \in 0 .. (U32 - 1)
<1>0. PICK a, b : a = ttl /\ b = ttl'
  OBVIOUS
<1>1. U32 \in Nat /\ U32 >= 2 /\ a \in 0 .. (U32 - 1) /\ a \in Nat /\ x \in Nat
  BY <1>0, SrvAssumption
<1>2. /\ b \in {a, x}
      /\ x > 0 => b > 0 /\ b <= x
      /\ a > 0 => b > 0 /\ b <= a
  BY <1>0, <1>1, Lowered
<1>3. b \in 0 .. (U32 - 1)
  BY <1>1, <1>2
<1>4. PICK t \in Nat : t = r.ttl
  OBVIOUS
<1>5. CASE Timely(r)
  <2>1. t > 0 => a <= t /\ (a > 0 \/ t >= U32) /\ (host = "runtime" => a > 0)
    BY <1>0, <1>4, <1>5 DEF Timely
  <2>2. t > 0 => b <= t /\ (b > 0 \/ t >= U32) /\ (host = "runtime" => b > 0)
    BY ONLY <1>1, <1>2, <1>3, <2>1, t \in Nat
  <2> QED BY <1>0, <1>3, <1>4, <2>2 DEF Timely
<1>6. CASE x = Cut(r.ttl)
  <2>1. /\ x <= t
        /\ t > 0 => x > 0 \/ t >= U32
        /\ t > 0 /\ host # "perf" => x > 0
    BY <1>4, <1>6, CutShort
  <2>2. t > 0 => b <= t /\ (b > 0 \/ t >= U32) /\ (host = "runtime" => b > 0)
    BY ONLY <1>1, <1>2, <1>3, <2>1, t \in Nat
  <2> QED BY <1>0, <1>3, <1>4, <2>2 DEF Timely
<1> QED BY <1>5, <1>6

\* The list of endpoints after the addresses of a record were added.
Adds(now, before, addrs, record, memory) ==
    /\ now = [list |-> now.list, room |-> now.room] /\ IsList(now.list)
    /\ \A k \in DOMAIN now.list :
          \/ \E j \in DOMAIN before.list : now.list[k] = before.list[j]
          \/ \E i \in DOMAIN addrs : now.list[k] = Endpoint(addrs[i], record)
    /\ \A j \in DOMAIN before.list : \E k \in DOMAIN now.list : now.list[k] = before.list[j]
    /\ memory => \A i \in DOMAIN addrs : \E k \in DOMAIN now.list :
                    now.list[k] = Endpoint(addrs[i], record)

LEMMA AddressesAdded ==
    ASSUME NEW h1, h1 = [list |-> h1.list, room |-> h1.room], IsList(h1.list),
           NEW s1, IsList(s1), NEW r1, NEW m1,
           NEW g1, g1 = AddAddresses(h1, s1, Len(s1), r1, m1)
    PROVE  Adds(g1, h1, s1, r1, m1)
<1>1. PICK T1, A1 : h1.list \in Seq(T1) /\ s1 \in Seq(A1)
  BY DEF IsList
<1> DEFINE U1 == T1 \cup {Endpoint(a, r1) : a \in A1}
<1>2. h1.list \in Seq(U1)
  BY <1>1
<1>3. \A a \in A1 : Endpoint(a, r1) \in U1
  OBVIOUS
<1> HIDE DEF U1
<1>4. IsHeld(h1, U1)
  BY <1>2 DEF IsHeld
<1>5. /\ IsHeld(g1, U1)
      /\ \A k \in DOMAIN g1.list :
            \/ \E j \in DOMAIN h1.list : g1.list[k] = h1.list[j]
            \/ \E i \in DOMAIN s1 : g1.list[k] = Endpoint(s1[i], r1)
      /\ \A j \in DOMAIN h1.list : \E k \in DOMAIN g1.list : g1.list[k] = h1.list[j]
      /\ m1 => \A i \in DOMAIN s1 : \E k \in DOMAIN g1.list :
                      g1.list[k] = Endpoint(s1[i], r1)
  BY <1>1, <1>3, <1>4, AddHolds
<1> QED BY <1>5 DEF IsHeld, IsList, Adds

\* An endpoint of a record that a resolver handed on is a server of what was
\* published.
LEMMA EndpointServes ==
    ASSUME NEW x1, NEW r1, r1.target = x1.target, r1.port = x1.port,
           r1.target \in Seq(Char), NamesServer(r1.target),
           NEW a1, \E j \in DOMAIN reply.book[r1.target] : a1 = reply.book[r1.target][j]
    PROVE  Endpoint(a1, x1).addr = a1 /\ IsServerOf(Endpoint(a1, x1), r1)
<1>1. ServerId(x1.target) = Value(r1.target) % U64
  BY ServerIdExact
<1>2. PICK e : e = Endpoint(a1, x1)
  OBVIOUS
<1>3. e.addr = a1 /\ e.port = x1.port /\ e.id = ServerId(x1.target)
  BY <1>2 DEF Endpoint
<1> QED BY <1>1, <1>2, <1>3 DEF IsServerOf

\* A list without its first entry.
LEMMA TailHolds ==
    ASSUME NEW s1, IsList(s1), s1 # <<>>
    PROVE  /\ 1 \in DOMAIN s1 /\ Head(s1) = s1[1] /\ IsList(Tail(s1))
           /\ \A k \in DOMAIN Tail(s1) : \E i \in DOMAIN s1 : Tail(s1)[k] = s1[i]
           /\ \A i \in DOMAIN s1 : i = 1 \/ \E k \in DOMAIN Tail(s1) : Tail(s1)[k] = s1[i]
<1>1. PICK T1 : s1 \in Seq(T1)
  BY DEF IsList
<1>2. /\ Len(s1) \in Nat /\ Len(s1) >= 1 /\ DOMAIN s1 = 1 .. Len(s1)
      /\ Head(s1) = s1[1] /\ Tail(s1) \in Seq(T1)
      /\ DOMAIN Tail(s1) = 1 .. Len(s1) - 1
      /\ \A k \in 1 .. Len(s1) - 1 : Tail(s1)[k] = s1[k + 1]
  BY <1>1
<1>3. ASSUME NEW k \in DOMAIN Tail(s1) PROVE \E i \in DOMAIN s1 : Tail(s1)[k] = s1[i]
  <2>1. k + 1 \in DOMAIN s1 /\ Tail(s1)[k] = s1[k + 1]
    BY <1>2, <1>3
  <2> QED BY <2>1
<1>4. ASSUME NEW i \in DOMAIN s1, i # 1
      PROVE  \E k \in DOMAIN Tail(s1) : Tail(s1)[k] = s1[i]
  <2>1. i - 1 \in DOMAIN Tail(s1) /\ Tail(s1)[i - 1] = s1[(i - 1) + 1]
    BY <1>2, <1>4
  <2>2. (i - 1) + 1 = i
    BY <1>2, <1>4
  <2> QED BY <2>1, <2>2
<1> QED BY <1>2, <1>3, <1>4 DEF IsList

\* The published records, and what serves them, depend on host, port and
\* answer only.
LEMMA SamePublished ==
    ASSUME UNCHANGED <<host, fixedPort, reply>>
    PROVE  /\ Published' = Published /\ FirstPublished' = FirstPublished
           /\ ReplyShape' = ReplyShape
           /\ \A s, r : IsServerOf(s, r)' = IsServerOf(s, r)
           /\ \A x : WasPublished(x)' = WasPublished(x)
           /\ \A r : HandedOn(r)' = HandedOn(r)
<1>1. Published' = Published
  BY DEF Published, Usable
<1>2. FirstPublished' = FirstPublished
  BY <1>1 DEF FirstPublished, Usable
<1>3. ReplyShape' = ReplyShape
  BY DEF ReplyShape
<1>4. \A s, r : IsServerOf(s, r)' = IsServerOf(s, r)
  BY DEF IsServerOf
<1>5. \A x : WasPublished(x)' = WasPublished(x)
  BY <1>1 DEF WasPublished
<1>6. \A r : HandedOn(r)' = HandedOn(r)
  BY DEF HandedOn, Cut
<1> QED BY <1>1, <1>2, <1>3, <1>4, <1>5, <1>6

\* A turn of the loop leaves what was held, and what was reached in time.
LEMMA ReachedKept ==
    ASSUME UNCHANGED <<host, fixedPort, reply>>, NEW r, Reached(r),
           \A j \in DOMAIN held.list : \E k \in DOMAIN held'.list : held'.list[k] = held.list[j]
    PROVE  Reached(r)'
<1>1. ASSUME NEW j \in DOMAIN reply.book[r.target],
             reply.book[r.target][j].family # "other"
      PROVE  \E k \in DOMAIN held'.list :
                /\ held'.list[k].addr = reply.book[r.target][j]
                /\ IsServerOf(held'.list[k], r)
  BY <1>1 DEF Reached
<1>2. \A s : IsServerOf(s, r)' = IsServerOf(s, r)
  BY SamePublished
<1>3. reply'.book[r.target] = reply.book[r.target]
  OBVIOUS
<1> QED BY <1>1, <1>2, <1>3 DEF Reached

\* The turn of a record that names a server.
LEMMA LookedUp ==
    ASSUME LookUpInv, UNCHANGED <<host, fixedPort, reply>>, records # <<>>,
           NEW memory \in BOOLEAN, NEW x, x = Head(records), NamesServer(x.target),
           records' = Tail(records), starved' = (starved \/ ~memory), starved \in BOOLEAN,
           ttl' = LowerTtl(ttl, x.ttl),
           NEW addrs, addrs = AddressesOf(x.target),
           held' = AddAddresses(held, addrs, Len(addrs), x, memory)
             \/ (held' = held /\ ~memory)
    PROVE  LookUpInv'
<1>0. /\ ReplyShape /\ RecordsInv /\ HeldInv /\ host # "embedder"
      /\ ttl \in 0 .. (U32 - 1)
  BY DEF LookUpInv
<1>1. /\ Published' = Published /\ FirstPublished' = FirstPublished
      /\ ReplyShape' = ReplyShape
      /\ \A s, r : IsServerOf(s, r)' = IsServerOf(s, r)
      /\ \A y : WasPublished(y)' = WasPublished(y)
      /\ \A r : HandedOn(r)' = HandedOn(r)
  BY SamePublished
<1>2. /\ 1 \in DOMAIN records /\ x = records[1] /\ IsList(records')
      /\ \A k \in DOMAIN records' : \E i \in DOMAIN records : records'[k] = records[i]
      /\ \A i \in DOMAIN records : i = 1 \/ \E k \in DOMAIN records' : records'[k] = records[i]
  BY <1>0, TailHolds DEF RecordsInv
<1>3. RecordsInv'
  BY <1>0, <1>1, <1>2 DEF RecordsInv
<1>4. x.ttl \in 0 .. (U32 - 1)
  BY <1>0, <1>2 DEF RecordsInv
<1>5. PICK r0 \in Published : r0.target = x.target /\ r0.port = x.port
  BY <1>0, <1>2 DEF RecordsInv, WasPublished
<1>6. /\ \A r \in Published :
            /\ r.target \in DOMAIN reply.book /\ r.target \in Seq(Char)
            /\ NamesServer(r.target) /\ r.ttl \in Nat
            /\ reply.book[r.target] \in Seq(Address)
      /\ FirstPublished \subseteq Published
  BY <1>0, PublishedShape
<1>7. PICK found : found = reply.book[x.target]
  OBVIOUS
<1>8. found \in Seq(Address) /\ Finds(addrs, found, {"v4", "v6"})
  BY <1>5, <1>6, <1>7, AddressesFound
<1>9. /\ IsList(addrs)
      /\ \A i \in DOMAIN addrs : \E j \in DOMAIN found : addrs[i] = found[j]
      /\ \A j \in DOMAIN found : found[j].family # "other" =>
            \E i \in DOMAIN addrs : addrs[i] = found[j]
  <2>1. \A j \in DOMAIN found : found[j].family \in {"v4", "v6", "other"}
    <3>1. \A j \in DOMAIN found : found[j] \in Address
      BY <1>8
    <3> QED BY <3>1 DEF Address
  <2> QED BY <1>8, <2>1 DEF Finds
<1>10. \/ Adds(held', held, addrs, x, memory)
       \/ held' = held /\ ~memory
  <2>1. held = [list |-> held.list, room |-> held.room] /\ IsList(held.list)
    BY <1>0 DEF HeldInv
  <2>2. PICK h2, h3 : h2 = held /\ h3 = held'
    OBVIOUS
  <2>3. ASSUME h3 = AddAddresses(h2, addrs, Len(addrs), x, memory)
        PROVE  Adds(h3, h2, addrs, x, memory)
    BY <1>9, <2>1, <2>2, <2>3, AddressesAdded
  <2> QED BY <2>2, <2>3
<1>11. ASSUME NEW i \in DOMAIN addrs, NEW r \in Published,
              r.target = x.target, r.port = x.port
       PROVE  /\ Endpoint(addrs[i], x).addr = addrs[i]
              /\ IsServerOf(Endpoint(addrs[i], x), r)
  <2>1. PICK a : a = addrs[i]
    OBVIOUS
  <2>2. \E j \in DOMAIN reply.book[r.target] : a = reply.book[r.target][j]
    BY <1>7, <1>9, <1>11, <2>1
  <2>3. /\ r.target = x.target /\ r.port = x.port
        /\ r.target \in Seq(Char) /\ NamesServer(r.target)
    BY <1>6, <1>11
  <2>4. Endpoint(a, x).addr = a /\ IsServerOf(Endpoint(a, x), r)
    BY ONLY <2>2, <2>3, EndpointServes
  <2> QED BY <2>1, <2>4
<1>12. HeldInv'
  <2>1. CASE held' = held
    BY <1>0, <1>1, <2>1 DEF HeldInv
  <2>2. CASE Adds(held', held, addrs, x, memory)
    <3>1. ASSUME NEW k \in DOMAIN held'.list
          PROVE  \E r \in Published : IsServerOf(held'.list[k], r)
      <4>1. CASE \E j \in DOMAIN held.list : held'.list[k] = held.list[j]
        BY <1>0, <4>1 DEF HeldInv
      <4>2. CASE \E i \in DOMAIN addrs : held'.list[k] = Endpoint(addrs[i], x)
        BY <1>5, <1>11, <4>2
      <4> QED BY <2>2, <4>1, <4>2 DEF Adds
    <3>2. held' = [list |-> held'.list, room |-> held'.room] /\ IsList(held'.list)
      BY <2>2 DEF Adds
    <3> QED BY <1>1, <3>1, <3>2 DEF HeldInv
  <2> QED BY <1>10, <2>1, <2>2
<1>13. ASSUME NEW r \in FirstPublished, ~starved'
       PROVE  Waits(r)' \/ (Reached(r)' /\ Timely(r)')
  <2>1. memory /\ ~starved
    BY <1>13
  <2>2. r \in Published /\ r.ttl \in Nat
    BY <1>6, <1>13
  <2>3. Adds(held', held, addrs, x, memory)
    BY <1>10, <2>1
  <2>4. Waits(r) \/ (Reached(r) /\ Timely(r))
    BY <1>0, <2>1 DEF LookUpInv
  <2>5. CASE Reached(r) /\ Timely(r)
    <3>1. \A j \in DOMAIN held.list : \E k \in DOMAIN held'.list : held'.list[k] = held.list[j]
      BY <2>3 DEF Adds
    <3>2. Reached(r)'
      BY <2>5, <3>1, ReachedKept
    <3>3. Timely(r)'
      BY <1>0, <1>4, <2>2, <2>5, TimelyKept
    <3> QED BY <3>2, <3>3
  <2>6. CASE x = HandedOn(r)
    <3>1. x.target = r.target /\ x.port = r.port /\ x.ttl = Cut(r.ttl)
      BY <2>6 DEF HandedOn
    <3>2. Timely(r)'
      BY <1>0, <1>4, <2>2, <3>1, TimelyKept
    <3>3. ASSUME NEW j \in DOMAIN found, found[j].family # "other"
          PROVE  \E k \in DOMAIN held'.list :
                    held'.list[k].addr = found[j] /\ IsServerOf(held'.list[k], r)
      <4>1. PICK i \in DOMAIN addrs : addrs[i] = found[j]
        BY <1>9, <3>3
      <4>2. PICK k \in DOMAIN held'.list : held'.list[k] = Endpoint(addrs[i], x)
        BY <2>1, <2>3, <4>1 DEF Adds
      <4>3. Endpoint(addrs[i], x).addr = addrs[i] /\ IsServerOf(Endpoint(addrs[i], x), r)
        BY <1>11, <2>2, <3>1
      <4> QED BY <4>1, <4>2, <4>3
    <3>4. reply'.book[r.target] = found
      BY <1>7, <3>1
    <3>5. Reached(r)'
      BY <1>1, <3>3, <3>4 DEF Reached
    <3> QED BY <3>2, <3>5
  <2>7. CASE \E i \in DOMAIN records : i # 1 /\ records[i] = HandedOn(r)
    <3>1. \E k \in DOMAIN records' : records'[k] = HandedOn(r)
      BY <1>2, <2>7
    <3> QED BY <1>1, <3>1 DEF Waits
  <2> QED BY <1>2, <2>4, <2>5, <2>6, <2>7 DEF Waits
<1>14. ttl' \in 0 .. (U32 - 1)
  <2>1. PICK a, b, c : a = ttl /\ b = ttl' /\ c = x.ttl
    OBVIOUS
  <2>2. b \in {a, c}
    BY <2>1 DEF LowerTtl
  <2> QED BY <1>0, <1>4, <2>1, <2>2
<1> QED BY <1>0, <1>1, <1>3, <1>12, <1>13, <1>14 DEF LookUpInv

\* The turn of any other record, which is passed over.
LEMMA PassedOver ==
    ASSUME LookUpInv, UNCHANGED <<host, fixedPort, reply, held, ttl>>, records # <<>>,
           NEW x, x = Head(records), ~NamesServer(x.target),
           records' = Tail(records), ~starved' => ~starved
    PROVE  LookUpInv'
<1>0. /\ ReplyShape /\ RecordsInv /\ HeldInv /\ host # "embedder"
      /\ ttl \in 0 .. (U32 - 1)
  BY DEF LookUpInv
<1>1. /\ Published' = Published /\ FirstPublished' = FirstPublished
      /\ ReplyShape' = ReplyShape
      /\ \A s, r : IsServerOf(s, r)' = IsServerOf(s, r)
      /\ \A y : WasPublished(y)' = WasPublished(y)
      /\ \A r : HandedOn(r)' = HandedOn(r)
  BY SamePublished
<1>2. /\ 1 \in DOMAIN records /\ x = records[1] /\ IsList(records')
      /\ \A k \in DOMAIN records' : \E i \in DOMAIN records : records'[k] = records[i]
      /\ \A i \in DOMAIN records : i = 1 \/ \E k \in DOMAIN records' : records'[k] = records[i]
  BY <1>0, TailHolds DEF RecordsInv
<1>3. RecordsInv'
  BY <1>0, <1>1, <1>2 DEF RecordsInv
<1>4. HeldInv'
  BY <1>0, <1>1 DEF HeldInv
<1>5. ASSUME NEW r \in FirstPublished, ~starved'
      PROVE  Waits(r)' \/ (Reached(r)' /\ Timely(r)')
  <2>1. Waits(r) \/ (Reached(r) /\ Timely(r))
    BY <1>0, <1>5 DEF LookUpInv
  <2>2. CASE Reached(r) /\ Timely(r)
    <3>1. Reached(r)'
      BY <2>2, ReachedKept
    <3> QED BY <2>2, <3>1 DEF Timely
  <2>3. x # HandedOn(r)
    <3>1. NamesServer(r.target)
      BY <1>0, <1>5, PublishedShape
    <3> QED BY <3>1 DEF HandedOn
  <2>4. CASE Waits(r)
    <3>1. \E k \in DOMAIN records' : records'[k] = HandedOn(r)
      BY <1>2, <2>3, <2>4 DEF Waits
    <3> QED BY <1>1, <3>1 DEF Waits
  <2> QED BY <2>1, <2>2, <2>4
<1> QED BY <1>0, <1>1, <1>3, <1>4, <1>5 DEF LookUpInv

\* What holds when the resolver has called back, of whatever it returned.
AnsweredInv ==
    /\ RecordsInv
    /\ (~starved /\ host # "embedder") => \A r \in FirstPublished : Waits(r)

\* A resolver that returns good records of the answer, among them, unless
\* memory ran out, the usable ones of the first MaxSrv.
LEMMA QueryAnswered ==
    ASSUME NEW answer \in Seq(SrvRecord), reply'.answer = answer,
           UNCHANGED <<host, fixedPort>>, ~(host = "runtime" /\ fixedPort # 0),
           NEW good, NEW sure, NEW recs,
           Answers(records', answer, good, sure, recs),
           good \subseteq DOMAIN answer, sure \subseteq DOMAIN answer,
           \A i \in DOMAIN answer :
              recs[i] = Record(answer[i], Cut(answer[i].ttl * MsPerSec)),
           \A i \in good : Numeral(answer[i].target) => Usable(answer[i]),
           ~starved' => \A i \in DOMAIN answer :
                           i <= MaxSrv /\ Usable(answer[i]) => i \in sure
    PROVE  AnsweredInv'
<1> DEFINE Pub(i) == [target |-> answer[i].target, port |-> answer[i].port,
                      ttl |-> answer[i].ttl * MsPerSec]
<1>1. /\ Published' = {Pub(i) : i \in {j \in DOMAIN answer : Usable(answer[j])}}
      /\ FirstPublished' = {Pub(i) : i \in {j \in DOMAIN answer :
                                               j <= MaxSrv /\ Usable(answer[j])}}
  BY DEF Published, FirstPublished, Usable
<1>2. ASSUME NEW t PROVE Cut(t)' = Cut(t)
  BY DEF Cut
<1>3. ASSUME NEW i \in DOMAIN answer
      PROVE  /\ answer[i].ttl * MsPerSec \in Nat
             /\ recs[i].target = answer[i].target /\ recs[i].port = answer[i].port
             /\ recs[i].ttl = Cut(answer[i].ttl * MsPerSec)
             /\ HandedOn(Pub(i))' = recs[i]
  <2>1. answer[i] \in SrvRecord
    OBVIOUS
  <2>2. answer[i].ttl \in Nat
    BY <2>1 DEF SrvRecord
  <2>3. answer[i].ttl * MsPerSec \in Nat
    BY <2>2, SrvAssumption
  <2> QED BY <1>2, <2>3 DEF Record, HandedOn
<1>4. ASSUME NEW k \in DOMAIN records'
      PROVE  /\ records'[k].ttl \in 0 .. (U32 - 1)
             /\ NamesServer(records'[k].target) =>
                  \E r \in Published' : r.target = records'[k].target
                                       /\ r.port = records'[k].port
  <2>1. PICK i \in good : records'[k] = recs[i]
    BY <1>4 DEF Answers
  <2>2. i \in DOMAIN answer
    BY <2>1
  <2>3. records'[k].ttl \in 0 .. (U32 - 1)
    <3>1. PICK t \in Nat : t = answer[i].ttl * MsPerSec
      BY <1>3, <2>2
    <3>2. records'[k].ttl = Cut(t)
      BY <1>3, <2>1, <2>2, <3>1
    <3>3. Cut(t) \in 0 .. (U32 - 1)
      BY ONLY t \in Nat, CutShort
    <3> QED BY <3>2, <3>3
  <2>4. ASSUME NamesServer(records'[k].target)
        PROVE  \E r \in Published' : r.target = records'[k].target /\ r.port = records'[k].port
    <3>0. records'[k].target = answer[i].target
      BY <1>3, <2>1, <2>2
    <3>n. Numeral(answer[i].target)
      BY <2>4, <3>0 DEF NamesServer, Numeral
    <3>1. Usable(answer[i])
      BY <2>1, <3>n
    <3>2. Pub(i) \in Published'
      BY <1>1, <2>2, <3>1
    <3>3. Pub(i).target = records'[k].target /\ Pub(i).port = records'[k].port
      BY <1>3, <2>1, <2>2
    <3> HIDE DEF Pub
    <3> QED BY <3>2, <3>3
  <2> QED BY <2>3, <2>4
<1>5. ASSUME ~starved', NEW r \in FirstPublished' PROVE Waits(r)'
  <2>1. PICK i \in DOMAIN answer : i <= MaxSrv /\ Usable(answer[i]) /\ r = Pub(i)
    BY <1>1
  <2>2. i \in sure
    BY <1>5, <2>1
  <2>3. PICK k \in DOMAIN records' : records'[k] = recs[i]
    BY <2>2 DEF Answers
  <2>4. records'[k] = HandedOn(r)'
    BY <1>3, <2>1, <2>3
  <2> QED BY <2>3, <2>4 DEF Waits
<1>6. IsList(records')
  BY DEF Answers
<1>7. RecordsInv'
  BY <1>4, <1>6 DEF RecordsInv, WasPublished
<1> QED BY <1>5, <1>7 DEF AnsweredInv

\* Every resolver of the repository is such a resolver; the fixed endpoint
\* answers for itself.
LEMMA AnswersCome ==
    ASSUME AnswerInv, pc = "query", UNCHANGED <<host, fixedPort>>,
           NEW answer \in IF Queries THEN SrvReplies ELSE {<<>>},
           NEW book \in AddressBooks,
           NEW memory \in IF Queries THEN BOOLEAN ELSE {TRUE},
           NEW windows \in IF host = "runtime" /\ Queries THEN BOOLEAN ELSE {FALSE},
           NEW lost \in IF host = "perf" THEN SUBSET DOMAIN answer ELSE {{}},
           records' = AnsweredRecords(answer, windows, lost, memory),
           reply' = [answer |-> answer, book |-> book],
           starved' = (~memory \/ lost # {})
    PROVE  ReplyShape' /\ AnsweredInv' /\ (host = "embedder" => records' = <<>>)
<1>1. host \in {"runtime", "perf", "embedder"}
  BY DEF AnswerInv
<1>2. answer \in Seq(SrvRecord) /\ answer \in SrvReplies \cup {<<>>}
  <2>1. <<>> \in Seq(SrvRecord)
    OBVIOUS
  <2>2. answer \in SrvReplies \cup {<<>>}
    OBVIOUS
  <2> QED BY <2>1, <2>2, ReplyAssumption
<1>3. reply'.answer = answer /\ reply'.book = book
  OBVIOUS
<1>4. ReplyShape'
  <2>1. ASSUME NEW i \in DOMAIN answer PROVE answer[i].target \in DOMAIN book
    BY <1>2, <2>1, ReplyAssumption
  <2> QED BY <1>2, <1>3, <2>1, ReplyAssumption DEF ReplyShape
<1>5. CASE ~memory \/ host = "embedder"
  <2>1. records' = <<>>
    BY <1>5 DEF AnsweredRecords
  <2>2. IsList(records') /\ \A k \in DOMAIN records' : FALSE
    <3>1. \A p : p = <<>> => p \in Seq({}) /\ \A k \in DOMAIN p : FALSE
      OBVIOUS
    <3> QED BY <2>1, <3>1 DEF IsList
  <2>3. starved' \/ host' = "embedder"
    BY <1>5
  <2> QED BY <1>4, <2>1, <2>2, <2>3 DEF AnsweredInv, RecordsInv
<1>6. CASE memory /\ host = "perf"
  <2>1. PICK good : good = {i \in DOMAIN answer : Whole(answer[i]) /\ answer[i].class = "in"}
    OBVIOUS
  <2>2. records' = CacheQuery(answer, lost)
    BY <1>6 DEF AnsweredRecords
  <2>3. PICK recs, sure : recs = Wrapped(answer) /\ sure = good \ lost
    OBVIOUS
  <2>4. Answers(records', answer, good, sure, recs)
    BY <1>2, <2>1, <2>2, <2>3, CacheAnswers
  <2>5. \A i \in DOMAIN answer :
           recs[i] = Record(answer[i], Cut(answer[i].ttl * MsPerSec))
    BY <1>6, <2>3 DEF Wrapped, WrappedTtl, Cut
  <2>6. \A i \in good : Numeral(answer[i].target) => Usable(answer[i])
    BY <2>1 DEF Usable, Whole
  <2>7. ~starved' => \A i \in DOMAIN answer : i <= MaxSrv /\ Usable(answer[i]) => i \in sure
    BY <1>6, <2>1, <2>3 DEF Usable, Whole
  <2>8. /\ ~(host = "runtime" /\ fixedPort # 0)
        /\ good \subseteq DOMAIN answer /\ sure \subseteq DOMAIN answer
    BY <1>6, <2>1, <2>3
  <2>9. AnsweredInv'
    BY <1>2, <1>3, <2>4, <2>5, <2>6, <2>7, <2>8, QueryAnswered
  <2> QED BY <1>4, <1>6, <2>9
<1>7. CASE memory /\ host = "runtime" /\ Queries
  <2>1. records' = ResQuery(answer) \/ records' = WindowsQuery(answer)
    BY <1>7 DEF AnsweredRecords
  <2>2. PICK good, sure, recs : /\ good = Kept(answer) /\ sure = First(answer)
                                /\ recs = Clamped(answer)
    OBVIOUS
  <2>3. Answers(records', answer, good, sure, recs)
    BY <1>2, <2>1, <2>2, RuntimeAnswers
  <2>4. \A i \in DOMAIN answer :
           recs[i] = Record(answer[i], Cut(answer[i].ttl * MsPerSec))
    BY <1>7, <2>2 DEF Clamped, ClampedTtl, Cut
  <2>5. \A i \in good : Numeral(answer[i].target) => Usable(answer[i])
    BY <1>7, <2>2 DEF Usable, Whole, Kept
  <2>6. \A i \in DOMAIN answer : i <= MaxSrv /\ Usable(answer[i]) => i \in sure
    BY <2>2 DEF Usable, Whole, First
  <2>7. /\ ~(host = "runtime" /\ fixedPort # 0)
        /\ good \subseteq DOMAIN answer /\ sure \subseteq DOMAIN answer
    BY <1>7, <2>2 DEF Queries, Kept, First
  <2>8. AnsweredInv'
    BY <1>2, <1>3, <2>3, <2>4, <2>5, <2>6, <2>7, QueryAnswered
  <2> QED BY <1>4, <1>7, <2>8
<1>8. CASE memory /\ host = "runtime" /\ ~Queries
  <2>1. records' = FixedRecord(fixedPort) /\ fixedPort # 0
    BY <1>8 DEF AnsweredRecords, Queries
  <2>2. PICK x : x = [target |-> FixedTarget, port |-> fixedPort, ttl |-> FixedTtl]
    OBVIOUS
  <2>3. records' = <<x>>
    BY <2>1, <2>2 DEF FixedRecord
  <2>4. IsList(records') /\ DOMAIN records' = {1} /\ records'[1] = x
    <3>1. \A p : p = <<x>> => p \in Seq({x}) /\ DOMAIN p = {1} /\ p[1] = x
      OBVIOUS
    <3> QED BY <2>3, <3>1 DEF IsList
  <2>5. Published' = {x} /\ FirstPublished' = {x}
    BY <1>8, <2>1, <2>2 DEF Published, FirstPublished
  <2>6. x.ttl \in 0 .. (U32 - 1) /\ HandedOn(x)' = x
    <3>1. FixedTtl \in 1 .. (U32 - 1) /\ U32 \in Nat
      BY SrvAssumption
    <3>2. Cut(FixedTtl)' = FixedTtl
      BY <1>8, <3>1 DEF Cut
    <3> QED BY <2>2, <3>1, <3>2 DEF HandedOn
  <2>7. RecordsInv'
    BY <2>4, <2>5, <2>6 DEF RecordsInv, WasPublished
  <2>8. \A r \in FirstPublished' : Waits(r)'
    BY <2>4, <2>5, <2>6 DEF Waits
  <2> QED BY <1>4, <1>8, <2>7, <2>8 DEF AnsweredInv
<1>9. memory \in BOOLEAN
  OBVIOUS
<1> QED BY <1>1, <1>5, <1>6, <1>7, <1>8, <1>9

LEMMA AnswerStarts == StartupInit => AnswerInv
  BY DEF StartupInit, AnswerInv

LEMMA AnswerQueried ==
    ASSUME AnswerInv, QuerySrv
    PROVE  AnswerInv'
<1>1. /\ pc = "query" /\ pc' = "lookup"
      /\ UNCHANGED <<host, fixedPort, held, ttl>>
  BY DEF QuerySrv, configuring
<1>2. ReplyShape' /\ AnsweredInv' /\ (host = "embedder" => records' = <<>>)
      /\ starved' \in BOOLEAN
  <2>1. PICK answer \in IF Queries THEN SrvReplies ELSE {<<>>},
             book \in AddressBooks,
             memory \in IF Queries THEN BOOLEAN ELSE {TRUE},
             windows \in IF host = "runtime" /\ Queries THEN BOOLEAN ELSE {FALSE} :
               \E lost \in IF host = "perf" THEN SUBSET DOMAIN answer ELSE {{}} :
                  /\ records' = AnsweredRecords(answer, windows, lost, memory)
                  /\ reply' = [answer |-> answer, book |-> book]
                  /\ starved' = (~memory \/ lost # {})
    BY DEF QuerySrv
  <2>2. PICK lost \in IF host = "perf" THEN SUBSET DOMAIN answer ELSE {{}} :
                  /\ records' = AnsweredRecords(answer, windows, lost, memory)
                  /\ reply' = [answer |-> answer, book |-> book]
                  /\ starved' = (~memory \/ lost # {})
    BY <2>1
  <2>3. starved' \in BOOLEAN
    BY <2>2
  <2> QED BY <1>1, <2>2, <2>3, AnswersCome
<1>3. held' = [list |-> <<>>, room |-> 0] /\ ttl' = 0
  BY <1>1 DEF AnswerInv
<1>4. HeldInv' /\ held'.list = <<>>
  <2>1. IsList(held'.list) /\ \A k \in DOMAIN held'.list : FALSE
    <3>1. \A p : p = <<>> => p \in Seq({}) /\ \A k \in DOMAIN p : FALSE
      OBVIOUS
    <3>2. held'.list = <<>>
      BY <1>3
    <3> QED BY <3>1, <3>2 DEF IsList
  <2> QED BY <1>3, <2>1 DEF HeldInv
<1>5. ttl' \in 0 .. (U32 - 1)
  BY <1>3, SrvAssumption
<1>6. LookUpInv'
  BY <1>1, <1>2, <1>4, <1>5 DEF LookUpInv, AnsweredInv
<1> QED BY <1>1, <1>2, <1>6 DEF AnswerInv

LEMMA AnswerLooked ==
    ASSUME AnswerInv, NEW m \in BOOLEAN, NEW lost \in BOOLEAN, LookUp(m, lost)
    PROVE  AnswerInv'
<1>1. /\ pc = "lookup" /\ pc' = "lookup" /\ records # <<>> /\ (lost => ~m)
      /\ UNCHANGED <<host, fixedPort, reply>>
      /\ records' = Tail(records) /\ starved' = (starved \/ ~m)
  BY DEF LookUp, configuring
<1>2. LookUpInv /\ starved \in BOOLEAN
  BY <1>1 DEF AnswerInv
<1>3. PICK x, addrs : x = Head(records) /\ addrs = AddressesOf(x.target)
  OBVIOUS
<1>4. IF NamesServer(x.target)
      THEN /\ ttl' = LowerTtl(ttl, x.ttl)
           /\ held' = IF lost THEN held
                      ELSE AddAddresses(held, addrs, Len(addrs), x, m)
      ELSE UNCHANGED <<ttl, held>>
  BY <1>3 DEF LookUp
<1>5. LookUpInv'
  <2>1. CASE NamesServer(x.target)
    <3>1. /\ ttl' = LowerTtl(ttl, x.ttl)
          /\ \/ held' = AddAddresses(held, addrs, Len(addrs), x, m)
             \/ held' = held /\ ~m
      BY <1>1, <1>4, <2>1
    <3> QED BY <1>1, <1>2, <1>3, <2>1, <3>1, LookedUp
  <2>2. CASE ~NamesServer(x.target)
    <3>1. UNCHANGED <<ttl, held>> /\ (~starved' => ~starved)
      BY <1>1, <1>4, <2>2
    <3> QED BY <1>1, <1>2, <1>3, <2>2, <3>1, PassedOver
  <2> QED BY <2>1, <2>2
<1>6. starved' \in BOOLEAN
  BY <1>1
<1> QED BY <1>1, <1>5, <1>6 DEF AnswerInv

\* When the last record was looked up, what is held becomes the servers.
LEMMA AnswerFinished ==
    ASSUME AnswerInv, FinishRefresh
    PROVE  AnswerInv'
<1>1. /\ pc = "lookup" /\ pc' = "up" /\ records = <<>>
      /\ UNCHANGED <<host, fixedPort, reply, starved>>
      /\ servers' = held.list /\ held' = [list |-> <<>>, room |-> 0]
      /\ held.list # <<>> => ttl' = ttl
  BY DEF FinishRefresh, configuring
<1>2. LookUpInv
  BY <1>1 DEF AnswerInv
<1>3. /\ Published' = Published /\ FirstPublished' = FirstPublished
      /\ \A s, r : IsServerOf(s, r)' = IsServerOf(s, r)
  BY <1>1, SamePublished
<1> DEFINE list == {held.list[k] : k \in DOMAIN held.list}
<1>4. \A s \in list : \E r \in Published : IsServerOf(s, r)
  BY <1>2 DEF LookUpInv, HeldInv
<1>5. ASSUME ~starved, host # "embedder", NEW r \in FirstPublished
      PROVE  Reached(r) /\ Timely(r)
  <2>1. ~Waits(r)
    <3>1. \A p : p = <<>> => \A k \in DOMAIN p : FALSE
      OBVIOUS
    <3>2. \A k \in DOMAIN records : FALSE
      BY <1>1, <3>1
    <3> QED BY <3>2 DEF Waits
  <2> QED BY <1>2, <1>5, <2>1 DEF LookUpInv
<1>6. ASSUME ~starved, host # "embedder", NEW r \in FirstPublished,
             NEW a \in {reply.book[r.target][j] : j \in DOMAIN reply.book[r.target]},
             a.family # "other"
      PROVE  \E s \in list : s.addr = a /\ IsServerOf(s, r)
  <2>1. Reached(r)
    BY <1>5, <1>6
  <2> QED BY <1>6, <2>1 DEF Reached
<1>7. list # {} => held.list # <<>>
  <2>1. \A p : p = <<>> => \A k \in DOMAIN p : FALSE
    OBVIOUS
  <2> QED BY <2>1
<1>8. ASSUME list # {}, ~starved, NEW r \in FirstPublished, r.ttl > 0
      PROVE  ttl' <= r.ttl /\ (host = "runtime" => ttl' > 0)
  <2>1. host # "embedder" /\ ttl' = ttl
    BY <1>1, <1>2, <1>7, <1>8 DEF LookUpInv
  <2>2. Timely(r)
    BY <1>5, <1>8, <2>1
  <2> QED BY <1>8, <2>1, <2>2 DEF Timely
<1>9. {servers'[k] : k \in DOMAIN servers'} = list
  BY <1>1
<1>10. ServersArePublished'
  <2>1. \A s \in list : \E r \in Published' : IsServerOf(s, r)'
    BY <1>3, <1>4
  <2>2. (~starved' /\ host' # "embedder") =>
           \A r \in FirstPublished' :
              \A a \in {reply'.book[r.target][j] : j \in DOMAIN reply'.book[r.target]} :
                 a.family # "other" => \E s \in list : s.addr = a /\ IsServerOf(s, r)'
    <3> HIDE DEF list
    <3> QED BY <1>1, <1>3, <1>6
  <2>3. (list # {} /\ ~starved') =>
           \A r \in FirstPublished' : r.ttl > 0 =>
              /\ ttl' <= r.ttl
              /\ host' = "runtime" => ttl' > 0
    <3> HIDE DEF list
    <3> QED BY <1>1, <1>3, <1>8
  <2> HIDE DEF list
  <2> QED BY <1>9, <2>1, <2>2, <2>3 DEF ServersArePublished
<1> QED BY <1>1, <1>10 DEF AnswerInv

LEMMA AnswerKept ==
    HeapInv /\ AnswerInv /\ [StartupNext]_startupVars => AnswerInv'
<1> SUFFICES ASSUME HeapInv, AnswerInv, [StartupNext]_startupVars PROVE AnswerInv'
  OBVIOUS
<1>1. ASSUME UNCHANGED <<host, reply, held, ttl>>, starved' \in BOOLEAN,
             pc \notin {"lookup", "up"}, pc' \notin {"lookup", "up"},
             pc' \in {"name", "made", "query"} => host # "inspector"
      PROVE  AnswerInv'
  BY <1>1 DEF AnswerInv
<1>2. ASSUME Decode \/ BuildCache \/ Release PROVE AnswerInv'
  <2>1. UNCHANGED <<host, reply, held, ttl>>
    BY <1>2 DEF Decode, BuildCache, Release, discovering
  <2>2. CASE Decode
    BY <1>1, <2>1, <2>2 DEF AnswerInv, Decode, ReadText, CopyText, SplitText,
       AllocateData, ReadData, AllocateValues, VerifyChecksum, AllocatePayload,
       ConvertBits, MatchPrefix, MatchLength, MatchVersion, ReadQuotas,
       PayloadTest, Acquire, Test, Free
  <2>3. CASE BuildCache
    BY <1>1, <2>1, <2>3 DEF AnswerInv, BuildCache, CacheTenant, OpenResolver,
       CacheName, CacheEntries, CacheFilled, Acquire, Free
  <2>4. CASE Release
    <3>1. ending \in {"refused", "closed"}
      BY DEF HeapInv
    <3> QED BY <1>1, <2>1, <2>4, <3>1 DEF AnswerInv, Release, FreeServers,
      FreeName, FreeSecret, FreeClient, FreeHost, Free
  <2> QED BY <1>2, <2>2, <2>3, <2>4
<1>3. ASSUME \/ ReadEnvironment \/ InitRuntime \/ OpenIpv4 \/ OpenIpv6 \/ CountSockets
             \/ ParseAuthKey \/ DecodeFails \/ Inspected
             \/ \E named \in BOOLEAN : NoteKey(named)
      PROVE  AnswerInv'
  <2>1. /\ UNCHANGED <<host, reply, held, ttl, starved>>
        /\ pc \in {"start", "options", "open4", "open6", "opened", "failed", "decoded"}
        /\ pc' \in {"options", "refused", "open4", "open6", "opened", "create",
                    "freeHost", "text", "freeServers", "inspected", "cacheTenant"}
    BY <1>3 DEF ReadEnvironment, InitRuntime, OpenIpv4, OpenIpv6, OpenSocket,
       CountSockets, ParseAuthKey, DecodeFails, Inspected, NoteKey, discovering
  <2> QED BY <1>1, <2>1 DEF AnswerInv
<1>4. CASE Create \/ CopySecret
  <2>1. /\ UNCHANGED <<host, reply, held, ttl>>
        /\ pc \in {"create", "start", "secret"}
        /\ pc' \in {"secret", "freeHost", "text", "freeServers"}
    BY <1>4 DEF Create, CopySecret, Acquire, discovering
  <2>2. starved' \in BOOLEAN
    BY <1>4 DEF Create, CopySecret, Acquire, AnswerInv
  <2> QED BY <1>1, <2>1, <2>2
<1>5. CASE ConfigureAuth
  <2>1. /\ UNCHANGED <<host, reply, held, ttl, starved>>
        /\ pc = "decoded" /\ "client" \in heap /\ pc' \in {"name", "freeServers"}
    BY <1>5 DEF ConfigureAuth, Test, discovering
  <2>2. host # "inspector"
    BY <2>1 DEF HeapInv, DecoderInv, DecoderHolds
  <2> QED BY <1>1, <2>1, <2>2 DEF AnswerInv
<1>6. CASE ConfigureDns
  <2>1. /\ UNCHANGED <<host, reply, held, ttl>>
        /\ pc = "name" /\ pc' \in {"made", "freeServers"}
    BY <1>6 DEF ConfigureDns, Acquire, discovering
  <2>2. starved' \in BOOLEAN /\ host # "inspector"
    BY <1>6, <2>1 DEF AnswerInv, ConfigureDns, Acquire
  <2> QED BY <1>1, <2>1, <2>2
<1>7. ASSUME NEW m \in BOOLEAN, StartRefresh(m) PROVE AnswerInv'
  <2>1. /\ UNCHANGED <<host, reply, held, ttl>> /\ starved' = ~m
        /\ pc = "made" /\ pc' \in {"query", "up"}
    BY <1>7 DEF StartRefresh, discovering
  <2>2. starved' \in BOOLEAN /\ host # "inspector" /\ reply' = Nothing
    BY <2>1 DEF AnswerInv
  <2>3. ServersArePublished'
    BY <2>2 DEF ServersArePublished, Nothing
  <2> QED BY <2>1, <2>2, <2>3 DEF AnswerInv
<1>8. CASE Destroy
  <2>1. /\ UNCHANGED <<host, held>> /\ starved' = FALSE /\ ttl' = 0
        /\ reply' = Nothing /\ pc = "up" /\ pc' = "freeServers"
    BY <1>8 DEF Destroy
  <2> QED BY <2>1 DEF AnswerInv
<1>9. CASE UNCHANGED startupVars
  <2>1. UNCHANGED <<host, pc, fixedPort, reply, records, held, ttl, servers, starved>>
    BY <1>9 DEF startupVars
  <2>2. /\ Published' = Published /\ FirstPublished' = FirstPublished
        /\ ReplyShape' = ReplyShape
        /\ \A s, r : IsServerOf(s, r)' = IsServerOf(s, r)
        /\ \A x : WasPublished(x)' = WasPublished(x)
        /\ \A r : HandedOn(r)' = HandedOn(r)
    BY <2>1, SamePublished
  <2>3. LookUpInv => LookUpInv'
    <3>1. RecordsInv' = RecordsInv /\ HeldInv' = HeldInv
      BY <2>1, <2>2 DEF RecordsInv, HeldInv
    <3>2. \A r : Waits(r)' = Waits(r)
      BY <2>1, <2>2 DEF Waits
    <3>3. \A r : Reached(r)' = Reached(r) /\ Timely(r)' = Timely(r)
      BY <2>1, <2>2 DEF Reached, Timely
    <3> QED BY <2>1, <2>2, <3>1, <3>2, <3>3 DEF LookUpInv
  <2>4. ServersArePublished => ServersArePublished'
    BY <2>1, <2>2 DEF ServersArePublished
  <2> QED BY <2>1, <2>3, <2>4 DEF AnswerInv
<1> QED BY <1>2, <1>3, <1>4, <1>5, <1>6, <1>7, <1>8, <1>9, AnswerQueried, AnswerLooked,
     AnswerFinished DEF StartupNext, Ended

\* Every server of a client is an address of a published record, every
\* address of the first usable records is a server unless memory ran out,
\* and no published TTL is outlasted: for answers of any length, with any
\* targets, classes and TTLs, whichever resolver reads them.
THEOREM ServersPublished == StartupSpec => []ServersArePublished
<1>1. AnswerInv => ServersArePublished
  BY DEF AnswerInv, ServersArePublished
<1> QED
  BY <1>1, StartupStarts, StartupKeeps, AnswerStarts, AnswerKept, PTL DEF StartupSpec
=============================================================================
