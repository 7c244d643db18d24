-------------------------- MODULE RequestContract --------------------------
(***************************************************************************)
(* What the client promises for each request, without rounds, deadlines,   *)
(* sockets or callbacks: a submit is refused or accepted; an accepted      *)
(* request collects answers from known servers; it is decided exactly      *)
(* once, either with the answer of the oldest server that answered or with *)
(* an error when nobody answered; a canceled or abandoned request is never *)
(* decided.  RateClient is shown to implement this specification.          *)
(***************************************************************************)
EXTENDS ServerAge

CONSTANTS Req

VARIABLES
    stage,      \* "idle", "refused", "open", "decided" or "dropped"
    answered,   \* the servers whose answers the request accepted
    verdict     \* NoVerdict, or a status with the server it comes from

contractVars == <<stage, answered, verdict>>

NoVerdict == [status |-> "none", server |-> NoServer]

Errors == {"TIMEOUT", "IO"}

ContractInit ==
    /\ stage = [r \in Req |-> "idle"]
    /\ answered = [r \in Req |-> {}]
    /\ verdict = [r \in Req |-> NoVerdict]

Refuse(r) ==
    /\ stage[r] = "idle"
    /\ stage' = [stage EXCEPT ![r] = "refused"]
    /\ UNCHANGED <<answered, verdict>>

Open(r) ==
    /\ stage[r] = "idle"
    /\ stage' = [stage EXCEPT ![r] = "open"]
    /\ UNCHANGED <<answered, verdict>>

\* An answer that does not decide the request.
Hear(r, s) ==
    /\ stage[r] = "open"
    /\ answered' = [answered EXCEPT ![r] = @ \cup {s}]
    /\ UNCHANGED <<stage, verdict>>

\* The request is decided with the oldest of the answers, a new one (s) or
\* none included; nothing older among the answers is ever passed over.
Decide(r, extra, s) ==
    /\ stage[r] = "open"
    /\ answered' = [answered EXCEPT ![r] = @ \cup extra]
    /\ s \in answered'[r]
    /\ r_is_oldest_known_server(answered'[r], s)
    /\ verdict' = [verdict EXCEPT ![r] = [status |-> "OK", server |-> s]]
    /\ stage' = [stage EXCEPT ![r] = "decided"]

\* An error is reported only when no answer was accepted.
Fail(r, e) ==
    /\ stage[r] = "open"
    /\ answered[r] = {}
    /\ verdict' = [verdict EXCEPT ![r] = [status |-> e, server |-> NoServer]]
    /\ stage' = [stage EXCEPT ![r] = "decided"]
    /\ UNCHANGED answered

Cancel(r) ==
    /\ stage[r] = "open"
    /\ stage' = [stage EXCEPT ![r] = "dropped"]
    /\ UNCHANGED <<answered, verdict>>

\* Destroying the client drops everything that is still open.
Abandon ==
    /\ stage' = [r \in Req |-> IF stage[r] = "open" THEN "dropped" ELSE stage[r]]
    /\ UNCHANGED <<answered, verdict>>

ContractNext ==
    \/ \E r \in Req :
        \/ Refuse(r)
        \/ Open(r)
        \/ Cancel(r)
        \/ \E s \in Server : Hear(r, s)
        \/ \E s \in Server, extra \in {{t} : t \in Server} \cup {{}} : Decide(r, extra, s)
        \/ \E e \in Errors : Fail(r, e)
    \/ Abandon

ContractSpec == ContractInit /\ [][ContractNext]_contractVars

=============================================================================
