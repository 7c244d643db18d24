--------------------------- MODULE SteeringWalk ---------------------------
(***************************************************************************)
(* The source ports one address family goes through as the runtime is     *)
(* asked to rebind again and again (runtime_on_steering_feedback), while   *)
(* other programs take and release ports at will.                          *)
(***************************************************************************)
EXTENDS Steering

VARIABLES
    port,       \* the port of the current socket
    bind,       \* what bind() answered in the last rebind
    tried       \* for each port, the ports tried since it was last held

walkVars == <<port, bind, tried>>

\* How far up and around the range q is from p.
Distance(p, q) == (q - p) % R_STEERING_PORT_COUNT

\* The ports a scan that began at first tried before it took p.
Scanned(first, p) ==
    {q \in SteeringPort : Distance(first, q) <= Distance(first, p)}

\* An ephemeral port, in the steering range or not.
WalkInit ==
    /\ port \in Port \ {NoPort}
    /\ bind = [p \in SteeringPort |-> "ok"]
    /\ tried = [p \in SteeringPort |-> IF p = port THEN {} ELSE SteeringPort]

\* Mutant: every scan starts at the beginning of the range.
FromTheStart(p) == R_STEERING_PORT_MIN

FirstPort(p) == r_client_next_steering_port(p)

\* The socket that is replaced still holds its port.
Rebind(answers) ==
    /\ port \in SteeringPort => answers[port] = "occupied"
    /\ bind' = answers
    /\ LET first == FirstPort(port)
           p == r_client_select_steering_port(first, answers)
       IN  IF p = NoPort
            THEN UNCHANGED <<port, tried>>
            ELSE /\ port' = p
                 /\ tried' = [q \in SteeringPort |->
                            IF q = p THEN {} ELSE tried[q] \cup Scanned(first, p)]

WalkNext == \E answers \in [SteeringPort -> BindResult] : Rebind(answers)

WalkSpec == WalkInit /\ [][WalkNext]_walkVars

-----------------------------------------------------------------------------
(* The scan finds the nearest port, going up from its start and around the *)
(* end of the range, that is not occupied: whichever ports are taken, a    *)
(* free one is never missed and never taken in favour of a nearer one, and *)
(* a bind that fails for another reason ends the scan                      *)
(* (r_client_select_steering_port).                                        *)
SelectsNearest ==
    \A first \in Port :
        LET start == IF first \in SteeringPort THEN first
                     ELSE R_STEERING_PORT_MIN
            open == {p \in SteeringPort : bind[p] # "occupied"}
            Nearest(p) == \A q \in open :
                Distance(start, p) <= Distance(start, q)
            free == {p \in open : Nearest(p) /\ bind[p] = "ok"}
        IN  r_client_select_steering_port(first, bind)
                \in (IF free = {} THEN {NoPort} ELSE free)

(* A source port is used again only after every other port of the range   *)
(* has been tried, whichever ports the scans had to skip and however many  *)
(* rebinds failed in between (docs/api.md, "advances monotonically through *)
(* ports").                                                                *)
NoEarlyReuse ==
    [][port' # port =>
        /\ port' \in SteeringPort
        /\ SteeringPort \subseteq tried[port'] \cup Scanned(FirstPort(port), port')]_walkVars
=============================================================================
