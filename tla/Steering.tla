----------------------------- MODULE Steering -----------------------------
(***************************************************************************)
(* Choice of a new UDP source port, src/src/r_client_steering.c.           *)
(***************************************************************************)
EXTENDS Integers

CONSTANTS
    R_STEERING_PORT_MIN,    \* 49152 in the build
    PortMax                 \* UINT16_MAX

ASSUME PortAssumption ==
    /\ R_STEERING_PORT_MIN \in Nat \ {0}
    /\ PortMax \in Nat
    /\ R_STEERING_PORT_MIN < PortMax

Port == 0 .. PortMax
SteeringPort == R_STEERING_PORT_MIN .. PortMax
R_STEERING_PORT_COUNT == PortMax - R_STEERING_PORT_MIN + 1

\* No port was acquired: RCLIENT_ERR_IO.
NoPort == 0

BindResult == {"ok", "occupied", "error"}

\* Mutant: wraps before the last port.
NextSkippingLast(port) ==
    IF port < R_STEERING_PORT_MIN \/ port >= PortMax - 1
        THEN R_STEERING_PORT_MIN
        ELSE port + 1

r_client_next_steering_port(port) ==
    IF port < R_STEERING_PORT_MIN \/ port = PortMax
        THEN R_STEERING_PORT_MIN
        ELSE port + 1

FirstCandidate(first) ==
    IF first < R_STEERING_PORT_MIN THEN R_STEERING_PORT_MIN ELSE first

(* The candidates one run of the loop tries, in order: each is the         *)
(* successor of the one before, and all but the last were occupied.        *)
ScanOf(first, bind, n) ==
    {c \in [1 .. n -> SteeringPort] :
        /\ c[1] = FirstCandidate(first)
        /\ \A i \in 1 .. n - 1 :
            /\ bind[c[i]] = "occupied"
            /\ c[i + 1] = r_client_next_steering_port(c[i])}

(* bind[p] is what try_bind answers for p.  At most as many candidates are *)
(* tried as the range holds; an answer other than occupied ends the scan.  *)
r_client_select_steering_port(first, bind) ==
    LET Selected(p) ==
            \E n \in 1 .. R_STEERING_PORT_COUNT :
                \E c \in ScanOf(first, bind, n) : c[n] = p /\ bind[p] = "ok"
    IN  IF \E p \in SteeringPort : Selected(p)
            THEN CHOOSE p \in SteeringPort : Selected(p)
            ELSE NoPort
=============================================================================
