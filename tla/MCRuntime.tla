----------------------------- MODULE MCRuntime -----------------------------
(* Instances of Runtime and of the walk over source ports that its rebinds *)
(* make, SteeringWalk.  The two share no state: a behaviour is one of one  *)
(* of them, and the variables of the other keep a first value.             *)
EXTENDS Runtime, SteeringWalk, TLC

CONSTANTS f1, f2, f3, f4, f5

FdSymmetry == Permutations(Fd)

VARIABLE machine

mcVars == <<machine, vars, walkVars>>

WalkParked ==
    /\ port = PortMax
    /\ bind = [p \in SteeringPort |-> "ok"]
    /\ tried = [p \in SteeringPort |-> {}]

MCInit ==
    /\ Init
    /\ \/ machine = "runtime" /\ WalkParked
       \/ machine = "walk" /\ WalkInit

MCNext ==
    /\ UNCHANGED machine
    /\ \/ machine = "runtime" /\ Next /\ UNCHANGED walkVars
       \/ machine = "walk" /\ WalkNext /\ UNCHANGED vars

MCSpec == MCInit /\ [][MCNext]_mcVars
=============================================================================
