----------------------------- MODULE ServerAge -----------------------------
(***************************************************************************)
(* The age order on server identifiers (src/src/r_client.c).  A server id  *)
(* carries the second the server started in its upper bits and a           *)
(* per-second sequence number in the low 23 bits; the oldest-first policy  *)
(* compares the start second first and the whole id on a tie.              *)
(***************************************************************************)
EXTENDS Integers

CONSTANTS
    Server,          \* the server ids that discovery can name
    IdsPerSecond     \* 2^23 in the code: ids that share one start second

ASSUME ServerAssumption ==
    /\ Server \subseteq Nat
    /\ IdsPerSecond \in Nat \ {0}

\* A request that has accepted no response has no best server (best.has).
NoServer == -1

R_SERVER_ID_EPOCH_S_2025 == 1735689600

r_server_start_s_from_id(id) == R_SERVER_ID_EPOCH_S_2025 + (id \div IdsPerSecond)

\* candidate started before current, the id breaks a tie.
r_server_is_older(candidate, current) ==
    LET candidateStart == r_server_start_s_from_id(candidate)
        currentStart   == r_server_start_s_from_id(current)
    IN  \/ candidateStart < currentStart
        \/ candidateStart = currentStart /\ candidate < current

\* No other member of known is older than id.
r_is_oldest_known_server(known, id) ==
    \A other \in known : other # id => ~ r_server_is_older(other, id)

=============================================================================
