---------------------------- MODULE MCPerfClient ----------------------------
(***************************************************************************)
(* A second of three ticks and two slots, so that deadlines are rounded;   *)
(* arguments of every form.                                                *)
(***************************************************************************)
EXTENDS PerfClient

Absent == [form |-> "absent", n |-> 0]
Number(n) == [form |-> "number", n |-> n]

MCBins == [fine |-> 1, mid |-> 3, top |-> 4, midWidth |-> 2, topWidth |-> 1]
MCClients == {Absent, Number(1), [form |-> "negative", n |-> 1]}
MCRequests == {Absent, [form |-> "suffixed", n |-> 1]}
MCDuration == {Absent, Number(1), Number(2), [form |-> "junk", n |-> 0]}
MCRps == {Absent, Number(2), Number(9), [form |-> "bare", n |-> 0]}
=============================================================================
