--------------------------- MODULE MCWireExchange ---------------------------
(* An instance of WireExchange: requests at every boundary of the packet    *)
(* size and of the responder's label and quota buffers, beside small ones. *)
EXTENDS WireExchange

CONSTANTS b1, b2, b3, t1

Same(n, x) == [i \in 1 .. n |-> x]

Guards(n, threshold) == Same(n, [tracker |-> t1, threshold |-> threshold])

Tokens(n) == CASE n = b1 -> 2 [] OTHER -> 0

Resources(bs) == [i \in DOMAIN bs |-> [bucket |-> bs[i], tokens |-> Tokens(bs[i])]]

Rate(guards, resources, label) ==
    [guards |-> guards, resources |-> resources, label |-> label, reports |-> <<>>]

Report(n) == [guards |-> <<>>, resources |-> <<>>, label |-> 0, reports |-> Same(n, t1)]

(* Around the size limit: 30 guards fill a cookie packet to 1168 bytes, 31  *)
(* an AES packet to exactly 1200; 39 resources fit, 40 do not; labels of   *)
(* 1078 to 1083 bytes meet the limit of either credential with one resource. *)
Large == {Rate(Guards(n, 1), <<>>, 0) : n \in {27, 30, 31, 32}}
    \union {Rate(<<>>, Resources(Same(n, b1)), 0) : n \in {39, 40}}
    \union {Rate(<<>>, Resources(<<b1>>), n) : n \in {1078, 1079, 1082, 1083}}
    \union {Report(n) : n \in {34, 35}}

Small == {Rate(Guards(1, n), <<>>, 0) : n \in {0, 5}}
    \union {Rate(Guards(1, 5), Resources(<<b1>>), n) : n \in {1, 2, 256, 257}}
    \union {Rate(<<>>, Resources(bs), 0) : bs \in {<<b2>>, <<b1, b2>>, <<b1, b1>>, <<b1, b3>>}}
    \union {Report(1)}

MCContents == Large \union Small
MCBuckets == {b1, b2, b3}
MCScenarios == {"allow", "deny", "guard-pass", "guard-deny", "quota", "drop",
                "malformed-auth", "malformed-truncated", "malformed-request-id",
                "count-empty", "count-short", "count-extra"}
=============================================================================
