--------------------------- MODULE MCRateClient ---------------------------
(***************************************************************************)
(* Instances of RateClient for TLC: two servers, or three of which one is  *)
(* dual stack, and the schedules of small policies.                        *)
(***************************************************************************)
EXTENDS RateClient, TLC

CONSTANTS r1, r2, e1, e2, e3, e4

\* Two servers that started in the same second: the id decides.
MCTwo == {4, 5}
MCTwoServers == (e1 :> 4) @@ (e2 :> 5)

\* A third one started later; the server 5 has two addresses.  Between the
\* answers of 5 and 6 the client must choose while the oldest is silent.
MCThree == {4, 5, 6}
MCDualStack == (e1 :> 4) @@ (e2 :> 5) @@ (e3 :> 5) @@ (e4 :> 6)

\* What discovery finds: everything, or everything but the oldest server.
MCOneDiscovery == {{e1, e2}}
MCDiscoveries == {{e1, e2, e3, e4}, {e2, e3, e4}}

\* One replay, no final receive window.
MCGapNoFinal == (0 :> 2) @@ (1 :> 1)
MCRemainingNoFinal == (0 :> 1) @@ (1 :> 0)

\* One replay, every interval one millisecond.
MCGapShort == (0 :> 1) @@ (1 :> 1)
MCRemainingShort == (0 :> 2) @@ (1 :> 1)
=============================================================================
