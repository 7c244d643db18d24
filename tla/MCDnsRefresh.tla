--------------------------- MODULE MCDnsRefresh ---------------------------
(***************************************************************************)
(* Instances of DnsRefresh for TLC: two conforming records with different  *)
(* TTLs and one whose name carries no server id.                           *)
(***************************************************************************)
EXTENDS DnsRefresh, TLC

CONSTANTS a, b, bad

MCTtl == (a :> 1) @@ (b :> 0) @@ (bad :> 1)
=============================================================================
