---------------------------- MODULE SrvAnswers -----------------------------
(***************************************************************************)
(* What the resolvers that answer at once make of a DNS answer: the        *)
(* runtime's over libresolv or DnsQuery, its fixed endpoint, and the cache *)
(* that the load generator fills before it starts; and how the client      *)
(* turns records and addresses into endpoints.                             *)
(*                                                                         *)
(* A record of the answer is [type, class, whole, target, port, ttl] with  *)
(* whole meaning that its data are long enough and its name expands.  A    *)
(* target is the sequence of the characters between "s-" and the first     *)
(* dot, or NotServer.                                                      *)
(***************************************************************************)
EXTENDS EnvOptions, FiniteSetsExt

CONSTANTS
    U32,            \* one more than UINT32_MAX
    MsPerSec,       \* milliseconds of a second
    MaxSrv,         \* R_RUNTIME_MAX_SRV_RECORDS
    FirstCapacity,  \* room for endpoints after the first realloc
    FixedTtl        \* the TTL of the fixed endpoint's record

ASSUME SrvAssumption ==
    /\ {U32, MsPerSec, MaxSrv, FirstCapacity} \subseteq Nat \ {0}
    /\ FixedTtl \in 1..(U32 - 1)

\* A name that does not begin with "s-", and the fixed endpoint's "s-1".
NotServer == <<Letter>>
FixedTarget == <<1>>

\* A record of an answer, and an address: of a family, and otherwise a number.
SrvRecord == [type : STRING, class : STRING, whole : BOOLEAN,
              target : Seq(Char), port : Nat, ttl : Nat]
Address == [family : {"v4", "v6", "other"}, n : Nat]

-----------------------------------------------------------------------------
(* The resolvers                                                           *)

\* A loop over the first n entries of a list that keeps those at some of the
\* positions, in their order.
Picked(list, positions, n) ==
    LET upTo[i \in 0..n] ==
          IF i = 0 THEN <<>>
          ELSE IF i \in positions THEN Append(upTo[i - 1], list[i])
          ELSE upTo[i - 1]
    IN  upTo[n]

\* (uint64_t)ttl * 1000 held at UINT32_MAX
ClampedTtl(ttl) ==
    IF ttl * MsPerSec > U32 - 1 THEN U32 - 1 ELSE ttl * MsPerSec

\* (uint32_t)ttl * 1000u of the load generator
WrappedTtl(ttl) == (ttl * MsPerSec) % U32

\* r_srv_record_t
Record(r, ttl) == [target |-> r.target, port |-> r.port, ttl |-> ttl]
Clamped(answer) ==
    [i \in DOMAIN answer |-> Record(answer[i], ClampedTtl(answer[i].ttl))]
Wrapped(answer) ==
    [i \in DOMAIN answer |-> Record(answer[i], WrappedTtl(answer[i].ttl))]

Whole(r) == r.type = "srv" /\ r.whole

\* resolve_srv_records over libresolv: the answers are counted before they
\* are looked at.
ResQuery(answer) ==
    Picked(Clamped(answer),
           {i \in DOMAIN answer : i <= MaxSrv /\ Whole(answer[i])},
           Len(answer))

\* The whole records in front of the i-th.
WholeBefore(answer, i) == {j \in 1..(i - 1) : Whole(answer[j])}

\* resolve_srv_records over DnsQuery_A: the records are counted as they are
\* kept.
WindowsQuery(answer) ==
    Picked(Clamped(answer),
           {i \in DOMAIN answer :
               /\ Whole(answer[i])
               /\ Cardinality(WholeBefore(answer, i)) < MaxSrv},
           Len(answer))

\* dns_query_srv of the load generator: every record of the Internet class,
\* but for those whose name could not be copied.
CacheQuery(answer, lost) ==
    Picked(Wrapped(answer),
           {i \in DOMAIN answer : /\ Whole(answer[i]) /\ answer[i].class = "in"
                                  /\ i \notin lost},
           Len(answer))

\* runtime_resolve_srv with a host of its own: one record, no query.
FixedRecord(port) == <<[target |-> FixedTarget, port |-> port, ttl |-> FixedTtl]>>

OfFamily(found, families) ==
    Picked(found, {i \in DOMAIN found : found[i].family \in families},
           Len(found))

\* resolve_addresses: what getaddrinfo finds, of the two families.
resolve_addresses(found) == OfFamily(found, {"v4", "v6"})

\* dns_query_addrs: a query for A records, then one for AAAA.
dns_query_addrs(found) == OfFamily(found, {"v4"}) \o OfFamily(found, {"v6"})

-----------------------------------------------------------------------------
(* The client's side                                                       *)

\* Mutant: the number is read into 32 bits.
ServerIdShort(target) ==
    AfterTurns([v \in Int |-> [c \in Int |-> (v * 10 + c) % U32]], target,
               Len(target))

\* r_parse_server_id_from_target reads every digit and wraps at 64 bits.
ServerId(target) ==
    AfterTurns([v \in Int |-> [c \in Int |-> (v * 10 + c) % U64]], target,
               Len(target))

NamesServer(target) ==
    target # <<>> /\ \A i \in DOMAIN target : target[i] \in Digit

\* The least TTL that is not zero, or zero: the loop of r_dns_srv_cb_fn.
LowerTtl(least, ttl) ==
    IF ttl > 0 /\ (least = 0 \/ ttl < least) THEN ttl ELSE least

\* r_addr_set_port, and the fields r_dns_refresh_add_endpoint fills in.
Endpoint(addr, record) ==
    [addr |-> addr, port |-> record.port, id |-> ServerId(record.target)]

\* r_dns_refresh_add_endpoint: list and room, with or without memory for
\* more room.  An endpoint without room is dropped, and the next one tries
\* again.
AddEndpoint(held, endpoint, memory) ==
    IF Len(held.list) < held.room
    THEN [held EXCEPT !.list = Append(@, endpoint)]
    ELSE IF ~memory THEN held
    ELSE [list |-> Append(held.list, endpoint),
          room |-> IF held.room = 0 THEN FirstCapacity ELSE 2 * held.room]

\* r_dns_addr_cb_fn: the first n addresses of the answer, with the record's
\* port.
AddAddresses(held, addrs, n, record, memory) ==
    LET after[i \in 0..n] ==
          IF i = 0 THEN held
          ELSE AddEndpoint(after[i - 1], Endpoint(addrs[i], record), memory)
    IN  after[n]
=============================================================================
