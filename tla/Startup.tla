------------------------------- MODULE Startup ------------------------------
(***************************************************************************)
(* How a client comes to be: r_runtime_options_from_env and                *)
(* r_runtime_client_init of r_client_runtime.c, r_client_create and        *)
(* r_client_parse_auth_key of r_client.c with the key decoder of           *)
(* r_crypto.c below them, the preparations of bin/perf_client.c, and the   *)
(* first discovery, which all resolvers of this repository answer at once. *)
(*                                                                         *)
(* Each program is one of the hosts: "runtime" (environment and runtime),  *)
(* "perf" (the load generator), "embedder" (a caller of r_client_create    *)
(* that states what it believes of its key; its resolver answers nothing)  *)
(* and "inspector" (a caller of r_client_parse_auth_key).                  *)
(*                                                                         *)
(* Any allocation and any socket may fail.  heap holds what is allocated   *)
(* or open: each object enters it in a step of its own, and each early     *)
(* return takes out of it what that return frees.                          *)
(* Environments, keys and answers are chosen when they are first read, and *)
(* forgotten when no later step reads them.                                *)
(***************************************************************************)
EXTENDS SrvAnswers, ApiKey

CONSTANTS
    Environments,   \* the environments a program may be started in
    Keys,           \* the key texts: issued ones and others
    Issued,         \* what was issued: [hrp, id, fields] of each key
    Claims,         \* what an embedder may state: [type, id]
    SrvReplies,     \* answers to the SRV query
    AddressBooks    \* functions from targets to what a query finds

ASSUME TextAssumption ==
    \A e \in Environments : \A v \in DOMAIN e : e[v] \in Seq(Char)

\* The text that each issued key is written as.
Text == [i \in Issued |-> Issue(i.hrp, i.id, i.fields)]

\* A text in the form of an issued key: the service's prefix, length,
\* checksum and version.
Formed(k) ==
    /\ k.text = "fine" /\ k.hrp \in {"rl-cookie", "rl-aes"} /\ k.chars = 78
    /\ k.alphabet /\ k.checksum /\ k.pad = 0 /\ k.version = FormatVersion

\* Every field that is issued fits its width, and texts in the form of a key
\* are as they were issued, whatever quotas they grant: a text with an error
\* has lost its form, which is what the checksum is for.
ASSUME KeyAssumption ==
    /\ Issued \subseteq [hrp : {"rl-cookie", "rl-aes"}, id : SUBSET (0..63),
                         fields : Fields]
    /\ \A k \in Keys : /\ k.chars \in Nat
                       /\ Formed(k) => \E i \in Issued : k = Text[i]

\* A query for the addresses of a target that some answer names, or of the
\* fixed one, finds a list of addresses.
ASSUME ReplyAssumption ==
    /\ SrvReplies \subseteq Seq(SrvRecord)
    /\ \A book \in AddressBooks :
          /\ FixedTarget \in DOMAIN book
          /\ \A answer \in SrvReplies : \A i \in DOMAIN answer :
                answer[i].target \in DOMAIN book
          /\ \A t \in DOMAIN book : book[t] \in Seq(Address)

VARIABLES
    host,       \* the program
    pc,         \* where it is
    env,        \* its environment, until its runtime is made
    options,    \* r_runtime_options_t
    fixedPort,  \* runtime->server_port, 0 without a fixed endpoint
    tenant,     \* tenant->dns_name
    key,        \* the key's text
    claim,      \* tenant->auth.type and tenant->key_id
    heap,       \* what is allocated or open
    decoded,    \* what the decoder handed out
    client,     \* type, key_id, quotas and dns_name of the client
    reply,      \* the answer to the SRV query and the addresses behind it
    records,    \* records not yet looked up
    held,       \* endpoints of the refresh and the room for them
    ttl,        \* refresh->min_ttl_ms, then client->dns_refresh_ttl_ms
    servers,    \* client->servers
    starved,    \* whether an allocation or the load generator's resolver
                \* failed
    ending      \* how the program ends once all is destroyed

startupVars == <<host, pc, env, options, fixedPort, tenant, key, claim, heap,
          decoded, client, reply, records, held, ttl, servers, starved, ending>>

configuring == <<env, options, fixedPort, tenant>>
creating == <<key, claim, decoded, client>>
discovering == <<reply, records, held, ttl, servers>>

Nothing == [none |-> TRUE]

\* A type of 0 and a key id of 0 state nothing.
NoClaim == [type |-> "none", id |-> {}]

\* A tenant's name: none, one of its own, or the one derived from a key by
\* r_client_format_default_tenant_dns.
NoName == [kind |-> "none", id |-> {}]
OwnName == [kind |-> "own", id |-> {}]
DerivedName(id) == [kind |-> "derived", id |-> id]

\* What was read from a key, and a name with it.
Named(d, name) ==
    [type |-> d.type, id |-> d.id, quotas |-> d.quotas, dns |-> name]

DecodeBuffers == {"copy", "data", "values", "payload"}

StartupInit ==
    /\ host \in {"runtime", "perf", "embedder", "inspector"}
    /\ pc = "start"
    /\ env = Nothing /\ options = Nothing
    /\ fixedPort = 0 /\ tenant = NoName
    /\ key = Nothing /\ claim = NoClaim
    /\ heap = {}
    /\ decoded = Nothing /\ client = Nothing
    /\ reply = Nothing /\ records = <<>>
    /\ held = [list |-> <<>>, room |-> 0]
    /\ ttl = 0 /\ servers = <<>>
    /\ starved = FALSE
    /\ ending = "refused"

-----------------------------------------------------------------------------
(* Acquiring, testing and releasing                                        *)

\* The object is acquired; or it is not, what was held is freed and the
\* program goes back.
Acquire(at, object, next, freed, back) ==
    /\ pc = at
    /\ \/ /\ heap' = heap \cup {object}
          /\ pc' = next
          /\ UNCHANGED starved
       \/ /\ heap' = heap \ freed
          /\ pc' = back
          /\ starved' = TRUE

\* A test with an early return that frees what is held.
Test(at, passes, next, freed, back) ==
    /\ pc = at
    /\ IF passes
       THEN pc' = next /\ UNCHANGED heap
       ELSE pc' = back /\ heap' = heap \ freed
    /\ UNCHANGED starved

\* free() of pointers that may be null.
Free(at, objects, next) ==
    /\ pc = at
    /\ pc' = next
    /\ heap' = heap \ objects
    /\ UNCHANGED starved

-----------------------------------------------------------------------------
(* The runtime                                                             *)

\* r_runtime_options_from_env
ReadEnvironment ==
    /\ host = "runtime" /\ pc = "start"
    /\ env' \in Environments
    /\ IF AcceptsEnvironment(env')
       THEN pc' = "options" /\ options' = OptionsOf(env')
       ELSE pc' = "refused" /\ UNCHANGED options
    /\ UNCHANGED <<host, fixedPort, tenant, heap, starved, creating,
                   discovering, ending>>

\* r_runtime_client_init up to its sockets: the fixed host must fit.
InitRuntime ==
    /\ pc = "options"
    /\ IF FixedHostFits(options)
       THEN /\ pc' = "open4"
            /\ fixedPort' = options.port
            /\ tenant' = IF options.tenant THEN OwnName ELSE NoName
       ELSE /\ pc' = "freeHost"
            /\ UNCHANGED <<fixedPort, tenant>>
    /\ env' = Nothing /\ options' = Nothing
    /\ UNCHANGED <<host, heap, starved, ending, creating, discovering>>

\* Its two sockets, either of which may stay unopened.
OpenSocket(at, socket, next) ==
    /\ pc = at
    /\ \/ heap' = heap \cup {socket}
       \/ UNCHANGED heap
    /\ pc' = next
    /\ UNCHANGED <<host, starved, ending, configuring, creating, discovering>>

OpenIpv4 == OpenSocket("open4", "sock4", "open6")
OpenIpv6 == OpenSocket("open6", "sock6", "opened")

\* One of them must be open.
CountSockets ==
    /\ pc = "opened"
    /\ pc' = IF heap = {} THEN "freeHost" ELSE "create"
    /\ UNCHANGED <<host, heap, starved, ending, configuring, creating,
                   discovering>>

-----------------------------------------------------------------------------
(* The decoder: r_decode_api_key_bech32_with_quotas, which returns -1 at   *)
(* "failed".  Its return for a secret that the caller has no room for is   *)
(* left out, as no caller has less than 32 bytes.                          *)

ReadText == Test("text", CharactersPass(key), "copy", {}, "failed")
CopyText == Acquire("copy", "copy", "separator", {}, "failed")
SplitText == Test("separator", Separated(key), "data", {"copy"}, "failed")

AllocateData == Acquire("data", "data", "alphabet", {"copy"}, "failed")
ReadData ==
    Test("alphabet", InAlphabet(key), "values", {"data", "copy"}, "failed")

\* r_bech32_verify_checksum, which without memory finds the sum wrong.
AllocateValues ==
    Acquire("values", "values", "sum", {"data", "copy"}, "failed")
VerifyChecksum ==
    /\ pc = "sum"
    /\ IF ChecksumPasses(key)
       THEN Free("sum", {"values"}, "payload")
       ELSE Free("sum", {"values", "data", "copy"}, "failed")

AllocatePayload ==
    Acquire("payload", "payload", "bits", {"data", "copy"}, "failed")

PayloadTest(at, passes, next) ==
    Test(at, passes, next, {"payload", "data", "copy"}, "failed")

ConvertBits == PayloadTest("bits", BitsConvert(key), "prefix")
MatchPrefix == PayloadTest("prefix", PrefixKnown(key), "length")

\* Mutant: the return for a payload of the wrong length forgets the payload.
MatchLengthLeaks ==
    Test("length", PayloadFits(key), "version", {"data", "copy"}, "failed")

MatchLength == PayloadTest("length", PayloadFits(key), "version")
MatchVersion == PayloadTest("version", VersionKnown(key), "quotas")

\* The last test, and the end of the decoder.
ReadQuotas ==
    /\ pc = "quotas"
    /\ IF QuotasInRange(ReadLe(key.word))
       THEN /\ Free("quotas", {"payload", "data", "copy"}, "decoded")
            /\ decoded' = Decoded(key)
       ELSE /\ Free("quotas", {"payload", "data", "copy"}, "failed")
            /\ UNCHANGED decoded

Decode ==
    /\ \/ /\ \/ ReadText \/ CopyText \/ SplitText
             \/ AllocateData \/ ReadData
             \/ AllocateValues \/ VerifyChecksum
             \/ AllocatePayload \/ ConvertBits
             \/ MatchPrefix \/ MatchLength \/ MatchVersion
          /\ UNCHANGED decoded
       \/ ReadQuotas
    /\ UNCHANGED <<host, configuring, key, claim, client, discovering, ending>>

\* What its callers make of -1: r_client_create destroys the client,
\* r_client_parse_auth_key and the program that called it give up.
DecodeFails ==
    /\ pc = "failed"
    /\ pc' = IF "client" \in heap THEN "freeServers" ELSE "refused"
    /\ UNCHANGED <<host, heap, configuring, creating, discovering, starved,
                   ending>>

-----------------------------------------------------------------------------
(* Keys looked at before a client is made                                  *)

\* r_client_parse_auth_key, by itself or from perf_parse_auth_bech32
ParseAuthKey ==
    /\ host \in {"inspector", "perf"} /\ pc = "start"
    /\ key' \in Keys
    /\ pc' = "text"
    /\ UNCHANGED <<host, configuring, claim, heap, decoded, client,
                   discovering, starved, ending>>

\* Its end for the inspector: the fields as decoded.
Inspected ==
    /\ host = "inspector" /\ pc = "decoded"
    /\ pc' = "inspected"
    /\ client' = Named(decoded, NoName)
    /\ decoded' = Nothing
    /\ UNCHANGED <<host, configuring, key, claim, heap, discovering, starved,
                   ending>>

\* The load generator notes type, key id and the tenant's name.
NoteKey(named) ==
    /\ host = "perf" /\ pc = "decoded" /\ "client" \notin heap
    /\ claim' = [type |-> decoded.type, id |-> decoded.id]
    /\ tenant' = IF named THEN OwnName ELSE DerivedName(decoded.id)
    /\ decoded' = Nothing
    /\ pc' = "cacheTenant"
    /\ UNCHANGED <<host, env, options, fixedPort, key, client, heap, starved,
                   ending, discovering>>

\* perf_dns_cache_init fills the cache of DNS.  What it finds is drawn where
\* it is first read, in QuerySrv.
CacheParts == {"cacheTenant", "cacheName", "cacheEntries"}

CacheTenant ==
    Acquire("cacheTenant", "cacheTenant", "resolver", CacheParts, "refused")
OpenResolver ==
    Acquire("resolver", "resolver", "cacheName", CacheParts, "refused")
CacheName == Acquire("cacheName", "cacheName", "entries",
                     CacheParts \cup {"resolver"}, "refused")
CacheEntries == Acquire("entries", "cacheEntries", "filled",
                        CacheParts \cup {"resolver"}, "refused")

\* The last entry was added, or it could not be.
CacheFilled ==
    /\ pc = "filled"
    /\ \/ Free("filled", {"resolver"}, "create")
       \/ /\ pc' = "refused"
          /\ heap' = heap \ (CacheParts \cup {"resolver"})
          /\ starved' = TRUE

BuildCache ==
    /\ \/ CacheTenant \/ OpenResolver \/ CacheName \/ CacheEntries
       \/ CacheFilled
    /\ UNCHANGED <<host, configuring, creating, discovering, ending>>

-----------------------------------------------------------------------------
(* r_client_create                                                         *)

\* Its host's key, and the memory for the client.
Create ==
    /\ \/ /\ pc = "create"
          /\ key' \in IF host = "perf" THEN {key}
                      ELSE {k \in Keys : k.text # "empty"}
          /\ UNCHANGED <<claim, tenant>>
       \/ /\ pc = "start" /\ host = "embedder"
          /\ key' \in Keys
          /\ claim' \in Claims
          /\ tenant' \in {NoName, OwnName}
    /\ Acquire(pc, "client", "secret", {}, "freeHost")
    /\ UNCHANGED <<host, env, options, fixedPort, decoded, client, discovering,
                   ending>>

\* The start of r_client_configure_auth: the client's copy of the key.
CopySecret ==
    /\ Acquire("secret", "secret", "text", {}, "freeServers")
    /\ UNCHANGED <<host, configuring, creating, discovering, ending>>

\* What the caller states of the key must be true of it.
ClaimHolds ==
    /\ claim.type \in {NoClaim.type, decoded.type}
    /\ claim.id \in {NoClaim.id, decoded.id}

\* The rest of r_client_configure_auth.
ConfigureAuth ==
    /\ "client" \in heap
    /\ Test("decoded", ClaimHolds, "name", {}, "freeServers")
    /\ IF ClaimHolds
       THEN client' = Named(decoded, NoName) /\ decoded' = Nothing
       ELSE UNCHANGED <<client, decoded>>
    /\ UNCHANGED <<host, configuring, key, claim, discovering, ending>>

\* r_client_configure_dns: the tenant's name, or one derived from the key.
ConfigureDns ==
    /\ Acquire("name", "dns", "made", {}, "freeServers")
    /\ client' = IF pc' = "made"
                 THEN [client EXCEPT !.dns =
                          IF tenant = NoName THEN DerivedName(client.id)
                                             ELSE tenant]
                 ELSE client
    /\ UNCHANGED <<host, configuring, key, claim, decoded, discovering, ending>>

-----------------------------------------------------------------------------
(* The first discovery                                                     *)

Queries == host = "perf" \/ (host = "runtime" /\ fixedPort = 0)

\* The records with which the host's resolver calls back; none stand for
\* its error.
AnsweredRecords(answer, windows, lost, memory) ==
    CASE ~memory \/ host = "embedder" -> <<>>
      [] memory /\ host = "perf" -> CacheQuery(answer, lost)
      [] memory /\ host = "runtime" /\ ~Queries -> FixedRecord(fixedPort)
      [] memory /\ host = "runtime" /\ Queries ->
             IF windows THEN WindowsQuery(answer) ELSE ResQuery(answer)

\* r_dns_maybe_refresh at the end of r_client_create, up to the resolver.
\* Without memory for the refresh or its lookup the client has no servers
\* yet.
StartRefresh(memory) ==
    /\ pc = "made"
    /\ pc' = IF memory THEN "query" ELSE "up"
    /\ starved' = ~memory
    /\ key' = Nothing /\ claim' = NoClaim /\ client' = Nothing
    /\ tenant' = NoName
    /\ UNCHANGED <<host, env, options, fixedPort, heap, decoded, discovering,
                   ending>>

\* The host's resolver calls back with its records.
QuerySrv ==
    /\ pc = "query"
    /\ \E answer \in IF Queries THEN SrvReplies ELSE {<<>>},
          book \in AddressBooks,
          memory \in IF Queries THEN BOOLEAN ELSE {TRUE},
          windows \in IF host = "runtime" /\ Queries THEN BOOLEAN ELSE {FALSE} :
         \E lost \in IF host = "perf" THEN SUBSET DOMAIN answer ELSE {{}} :
            /\ records' = AnsweredRecords(answer, windows, lost, memory)
            /\ reply' = [answer |-> answer, book |-> book]
            /\ starved' = (~memory \/ lost # {})
    /\ pc' = "lookup"
    /\ UNCHANGED <<host, configuring, creating, heap, held, ttl, servers,
                   ending>>

\* The addresses of a target, as the host's resolver returns them.
AddressesOf(target) ==
    IF host = "perf" THEN dns_query_addrs(reply.book[target])
                     ELSE resolve_addresses(reply.book[target])

\* One turn of the loop of r_dns_srv_cb_fn, with the answer to the lookup it
\* schedules.  Without memory the lookup or its answer is lost, or endpoints
\* that need more room are.
LookUp(memory, lost) ==
    /\ pc = "lookup" /\ records # <<>>
    /\ lost => ~memory
    /\ LET r == Head(records)
           addrs == AddressesOf(r.target)
       IN  IF NamesServer(r.target)
           THEN /\ ttl' = LowerTtl(ttl, r.ttl)
                /\ held' = IF lost THEN held
                           ELSE AddAddresses(held, addrs, Len(addrs), r,
                                             memory)
           ELSE UNCHANGED <<ttl, held>>
    /\ records' = Tail(records)
    /\ starved' = (starved \/ ~memory)
    /\ UNCHANGED <<host, pc, configuring, creating, heap, reply, servers,
                   ending>>

\* r_dns_refresh_finish: endpoints, if there are any, become the servers.
FinishRefresh ==
    /\ pc = "lookup" /\ records = <<>>
    /\ servers' = held.list
    /\ held' = [list |-> <<>>, room |-> 0]
    /\ IF held.list = <<>>
       THEN ttl' = 0 /\ UNCHANGED heap
       ELSE heap' = heap \cup {"servers"} /\ UNCHANGED ttl
    /\ pc' = "up"
    /\ UNCHANGED <<host, configuring, creating, reply, records, starved, ending>>

-----------------------------------------------------------------------------
(* The end                                                                 *)

\* The host destroys its client.
Destroy ==
    /\ pc = "up"
    /\ pc' = "freeServers"
    /\ ending' = "closed"
    /\ servers' = <<>> /\ ttl' = 0 /\ reply' = Nothing
    /\ fixedPort' = 0 /\ tenant' = NoName /\ starved' = FALSE
    /\ UNCHANGED <<host, env, options, creating, heap, records, held>>

\* r_client_destroy, called by the host or by r_client_create.
FreeServers == Free("freeServers", {"servers"}, "freeName")
FreeName == Free("freeName", {"dns"}, "freeSecret")
FreeSecret == Free("freeSecret", {"secret"}, "freeClient")
FreeClient == Free("freeClient", {"client"}, "freeHost")

\* r_runtime_client_destroy once the handle is gone, and the end of the load
\* generator's main.
HostParts ==
    CASE host = "runtime" -> {"sock4", "sock6"}
      [] host = "perf" -> CacheParts
      [] OTHER -> {}

FreeHost == Free("freeHost", HostParts, ending)

Release ==
    /\ \/ FreeServers \/ FreeName \/ FreeSecret \/ FreeClient
       \/ FreeHost
    /\ UNCHANGED <<host, configuring, creating, discovering, ending>>

Ended == pc \in {"refused", "closed", "inspected"} /\ UNCHANGED startupVars

StartupNext ==
    \/ ReadEnvironment \/ InitRuntime
    \/ OpenIpv4 \/ OpenIpv6 \/ CountSockets
    \/ ParseAuthKey \/ Decode \/ DecodeFails \/ Inspected
    \/ \E named \in BOOLEAN : NoteKey(named)
    \/ BuildCache
    \/ Create \/ CopySecret \/ ConfigureAuth \/ ConfigureDns
    \/ \E m \in BOOLEAN : StartRefresh(m)
    \/ QuerySrv
    \/ \E m, lost \in BOOLEAN : LookUp(m, lost)
    \/ FinishRefresh
    \/ Destroy \/ Release
    \/ Ended

StartupSpec == StartupInit /\ [][StartupNext]_startupVars

-----------------------------------------------------------------------------
(* Properties                                                              *)

\* The number a text of digits stands for.
Value(text) == AfterTurns([v \in Int |-> [c \in Int |-> 10 * v + c]], text, Len(text))

Numeral(text) == text # <<>> /\ \A i \in DOMAIN text : text[i] \in Digit

\* A text without sign or blank, which is what the documentation shows.
Plain(text) == \A i \in DOMAIN text : text[i] \notin {Minus, Plus, Blank}

Within(e, v, low, high) ==
    Given(e, v) => Numeral(e[v]) /\ Value(e[v]) \in low..high

\* An environment is accepted if and only if it names a key, its numbers are
\* decimal and in their ranges, and host and port come together; and each
\* number in the options is the one that was written (the digit loop of
\* runtime_parse_u64 and the tests of r_runtime_options_from_env).  Ports
\* with a sign or blanks are read by strtoul and left out here.
OptionsExact ==
    (env # Nothing /\ (Given(env, "PORT") => Plain(env["PORT"]))) =>
        /\ (pc = "options") =
              /\ Given(env, "AUTH_KEY")
              /\ Within(env, "UNIT_MS", 1, U64 - 1)
              /\ Within(env, "REPLAY_COUNT", 0, MaxReplay)
              /\ Within(env, "PORT", 1, PortMax)
              /\ Given(env, "PROFILE") => env["PROFILE"] = <<1>>
              /\ ("HOST" \in DOMAIN env) = Given(env, "PORT")
        /\ pc = "options" =>
              /\ Given(env, "UNIT_MS") =>
                    options.request.unit = Value(env["UNIT_MS"])
              /\ Given(env, "REPLAY_COUNT") =>
                    options.request.replay = Value(env["REPLAY_COUNT"])
              /\ Given(env, "PORT") => options.port = Value(env["PORT"])

Agrees(i) ==
    /\ claim.type \in {"none", IF i.hrp = "rl-cookie" THEN "cookie" ELSE "aes"}
    /\ claim.id \in {{}, i.id}

\* A client, or an inspected key, has the type, the key id and the quotas
\* its key was issued with, all that its caller stated of the key is true,
\* and a derived name is derived from that key; and a key as issued is
\* refused only if memory ran out or the caller stated otherwise
\* (r_client_configure_auth and the decoder below it).
ClientMatchesKey ==
    /\ pc \in {"made", "inspected"} =>
         \E i \in Issued :
            /\ key = Text[i] /\ Grantable(i.fields) /\ Agrees(i)
            /\ client.type = IF i.hrp = "rl-cookie" THEN "cookie" ELSE "aes"
            /\ client.id = i.id
            /\ client.quotas = Meant(i.fields)
            /\ client.dns.kind = "derived" => client.dns.id = i.id
    /\ (pc = "refused" /\ key # Nothing /\ ~starved) =>
         ~\E i \in Issued : /\ key = Text[i]
                            /\ Grantable(i.fields) /\ Agrees(i)

\* The records a resolver is to use: those of the SRV type that are whole,
\* of the Internet class for the cache.
Usable(r) ==
    /\ r.type = "srv" /\ r.whole /\ Numeral(r.target)
    /\ host = "perf" => r.class = "in"

\* The records of the answer, the fixed one being its own answer.
Published ==
    IF host = "runtime" /\ fixedPort # 0
    THEN {[target |-> FixedTarget, port |-> fixedPort, ttl |-> FixedTtl]}
    ELSE {[target |-> reply.answer[i].target, port |-> reply.answer[i].port,
           ttl |-> reply.answer[i].ttl * MsPerSec] :
             i \in {j \in DOMAIN reply.answer : Usable(reply.answer[j])}}

\* Of them the ones that lie within the first MaxSrv of the answer.
FirstPublished ==
    IF host = "runtime" /\ fixedPort # 0 THEN Published
    ELSE {[target |-> reply.answer[i].target, port |-> reply.answer[i].port,
           ttl |-> reply.answer[i].ttl * MsPerSec] :
             i \in {j \in DOMAIN reply.answer :
                       j <= MaxSrv /\ Usable(reply.answer[j])}}

IsServerOf(s, r) ==
    /\ \E j \in DOMAIN reply.book[r.target] : s.addr = reply.book[r.target][j]
    /\ s.port = r.port
    /\ s.id = Value(r.target) % U64

\* Every server of the client is an address of a published record with that
\* record's port and its number modulo 2^64; unless memory ran out, every
\* address of every usable record among the first MaxSrv is a server; and the
\* client comes back no later than the shortest published TTL, or, if it
\* knows of none, its own interval (resolvers, r_dns_srv_cb_fn,
\* r_dns_addr_cb_fn, and r_parse_server_id_from_target, which wraps).
ServersArePublished ==
    (pc = "up" /\ reply # Nothing) =>
        LET list == {servers[i] : i \in DOMAIN servers}
        IN  /\ \A s \in list : \E r \in Published : IsServerOf(s, r)
            /\ (~starved /\ host # "embedder") =>
                 \A r \in FirstPublished :
                    \A a \in {reply.book[r.target][j] :
                                 j \in DOMAIN reply.book[r.target]} :
                       a.family # "other" =>
                         \E s \in list : s.addr = a /\ IsServerOf(s, r)
            /\ (list # {} /\ ~starved) =>
                 \A r \in FirstPublished : r.ttl > 0 =>
                    /\ ttl <= r.ttl
                    /\ host = "runtime" => ttl > 0

\* A label that encodes no 64-bit ID names no server: the first label of a
\* target "must encode that server's 64-bit ID in decimal", and targets
\* "whose first label does not match are silently skipped"
\* (IO_ABSTRACTION.md; r_parse_server_id_from_target).
ServersHaveIds ==
    (pc = "up" /\ reply # Nothing) =>
        \A i \in DOMAIN servers :
            \E r \in Published : /\ IsServerOf(servers[i], r)
                                 /\ Value(r.target) < U64

\* A program that was refused, and one that destroyed its client, has
\* nothing allocated or open, whichever of the early returns of the decoder,
\* of r_client_create, of r_runtime_client_init and of perf_dns_cache_init it
\* took; and a client that was made keeps no buffer of the decoder and has
\* its copies of key and name.
RefusalReleasesAll ==
    /\ pc \in {"refused", "closed", "inspected"} => heap = {}
    /\ pc \in {"made", "query", "lookup", "up"} =>
         /\ heap \cap DecodeBuffers = {}
         /\ {"client", "secret", "dns"} \subseteq heap
=============================================================================
