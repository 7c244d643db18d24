---------------------------- MODULE WireExchange ----------------------------
(***************************************************************************)
(* One client and one test responder exchanging datagrams: the encoders    *)
(* and parsers of r_protocol.c, the packets r_client.c builds with them    *)
(* and takes apart, and the scenarios of the test responder.               *)
(*                                                                         *)
(* A datagram is the record of its fields.  Byte COUNTS are exact: the     *)
(* sizes a packet declares about itself and the number of bytes that       *)
(* travelled are separate fields, so that a truncated packet is one whose  *)
(* fields claim more than its len.  Byte VALUES are abstract: trackers and *)
(* buckets are model values, a label is its length, a cookie or an AES-GCM *)
(* tag is what it vouches for.                                             *)
(*                                                                         *)
(* The network keeps every datagram, so delivery loses (never delivers),   *)
(* duplicates and reorders.  Timers, several servers and which of several  *)
(* answers wins are RateClient's subject; here a request waits until it is *)
(* answered or times out.                                                  *)
(***************************************************************************)
EXTENDS Integers, Sequences, FiniteSets, FiniteSetsExt

CONSTANTS
    Buckets,          \* resource bucket identities
    Contents,         \* what the host may submit or report, see IsContent
    Scenarios,        \* the scenarios the responder may be started with
    AllowCount,       \* --allow-count of the quota scenario
    QuotaCap,         \* R_TEST_RESPONDER_QUOTA_CAP, 256 in the code
    MaxCalls,         \* bound: submissions and reports of one behaviour
    MaxPackets        \* --max-packets: authenticated packets before exit

R_TENANT_TLV_LEN == 40
R_PDU_HEADER_LEN == 8
R_MAX_PACKET_SIZE == 1200
R_GUARD_BLOCK_WIRE_LEN == 36
R_RESOURCE_BLOCK_WIRE_LEN == 28
R_SERVICE_LATENCY_BLOCK_WIRE_LEN == 32
R_TEST_RESPONDER_LABEL_CAP == 256
UINT16_MAX == 65535

(* The two built-in credentials; each has a tenant key id of its own. *)
Credentials == {"aes", "cookie"}

(* The authentication TLV: 4 bytes of header, then a 32-byte cookie or a    *)
(* 12-byte nonce and a 16-byte tag.                                         *)
AuthTlvLen(cred) == IF cred = "cookie" THEN 36 ELSE 32

(* The bytes of the label TLV, 0 for no label: 4 of header, 2 of length,   *)
(* the label, zero padding to a multiple of 4.                             *)
LabelTlvLen(label) ==
    LET body == 2 + label
    IN  IF label = 0 THEN 0 ELSE 4 + body + ((4 - (body % 4)) % 4)

(* What a host passes to a call: a rate request, or a latency report.      *)
IsRate(c) == c.reports = <<>>

IsSequence(s) == s \in Seq({s[i] : i \in DOMAIN s})

IsContent(c) ==
    /\ DOMAIN c = {"guards", "resources", "label", "reports"}
    /\ IsSequence(c.guards) /\ IsSequence(c.resources) /\ IsSequence(c.reports)
    /\ c.label \in Nat
    /\ \A i \in DOMAIN c.guards : c.guards[i].threshold \in Nat
    /\ \A i \in DOMAIN c.resources : /\ c.resources[i].bucket \in Buckets
                                     /\ c.resources[i].tokens \in Nat
    /\ IsRate(c) => c.guards # <<>> \/ c.resources # <<>>
    /\ ~IsRate(c) => c.guards = <<>> /\ c.resources = <<>> /\ c.label = 0

Scenario == {"allow", "deny", "guard-pass", "guard-deny", "quota", "drop",
             "malformed-auth", "malformed-truncated", "malformed-request-id",
             "count-empty", "count-short", "count-extra"}

ASSUME WireAssumption ==
    /\ IsFiniteSet(Buckets)
    /\ Scenarios \subseteq Scenario
    /\ \A c \in Contents : IsContent(c)
    /\ AllowCount \in Nat
    /\ QuotaCap \in Nat \ {0}
    /\ MaxCalls \in Nat \ {0}
    /\ MaxPackets \in Nat \ {0}

VARIABLES
    setup,     \* fixed for a behaviour: the responder's scenario and the
               \* credential each side was started with
    calls,     \* calls[i]: content, status and answer of the i-th call
    net,       \* every datagram ever sent
    quota,     \* quota[b]: requests of b's entry in the quota table, 0 if none
    observed,  \* authenticated_packets of the responder's main loop
    ledger     \* history: listings of each bucket in processed requests, the
               \* ones answered without and with a deficit, and whether the
               \* quota table ever overflowed

vars == <<setup, calls, net, quota, observed, ledger>>

-----------------------------------------------------------------------------
(* Building packets.  Every builder refuses what does not fit its buffer.  *)

BlocksLen(guards, resources) ==
    4 + Len(guards) * R_GUARD_BLOCK_WIRE_LEN
      + Len(resources) * R_RESOURCE_BLOCK_WIRE_LEN

AppendLabelOk(pos, label) ==
    /\ label <= UINT16_MAX
    /\ LabelTlvLen(label) <= UINT16_MAX
    /\ pos + LabelTlvLen(label) <= R_MAX_PACKET_SIZE

RateBodyOk(c) ==
    /\ Len(c.resources) <= UINT16_MAX
    /\ Len(c.guards) <= UINT16_MAX
    /\ BlocksLen(c.guards, c.resources) <= R_MAX_PACKET_SIZE
    /\ c.label # 0 => AppendLabelOk(BlocksLen(c.guards, c.resources), c.label)

ReportBodyLen(c) == 4 + Len(c.reports) * R_SERVICE_LATENCY_BLOCK_WIRE_LEN

ReportBodyOk(c) ==
    /\ Len(c.reports) <= UINT16_MAX
    /\ ReportBodyLen(c) <= R_MAX_PACKET_SIZE

PduOk(bodyLen) ==
    /\ R_PDU_HEADER_LEN + bodyLen <= UINT16_MAX
    /\ R_PDU_HEADER_LEN + bodyLen <= R_MAX_PACKET_SIZE

\* Mutant: a packet of exactly the maximal size is refused.
PacketOkBelow(cred, pduLen) ==
    R_TENANT_TLV_LEN + AuthTlvLen(cred) + pduLen < R_MAX_PACKET_SIZE

PacketOk(cred, pduLen) ==
    R_TENANT_TLV_LEN + AuthTlvLen(cred) + pduLen <= R_MAX_PACKET_SIZE

BodyLen(c) == IF IsRate(c)
              THEN BlocksLen(c.guards, c.resources) + LabelTlvLen(c.label)
              ELSE ReportBodyLen(c)

BodyOk(c) == IF IsRate(c) THEN RateBodyOk(c) ELSE ReportBodyOk(c)

(* The call builds its packet: every stage fits.                           *)
Builds(cred, c) ==
    /\ BodyOk(c)
    /\ PduOk(BodyLen(c))
    /\ PacketOk(cred, R_PDU_HEADER_LEN + BodyLen(c))

(* The protection of a PDU: a cookie vouches for nothing but the sender, an *)
(* AES-GCM tag for the tenant header, the authentication TLV's header and  *)
(* nonce, and every byte of the PDU.                                        *)
Protect(cred, tenant, pduLen) ==
    [type |-> cred, intact |-> TRUE, tenant |-> tenant, pduLen |-> pduLen]

Packet(to, cred, tenant, pdu) ==
    [to |-> to,
     len |-> R_TENANT_TLV_LEN + AuthTlvLen(cred) + pdu.size,
     tenant |-> tenant,
     auth |-> Protect(cred, tenant, pdu.size),
     pdu |-> pdu]

RatePdu(c) ==
    [type |-> "rate_request", size |-> R_PDU_HEADER_LEN + BodyLen(c),
     guards |-> c.guards, resources |-> c.resources,
     tlv |-> LabelTlvLen(c.label), label |-> c.label]

ReportPdu(c) ==
    [type |-> "latency_report", size |-> R_PDU_HEADER_LEN + BodyLen(c),
     reports |-> c.reports]

CallPacket(cred, id, c) ==
    Packet("responder", cred, [key |-> cred, id |-> id],
           IF IsRate(c) THEN RatePdu(c) ELSE ReportPdu(c))

-----------------------------------------------------------------------------
(* The responder reads a packet.                                           *)

(* What travelled of the PDU.                                              *)
PduLen(d) == d.len - R_TENANT_TLV_LEN - AuthTlvLen(d.auth.type)

(* The tag or the cookie verifies.                                         *)
Verifies(d) ==
    /\ d.auth.intact
    /\ d.auth.type = "aes" => /\ d.auth.tenant = d.tenant
                              /\ d.auth.pduLen = PduLen(d)

Authenticated(d) ==
    /\ d.tenant.key = setup.responder
    /\ d.len >= R_TENANT_TLV_LEN + AuthTlvLen(d.auth.type)
    /\ d.auth.type = setup.responder
    /\ d.auth.type = "aes" => PduLen(d) > 0
    /\ Verifies(d)

LabelParses(pdu, pos, bodyLen) ==
    \/ pos = bodyLen
    \/ /\ bodyLen - pos >= 6
       /\ pdu.tlv >= 6
       /\ pos + pdu.tlv = bodyLen
       /\ pdu.label <= pdu.tlv - 6
       /\ pdu.label <= R_TEST_RESPONDER_LABEL_CAP

RequestParses(pdu, pduLen) ==
    LET bodyLen == pduLen - R_PDU_HEADER_LEN
    IN  /\ pduLen >= R_PDU_HEADER_LEN
        /\ pdu.size = pduLen
        /\ bodyLen >= 4
        /\ \/ /\ pdu.type = "rate_request"
              /\ BlocksLen(pdu.guards, pdu.resources) <= bodyLen
              /\ LabelParses(pdu, BlocksLen(pdu.guards, pdu.resources), bodyLen)
           \/ /\ pdu.type = "latency_report"
              /\ Len(pdu.reports) * R_SERVICE_LATENCY_BLOCK_WIRE_LEN = bodyLen - 4

-----------------------------------------------------------------------------
(* The quota table, charged block by block in the order of the request.    *)

Listed(resources, k, b) == {j \in 1 .. k - 1 : resources[j].bucket = b}

Entries == {b \in Buckets : quota[b] > 0}

(* The k-th block finds its bucket absent and the table full.              *)
TableFull(resources, k) ==
    LET known == Entries \union {resources[j].bucket : j \in 1 .. k - 1}
    IN  /\ resources[k].bucket \notin known
        /\ Cardinality(known) >= QuotaCap

(* The blocks that are charged: all, or the ones before the first that      *)
(* finds the table full.                                                    *)
Charged(resources) ==
    LET full == {k \in DOMAIN resources : TableFull(resources, k)}
    IN  IF full = {} THEN Len(resources) ELSE Min(full) - 1

\* Mutant: a bucket listed twice in a request is charged when the request ends.
QuotaAllowsStale(resources, k) == quota[resources[k].bucket] < AllowCount

QuotaAllows(resources, k) ==
    LET b == resources[k].bucket
    IN  quota[b] + Cardinality(Listed(resources, k, b)) < AllowCount

QuotaCharges == setup.scenario = "quota"

ChargedQuota(resources) ==
    [b \in Buckets |-> quota[b]
        + Cardinality(Listed(resources, Charged(resources) + 1, b))]

-----------------------------------------------------------------------------
(* The responder answers a rate request.                                   *)

Shorten(s, n) == SubSeq(s, 1, Len(s) - n)

(* A guard block comes back with a current latency, a resource block with  *)
(* a deficit; the blocks COUNT_EXTRA makes up have a zero identity.        *)
AnswerGuard(g) ==
    [tracker |-> g.tracker, threshold |-> g.threshold,
     current |-> IF setup.scenario = "guard-deny" THEN g.threshold
                 ELSE IF g.threshold > 0 THEN g.threshold - 1 ELSE 0]

Deficit(tokens) == IF tokens = 0 THEN 1 ELSE tokens

AnswerResource(resources, k) ==
    [bucket |-> resources[k].bucket,
     deficit |-> IF \/ setup.scenario = "deny"
                    \/ QuotaCharges /\ ~QuotaAllows(resources, k)
                 THEN Deficit(resources[k].tokens) ELSE 0]

MadeUpResource == [bucket |-> "zero", deficit |-> 1]

AnswerGuards(pdu) ==
    LET all == [i \in DOMAIN pdu.guards |-> AnswerGuard(pdu.guards[i])]
    IN  CASE setup.scenario = "count-empty" -> <<>>
          [] setup.scenario = "count-short" /\ pdu.resources = <<>> -> Shorten(all, 1)
          [] OTHER -> all

AnswerResources(pdu) ==
    LET all == [k \in DOMAIN pdu.resources |-> AnswerResource(pdu.resources, k)]
    IN  CASE setup.scenario = "count-empty" -> <<>>
          [] setup.scenario = "count-short" /\ pdu.resources # <<>> -> Shorten(all, 1)
          [] setup.scenario = "count-extra" -> Append(all, MadeUpResource)
          [] OTHER -> all

AnswerPdu(pdu) ==
    [type |-> "rate_response",
     size |-> R_PDU_HEADER_LEN + BlocksLen(AnswerGuards(pdu), AnswerResources(pdu)),
     guards |-> AnswerGuards(pdu), resources |-> AnswerResources(pdu)]

AnswerBuilds(pdu) ==
    /\ QuotaCharges => Charged(pdu.resources) = Len(pdu.resources)
    /\ PduOk(AnswerPdu(pdu).size - R_PDU_HEADER_LEN)
    /\ PacketOk(setup.responder, AnswerPdu(pdu).size)

(* The id is echoed, or spoilt before the packet is protected.             *)
AnswerTenant(d) ==
    [key |-> "server",
     id |-> IF setup.scenario = "malformed-request-id" THEN -d.tenant.id ELSE d.tenant.id]

AnswerPacket(d) ==
    LET p == Packet("client", setup.responder, AnswerTenant(d), AnswerPdu(d.pdu))
    IN  CASE setup.scenario = "malformed-auth" -> [p EXCEPT !.auth.intact = FALSE]
          [] setup.scenario = "malformed-truncated" -> [p EXCEPT !.len = @ - 1]
          [] OTHER -> p

-----------------------------------------------------------------------------
(* The client reads an answer.                                             *)

\* Mutant: the declared size is not compared with what arrived.
ResponseParsesDeclared(pdu, pduLen) ==
    LET bodyLen == pdu.size - R_PDU_HEADER_LEN
    IN  /\ pduLen >= R_PDU_HEADER_LEN
        /\ pdu.type = "rate_response"
        /\ pdu.size >= R_PDU_HEADER_LEN
        /\ bodyLen >= 4
        /\ BlocksLen(pdu.guards, pdu.resources) <= bodyLen

ResponseParses(pdu, pduLen) ==
    LET bodyLen == pdu.size - R_PDU_HEADER_LEN
    IN  /\ pduLen >= R_PDU_HEADER_LEN
        /\ pdu.type = "rate_response"
        /\ pdu.size >= R_PDU_HEADER_LEN
        /\ pduLen >= pdu.size
        /\ bodyLen >= 4
        /\ BlocksLen(pdu.guards, pdu.resources) <= bodyLen

\* Mutant: a latency equal to its threshold passes.
PassedAtThreshold(g) == g.current <= g.threshold

Passed(g) == g.current < g.threshold

ResponseSuccess(pdu) ==
    /\ \A i \in DOMAIN pdu.guards : Passed(pdu.guards[i])
    /\ \A i \in DOMAIN pdu.resources : pdu.resources[i].deficit = 0

(* What the callback is given.                                             *)
Outcome(pdu) ==
    [success |-> ResponseSuccess(pdu), guards |-> pdu.guards, resources |-> pdu.resources]

(* A request in flight has the id of d.  The responder's server id is the   *)
(* one discovery announced, and a request times out here no later than its *)
(* deduplication window closes, so the checks on both always pass.         *)
Awaited(d) == /\ d.tenant.id \in DOMAIN calls
              /\ calls[d.tenant.id].status = "pending"

(* What r_client_on_datagram returns for d.                                *)
IngressCode(d) ==
    IF ~Awaited(d) THEN "ok"
    ELSE IF d.auth.type # setup.client THEN "auth"
    ELSE IF d.auth.type = "cookie" /\ ~Verifies(d) THEN "auth"
    ELSE IF d.auth.type = "aes" /\ ~(PduLen(d) > 0 /\ Verifies(d)) THEN "protocol"
    ELSE IF ~ResponseParses(d.pdu, PduLen(d)) THEN "protocol"
    ELSE "ok"

Applies(d) == Awaited(d) /\ IngressCode(d) = "ok"

-----------------------------------------------------------------------------
NoAnswer == [success |-> FALSE, guards |-> <<>>, resources |-> <<>>]

Init ==
    /\ setup \in [scenario : Scenarios, client : Credentials, responder : Credentials]
    /\ calls = <<>>
    /\ net = {}
    /\ quota = [b \in Buckets |-> 0]
    /\ observed = 0
    /\ ledger = [received |-> [b \in Buckets |-> 0],
                 allowed |-> [b \in Buckets |-> 0],
                 denied |-> [b \in Buckets |-> 0],
                 overflowed |-> FALSE]

(* r_client_check_rate_limit_async and r_client_report_latency: a call that *)
(* builds its packet sends it, one that does not is refused.               *)
Call(c) ==
    /\ Len(calls) < MaxCalls
    /\ LET ok == Builds(setup.client, c)
           status == IF ~ok THEN "refused"
                     ELSE IF IsRate(c) THEN "pending" ELSE "reported"
       IN  /\ calls' = Append(calls, [content |-> c, status |-> status, answer |-> NoAnswer])
           /\ net' = IF ok THEN net \union {CallPacket(setup.client, Len(calls) + 1, c)}
                     ELSE net
    /\ UNCHANGED <<setup, quota, observed, ledger>>

CanProcess(d) == d \in net /\ d.to = "responder" /\ observed < MaxPackets

Accepts(d) == Authenticated(d) /\ RequestParses(d.pdu, PduLen(d))

(* A packet that does not authenticate or parse changes nothing.           *)
Reject(d) ==
    /\ CanProcess(d)
    /\ ~Accepts(d)
    /\ UNCHANGED vars

(* A report, or any request in the drop scenario, is observed only.        *)
Observe(d) ==
    /\ CanProcess(d)
    /\ Accepts(d)
    /\ d.pdu.type = "latency_report" \/ setup.scenario = "drop"
    /\ observed' = observed + 1
    /\ UNCHANGED <<setup, calls, net, quota, ledger>>

Count(resources, b) == Cardinality({k \in DOMAIN resources : resources[k].bucket = b})

Allowed(resources, b) ==
    Cardinality({k \in DOMAIN resources : resources[k].bucket = b /\ resources[k].deficit = 0})

Denied(resources, b) ==
    Cardinality({k \in DOMAIN resources : resources[k].bucket = b /\ resources[k].deficit # 0})

(* The ledger after a request that is or is not answered.                  *)
Recorded(pdu, answered) ==
    LET blocks == IF answered THEN AnswerResources(pdu) ELSE <<>>
    IN  [received |-> [b \in Buckets |-> ledger.received[b] + Count(pdu.resources, b)],
         allowed |-> [b \in Buckets |-> ledger.allowed[b] + Allowed(blocks, b)],
         denied |-> [b \in Buckets |-> ledger.denied[b] + Denied(blocks, b)],
         overflowed |-> \/ ledger.overflowed
                        \/ QuotaCharges /\ Charged(pdu.resources) < Len(pdu.resources)]

(* A rate request is charged and answered; when its answer cannot be built *)
(* the charges made so far stay and nothing is sent.                       *)
Answer(d) ==
    /\ CanProcess(d)
    /\ Accepts(d)
    /\ d.pdu.type = "rate_request"
    /\ setup.scenario # "drop"
    /\ observed' = observed + 1
    /\ quota' = IF QuotaCharges THEN ChargedQuota(d.pdu.resources) ELSE quota
    /\ net' = IF AnswerBuilds(d.pdu) THEN net \union {AnswerPacket(d)} ELSE net
    /\ ledger' = Recorded(d.pdu, AnswerBuilds(d.pdu))
    /\ UNCHANGED <<setup, calls>>

(* r_client_on_datagram with an answer that is not applied.                *)
Ignore(d) ==
    /\ d \in net
    /\ d.to = "client"
    /\ ~Applies(d)
    /\ UNCHANGED vars

(* The callback of a call has been given its answer.                       *)
Over(call, status, answer) ==
    [content |-> call.content, status |-> status, answer |-> answer]

(* r_client_on_datagram with an answer that completes its request.         *)
Apply(d) ==
    /\ d \in net
    /\ d.to = "client"
    /\ Applies(d)
    /\ calls' = [calls EXCEPT ![d.tenant.id] = Over(@, "answered", Outcome(d.pdu))]
    /\ UNCHANGED <<setup, net, quota, observed, ledger>>

Timeout(i) ==
    /\ calls[i].status = "pending"
    /\ calls' = [calls EXCEPT ![i] = Over(@, "timeout", NoAnswer)]
    /\ UNCHANGED <<setup, net, quota, observed, ledger>>

Next ==
    \/ \E c \in Contents : Call(c)
    \/ \E d \in net : Reject(d) \/ Observe(d) \/ Answer(d) \/ Ignore(d) \/ Apply(d)
    \/ \E i \in DOMAIN calls : Timeout(i)

Spec == Init /\ [][Next]_vars
-----------------------------------------------------------------------------
(* Properties.                                                             *)

(* The size of the one datagram a call needs, counted in one sum.          *)
DatagramSize(cred, c) ==
    LET label == IF c.label = 0 THEN 0
                 ELSE CHOOSE n \in c.label + 6 .. c.label + 9 : n % 4 = 0
    IN  R_TENANT_TLV_LEN + AuthTlvLen(cred) + R_PDU_HEADER_LEN + 4
        + 36 * Len(c.guards) + 28 * Len(c.resources) + 32 * Len(c.reports) + label

(* "The whole request must fit one 1200-byte datagram" (docs/api.md): the  *)
(* three staged buffer checks of the builders refuse a request or a report *)
(* exactly when its datagram would exceed 1200 bytes.                      *)
RefusedIffOversized ==
    \A i \in DOMAIN calls :
        (calls[i].status = "refused")
            <=> (DatagramSize(setup.client, calls[i].content) > 1200)

(* The two implementations of the request format agree: whatever r_client.c *)
(* sends, a responder with the same credential authenticates and parses,   *)
(* but for labels longer than its label buffer; one with the other         *)
(* credential accepts nothing.                                             *)
RequestsUnderstood ==
    \A d \in {p \in net : p.to = "responder"} :
        Accepts(d) <=> /\ setup.client = setup.responder
                       /\ d.pdu.type = "rate_request" => d.pdu.label <= 256

(* Whatever request the responder accepts, its answer fits a datagram too, *)
(* except for the extra block of count-extra on a nearly full request and  *)
(* a quota table that has overflowed: no request is silently left out.     *)
AnswersFit ==
    \A d \in {p \in net : p.to = "responder" /\ p.pdu.type = "rate_request"} :
        Accepts(d) =>
            \/ AnswerBuilds(d.pdu)
            \/ setup.scenario = "count-extra" /\ d.len - d.pdu.tlv + 28 > 1200
            \/ /\ setup.scenario = "quota"
               /\ Cardinality(Entries \union {d.pdu.resources[k].bucket :
                        k \in DOMAIN d.pdu.resources}) > QuotaCap

(* The two sides agree on what one datagram can carry: the builders of     *)
(* r_client.c refuse exactly what does not fit, r_test_responder.c reads   *)
(* whatever they send, and its own answer to it fits as well.  No call is  *)
(* lost between two buffer checks that disagree by a few bytes.  What the  *)
(* limit means in guards is GuardLimitAsDocumented, which fails.           *)
FormatsAgree == RefusedIffOversized /\ RequestsUnderstood /\ AnswersFit

(* docs/test-responder.md: the client rejects every answer of the malformed *)
(* scenarios with the documented code (a cookie mismatch is AUTH, a failed *)
(* tag or a short PDU is PROTOCOL, a foreign id is ignored), and applies   *)
(* every answer of the other scenarios that it still waits for.            *)
IngressAsDocumented ==
    \A d \in {p \in net : p.to = "client"} :
        CASE setup.scenario = "malformed-auth" ->
                 Awaited(d) => IngressCode(d) = IF setup.client = "cookie" THEN "auth"
                                                ELSE "protocol"
          [] setup.scenario = "malformed-truncated" ->
                 Awaited(d) => IngressCode(d) = "protocol"
          [] setup.scenario = "malformed-request-id" ->
                 ~Awaited(d) /\ IngressCode(d) = "ok"
          [] OTHER -> Awaited(d) => IngressCode(d) = "ok"

(* The answer repeats the identities of the request in its order.          *)
Echoes(c, a) ==
    /\ Len(a.guards) = Len(c.guards)
    /\ Len(a.resources) = Len(c.resources)
    /\ \A i \in DOMAIN c.guards : a.guards[i].tracker = c.guards[i].tracker
    /\ \A k \in DOMAIN c.resources : a.resources[k].bucket = c.resources[k].bucket

(* A guard whose threshold is 0 fails whatever the latency is.             *)
Passable(c) == \A i \in DOMAIN c.guards : c.guards[i].threshold > 0

Results(a) == Len(a.guards) + Len(a.resources)

(* What a host is told of a request in each scenario, through encoder,     *)
(* responder, decoder and the success rule of r_parse_rate_response_pdu.   *)
(* A scenario bends only the blocks that a request has: without a resource *)
(* deny has nothing to deny, without a guard guard-deny has not either,    *)
(* and a guard whose threshold is 0 fails in every scenario that answers.  *)
(* The table of docs/test-responder.md makes none of these exceptions:     *)
(* that it does not hold is shown of ScenariosAsDocumented.                *)
OutcomeOfScenario ==
    \A i \in {j \in DOMAIN calls : calls[j].status = "answered"} :
        LET c == calls[i].content
            a == calls[i].answer
        IN  CASE setup.scenario \in {"allow", "guard-pass"} ->
                     Echoes(c, a) /\ (a.success <=> Passable(c))
              [] setup.scenario = "deny" ->
                     /\ Echoes(c, a)
                     /\ \A k \in DOMAIN a.resources : a.resources[k].deficit > 0
                     /\ a.success <=> c.resources = <<>> /\ Passable(c)
              [] setup.scenario = "guard-deny" ->
                     Echoes(c, a) /\ (a.success <=> c.guards = <<>>)
              [] setup.scenario = "quota" ->
                     /\ Echoes(c, a)
                     /\ a.success => \A k \in DOMAIN a.resources :
                                        ledger.allowed[a.resources[k].bucket] > 0
              [] setup.scenario = "count-empty" -> a.success /\ Results(a) = 0
              [] setup.scenario = "count-short" ->
                     Results(a) = Len(c.guards) + Len(c.resources) - 1
              [] setup.scenario = "count-extra" ->
                     /\ Results(a) = Len(c.guards) + Len(c.resources) + 1
                     /\ ~a.success
              [] OTHER -> FALSE

(* quota_allows counts LISTINGS: the blocks that name a bucket, over every *)
(* copy of every request that arrives.  No bucket is granted more than     *)
(* --allow-count listings however requests are replayed, interleaved or    *)
(* repeat a bucket; a deficit needs more listings than that; and until the *)
(* quota table overflows the granted ones are exactly the first.  The      *)
(* table never outgrows state->quota.  (The document counts requests: see  *)
(* QuotaRow.)                                                              *)
ListingsWithinQuota ==
    /\ Cardinality(Entries) <= QuotaCap
    /\ setup.scenario = "quota" =>
        \A b \in Buckets :
            /\ ledger.allowed[b] <= AllowCount
            /\ ledger.denied[b] > 0 => ledger.received[b] > AllowCount
            /\ ~ledger.overflowed =>
                  ledger.allowed[b] = Min({AllowCount, ledger.received[b]})

-----------------------------------------------------------------------------
(* What the documents say and the code does not do.                        *)

(* docs/api.md: "(at most 27 guards with no resources). Oversized requests *)
(* fail at submit": r_client.c takes whatever fits 1200 bytes, and that is *)
(* 30 guards with a cookie and 31 with AES-GCM.                             *)
GuardLimitAsDocumented ==
    \A i \in DOMAIN calls :
        LET c == calls[i].content
        IN  /\ IsRate(c)
            /\ c.resources = <<>>
            /\ Len(c.guards) > 27
            => calls[i].status = "refused"

Answered == {i \in DOMAIN calls : calls[i].status = "answered"}

(* "allow, guard-pass, and count-empty complete the request callback with  *)
(* RCLIENT_OK and success == true": a guard with threshold 0 fails.        *)
AllowRow ==
    setup.scenario \in {"allow", "guard-pass", "count-empty"} =>
        \A i \in Answered : calls[i].answer.success

(* "deny, guard-deny [...] complete with RCLIENT_OK and success == false": *)
(* deny lets a request without resources pass, guard-deny one without guards. *)
DenyRow ==
    setup.scenario \in {"deny", "guard-deny"} =>
        \A i \in Answered : ~calls[i].answer.success

Asks(c, b) == \E k \in DOMAIN c.resources : c.resources[k].bucket = b

(* "Allow the first --allow-count=<n> rate requests per bucket, then return *)
(* a deficit": as long as no more than n requests name a bucket, none of   *)
(* their answers has a deficit in it.  A request that lists the bucket     *)
(* twice, or arrives twice, uses up two.                                    *)
QuotaRow ==
    setup.scenario = "quota" =>
        \A b \in Buckets, d \in {p \in net : p.to = "client"} :
            Cardinality({i \in DOMAIN calls : Asks(calls[i].content, b)}) <= AllowCount
                => Denied(d.pdu.resources, b) = 0

(* The table of scenarios and the outcomes of docs/test-responder.md as    *)
(* they are written: each of the three parts fails by itself.              *)
ScenariosAsDocumented == AllowRow /\ DenyRow /\ QuotaRow

-----------------------------------------------------------------------------
(* The inductive invariant                                                 *)

Status == {"refused", "pending", "reported", "answered", "timeout"}

TypeOK ==
    /\ setup \in [scenario : Scenarios, client : Credentials, responder : Credentials]
    /\ IsSequence(calls)
    /\ \A i \in DOMAIN calls :
           calls[i].content \in Contents /\ calls[i].status \in Status
    /\ \A d \in net : d.to \in {"responder", "client"}
    /\ quota \in [Buckets -> Nat]
    /\ ledger.received \in [Buckets -> Nat]
    /\ ledger.allowed \in [Buckets -> Nat]
    /\ ledger.denied \in [Buckets -> Nat]

\* A call is refused if and only if its packet cannot be built, and what is
\* under way to the responder is the packet of a call.
SentInv ==
    /\ \A i \in DOMAIN calls :
           calls[i].status = "refused" <=> ~Builds(setup.client, calls[i].content)
    /\ \A d \in net : d.to = "responder" =>
           \E i \in DOMAIN calls :
               /\ Builds(setup.client, calls[i].content)
               /\ d = CallPacket(setup.client, i, calls[i].content)

\* The resource blocks of an answer to the request c.
AnswersResources(c, resources) ==
    /\ IsSequence(resources)
    /\ CASE setup.scenario = "count-empty" -> resources = <<>>
         [] setup.scenario = "count-short" ->
                Len(resources) = IF c.resources = <<>> THEN 0 ELSE Len(c.resources) - 1
         [] setup.scenario = "count-extra" ->
                /\ Len(resources) = Len(c.resources) + 1
                /\ resources[Len(resources)].deficit # 0
         [] OTHER ->
                /\ Len(resources) = Len(c.resources)
                /\ \A k \in DOMAIN c.resources :
                       /\ resources[k].bucket = c.resources[k].bucket
                       /\ resources[k].deficit \in Nat
                       /\ setup.scenario = "deny" => resources[k].deficit > 0
                       /\ setup.scenario \notin {"deny", "quota"} =>
                              resources[k].deficit = 0
                       /\ setup.scenario = "quota" /\ resources[k].deficit = 0 =>
                              ledger.allowed[resources[k].bucket] > 0

\* Packet d answers the i-th call, spoilt as the scenario says.
AnswerShape(d, i) ==
    LET c == calls[i].content
    IN  /\ IsRate(c)
        /\ d.tenant.id = IF setup.scenario = "malformed-request-id" THEN -i ELSE i
        /\ d.auth.type = setup.responder
        /\ d.auth.intact <=> setup.scenario # "malformed-auth"
        /\ d.auth.tenant = d.tenant
        /\ d.auth.pduLen = d.pdu.size
        /\ d.len = R_TENANT_TLV_LEN + AuthTlvLen(setup.responder) + d.pdu.size
                     - (IF setup.scenario = "malformed-truncated" THEN 1 ELSE 0)
        /\ d.pdu.type = "rate_response"
        /\ d.pdu.size = R_PDU_HEADER_LEN + BlocksLen(d.pdu.guards, d.pdu.resources)
        /\ d.pdu.guards = AnswerGuards(RatePdu(c))

IsAnswer(d, i) ==
    AnswerShape(d, i) /\ AnswersResources(calls[i].content, d.pdu.resources)

AnswerInv ==
    \A d \in net : d.to = "client" =>
        /\ setup.client = setup.responder /\ setup.scenario # "drop"
        /\ \E i \in DOMAIN calls : IsAnswer(d, i)

\* What a host was told came out of a packet that the client accepted.
OutcomeInv ==
    \A i \in DOMAIN calls : calls[i].status = "answered" =>
        /\ setup.scenario \notin {"malformed-auth", "malformed-truncated",
                                  "malformed-request-id"}
        /\ \E d \in net :
            /\ d.to = "client" /\ d.tenant.id = i
            /\ calls[i].answer = Outcome(d.pdu)

\* The table counts what was charged, the ledger what was answered.
QuotaInv ==
    /\ Cardinality(Entries) <= QuotaCap
    /\ setup.scenario # "quota" => \A b \in Buckets : quota[b] = 0
    /\ setup.scenario = "quota" => \A b \in Buckets :
        /\ quota[b] <= ledger.received[b]
        /\ ledger.allowed[b] <= quota[b]
        /\ ledger.allowed[b] <= AllowCount
        /\ ledger.denied[b] > 0 => ledger.received[b] > AllowCount
        /\ ~ledger.overflowed =>
              /\ quota[b] = ledger.received[b]
              /\ ledger.allowed[b] =
                    IF quota[b] <= AllowCount THEN quota[b] ELSE AllowCount

IInv == TypeOK /\ SentInv /\ AnswerInv /\ OutcomeInv /\ QuotaInv
=============================================================================
