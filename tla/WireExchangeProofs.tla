------------------------- MODULE WireExchangeProofs -------------------------
(***************************************************************************)
(* Proofs about the exchange of datagrams, for every set of requests and   *)
(* reports, any number of calls and packets and every size of the quota    *)
(* table: the two implementations of the format agree byte for byte on     *)
(* what fits and what is read, the client reacts to every scenario of the  *)
(* responder as documented, and the quota is honoured.                     *)
(***************************************************************************)
EXTENDS WireExchange, SequenceTheorems, FiniteSetTheorems, WellFoundedInduction, TLAPS

-----------------------------------------------------------------------------
(* Sequences and numbers *)

LEMMA SequenceLen ==
    ASSUME NEW s, IsSequence(s)
    PROVE  Len(s) \in Nat /\ DOMAIN s = 1 .. Len(s)
  BY DEF IsSequence

LEMMA FunctionSequence ==
    ASSUME NEW n \in Nat, NEW s, s = [i \in 1 .. n |-> s[i]]
    PROVE  IsSequence(s) /\ Len(s) = n
  <1> DEFINE S == {s[i] : i \in DOMAIN s}
  <1>1. DOMAIN s = 1 .. n
    OBVIOUS
  <1>2. s \in [1 .. n -> S]
    BY <1>1
  <1>3. s \in Seq(S)
    BY <1>2, IsASeq
  <1> QED BY <1>1, <1>3 DEF IsSequence

LEMMA AppendSequence ==
    ASSUME NEW s, IsSequence(s), NEW x
    PROVE  /\ IsSequence(Append(s, x)) /\ Len(Append(s, x)) = Len(s) + 1
           /\ DOMAIN Append(s, x) = 1 .. Len(s) + 1
           /\ \A i \in 1 .. Len(s) : Append(s, x)[i] = s[i]
           /\ Append(s, x)[Len(s) + 1] = x
  <1> DEFINE S == {s[i] : i \in DOMAIN s} \cup {x}
  <1>1. s \in Seq(S)
    BY SeqMonotonic DEF IsSequence
  <1>2. /\ Append(s, x) \in Seq(S) /\ Len(Append(s, x)) = Len(s) + 1
        /\ \A i \in 1 .. Len(s) : Append(s, x)[i] = s[i]
        /\ Append(s, x)[Len(s) + 1] = x
    BY <1>1, AppendProperties
  <1>3. DOMAIN Append(s, x) = 1 .. Len(s) + 1 /\ Len(s) + 1 \in Nat
    BY <1>1, <1>2, LenProperties
  <1> DEFINE t == Append(s, x)
  <1>4. t \in [1 .. Len(s) + 1 -> S]
    BY <1>2, <1>3, LenProperties
  <1>5. t = [i \in 1 .. Len(s) + 1 |-> t[i]]
    BY <1>4
  <1>6. IsSequence(t)
    BY <1>3, <1>5, FunctionSequence
  <1> QED BY <1>2, <1>3, <1>6

LEMMA ExceptSequence ==
    ASSUME NEW s, IsSequence(s), NEW i \in DOMAIN s, NEW x
    PROVE  /\ IsSequence([s EXCEPT ![i] = x]) /\ Len([s EXCEPT ![i] = x]) = Len(s)
           /\ DOMAIN [s EXCEPT ![i] = x] = DOMAIN s
           /\ \A j \in DOMAIN s : [s EXCEPT ![i] = x][j] = IF j = i THEN x ELSE s[j]
  <1> DEFINE t == [s EXCEPT ![i] = x]
  <1>1. Len(s) \in Nat /\ DOMAIN s = 1 .. Len(s)
    BY SequenceLen
  <1>2. DOMAIN t = DOMAIN s /\ \A j \in DOMAIN s : t[j] = IF j = i THEN x ELSE s[j]
    BY DEF IsSequence
  <1>3. t = [j \in 1 .. Len(s) |-> t[j]]
    BY <1>1, <1>2
  <1>4. IsSequence(t) /\ Len(t) = Len(s)
    BY <1>1, <1>3, FunctionSequence
  <1> QED BY <1>2, <1>4

(* Every set of numbers that is not empty has a least one, which is Min.   *)
LEMMA LeastNumber ==
    ASSUME NEW S \in SUBSET Nat, S # {}
    PROVE  Min(S) \in S /\ \A m \in S : Min(S) <= m
  <1>1. IsWellFoundedOn(OpToRel(<, Nat), Nat)
    BY NatLessThanWellFounded
  <1>2. PICK x \in S : \A y \in S : ~ (<<y, x>> \in OpToRel(<, Nat))
    BY <1>1, WFMin
  <1>3. \A y \in S : y < x => <<y, x>> \in OpToRel(<, Nat)
    BY DEF OpToRel
  <1>4. \A y \in S : ~ (y < x)
    BY <1>2, <1>3, Zenon
  <1>5. ASSUME NEW y \in S PROVE x <= y
    <2>1. ~ (y < x) /\ x \in Nat /\ y \in Nat
      BY <1>4
    <2> QED BY <2>1, SMT
  <1>6. \E n \in S : \A m \in S : n <= m
    BY <1>5, Zenon
  <1> QED BY <1>6 DEF Min

-----------------------------------------------------------------------------
(* Sizes *)

LEMMA ContentFacts ==
    ASSUME NEW c \in Contents
    PROVE  /\ IsSequence(c.guards) /\ IsSequence(c.resources) /\ IsSequence(c.reports)
           /\ Len(c.guards) \in Nat /\ Len(c.resources) \in Nat /\ Len(c.reports) \in Nat
           /\ c.label \in Nat
           /\ DOMAIN c.guards = 1 .. Len(c.guards)
           /\ DOMAIN c.resources = 1 .. Len(c.resources)
           /\ \A i \in DOMAIN c.guards : c.guards[i].threshold \in Nat
           /\ \A i \in DOMAIN c.resources : /\ c.resources[i].bucket \in Buckets
                                            /\ c.resources[i].tokens \in Nat
           /\ IsRate(c) => c.guards # <<>> \/ c.resources # <<>>
           /\ IsRate(c) <=> Len(c.reports) = 0
           /\ ~IsRate(c) => Len(c.guards) = 0 /\ Len(c.resources) = 0 /\ c.label = 0
  <1>1. IsContent(c)
    BY WireAssumption
  <1>2. IsSequence(c.guards) /\ IsSequence(c.resources) /\ IsSequence(c.reports)
    BY <1>1 DEF IsContent
  <1>3. ASSUME NEW s, IsSequence(s) PROVE s = <<>> <=> Len(s) = 0
    <2>1. s \in Seq({s[i] : i \in DOMAIN s})
      BY <1>3 DEF IsSequence
    <2> QED BY <2>1, EmptySeq
  <1>4. IsRate(c) <=> Len(c.reports) = 0
    BY <1>2, <1>3 DEF IsRate
  <1>5. ~IsRate(c) => Len(c.guards) = 0 /\ Len(c.resources) = 0 /\ c.label = 0
    BY <1>1, <1>2, <1>3 DEF IsContent
  <1>6. /\ Len(c.guards) \in Nat /\ DOMAIN c.guards = 1 .. Len(c.guards)
        /\ Len(c.resources) \in Nat /\ DOMAIN c.resources = 1 .. Len(c.resources)
        /\ Len(c.reports) \in Nat
    BY <1>2, SequenceLen
  <1> QED BY <1>1, <1>2, <1>4, <1>5, <1>6 DEF IsContent

LEMMA LabelSize ==
    ASSUME NEW n \in Nat
    PROVE  /\ LabelTlvLen(n) \in Nat
           /\ n # 0 => /\ LabelTlvLen(n) \in n + 6 .. n + 9 /\ LabelTlvLen(n) % 4 = 0
                       /\ (CHOOSE k \in n + 6 .. n + 9 : k % 4 = 0) = LabelTlvLen(n)
           /\ n = 0 => LabelTlvLen(n) = 0
  <1> DEFINE t == 4 + (2 + n) + ((4 - ((2 + n) % 4)) % 4)
  <1>1. t \in n + 6 .. n + 9 /\ t % 4 = 0
    OBVIOUS
  <1>2. ASSUME NEW k \in n + 6 .. n + 9, NEW m \in n + 6 .. n + 9, k % 4 = 0, m % 4 = 0
        PROVE  k = m
    BY <1>2
  <1>3. n # 0 => LabelTlvLen(n) = t
    BY DEF LabelTlvLen
  <1>4. n = 0 => LabelTlvLen(n) = 0
    BY DEF LabelTlvLen
  <1>5. t \in Nat
    OBVIOUS
  <1> HIDE DEF t
  <1>6. (CHOOSE k \in n + 6 .. n + 9 : k % 4 = 0) = t
    <2>1. LET x == CHOOSE k \in n + 6 .. n + 9 : k % 4 = 0
          IN  x \in n + 6 .. n + 9 /\ x % 4 = 0
      BY <1>1
    <2> QED BY <1>1, <1>2, <2>1
  <1> QED BY <1>1, <1>3, <1>4, <1>5, <1>6

(* The three staged checks of the builders come to one: the datagram fits. *)
LEMMA BuildsIffFits ==
    ASSUME NEW c \in Contents, NEW cred \in Credentials
    PROVE  /\ BodyLen(c) \in Nat /\ BodyLen(c) >= 4
           /\ DatagramSize(cred, c) =
                  R_TENANT_TLV_LEN + AuthTlvLen(cred) + R_PDU_HEADER_LEN + BodyLen(c)
           /\ Builds(cred, c) <=> DatagramSize(cred, c) <= 1200
  <1> USE DEF R_TENANT_TLV_LEN, R_PDU_HEADER_LEN, R_MAX_PACKET_SIZE, R_GUARD_BLOCK_WIRE_LEN,
              R_RESOURCE_BLOCK_WIRE_LEN, R_SERVICE_LATENCY_BLOCK_WIRE_LEN, UINT16_MAX
  <1> DEFINE g == Len(c.guards)
             r == Len(c.resources)
             p == Len(c.reports)
             t == LabelTlvLen(c.label)
  <1>1. g \in Nat /\ r \in Nat /\ p \in Nat /\ c.label \in Nat /\ (IsRate(c) <=> p = 0)
        /\ (~IsRate(c) => g = 0 /\ r = 0 /\ c.label = 0)
    BY ContentFacts
  <1>2. /\ t \in Nat /\ (c.label # 0 => t \in c.label + 6 .. c.label + 9)
        /\ c.label = 0 => t = 0
        /\ c.label # 0 => (CHOOSE k \in c.label + 6 .. c.label + 9 : k % 4 = 0) = t
    BY <1>1, LabelSize
  <1>3. AuthTlvLen(cred) \in {32, 36}
    BY DEF AuthTlvLen
  <1>4. BlocksLen(c.guards, c.resources) = 4 + g * 36 + r * 28
    BY DEF BlocksLen
  <1>5. ReportBodyLen(c) = 4 + p * 32
    BY DEF ReportBodyLen
  <1>6. BodyLen(c) = 4 + 36 * g + 28 * r + 32 * p + t
    <2>1. BodyLen(c) = IF IsRate(c) THEN (4 + g * 36 + r * 28) + t ELSE 4 + p * 32
      BY <1>4, <1>5 DEF BodyLen
    <2> HIDE DEF g, r, p, t
    <2> QED BY <1>1, <1>2, <2>1
  <1>7. DatagramSize(cred, c) = 40 + AuthTlvLen(cred) + 8 + 4 + 36 * g + 28 * r + 32 * p + t
    <2>1. DatagramSize(cred, c) = 40 + AuthTlvLen(cred) + 8 + 4 + 36 * g + 28 * r + 32 * p
              + (IF c.label = 0 THEN 0
                 ELSE CHOOSE n \in c.label + 6 .. c.label + 9 : n % 4 = 0)
      BY DEF DatagramSize
    <2> QED BY <1>2, <2>1
  <1>8. Builds(cred, c) <=> /\ BodyOk(c)
                            /\ 8 + BodyLen(c) <= 65535 /\ 8 + BodyLen(c) <= 1200
                            /\ 40 + AuthTlvLen(cred) + (8 + BodyLen(c)) <= 1200
    BY DEF Builds, PduOk, PacketOk
  <1>9. CASE IsRate(c)
    <2>1. BodyOk(c) <=> /\ r <= 65535 /\ g <= 65535
                        /\ 4 + g * 36 + r * 28 <= 1200
                        /\ c.label # 0 => /\ c.label <= 65535 /\ t <= 65535
                                          /\ 4 + g * 36 + r * 28 + t <= 1200
      BY <1>4, <1>9 DEF BodyOk, RateBodyOk, AppendLabelOk
    <2> HIDE DEF g, r, p, t
    <2> QED BY <1>1, <1>2, <1>3, <1>6, <1>7, <1>8, <1>9, <2>1
  <1>10. CASE ~IsRate(c)
    <2>1. BodyOk(c) <=> p <= 65535 /\ 4 + p * 32 <= 1200
      BY <1>5, <1>10 DEF BodyOk, ReportBodyOk
    <2> HIDE DEF g, r, p, t
    <2> QED BY <1>1, <1>2, <1>3, <1>6, <1>7, <1>8, <1>10, <2>1
  <1> QED BY <1>9, <1>10
-----------------------------------------------------------------------------
(* Requests *)

SetupOK == setup \in [scenario : Scenarios, client : Credentials, responder : Credentials]

\* The packet of a call, field by field.
LEMMA CallFields ==
    ASSUME NEW c \in Contents, NEW i, NEW cred \in Credentials,
           NEW d, d = CallPacket(cred, i, c)
    PROVE  /\ d.to = "responder" /\ d.tenant = [key |-> cred, id |-> i]
           /\ d.auth.type = cred /\ d.auth.intact
           /\ d.auth.tenant = d.tenant /\ d.auth.pduLen = d.pdu.size
           /\ d.len = R_TENANT_TLV_LEN + AuthTlvLen(cred) + d.pdu.size
           /\ d.pdu.size = R_PDU_HEADER_LEN + BodyLen(c)
           /\ IsRate(c) => d.pdu = RatePdu(c) /\ d.pdu.type = "rate_request"
           /\ ~IsRate(c) => d.pdu = ReportPdu(c) /\ d.pdu.type = "latency_report"
  <1> DEFINE pdu == IF IsRate(c) THEN RatePdu(c) ELSE ReportPdu(c)
             tenant == [key |-> cred, id |-> i]
             auth == Protect(cred, tenant, pdu.size)
  <1>1. pdu.size = R_PDU_HEADER_LEN + BodyLen(c)
    BY DEF RatePdu, ReportPdu
  <1>2. /\ IsRate(c) => pdu = RatePdu(c) /\ pdu.type = "rate_request"
        /\ ~IsRate(c) => pdu = ReportPdu(c) /\ pdu.type = "latency_report"
    BY DEF RatePdu, ReportPdu
  <1> HIDE DEF pdu
  <1>3. auth.type = cred /\ auth.intact /\ auth.tenant = tenant /\ auth.pduLen = pdu.size
    BY DEF Protect
  <1> HIDE DEF auth, tenant
  <1>4. d = [to |-> "responder", len |-> R_TENANT_TLV_LEN + AuthTlvLen(cred) + pdu.size,
             tenant |-> tenant, auth |-> auth, pdu |-> pdu]
    BY DEF CallPacket, Packet, pdu, auth, tenant
  <1>5. /\ d.to = "responder" /\ d.tenant = tenant /\ d.pdu = pdu /\ d.auth = auth
        /\ d.len = R_TENANT_TLV_LEN + AuthTlvLen(cred) + pdu.size
    BY <1>4
  <1> QED BY <1>1, <1>2, <1>3, <1>5 DEF tenant

\* What travelled of the PDU of such a packet is all of it.
LEMMA CallPduLen ==
    ASSUME NEW c \in Contents, NEW i, NEW cred \in Credentials,
           NEW d, d = CallPacket(cred, i, c)
    PROVE  /\ PduLen(d) = d.pdu.size /\ d.pdu.size = 8 + BodyLen(c)
           /\ BodyLen(c) \in Nat /\ BodyLen(c) >= 4
           /\ d.len \in Nat /\ d.len >= R_TENANT_TLV_LEN + AuthTlvLen(d.auth.type)
           /\ d.len = DatagramSize(cred, c)
  <1>1. /\ BodyLen(c) \in Nat /\ BodyLen(c) >= 4
        /\ DatagramSize(cred, c) =
               R_TENANT_TLV_LEN + AuthTlvLen(cred) + R_PDU_HEADER_LEN + BodyLen(c)
    BY BuildsIffFits
  <1>2. /\ d.auth.type = cred
        /\ d.len = R_TENANT_TLV_LEN + AuthTlvLen(cred) + d.pdu.size
        /\ d.pdu.size = R_PDU_HEADER_LEN + BodyLen(c)
    BY CallFields, ZenonT(60)
  <1>3. AuthTlvLen(cred) \in {32, 36}
    BY DEF AuthTlvLen
  <1>4. PduLen(d) = d.len - 40 - AuthTlvLen(cred)
    BY <1>2 DEF PduLen, R_TENANT_TLV_LEN
  <1>5. /\ R_TENANT_TLV_LEN = 40 /\ R_PDU_HEADER_LEN = 8
        /\ d.auth.type = cred /\ AuthTlvLen(cred) \in Nat
    BY <1>2, <1>3 DEF R_TENANT_TLV_LEN, R_PDU_HEADER_LEN
  <1>6. d.pdu.size \in Nat /\ d.pdu.size = 8 + BodyLen(c)
    BY <1>1, <1>2, <1>5
  <1>7. /\ d.len = 40 + AuthTlvLen(cred) + d.pdu.size
        /\ DatagramSize(cred, c) = 40 + AuthTlvLen(cred) + 8 + BodyLen(c)
    BY <1>1, <1>2, <1>5
  <1> QED BY ONLY <1>1, <1>4, <1>5, <1>6, <1>7

LEMMA BlocksNat ==
    ASSUME NEW s, NEW t, Len(s) \in Nat, Len(t) \in Nat
    PROVE  /\ BlocksLen(s, t) \in Nat /\ BlocksLen(s, t) >= 4
           /\ BlocksLen(s, t) = 4 + 36 * Len(s) + 28 * Len(t)
  <1> DEFINE m == Len(s)
             n == Len(t)
  <1>1. BlocksLen(s, t) = 4 + m * 36 + n * 28
    BY DEF BlocksLen, R_GUARD_BLOCK_WIRE_LEN, R_RESOURCE_BLOCK_WIRE_LEN
  <1>2. m \in Nat /\ n \in Nat
    OBVIOUS
  <1> HIDE DEF m, n
  <1>3. BlocksLen(s, t) \in Nat /\ BlocksLen(s, t) >= 4
        /\ BlocksLen(s, t) = 4 + 36 * m + 28 * n
    BY <1>1, <1>2
  <1> QED BY <1>3 DEF m, n

\* A responder with the credential of the client reads what it sends, but
\* for a label that does not fit its buffer.
LEMMA Understood ==
    ASSUME SetupOK, NEW c \in Contents, NEW i, NEW d, d = CallPacket(setup.client, i, c)
    PROVE  Accepts(d) <=> /\ setup.client = setup.responder
                          /\ d.pdu.type = "rate_request" => d.pdu.label <= 256
  <1> USE DEF R_PDU_HEADER_LEN
  <1>1. setup.client \in Credentials /\ setup.responder \in Credentials
    BY DEF SetupOK
  <1>2. /\ d.tenant = [key |-> setup.client, id |-> i]
        /\ d.auth.type = setup.client /\ d.auth.intact
        /\ d.auth.tenant = d.tenant /\ d.auth.pduLen = d.pdu.size
        /\ IsRate(c) => d.pdu = RatePdu(c) /\ d.pdu.type = "rate_request"
        /\ ~IsRate(c) => d.pdu = ReportPdu(c) /\ d.pdu.type = "latency_report"
    BY <1>1, CallFields
  <1>3. /\ PduLen(d) = d.pdu.size /\ d.pdu.size = 8 + BodyLen(c)
        /\ BodyLen(c) \in Nat /\ BodyLen(c) >= 4
        /\ d.len >= R_TENANT_TLV_LEN + AuthTlvLen(d.auth.type)
    BY <1>1, CallPduLen
  <1>4. Authenticated(d) <=> setup.client = setup.responder
    <2>1. Verifies(d)
      BY <1>2, <1>3 DEF Verifies
    <2>2. PduLen(d) > 0
      BY <1>3
    <2>3. d.tenant.key = setup.client
      BY <1>2
    <2> QED BY <1>2, <1>3, <2>1, <2>2, <2>3 DEF Authenticated
  <1>5. RequestParses(d.pdu, PduLen(d)) <=>
            (d.pdu.type = "rate_request" => d.pdu.label <= 256)
    <2> DEFINE n == d.pdu.size - 8
    <2>1. n = BodyLen(c) /\ n >= 4 /\ d.pdu.size >= 8
      BY <1>3
    <2>2. /\ Len(c.guards) \in Nat /\ Len(c.resources) \in Nat /\ Len(c.reports) \in Nat
          /\ c.label \in Nat
      BY ContentFacts
    <2>3. CASE IsRate(c)
      <3> DEFINE blocks == BlocksLen(c.guards, c.resources)
                 t == LabelTlvLen(c.label)
      <3>1. /\ d.pdu.type = "rate_request" /\ d.pdu.guards = c.guards
            /\ d.pdu.resources = c.resources /\ d.pdu.tlv = t /\ d.pdu.label = c.label
        BY <1>2, <2>3 DEF RatePdu
      <3>2. n = blocks + t
        BY <2>1, <2>3 DEF BodyLen
      <3>3. blocks \in Nat
        BY <2>2, BlocksNat
      <3>4. t \in Nat /\ (c.label = 0 => t = 0) /\ (c.label # 0 => t \in c.label + 6 .. c.label + 9)
        BY <2>2, LabelSize
      <3>5. RequestParses(d.pdu, PduLen(d)) <=>
                blocks <= n /\ LabelParses(d.pdu, blocks, n)
        BY <1>3, <2>1, <3>1 DEF RequestParses
      <3>6. LabelParses(d.pdu, blocks, n) <=>
                \/ blocks = n
                \/ /\ n - blocks >= 6 /\ t >= 6 /\ blocks + t = n
                   /\ c.label <= t - 6 /\ c.label <= 256
        BY <3>1 DEF LabelParses, R_TEST_RESPONDER_LABEL_CAP
      <3> HIDE DEF blocks, t, n
      <3> QED BY <2>2, <3>1, <3>2, <3>3, <3>4, <3>5, <3>6
    <2>4. CASE ~IsRate(c)
      <3>1. d.pdu.type = "latency_report" /\ d.pdu.reports = c.reports
        BY <1>2, <2>4 DEF ReportPdu
      <3>2. n - 4 = Len(c.reports) * R_SERVICE_LATENCY_BLOCK_WIRE_LEN
        BY <2>1, <2>2, <2>4 DEF BodyLen, ReportBodyLen, R_SERVICE_LATENCY_BLOCK_WIRE_LEN
      <3> QED BY <1>3, <2>1, <3>1, <3>2 DEF RequestParses
    <2> QED BY <2>3, <2>4
  <1> QED BY <1>4, <1>5 DEF Accepts

-----------------------------------------------------------------------------
(* Answers *)

LEMMA Shortened ==
    ASSUME NEW s, IsSequence(s), Len(s) > 0
    PROVE  /\ IsSequence(Shorten(s, 1)) /\ Len(Shorten(s, 1)) = Len(s) - 1
           /\ \A i \in 1 .. Len(s) - 1 : Shorten(s, 1)[i] = s[i]
  <1>1. Len(s) \in Nat /\ s \in Seq({s[i] : i \in DOMAIN s})
    BY SequenceLen DEF IsSequence
  <1> DEFINE t == SubSeq(s, 1, Len(s) - 1)
             n == Len(s) - 1
  <1>2. n \in Nat /\ n <= Len(s)
    BY <1>1
  <1>3. t = [i \in 1 .. n |-> s[i]]
    BY <1>1, <1>2
  <1>4. t = [i \in 1 .. n |-> t[i]] /\ \A i \in 1 .. n : t[i] = s[i]
    BY <1>3
  <1> HIDE DEF t
  <1>5. IsSequence(t) /\ Len(t) = n
    BY <1>2, <1>4, FunctionSequence
  <1> QED BY <1>4, <1>5 DEF Shorten, t

\* The guard blocks of an answer.
LEMMA GuardAnswers ==
    ASSUME SetupOK, NEW c \in Contents, IsRate(c)
    PROVE  LET all == [i \in 1 .. Len(c.guards) |-> AnswerGuard(c.guards[i])]
               guards == AnswerGuards(RatePdu(c))
           IN  /\ IsSequence(guards)
               /\ setup.scenario = "count-empty" => guards = <<>> /\ Len(guards) = 0
               /\ setup.scenario = "count-short" =>
                      Len(guards) = IF c.resources = <<>> THEN Len(c.guards) - 1 ELSE Len(c.guards)
               /\ setup.scenario \notin {"count-empty", "count-short"} =>
                      guards = all /\ Len(guards) = Len(c.guards)
               /\ Len(guards) \in Nat /\ Len(guards) <= Len(c.guards)
  <1> DEFINE all == [i \in 1 .. Len(c.guards) |-> AnswerGuard(c.guards[i])]
             guards == AnswerGuards(RatePdu(c))
  <1>1. /\ Len(c.guards) \in Nat /\ DOMAIN c.guards = 1 .. Len(c.guards)
        /\ c.guards # <<>> \/ c.resources # <<>>
        /\ IsSequence(c.guards)
    BY ContentFacts
  <1>2. IsSequence(all) /\ Len(all) = Len(c.guards)
    <2>1. all = [i \in 1 .. Len(c.guards) |-> all[i]]
      OBVIOUS
    <2> HIDE DEF all
    <2> QED BY <1>1, <2>1, FunctionSequence
  <1>3. RatePdu(c).guards = c.guards /\ RatePdu(c).resources = c.resources
    BY DEF RatePdu
  <1>4. /\ setup.scenario = "count-empty" => guards = <<>>
        /\ setup.scenario = "count-short" =>
               guards = IF c.resources = <<>> THEN Shorten(all, 1) ELSE all
        /\ setup.scenario \notin {"count-empty", "count-short"} => guards = all
    BY <1>1, <1>3 DEF AnswerGuards
  <1> HIDE DEF all, guards
  <1>5. IsSequence(<<>>) /\ Len(<<>>) = 0
    BY DEF IsSequence
  <1>6. c.guards # <<>> => Len(c.guards) > 0
    <2>1. c.guards \in Seq({c.guards[i] : i \in DOMAIN c.guards})
      BY <1>1 DEF IsSequence
    <2> QED BY <1>1, <2>1, EmptySeq
  <1>7. CASE setup.scenario = "count-empty"
    BY <1>1, <1>4, <1>5, <1>7 DEF guards, all
  <1>8. CASE setup.scenario = "count-short"
    <2>1. CASE c.resources = <<>>
      <3>1. IsSequence(Shorten(all, 1)) /\ Len(Shorten(all, 1)) = Len(c.guards) - 1
        BY <1>1, <1>2, <1>6, <2>1, Shortened
      <3> QED BY <1>1, <1>4, <1>5, <1>6, <1>8, <2>1, <3>1 DEF guards
    <2>2. CASE c.resources # <<>>
      BY <1>1, <1>2, <1>4, <1>8, <2>2 DEF guards
    <2> QED BY <2>1, <2>2
  <1>9. CASE setup.scenario \notin {"count-empty", "count-short"}
    BY <1>1, <1>2, <1>4, <1>9 DEF guards, all
  <1> QED BY <1>7, <1>8, <1>9
\* The resource blocks of an answer.
LEMMA ResourceAnswers ==
    ASSUME SetupOK, NEW c \in Contents, IsRate(c),
           NEW resources, resources = AnswerResources(RatePdu(c))
    PROVE  /\ IsSequence(resources) /\ Len(resources) \in Nat
           /\ setup.scenario = "count-empty" => resources = <<>> /\ Len(resources) = 0
           /\ setup.scenario = "count-short" =>
                  Len(resources) = IF c.resources = <<>> THEN 0 ELSE Len(c.resources) - 1
           /\ setup.scenario = "count-extra" =>
                  /\ Len(resources) = Len(c.resources) + 1
                  /\ resources[Len(resources)].deficit = 1
           /\ setup.scenario \notin {"count-empty", "count-short", "count-extra"} =>
                  /\ Len(resources) = Len(c.resources)
                  /\ resources = [k \in 1 .. Len(c.resources) |-> AnswerResource(c.resources, k)]
           /\ setup.scenario # "count-extra" => Len(resources) <= Len(c.resources)
  <1> DEFINE all == [k \in 1 .. Len(c.resources) |-> AnswerResource(c.resources, k)]
  <1>1. /\ Len(c.resources) \in Nat /\ DOMAIN c.resources = 1 .. Len(c.resources)
        /\ IsSequence(c.resources)
    BY ContentFacts
  <1>2. IsSequence(all) /\ Len(all) = Len(c.resources)
    <2>1. all = [i \in 1 .. Len(c.resources) |-> all[i]]
      OBVIOUS
    <2> HIDE DEF all
    <2> QED BY <1>1, <2>1, FunctionSequence
  <1>3. RatePdu(c).resources = c.resources
    BY DEF RatePdu
  <1>4. /\ setup.scenario = "count-empty" => resources = <<>>
        /\ setup.scenario = "count-short" =>
               resources = IF c.resources = <<>> THEN all ELSE Shorten(all, 1)
        /\ setup.scenario = "count-extra" => resources = Append(all, MadeUpResource)
        /\ setup.scenario \notin {"count-empty", "count-short", "count-extra"} => resources = all
    BY <1>1, <1>3 DEF AnswerResources
  <1>5. IsSequence(<<>>) /\ Len(<<>>) = 0
    BY DEF IsSequence
  <1>6. c.resources # <<>> <=> Len(c.resources) > 0
    <2>1. c.resources \in Seq({c.resources[i] : i \in DOMAIN c.resources})
      BY <1>1 DEF IsSequence
    <2> QED BY <1>1, <2>1, EmptySeq
  <1> HIDE DEF all
  <1>7. CASE setup.scenario = "count-empty"
    BY <1>1, <1>4, <1>5, <1>7
  <1>8. CASE setup.scenario = "count-short"
    <2>1. CASE c.resources = <<>>
      BY <1>1, <1>2, <1>4, <1>6, <1>8, <2>1
    <2>2. CASE c.resources # <<>>
      <3>1. IsSequence(Shorten(all, 1)) /\ Len(Shorten(all, 1)) = Len(c.resources) - 1
        BY <1>2, <1>6, <2>2, Shortened
      <3> QED BY <1>1, <1>4, <1>5, <1>6, <1>8, <2>2, <3>1
    <2> QED BY <2>1, <2>2
  <1>9. CASE setup.scenario = "count-extra"
    <2>1. resources = Append(all, MadeUpResource)
      BY <1>4, <1>9
    <2>2. /\ IsSequence(resources) /\ Len(resources) = Len(c.resources) + 1
          /\ resources[Len(c.resources) + 1] = MadeUpResource
      BY <1>2, <2>1, AppendSequence
    <2>3. resources[Len(resources)].deficit = 1
      BY <2>2 DEF MadeUpResource
    <2> QED BY <1>1, <1>9, <2>2, <2>3
  <1>10. CASE setup.scenario \notin {"count-empty", "count-short", "count-extra"}
    BY <1>1, <1>2, <1>4, <1>10 DEF all
  <1> QED BY <1>7, <1>8, <1>9, <1>10

\* A resource block of an answer that was neither dropped nor made up.
LEMMA BlockAnswer ==
    ASSUME SetupOK, NEW c \in Contents, NEW k \in DOMAIN c.resources
    PROVE  LET r == AnswerResource(c.resources, k)
           IN  /\ r.bucket = c.resources[k].bucket /\ r.deficit \in Nat
               /\ setup.scenario = "deny" => r.deficit > 0
               /\ setup.scenario \notin {"deny", "quota"} => r.deficit = 0
               /\ setup.scenario = "quota" => (r.deficit = 0 <=> QuotaAllows(c.resources, k))
  <1> DEFINE r == AnswerResource(c.resources, k)
             n == Deficit(c.resources[k].tokens)
  <1>1. c.resources[k].tokens \in Nat
    BY ContentFacts
  <1>2. n \in Nat /\ n > 0
    BY <1>1 DEF Deficit
  <1> HIDE DEF n
  <1>3. /\ r.bucket = c.resources[k].bucket
        /\ r.deficit = IF \/ setup.scenario = "deny"
                          \/ setup.scenario = "quota" /\ ~QuotaAllows(c.resources, k)
                       THEN n ELSE 0
    BY DEF AnswerResource, QuotaCharges, n
  <1> HIDE DEF r
  <1>4. /\ r.bucket = c.resources[k].bucket /\ r.deficit \in Nat
        /\ setup.scenario = "deny" => r.deficit > 0
        /\ setup.scenario \notin {"deny", "quota"} => r.deficit = 0
        /\ setup.scenario = "quota" => (r.deficit = 0 <=> QuotaAllows(c.resources, k))
    BY <1>2, <1>3
  <1> QED BY <1>4 DEF r

-----------------------------------------------------------------------------
(* The quota table *)

\* The number of members of T up to k.
Upto(T, k) == Cardinality(T \cap (1 .. k))

LEMMA UptoStep ==
    ASSUME NEW T, NEW k \in Nat
    PROVE  /\ Upto(T, 0) = 0 /\ Upto(T, k) \in Nat
           /\ Upto(T, k + 1) = IF k + 1 \in T THEN Upto(T, k) + 1 ELSE Upto(T, k)
  <1>1. T \cap (1 .. 0) = {}
    OBVIOUS
  <1>2. Upto(T, 0) = 0
    BY <1>1, FS_EmptySet DEF Upto
  <1>3. IsFiniteSet(T \cap (1 .. k))
    <2>1. IsFiniteSet(1 .. k)
      BY FS_Interval
    <2> QED BY <2>1, FS_Subset
  <1>4. Upto(T, k) \in Nat
    BY <1>3, FS_CardinalityType DEF Upto
  <1>5. CASE k + 1 \in T
    <2>1. /\ T \cap (1 .. k + 1) = (T \cap (1 .. k)) \cup {k + 1}
          /\ k + 1 \notin T \cap (1 .. k)
      BY <1>5
    <2>2. Cardinality((T \cap (1 .. k)) \cup {k + 1}) = Cardinality(T \cap (1 .. k)) + 1
      BY <1>3, <2>1, FS_AddElement
    <2> QED BY <1>2, <1>4, <1>5, <2>1, <2>2 DEF Upto
  <1>6. CASE k + 1 \notin T
    <2>1. T \cap (1 .. k + 1) = T \cap (1 .. k)
      BY <1>6
    <2> QED BY <1>2, <1>4, <1>6, <2>1 DEF Upto
  <1> QED BY <1>5, <1>6

LEMMA UptoGrows ==
    ASSUME NEW T, NEW m \in Nat, NEW n \in Nat, m <= n
    PROVE  Upto(T, m) <= Upto(T, n) /\ Upto(T, m) \in Nat /\ Upto(T, n) \in Nat
  <1>1. IsFiniteSet(T \cap (1 .. n))
    <2>1. IsFiniteSet(1 .. n)
      BY FS_Interval
    <2> QED BY <2>1, FS_Subset
  <1>2. T \cap (1 .. m) \subseteq T \cap (1 .. n)
    OBVIOUS
  <1> QED BY <1>1, <1>2, FS_Subset, UptoStep DEF Upto

\* Of the listings T of a bucket with q requests on record, the first that
\* the allowance of A leaves are allowed, and the others are not.
LEMMA FirstAllowed ==
    ASSUME NEW T, NEW q \in Nat, NEW A \in Nat, NEW L \in Nat,
           NEW ok, ok = {j \in T \cap (1 .. L) : q + Upto(T, j - 1) < A}
    PROVE  \A k \in 0 .. L : Upto(ok, k) = IF q + Upto(T, k) <= A THEN Upto(T, k)
                                           ELSE IF q <= A THEN A - q ELSE 0
  <1> DEFINE Good(k) == Upto(ok, k) = IF q + Upto(T, k) <= A THEN Upto(T, k)
                                      ELSE IF q <= A THEN A - q ELSE 0
             Bad == {k \in 0 .. L : ~Good(k)}
  <1>1. SUFFICES ASSUME Bad # {} PROVE FALSE
    OBVIOUS
  <1>2. Bad \in SUBSET Nat
    OBVIOUS
  <1>3. PICK x \in Bad : \A y \in Bad : x <= y
    BY <1>1, <1>2, LeastNumber
  <1>4. x \in 0 .. L /\ ~Good(x)
    OBVIOUS
  <1>5. Good(0)
    BY UptoStep
  <1>6. x # 0
    BY <1>4, <1>5
  <1> DEFINE w == x - 1
  <1>7. w \in Nat /\ w \in 0 .. L /\ x = w + 1 /\ x \in 1 .. L
    BY <1>4, <1>6
  <1>8. Good(w)
    <2>1. w \notin Bad
      BY <1>3, <1>7
    <2> QED BY <1>7, <2>1
  <1> DEFINE f == Upto(T, w)
             g == Upto(ok, w)
  <1>9. /\ f \in Nat /\ g \in Nat
        /\ Upto(T, x) = IF x \in T THEN f + 1 ELSE f
        /\ Upto(ok, x) = IF x \in ok THEN g + 1 ELSE g
    BY <1>7, UptoStep
  <1>10. x \in ok <=> x \in T /\ q + f < A
    <2>1. x - 1 = w
      OBVIOUS
    <2> QED BY <1>7, <2>1
  <1>11. g = IF q + f <= A THEN f ELSE IF q <= A THEN A - q ELSE 0
    BY <1>8
  <1>12. ~(Upto(ok, x) = IF q + Upto(T, x) <= A THEN Upto(T, x)
                         ELSE IF q <= A THEN A - q ELSE 0)
    BY <1>4
  <1> HIDE DEF f, g, w
  <1>13. CASE x \in T
    BY <1>9, <1>10, <1>11, <1>12, <1>13
  <1>14. CASE x \notin T
    BY <1>9, <1>10, <1>11, <1>12, <1>14
  <1> QED BY <1>13, <1>14
\* What the table knows when the first k blocks of a request are charged.
Known(resources, k) == Entries \cup {resources[j].bucket : j \in 1 .. k}

QuotaType == quota \in [Buckets -> Nat]

\* The blocks that are charged are the ones before the first that finds the
\* table full.
LEMMA ChargedBlocks ==
    ASSUME NEW resources, IsSequence(resources)
    PROVE  /\ Charged(resources) \in 0 .. Len(resources)
           /\ \A k \in 1 .. Charged(resources) : ~TableFull(resources, k)
           /\ Charged(resources) # Len(resources) =>
                  \E k \in 1 .. Len(resources) : TableFull(resources, k)
  <1> DEFINE full == {k \in DOMAIN resources : TableFull(resources, k)}
  <1>1. Len(resources) \in Nat /\ DOMAIN resources = 1 .. Len(resources)
    BY SequenceLen
  <1>2. Charged(resources) = IF full = {} THEN Len(resources) ELSE Min(full) - 1
    BY DEF Charged
  <1>3. CASE full = {}
    BY <1>1, <1>2, <1>3
  <1>4. CASE full # {}
    <2>1. full \in SUBSET Nat
      BY <1>1
    <2>2. Min(full) \in full /\ \A m \in full : Min(full) <= m
      BY <1>4, <2>1, LeastNumber
    <2> DEFINE least == Min(full)
    <2>3. least \in 1 .. Len(resources) /\ TableFull(resources, least)
      BY <1>1, <2>2
    <2>4. Charged(resources) = least - 1
      BY <1>2, <1>4
    <2> HIDE DEF least
    <2>5. \A k \in 1 .. least - 1 : ~TableFull(resources, k)
      <3> SUFFICES ASSUME NEW k \in 1 .. least - 1, TableFull(resources, k) PROVE FALSE
        OBVIOUS
      <3>1. k \in full
        BY <1>1, <2>3
      <3>2. least <= k
        BY <2>2, <3>1 DEF least
      <3> QED BY <2>3, <3>2
    <2> QED BY <1>1, <2>3, <2>4, <2>5
  <1> QED BY <1>3, <1>4

LEMMA KnownFacts ==
    ASSUME QuotaType, NEW c \in Contents, NEW k \in 0 .. Len(c.resources)
    PROVE  /\ Known(c.resources, k) \subseteq Buckets
           /\ IsFiniteSet(Known(c.resources, k))
           /\ Cardinality(Known(c.resources, k)) \in Nat
  <1>1. /\ Len(c.resources) \in Nat
        /\ \A i \in 1 .. Len(c.resources) : c.resources[i].bucket \in Buckets
    BY ContentFacts
  <1>2. Known(c.resources, k) \subseteq Buckets
    BY <1>1 DEF Known, Entries
  <1>3. IsFiniteSet(Known(c.resources, k))
    BY <1>2, FS_Subset, WireAssumption
  <1> QED BY <1>2, <1>3, FS_CardinalityType

\* One more block is charged.
LEMMA KnownStep ==
    ASSUME QuotaType, NEW c \in Contents, NEW k \in 1 .. Len(c.resources)
    PROVE  LET b == c.resources[k].bucket
               known == Known(c.resources, k - 1)
           IN  /\ Known(c.resources, k) = known \cup {b}
               /\ TableFull(c.resources, k) <=> b \notin known /\ Cardinality(known) >= QuotaCap
               /\ Cardinality(Known(c.resources, k)) =
                      IF b \in known THEN Cardinality(known) ELSE Cardinality(known) + 1
               /\ Cardinality(known) \in Nat
  <1> DEFINE b == c.resources[k].bucket
             known == Known(c.resources, k - 1)
  <1>1. Len(c.resources) \in Nat
    BY ContentFacts
  <1>2. k - 1 \in 0 .. Len(c.resources)
    BY <1>1
  <1>3. IsFiniteSet(known) /\ Cardinality(known) \in Nat
    BY <1>2, KnownFacts
  <1>4. {c.resources[j].bucket : j \in 1 .. k} = {c.resources[j].bucket : j \in 1 .. k - 1} \cup {b}
    <2>1. \A j : j \in 1 .. k <=> j \in 1 .. k - 1 \/ j = k
      BY <1>1
    <2> QED BY <2>1
  <1>5. Known(c.resources, k) = known \cup {b}
    BY <1>4 DEF Known
  <1>6. TableFull(c.resources, k) <=> b \notin known /\ Cardinality(known) >= QuotaCap
    BY DEF TableFull, Known
  <1> HIDE DEF known, b
  <1>7. CASE b \in known
    <2>1. known \cup {b} = known
      BY <1>7
    <2> QED BY <1>3, <1>5, <1>6, <1>7, <2>1 DEF known, b
  <1>8. CASE b \notin known
    <2>1. Cardinality(known \cup {b}) = Cardinality(known) + 1
      BY <1>3, <1>8, FS_AddElement
    <2> QED BY <1>3, <1>5, <1>6, <1>8, <2>1 DEF known, b
  <1> QED BY <1>7, <1>8

\* A request that is not charged to its end brings more buckets than the
\* table holds.
LEMMA OverflowNeedsBuckets ==
    ASSUME QuotaType, NEW c \in Contents, Charged(c.resources) # Len(c.resources)
    PROVE  Cardinality(Entries \cup {c.resources[k].bucket : k \in DOMAIN c.resources}) > QuotaCap
  <1> DEFINE n == Len(c.resources)
  <1>1. IsSequence(c.resources) /\ n \in Nat /\ DOMAIN c.resources = 1 .. n
    BY ContentFacts
  <1>2. PICK k \in 1 .. n : TableFull(c.resources, k)
    BY <1>1, ChargedBlocks
  <1>3. /\ Cardinality(Known(c.resources, k)) = Cardinality(Known(c.resources, k - 1)) + 1
        /\ Cardinality(Known(c.resources, k - 1)) >= QuotaCap
        /\ Cardinality(Known(c.resources, k - 1)) \in Nat
    BY <1>2, KnownStep
  <1>4. Known(c.resources, k) \subseteq Known(c.resources, n)
    BY <1>1 DEF Known
  <1>5. IsFiniteSet(Known(c.resources, n)) /\ Cardinality(Known(c.resources, n)) \in Nat
    <2>1. n \in 0 .. n
      BY <1>1
    <2> QED BY <2>1, KnownFacts
  <1>6. Cardinality(Known(c.resources, k)) <= Cardinality(Known(c.resources, n))
    BY <1>4, <1>5, FS_Subset
  <1>7. Known(c.resources, n) = Entries \cup {c.resources[j].bucket : j \in DOMAIN c.resources}
    BY <1>1 DEF Known
  <1>8. QuotaCap \in Nat
    BY WireAssumption
  <1> QED BY <1>3, <1>5, <1>6, <1>7, <1>8

\* The blocks that are charged leave the table within its capacity.
LEMMA KnownFits ==
    ASSUME QuotaType, Cardinality(Entries) <= QuotaCap, NEW c \in Contents
    PROVE  Cardinality(Known(c.resources, Charged(c.resources))) <= QuotaCap
  <1> DEFINE n == Charged(c.resources)
             Bad == {k \in 0 .. n : ~(Cardinality(Known(c.resources, k)) <= QuotaCap)}
  <1>1. IsSequence(c.resources) /\ Len(c.resources) \in Nat
    BY ContentFacts
  <1>2. n \in 0 .. Len(c.resources) /\ \A k \in 1 .. n : ~TableFull(c.resources, k)
    BY <1>1, ChargedBlocks
  <1> HIDE DEF n
  <1>3. QuotaCap \in Nat
    BY WireAssumption
  <1>4. ASSUME Bad # {} PROVE FALSE
    <2>1. Bad \in SUBSET Nat
      BY <1>1, <1>2
    <2>2. PICK x \in Bad : \A y \in Bad : x <= y
      BY <1>4, <2>1, LeastNumber
    <2>3. x # 0
      <3>1. Known(c.resources, 0) = Entries
        BY DEF Known
      <3> QED BY <2>2, <3>1
    <2>4. x \in 1 .. n /\ x - 1 \in 0 .. n /\ x \in 1 .. Len(c.resources)
      BY <1>1, <1>2, <2>3
    <2>5. Cardinality(Known(c.resources, x - 1)) <= QuotaCap
      <3>1. x - 1 \notin Bad
        BY <2>2, <2>4
      <3> QED BY <2>4, <3>1
    <2>6. ~TableFull(c.resources, x)
      BY <1>2, <2>4
    <2>7. Cardinality(Known(c.resources, x)) <= QuotaCap
      BY <1>3, <2>4, <2>5, <2>6, KnownStep
    <2> QED BY <2>7
  <1>5. n \in 0 .. n
    BY <1>1, <1>2
  <1> QED BY <1>4, <1>5 DEF n
\* The listings of b among the blocks of a request.
Listings(resources, b) == {j \in 1 .. Len(resources) : resources[j].bucket = b}

LEMMA ListingsCounted ==
    ASSUME NEW c \in Contents, NEW b, NEW k \in 1 .. Len(c.resources) + 1
    PROVE  Cardinality(Listed(c.resources, k, b)) = Upto(Listings(c.resources, b), k - 1)
  <1>1. Len(c.resources) \in Nat
    BY ContentFacts
  <1>2. Listed(c.resources, k, b) = Listings(c.resources, b) \cap (1 .. k - 1)
    BY <1>1 DEF Listed, Listings
  <1> QED BY <1>2 DEF Upto

LEMMA CountsAreNumbers ==
    ASSUME NEW s, IsSequence(s), NEW b
    PROVE  Count(s, b) \in Nat /\ Allowed(s, b) \in Nat /\ Denied(s, b) \in Nat
  <1>1. Len(s) \in Nat /\ DOMAIN s = 1 .. Len(s)
    BY SequenceLen
  <1>2. IsFiniteSet(DOMAIN s)
    BY <1>1, FS_Interval
  <1>3. ASSUME NEW S \in SUBSET DOMAIN s PROVE Cardinality(S) \in Nat
    BY <1>2, FS_Subset, FS_CardinalityType
  <1> DEFINE A == {k \in DOMAIN s : s[k].bucket = b}
             B == {k \in DOMAIN s : s[k].bucket = b /\ s[k].deficit = 0}
             C == {k \in DOMAIN s : s[k].bucket = b /\ s[k].deficit # 0}
  <1>4. A \in SUBSET DOMAIN s /\ B \in SUBSET DOMAIN s /\ C \in SUBSET DOMAIN s
    OBVIOUS
  <1>5. Count(s, b) = Cardinality(A) /\ Allowed(s, b) = Cardinality(B)
        /\ Denied(s, b) = Cardinality(C)
    BY DEF Count, Allowed, Denied
  <1> HIDE DEF A, B, C
  <1> QED BY <1>3, <1>4, <1>5

LEMMA NothingAnswered ==
    ASSUME NEW b
    PROVE  Allowed(<<>>, b) = 0 /\ Denied(<<>>, b) = 0
  <1>1. DOMAIN <<>> = {}
    OBVIOUS
  <1>2. /\ {k \in DOMAIN <<>> : <<>>[k].bucket = b /\ <<>>[k].deficit = 0} = {}
        /\ {k \in DOMAIN <<>> : <<>>[k].bucket = b /\ <<>>[k].deficit # 0} = {}
    BY <1>1
  <1> QED BY <1>2, FS_EmptySet DEF Allowed, Denied

\* What a request adds to the table and to the ledger of a bucket.
LEMMA BucketCounts ==
    ASSUME SetupOK, QuotaType, NEW c \in Contents, IsRate(c), NEW b \in Buckets
    PROVE  LET T == Listings(c.resources, b)
               L == Len(c.resources)
               ok == {j \in T \cap (1 .. L) : quota[b] + Upto(T, j - 1) < AllowCount}
               answer == AnswerResources(RatePdu(c))
           IN  /\ Count(c.resources, b) = Upto(T, L)
               /\ ChargedQuota(c.resources)[b] = quota[b] + Upto(T, Charged(c.resources))
               /\ setup.scenario = "quota" =>
                      /\ Allowed(answer, b) = Upto(ok, L)
                      /\ Denied(answer, b) > 0 => quota[b] + Upto(T, L) > AllowCount
  <1> DEFINE T == Listings(c.resources, b)
             L == Len(c.resources)
             ok == {j \in T \cap (1 .. L) : quota[b] + Upto(T, j - 1) < AllowCount}
             answer == AnswerResources(RatePdu(c))
  <1>1. IsSequence(c.resources) /\ L \in Nat /\ DOMAIN c.resources = 1 .. L
    BY ContentFacts
  <1>2. Count(c.resources, b) = Upto(T, L)
    <2>1. {k \in DOMAIN c.resources : c.resources[k].bucket = b} = T \cap (1 .. L)
      BY <1>1 DEF Listings
    <2> QED BY <2>1 DEF Count, Upto
  <1>3. ChargedQuota(c.resources)[b] = quota[b] + Upto(T, Charged(c.resources))
    <2> DEFINE n == Charged(c.resources)
    <2>1. n \in 0 .. L
      BY <1>1, ChargedBlocks
    <2>2. n + 1 \in 1 .. L + 1 /\ (n + 1) - 1 = n
      BY <1>1, <2>1
    <2>3. Cardinality(Listed(c.resources, n + 1, b)) = Upto(T, (n + 1) - 1)
      BY <2>2, ListingsCounted
    <2> QED BY <2>2, <2>3 DEF ChargedQuota
  <1>4. ASSUME setup.scenario = "quota"
        PROVE  /\ Allowed(answer, b) = Upto(ok, L)
               /\ Denied(answer, b) > 0 => quota[b] + Upto(T, L) > AllowCount
    <2>1. /\ answer = [k \in 1 .. L |-> AnswerResource(c.resources, k)]
          /\ IsSequence(answer) /\ Len(answer) = L /\ DOMAIN answer = 1 .. L
      BY <1>1, <1>4, ResourceAnswers
    <2>2. ASSUME NEW k \in 1 .. L
          PROVE  /\ answer[k].bucket = c.resources[k].bucket
                 /\ answer[k].deficit = 0 <=> QuotaAllows(c.resources, k)
      BY <1>1, <1>4, <2>1, <2>2, BlockAnswer
    <2>3. ASSUME NEW k \in 1 .. L, c.resources[k].bucket = b
          PROVE  QuotaAllows(c.resources, k) <=> quota[b] + Upto(T, k - 1) < AllowCount
      <3>1. k \in 1 .. L + 1
        BY <1>1
      <3> QED BY <2>3, <3>1, ListingsCounted DEF QuotaAllows
    <2> HIDE DEF answer
    <2>4. {k \in DOMAIN answer : answer[k].bucket = b /\ answer[k].deficit = 0}
              = ok \cap (1 .. L)
      <3>1. ASSUME NEW k \in 1 .. L
            PROVE  answer[k].bucket = b /\ answer[k].deficit = 0 <=> k \in ok
        <4>1. k \in T <=> answer[k].bucket = b
          BY <2>2 DEF Listings
        <4> QED BY <2>2, <2>3, <4>1
      <3> QED BY <2>1, <3>1
    <2>5. Allowed(answer, b) = Upto(ok, L)
      BY <2>4 DEF Allowed, Upto
    <2> DEFINE no == {k \in DOMAIN answer : answer[k].bucket = b /\ answer[k].deficit # 0}
    <2>6. ASSUME Denied(answer, b) > 0 PROVE quota[b] + Upto(T, L) > AllowCount
      <3>1. no # {}
        <4>1. Cardinality(no) > 0
          BY <2>6 DEF Denied
        <4> QED BY <4>1, FS_EmptySet
      <3>2. PICK k \in no : TRUE
        BY <3>1
      <3>3. k \in 1 .. L /\ answer[k].bucket = b /\ ~(answer[k].deficit = 0)
        BY <2>1, <3>2
      <3>4. k \in T /\ ~(quota[b] + Upto(T, k - 1) < AllowCount)
        BY <2>2, <2>3, <3>3 DEF Listings
      <3>5. k - 1 \in Nat /\ (k - 1) + 1 = k /\ k \in Nat /\ k <= L
        BY <1>1, <3>3
      <3>6. Upto(T, k) = Upto(T, k - 1) + 1 /\ Upto(T, k - 1) \in Nat
        BY <3>4, <3>5, UptoStep
      <3>7. Upto(T, k) <= Upto(T, L) /\ Upto(T, L) \in Nat
        BY <1>1, <3>5, UptoGrows
      <3>8. quota[b] \in Nat /\ AllowCount \in Nat
        BY WireAssumption DEF QuotaType
      <3> QED BY <3>4, <3>6, <3>7, <3>8
    <2> QED BY <2>5, <2>6
  <1> QED BY <1>2, <1>3, <1>4
-----------------------------------------------------------------------------
(* The packet of an answer *)

\* The size an answer to a rate request has, and when it is sent.
LEMMA AnswerFits ==
    ASSUME SetupOK, QuotaType, NEW c \in Contents, IsRate(c), NEW i,
           Builds(setup.client, c), setup.client = setup.responder,
           NEW d, d = CallPacket(setup.client, i, c)
    PROVE  /\ \/ AnswerBuilds(d.pdu)
              \/ setup.scenario = "count-extra" /\ d.len - d.pdu.tlv + 28 > 1200
              \/ setup.scenario = "quota" /\ Charged(c.resources) # Len(c.resources)
           /\ setup.scenario = "quota" =>
                  (AnswerBuilds(d.pdu) <=> Charged(c.resources) = Len(c.resources))
           /\ d.pdu.resources = c.resources
  <1> DEFINE guards == AnswerGuards(RatePdu(c))
             resources == AnswerResources(RatePdu(c))
             lg == Len(guards)
             lr == Len(resources)
             g == Len(c.guards)
             r == Len(c.resources)
             t == LabelTlvLen(c.label)
             a == AuthTlvLen(setup.client)
  <1>1. setup.client \in Credentials
    BY DEF SetupOK
  <1>2. d.pdu = RatePdu(c) /\ d.len = DatagramSize(setup.client, c)
    <2>1. d.tenant = [key |-> setup.client, id |-> i] /\ (IsRate(c) => d.pdu = RatePdu(c))
      BY <1>1, CallFields
    <2>2. d.len = DatagramSize(setup.client, c)
      BY <1>1, CallPduLen
    <2> QED BY <2>1, <2>2
  <1>3. d.pdu.tlv = t /\ d.pdu.resources = c.resources
    BY <1>2 DEF RatePdu
  <1>4. /\ d.len <= 1200 /\ d.len = 40 + a + 8 + BodyLen(c)
    BY <1>1, <1>2, BuildsIffFits DEF R_TENANT_TLV_LEN, R_PDU_HEADER_LEN
  <1>5. g \in Nat /\ r \in Nat /\ c.label \in Nat
    BY ContentFacts
  <1>6. t \in Nat
    BY <1>5, LabelSize
  <1>7. BodyLen(c) = 4 + 36 * g + 28 * r + t
    <2>1. BodyLen(c) = BlocksLen(c.guards, c.resources) + t
      BY DEF BodyLen
    <2>2. BlocksLen(c.guards, c.resources) = 4 + 36 * g + 28 * r
      BY <1>5, BlocksNat
    <2> QED BY <2>1, <2>2
  <1>8. lg \in Nat /\ lg <= g
    BY GuardAnswers
  <1>9. /\ lr \in Nat /\ (setup.scenario # "count-extra" => lr <= r)
        /\ setup.scenario = "count-extra" => lr = r + 1
    BY ResourceAnswers
  <1>10. a \in {32, 36}
    BY DEF AuthTlvLen
  <1> DEFINE size == AnswerPdu(d.pdu).size
  <1>11. size = 8 + (4 + 36 * lg + 28 * lr)
    <2>1. size = R_PDU_HEADER_LEN + BlocksLen(guards, resources)
      BY <1>2 DEF AnswerPdu
    <2>2. BlocksLen(guards, resources) = 4 + 36 * lg + 28 * lr
      BY <1>8, <1>9, BlocksNat
    <2> QED BY <2>1, <2>2 DEF R_PDU_HEADER_LEN
  <1>12. AnswerBuilds(d.pdu) <=>
             /\ setup.scenario = "quota" => Charged(c.resources) = Len(c.resources)
             /\ 8 + (size - 8) <= 65535 /\ 8 + (size - 8) <= 1200 /\ 40 + a + size <= 1200
    BY <1>3 DEF AnswerBuilds, QuotaCharges, PduOk, PacketOk, R_TENANT_TLV_LEN,
                R_PDU_HEADER_LEN, R_MAX_PACKET_SIZE, UINT16_MAX
  <1> HIDE DEF size, lg, lr, g, r, t, a
  <1>13. ASSUME setup.scenario # "count-extra"
         PROVE  8 + (size - 8) <= 65535 /\ 8 + (size - 8) <= 1200 /\ 40 + a + size <= 1200
    BY <1>4, <1>5, <1>6, <1>7, <1>8, <1>9, <1>10, <1>11, <1>13
  <1>14. ASSUME setup.scenario = "count-extra", ~(d.len - t + 28 > 1200)
         PROVE  8 + (size - 8) <= 65535 /\ 8 + (size - 8) <= 1200 /\ 40 + a + size <= 1200
    BY <1>4, <1>5, <1>6, <1>7, <1>8, <1>9, <1>10, <1>11, <1>14
  <1> QED BY <1>3, <1>12, <1>13, <1>14

\* The packet of an answer before a malformed scenario spoils it.
LEMMA PlainFields ==
    ASSUME SetupOK, NEW d, NEW p,
           p = Packet("client", setup.responder, AnswerTenant(d), AnswerPdu(d.pdu))
    PROVE  /\ p.to = "client" /\ p.tenant = AnswerTenant(d) /\ p.pdu = AnswerPdu(d.pdu)
           /\ p.auth = Protect(setup.responder, AnswerTenant(d), p.pdu.size)
           /\ p.len = R_TENANT_TLV_LEN + AuthTlvLen(setup.responder) + p.pdu.size
           /\ DOMAIN p = {"to", "len", "tenant", "auth", "pdu"}
  <1> DEFINE pdu == AnswerPdu(d.pdu)
             tenant == AnswerTenant(d)
             auth == Protect(setup.responder, tenant, pdu.size)
  <1> HIDE DEF pdu, tenant, auth
  <1>1. p = [to |-> "client", len |-> R_TENANT_TLV_LEN + AuthTlvLen(setup.responder) + pdu.size,
             tenant |-> tenant, auth |-> auth, pdu |-> pdu]
    BY DEF Packet, pdu, tenant, auth
  <1>2. /\ p.to = "client" /\ p.tenant = tenant /\ p.pdu = pdu /\ p.auth = auth
        /\ p.len = R_TENANT_TLV_LEN + AuthTlvLen(setup.responder) + pdu.size
        /\ DOMAIN p = {"to", "len", "tenant", "auth", "pdu"}
    BY <1>1
  <1> QED BY <1>2 DEF pdu, tenant, auth

\* The packet that is sent.
LEMMA AnswerFields ==
    ASSUME SetupOK, NEW d, AnswerPdu(d.pdu).size \in Nat, NEW a, a = AnswerPacket(d)
    PROVE  /\ a.to = "client" /\ a.tenant = AnswerTenant(d) /\ a.pdu = AnswerPdu(d.pdu)
           /\ a.auth.type = setup.responder
           /\ a.auth.intact <=> setup.scenario # "malformed-auth"
           /\ a.auth.tenant = a.tenant /\ a.auth.pduLen = a.pdu.size
           /\ a.len = R_TENANT_TLV_LEN + AuthTlvLen(setup.responder) + a.pdu.size
                        - (IF setup.scenario = "malformed-truncated" THEN 1 ELSE 0)
  <1> DEFINE p == Packet("client", setup.responder, AnswerTenant(d), AnswerPdu(d.pdu))
             tenant == AnswerTenant(d)
             size == p.pdu.size
  <1>1. /\ p.to = "client" /\ p.tenant = tenant /\ p.pdu = AnswerPdu(d.pdu)
        /\ p.auth = Protect(setup.responder, tenant, size)
        /\ p.len = R_TENANT_TLV_LEN + AuthTlvLen(setup.responder) + size
        /\ DOMAIN p = {"to", "len", "tenant", "auth", "pdu"}
    BY PlainFields
  <1>2. a = IF setup.scenario = "malformed-auth" THEN [p EXCEPT !.auth.intact = FALSE]
            ELSE IF setup.scenario = "malformed-truncated" THEN [p EXCEPT !.len = @ - 1]
            ELSE p
    BY DEF AnswerPacket
  <1> HIDE DEF p, tenant, size
  <1>3. p.auth = [type |-> setup.responder, intact |-> TRUE, tenant |-> tenant, pduLen |-> size]
    BY <1>1 DEF Protect
  <1>4. /\ p.auth.type = setup.responder /\ p.auth.intact /\ p.auth.tenant = tenant
        /\ p.auth.pduLen = size
    BY <1>3
  <1>5. p.len \in Int
    <2>1. AuthTlvLen(setup.responder) \in Nat /\ R_TENANT_TLV_LEN \in Nat
      BY DEF AuthTlvLen, R_TENANT_TLV_LEN
    <2>2. size \in Nat
      BY <1>1 DEF size
    <2> QED BY <1>1, <2>1, <2>2
  <1>6. size = p.pdu.size
    BY DEF size
  <1>7. CASE setup.scenario = "malformed-auth"
    <2>1. a = [p EXCEPT !.auth = [p.auth EXCEPT !.intact = FALSE]]
      BY <1>2, <1>7
    <2>2. a.to = p.to /\ a.tenant = p.tenant /\ a.pdu = p.pdu /\ a.len = p.len
          /\ a.auth = [p.auth EXCEPT !.intact = FALSE]
      BY <1>1, <2>1
    <2>3. /\ a.auth.type = p.auth.type /\ ~a.auth.intact /\ a.auth.tenant = p.auth.tenant
          /\ a.auth.pduLen = p.auth.pduLen
      BY <1>3, <2>2
    <2> QED BY <1>1, <1>4, <1>5, <1>6, <1>7, <2>2, <2>3 DEF tenant
  <1>8. CASE setup.scenario = "malformed-truncated"
    <2>1. a = [p EXCEPT !.len = p.len - 1]
      BY <1>2, <1>8
    <2>2. a.to = p.to /\ a.tenant = p.tenant /\ a.pdu = p.pdu /\ a.len = p.len - 1
          /\ a.auth = p.auth
      BY <1>1, <2>1
    <2>3. AuthTlvLen(setup.responder) \in Nat /\ R_TENANT_TLV_LEN \in Nat /\ a.pdu.size \in Nat
      BY <1>1, <2>2 DEF AuthTlvLen, R_TENANT_TLV_LEN
    <2>4. a.len = R_TENANT_TLV_LEN + AuthTlvLen(setup.responder) + a.pdu.size - 1
      BY <1>1, <1>6, <2>2, <2>3
    <2> QED BY <1>1, <1>4, <1>6, <1>8, <2>2, <2>4 DEF tenant
  <1>9. CASE setup.scenario \notin {"malformed-auth", "malformed-truncated"}
    <2>1. a = p
      BY <1>2, <1>9
    <2> QED BY <1>1, <1>4, <1>5, <1>6, <1>9, <2>1 DEF tenant
  <1> QED BY <1>7, <1>8, <1>9
-----------------------------------------------------------------------------
(* What the client makes of an answer *)

CallsType ==
    /\ IsSequence(calls)
    /\ \A i \in DOMAIN calls : calls[i].content \in Contents /\ calls[i].status \in Status

LEMMA IngressOf ==
    ASSUME SetupOK, CallsType, setup.client = setup.responder,
           NEW d, NEW i \in DOMAIN calls, IsAnswer(d, i)
    PROVE  /\ setup.scenario = "malformed-request-id" => ~Awaited(d) /\ IngressCode(d) = "ok"
           /\ setup.scenario = "malformed-auth" /\ Awaited(d) =>
                  IngressCode(d) = IF setup.client = "cookie" THEN "auth" ELSE "protocol"
           /\ setup.scenario = "malformed-truncated" /\ Awaited(d) =>
                  IngressCode(d) = "protocol"
           /\ setup.scenario \notin {"malformed-auth", "malformed-truncated"} =>
                  IngressCode(d) = "ok"
           /\ setup.scenario # "malformed-request-id" => d.tenant.id = i
  <1> DEFINE c == calls[i].content
             size == d.pdu.size
             auth == AuthTlvLen(setup.client)
             blocks == BlocksLen(d.pdu.guards, d.pdu.resources)
  <1>1. setup.client \in {"aes", "cookie"}
    BY DEF SetupOK, Credentials
  <1>2. /\ IsRate(c) /\ d.auth.type = setup.client
        /\ d.auth.intact <=> setup.scenario # "malformed-auth"
        /\ d.auth.tenant = d.tenant /\ d.auth.pduLen = size
        /\ d.len = R_TENANT_TLV_LEN + auth + size
                     - (IF setup.scenario = "malformed-truncated" THEN 1 ELSE 0)
        /\ d.pdu.type = "rate_response" /\ size = R_PDU_HEADER_LEN + blocks
        /\ d.pdu.guards = AnswerGuards(RatePdu(c))
        /\ d.tenant.id = IF setup.scenario = "malformed-request-id" THEN -i ELSE i
        /\ IsSequence(d.pdu.resources)
    BY DEF IsAnswer, AnswerShape, AnswersResources
  <1>3. blocks \in Nat /\ blocks >= 4
    <2>1. c \in Contents
      BY DEF CallsType
    <2>2. Len(d.pdu.guards) \in Nat
      BY <1>2, <2>1, GuardAnswers
    <2>3. Len(d.pdu.resources) \in Nat
      BY <1>2, SequenceLen
    <2> QED BY <2>2, <2>3, BlocksNat
  <1>4. auth \in {32, 36}
    BY DEF AuthTlvLen
  <1>5. PduLen(d) = d.len - 40 - auth
    BY <1>2 DEF PduLen, R_TENANT_TLV_LEN
  <1>6. PduLen(d) = size - (IF setup.scenario = "malformed-truncated" THEN 1 ELSE 0)
        /\ size = 8 + blocks
    <2> HIDE DEF size, auth, blocks
    <2> QED BY <1>2, <1>3, <1>4, <1>5 DEF R_TENANT_TLV_LEN, R_PDU_HEADER_LEN
  <1>7. ResponseParses(d.pdu, PduLen(d)) <=> setup.scenario # "malformed-truncated"
    <2>1. ResponseParses(d.pdu, PduLen(d)) <=>
              /\ PduLen(d) >= 8 /\ size >= 8 /\ PduLen(d) >= size
              /\ size - 8 >= 4 /\ blocks <= size - 8
      BY <1>2 DEF ResponseParses, R_PDU_HEADER_LEN
    <2> HIDE DEF size, auth, blocks
    <2> QED BY <1>3, <1>6, <2>1
  <1>8. PduLen(d) > 0 /\ (PduLen(d) = size <=> setup.scenario # "malformed-truncated")
    <2> HIDE DEF size, auth, blocks
    <2> QED BY <1>3, <1>6
  <1>9. Verifies(d) <=> /\ setup.scenario # "malformed-auth"
                        /\ setup.client = "aes" => setup.scenario # "malformed-truncated"
    BY <1>2, <1>8 DEF Verifies
  <1>10. setup.scenario = "malformed-request-id" => ~Awaited(d)
    <2>1. DOMAIN calls = 1 .. Len(calls) /\ Len(calls) \in Nat
      BY SequenceLen DEF CallsType
    <2> QED BY <1>2, <2>1 DEF Awaited
  <1> QED BY <1>1, <1>2, <1>7, <1>8, <1>9, <1>10 DEF IngressCode

\* The client applies an answer only in the scenarios that spoil none.
LEMMA AppliedOf ==
    ASSUME SetupOK, CallsType, setup.client = setup.responder,
           NEW d, NEW i \in DOMAIN calls, IsAnswer(d, i), Applies(d)
    PROVE  /\ setup.scenario \notin {"malformed-auth", "malformed-truncated",
                                     "malformed-request-id"}
           /\ d.tenant.id = i /\ calls[i].status = "pending"
  BY IngressOf DEF Applies, Awaited

\* The answer that is built answers the call.
LEMMA AnswerHasShape ==
    ASSUME SetupOK, CallsType, NEW i \in DOMAIN calls,
           NEW d, d = CallPacket(setup.client, i, calls[i].content),
           IsRate(calls[i].content), NEW a, a = AnswerPacket(d)
    PROVE  /\ a.to = "client" /\ AnswerShape(a, i)
           /\ a.pdu.resources = AnswerResources(RatePdu(calls[i].content))
  <1> DEFINE c == calls[i].content
  <1>1. c \in Contents /\ setup.client \in Credentials
    BY DEF CallsType, SetupOK
  <1>2. d.tenant = [key |-> setup.client, id |-> i] /\ (IsRate(c) => d.pdu = RatePdu(c))
    BY <1>1, CallFields
  <1>3. d.pdu = RatePdu(c) /\ d.tenant.id = i
    BY <1>2
  <1>4. /\ AnswerPdu(d.pdu).type = "rate_response"
        /\ AnswerPdu(d.pdu).guards = AnswerGuards(RatePdu(c))
        /\ AnswerPdu(d.pdu).resources = AnswerResources(RatePdu(c))
        /\ AnswerPdu(d.pdu).size = R_PDU_HEADER_LEN
              + BlocksLen(AnswerGuards(RatePdu(c)), AnswerResources(RatePdu(c)))
    BY <1>3 DEF AnswerPdu
  <1>5. AnswerPdu(d.pdu).size \in Nat
    <2>1. Len(AnswerGuards(RatePdu(c))) \in Nat
      BY <1>1, GuardAnswers
    <2>2. Len(AnswerResources(RatePdu(c))) \in Nat
      BY <1>1, ResourceAnswers
    <2>3. BlocksLen(AnswerGuards(RatePdu(c)), AnswerResources(RatePdu(c))) \in Nat
      BY <2>1, <2>2, BlocksNat
    <2> QED BY <1>4, <2>3 DEF R_PDU_HEADER_LEN
  <1>6. /\ a.to = "client" /\ a.tenant = AnswerTenant(d) /\ a.pdu = AnswerPdu(d.pdu)
        /\ a.auth.type = setup.responder
        /\ a.auth.intact <=> setup.scenario # "malformed-auth"
        /\ a.auth.tenant = a.tenant /\ a.auth.pduLen = a.pdu.size
        /\ a.len = R_TENANT_TLV_LEN + AuthTlvLen(setup.responder) + a.pdu.size
                     - (IF setup.scenario = "malformed-truncated" THEN 1 ELSE 0)
    BY <1>5, AnswerFields
  <1>7. a.tenant.id = IF setup.scenario = "malformed-request-id" THEN -i ELSE i
    BY <1>3, <1>6 DEF AnswerTenant
  <1>8. IsRate(c)
    OBVIOUS
  <1>9. a.pdu.resources = AnswerResources(RatePdu(c))
    BY <1>4, <1>6
  <1>10. /\ a.pdu.type = "rate_response" /\ a.pdu.guards = AnswerGuards(RatePdu(c))
         /\ a.pdu.size = R_PDU_HEADER_LEN + BlocksLen(a.pdu.guards, a.pdu.resources)
    BY <1>4, <1>6
  <1> QED BY <1>6, <1>7, <1>8, <1>9, <1>10 DEF AnswerShape
LedgerType ==
    /\ ledger.received \in [Buckets -> Nat]
    /\ ledger.allowed \in [Buckets -> Nat]
    /\ ledger.denied \in [Buckets -> Nat]

\* Its resource blocks are right for the ledger it is entered in.
LEMMA AnswerHasResources ==
    ASSUME SetupOK, QuotaType, LedgerType, NEW c \in Contents, IsRate(c),
           NEW r, r = AnswerResources(RatePdu(c)), setup' = setup,
           \A b \in Buckets :
               ledger'.allowed[b] = ledger.allowed[b] + Allowed(r, b)
    PROVE  AnswersResources(c, r)'
  <1> DEFINE n == Len(c.resources)
  <1>1. IsSequence(r)
    BY ResourceAnswers
  <1>2. CASE setup.scenario = "count-empty"
    <2>1. r = <<>>
      BY <1>2, ResourceAnswers
    <2> QED BY <1>1, <1>2, <2>1 DEF AnswersResources
  <1>3. CASE setup.scenario = "count-short"
    <2>1. Len(r) = IF c.resources = <<>> THEN 0 ELSE Len(c.resources) - 1
      BY <1>3, ResourceAnswers
    <2> QED BY <1>1, <1>3, <2>1 DEF AnswersResources
  <1>4. CASE setup.scenario = "count-extra"
    <2>1. Len(r) = Len(c.resources) + 1 /\ r[Len(r)].deficit # 0
      BY <1>4, ResourceAnswers
    <2> QED BY <1>1, <1>4, <2>1 DEF AnswersResources
  <1>5. CASE setup.scenario \notin {"count-empty", "count-short", "count-extra"}
    <2>1. /\ n \in Nat /\ DOMAIN c.resources = 1 .. n
          /\ \A k \in 1 .. n : c.resources[k].bucket \in Buckets
      BY ContentFacts
    <2>2. /\ Len(r) = n /\ r = [k \in 1 .. n |-> AnswerResource(c.resources, k)]
      BY <1>5, ResourceAnswers
    <2>3. ASSUME NEW k \in 1 .. n
          PROVE  /\ r[k].bucket = c.resources[k].bucket /\ r[k].deficit \in Nat
                 /\ setup.scenario = "deny" => r[k].deficit > 0
                 /\ setup.scenario \notin {"deny", "quota"} => r[k].deficit = 0
      <3>1. r[k] = AnswerResource(c.resources, k)
        BY <2>2
      <3> QED BY <2>1, <3>1, BlockAnswer
    <2>4. ASSUME NEW k \in 1 .. n, r[k].deficit = 0
          PROVE  ledger'.allowed[r[k].bucket] > 0
      <3> DEFINE b == r[k].bucket
                 S == {j \in DOMAIN r : r[j].bucket = b /\ r[j].deficit = 0}
      <3>1. b \in Buckets
        BY <2>1, <2>3
      <3>2. DOMAIN r = 1 .. n
        BY <2>2
      <3>3. k \in S
        BY <2>4, <3>2
      <3>4. IsFiniteSet(S)
        <4>1. IsFiniteSet(1 .. n)
          BY <2>1, FS_Interval
        <4>2. S \subseteq 1 .. n
          BY <3>2
        <4> QED BY <4>1, <4>2, FS_Subset
      <3>5. Cardinality(S) \in Nat /\ Cardinality(S) # 0
        BY <3>3, <3>4, FS_EmptySet, FS_CardinalityType
      <3>6. Allowed(r, b) = Cardinality(S)
        BY DEF Allowed
      <3>7. ledger'.allowed[b] = ledger.allowed[b] + Cardinality(S) /\ ledger.allowed[b] \in Nat
        BY <3>1, <3>6 DEF LedgerType
      <3> HIDE DEF S, b
      <3>8. ledger'.allowed[b] > 0
        BY <3>5, <3>7
      <3> QED BY <3>8 DEF b
    <2>5. ASSUME NEW k \in DOMAIN c.resources
          PROVE  /\ r[k].bucket = c.resources[k].bucket /\ r[k].deficit \in Nat
                 /\ setup'.scenario = "deny" => r[k].deficit > 0
                 /\ setup'.scenario \notin {"deny", "quota"} => r[k].deficit = 0
                 /\ setup'.scenario = "quota" /\ r[k].deficit = 0 =>
                        ledger'.allowed[r[k].bucket] > 0
      BY <2>1, <2>3, <2>4
    <2> QED BY <1>1, <1>5, <2>2, <2>5 DEF AnswersResources
  <1> QED BY <1>2, <1>3, <1>4, <1>5

LEMMA StableShape ==
    ASSUME NEW d, NEW i, AnswerShape(d, i), setup' = setup,
           calls'[i].content = calls[i].content
    PROVE  AnswerShape(d, i)'
  <1>1. AnswerGuards(RatePdu(calls[i].content)) = AnswerGuards(RatePdu(calls[i].content))'
    BY DEF AnswerGuards, AnswerGuard
  <1> QED BY <1>1 DEF AnswerShape

\* An answer stays an answer while the ledger grows.
LEMMA StableAnswer ==
    ASSUME LedgerType, NEW d, NEW i, calls[i].content \in Contents, IsAnswer(d, i),
           setup' = setup, calls'[i].content = calls[i].content,
           \A b \in Buckets : /\ ledger'.allowed[b] \in Nat
                              /\ ledger'.allowed[b] >= ledger.allowed[b]
    PROVE  IsAnswer(d, i)'
  <1> DEFINE c == calls[i].content
             r == d.pdu.resources
  <1>1. AnswerShape(d, i)'
    BY StableShape DEF IsAnswer
  <1>2. c \in Contents /\ AnswersResources(c, r)
    BY DEF IsAnswer
  <1>3. \A k \in DOMAIN c.resources : c.resources[k].bucket \in Buckets
    BY <1>2, ContentFacts
  <1>4. \A b \in Buckets : ledger.allowed[b] > 0 => ledger'.allowed[b] > 0
    <2> TAKE b \in Buckets
    <2>1. ledger.allowed[b] \in Nat
      BY DEF LedgerType
    <2> QED BY <2>1
  <1>5. c' = c /\ r' = r
    OBVIOUS
  <1> HIDE DEF c, r
  <1>6. AnswersResources(c, r)'
    <2>1. CASE setup.scenario \in {"count-empty", "count-short", "count-extra"}
      BY <1>2, <1>5, <2>1 DEF AnswersResources
    <2>2. CASE setup.scenario \notin {"count-empty", "count-short", "count-extra"}
      <3>1. /\ IsSequence(r) /\ Len(r) = Len(c.resources)
            /\ \A k \in DOMAIN c.resources :
                   /\ r[k].bucket = c.resources[k].bucket /\ r[k].deficit \in Nat
                   /\ setup.scenario = "deny" => r[k].deficit > 0
                   /\ setup.scenario \notin {"deny", "quota"} => r[k].deficit = 0
                   /\ setup.scenario = "quota" /\ r[k].deficit = 0 =>
                          ledger.allowed[r[k].bucket] > 0
        BY <1>2, <2>2 DEF AnswersResources
      <3>2. \A k \in DOMAIN c.resources :
                   /\ r[k].bucket = c.resources[k].bucket /\ r[k].deficit \in Nat
                   /\ setup'.scenario = "deny" => r[k].deficit > 0
                   /\ setup'.scenario \notin {"deny", "quota"} => r[k].deficit = 0
                   /\ setup'.scenario = "quota" /\ r[k].deficit = 0 =>
                          ledger'.allowed[r[k].bucket] > 0
        BY <1>3, <1>4, <3>1
      <3> QED BY <1>5, <2>2, <3>1, <3>2 DEF AnswersResources
    <2> QED BY <2>1, <2>2
  <1> QED BY <1>1, <1>6 DEF IsAnswer, c, r
-----------------------------------------------------------------------------
(* The invariant is inductive *)

LEMMA TypeParts ==
    TypeOK <=> /\ SetupOK /\ CallsType /\ QuotaType /\ LedgerType
               /\ \A d \in net : d.to \in {"responder", "client"}
  BY DEF TypeOK, SetupOK, CallsType, QuotaType, LedgerType

LEMMA InitIInv == Init => IInv
  <1> SUFFICES ASSUME Init PROVE IInv
    OBVIOUS
  <1>1. IsSequence(calls) /\ DOMAIN calls = {}
    BY DEF Init, IsSequence
  <1>2. \A b \in Buckets : /\ quota[b] = 0 /\ ledger.received[b] = 0
                           /\ ledger.allowed[b] = 0 /\ ledger.denied[b] = 0
    BY DEF Init
  <1>3. TypeOK
    BY <1>1 DEF Init, TypeOK
  <1>4. SentInv /\ AnswerInv /\ OutcomeInv
    BY <1>1 DEF Init, SentInv, AnswerInv, OutcomeInv
  <1>5. AllowCount \in Nat /\ QuotaCap \in Nat
    BY WireAssumption
  <1>6. Cardinality(Entries) <= QuotaCap
    <2>1. Entries = {}
      BY <1>2 DEF Entries
    <2> QED BY <1>5, <2>1, FS_EmptySet
  <1>7. QuotaInv
    BY <1>2, <1>5, <1>6 DEF QuotaInv
  <1> QED BY <1>3, <1>4, <1>7 DEF IInv

\* A step that changes no more than the count of packets.
LEMMA QuietStep ==
    ASSUME IInv, setup' = setup, calls' = calls, net' = net, quota' = quota, ledger' = ledger
    PROVE  IInv'
  <1>1. TypeOK'
    BY DEF IInv, TypeOK
  <1>2. SentInv'
    BY DEF IInv, SentInv
  <1>3. ASSUME NEW d \in net, d.to = "client"
        PROVE  /\ setup.client = setup.responder /\ setup.scenario # "drop"
               /\ \E i \in DOMAIN calls : IsAnswer(d, i)'
    <2>1. /\ setup.client = setup.responder /\ setup.scenario # "drop"
          /\ \E i \in DOMAIN calls : IsAnswer(d, i)
      BY <1>3 DEF IInv, AnswerInv
    <2>2. PICK i \in DOMAIN calls : IsAnswer(d, i)
      BY <2>1
    <2>3. LedgerType /\ CallsType
      BY TypeParts DEF IInv
    <2>4. IsAnswer(d, i)'
      <3>1. \A b \in Buckets : ledger.allowed[b] \in Nat
        BY <2>3 DEF LedgerType
      <3>2. calls[i].content \in Contents
        BY <2>3 DEF CallsType
      <3> QED BY <2>2, <2>3, <3>1, <3>2, StableAnswer
    <2> QED BY <2>1, <2>4
  <1>4. AnswerInv'
    BY <1>3 DEF AnswerInv
  <1>5. OutcomeInv'
    BY DEF IInv, OutcomeInv
  <1>6. QuotaInv'
    BY DEF IInv, QuotaInv, Entries
  <1> QED BY <1>1, <1>2, <1>4, <1>5, <1>6 DEF IInv

LEMMA CallStep ==
    ASSUME IInv, NEW c \in Contents, Call(c)
    PROVE  IInv'
  <1> DEFINE n == Len(calls) + 1
             ok == Builds(setup.client, c)
             p == CallPacket(setup.client, n, c)
  <1>1. SetupOK /\ CallsType /\ QuotaType /\ LedgerType
    BY TypeParts DEF IInv
  <1>2. setup' = setup /\ quota' = quota /\ ledger' = ledger
    BY DEF Call
  <1>3. PICK x : /\ calls' = Append(calls, x)
                 /\ x.content = c /\ x.status \in {"refused", "pending", "reported"}
                 /\ x.status = "refused" <=> ~ok
    <2> DEFINE status == IF ~ok THEN "refused" ELSE IF IsRate(c) THEN "pending" ELSE "reported"
               x == [content |-> c, status |-> status, answer |-> NoAnswer]
    <2>1. calls' = Append(calls, x)
      BY DEF Call
    <2>2. /\ x.content = c /\ x.status \in {"refused", "pending", "reported"}
          /\ x.status = "refused" <=> ~ok
      OBVIOUS
    <2> QED BY <2>1, <2>2
  <1>4. net' = IF ok THEN net \cup {p} ELSE net
    BY DEF Call
  <1>5. IsSequence(calls) /\ Len(calls) \in Nat /\ DOMAIN calls = 1 .. Len(calls)
    BY <1>1, SequenceLen DEF CallsType
  <1>6. /\ IsSequence(calls') /\ DOMAIN calls' = 1 .. n
        /\ \A i \in DOMAIN calls : calls'[i] = calls[i]
        /\ calls'[n] = x
    BY <1>3, <1>5, AppendSequence
  <1>7. \A i : i \in DOMAIN calls' <=> i \in DOMAIN calls \/ i = n
    BY <1>5, <1>6
  <1>8. p.to = "responder"
    <2>1. setup.client \in Credentials
      BY <1>1 DEF SetupOK
    <2>2. p.to = "responder" /\ p.tenant = [key |-> setup.client, id |-> n]
      BY <2>1, CallFields
    <2> QED BY <2>2
  <1> HIDE DEF p, n, ok
  <1>9. TypeOK'
    <2>1. CallsType'
      BY <1>1, <1>3, <1>6, <1>7 DEF CallsType, Status
    <2>2. SetupOK' /\ QuotaType' /\ LedgerType'
      BY <1>1, <1>2 DEF SetupOK, QuotaType, LedgerType
    <2>3. \A d \in net' : d.to \in {"responder", "client"}
      BY <1>4, <1>8 DEF IInv, TypeOK
    <2> QED BY <2>1, <2>2, <2>3 DEF TypeOK, CallsType, SetupOK, QuotaType, LedgerType
  <1>10. SentInv'
    <2>1. \A i \in DOMAIN calls' :
              calls'[i].status = "refused" <=> ~Builds(setup.client, calls'[i].content)
      BY <1>3, <1>6, <1>7 DEF IInv, SentInv, ok
    <2>2. ASSUME NEW d \in net', d.to = "responder"
          PROVE  \E i \in DOMAIN calls' :
                     /\ Builds(setup.client, calls'[i].content)
                     /\ d = CallPacket(setup.client, i, calls'[i].content)
      <3>1. CASE d \in net
        <4>1. PICK i \in DOMAIN calls : /\ Builds(setup.client, calls[i].content)
                                        /\ d = CallPacket(setup.client, i, calls[i].content)
          BY <2>2, <3>1 DEF IInv, SentInv
        <4> QED BY <1>6, <1>7, <4>1
      <3>2. CASE ok /\ d = p
        <4>1. n \in DOMAIN calls' /\ calls'[n].content = c
          BY <1>3, <1>6, <1>7
        <4> QED BY <3>2, <4>1 DEF ok, p
      <3> QED BY <1>4, <3>1, <3>2
    <2> QED BY <1>2, <2>1, <2>2 DEF SentInv
  <1>11. AnswerInv'
    <2> SUFFICES ASSUME NEW d \in net', d.to = "client"
                 PROVE  /\ setup.client = setup.responder /\ setup.scenario # "drop"
                        /\ \E i \in DOMAIN calls' : IsAnswer(d, i)'
      BY <1>2 DEF AnswerInv
    <2>1. d \in net
      BY <1>4, <1>8
    <2>2. /\ setup.client = setup.responder /\ setup.scenario # "drop"
          /\ \E i \in DOMAIN calls : IsAnswer(d, i)
      BY <2>1 DEF IInv, AnswerInv
    <2>3. PICK i \in DOMAIN calls : IsAnswer(d, i)
      BY <2>2
    <2>4. IsAnswer(d, i)'
      <3>1. \A b \in Buckets : ledger.allowed[b] \in Nat
        BY <1>1 DEF LedgerType
      <3>2. calls[i].content \in Contents /\ calls'[i].content = calls[i].content
        BY <1>1, <1>6 DEF CallsType
      <3> QED BY <1>1, <1>2, <2>3, <3>1, <3>2, StableAnswer
    <2> QED BY <1>7, <2>2, <2>4
  <1>12. OutcomeInv'
    <2> SUFFICES ASSUME NEW i \in DOMAIN calls', calls'[i].status = "answered"
                 PROVE  /\ setup.scenario \notin {"malformed-auth", "malformed-truncated",
                                                  "malformed-request-id"}
                        /\ \E d \in net' :
                            /\ d.to = "client" /\ d.tenant.id = i
                            /\ calls'[i].answer = Outcome(d.pdu)
      BY <1>2 DEF OutcomeInv
    <2>1. i \in DOMAIN calls /\ calls'[i] = calls[i]
      BY <1>3, <1>6, <1>7
    <2>2. net \subseteq net'
      BY <1>4
    <2> QED BY <2>1, <2>2 DEF IInv, OutcomeInv
  <1>13. QuotaInv'
    BY <1>2 DEF IInv, QuotaInv, Entries
  <1> QED BY <1>9, <1>10, <1>11, <1>12, <1>13 DEF IInv
\* A call that is over keeps what it sent, and no packet is sent.
LEMMA OverStep ==
    ASSUME IInv, NEW i \in DOMAIN calls, calls[i].status = "pending",
           NEW status \in {"answered", "timeout"}, NEW answer,
           calls' = [calls EXCEPT ![i] = Over(calls[i], status, answer)],
           setup' = setup, net' = net, quota' = quota, ledger' = ledger,
           status = "answered" =>
               /\ setup.scenario \notin {"malformed-auth", "malformed-truncated",
                                         "malformed-request-id"}
               /\ \E d \in net : d.to = "client" /\ d.tenant.id = i /\ answer = Outcome(d.pdu)
    PROVE  IInv'
  <1> DEFINE x == Over(calls[i], status, answer)
  <1>1. SetupOK /\ CallsType /\ QuotaType /\ LedgerType
    BY TypeParts DEF IInv
  <1>2. x.content = calls[i].content /\ x.status = status /\ x.answer = answer
    BY DEF Over
  <1> HIDE DEF x
  <1>3. calls' = [calls EXCEPT ![i] = x]
    BY DEF x
  <1>4. /\ IsSequence(calls') /\ DOMAIN calls' = DOMAIN calls
        /\ \A j \in DOMAIN calls : calls'[j] = IF j = i THEN x ELSE calls[j]
    <2>1. IsSequence(calls)
      BY <1>1 DEF CallsType
    <2>2. /\ IsSequence([calls EXCEPT ![i] = x])
          /\ DOMAIN [calls EXCEPT ![i] = x] = DOMAIN calls
          /\ \A j \in DOMAIN calls :
                 [calls EXCEPT ![i] = x][j] = IF j = i THEN x ELSE calls[j]
      BY <2>1, ExceptSequence, Zenon
    <2> QED BY <1>3, <2>2
  <1>5. \A j \in DOMAIN calls : /\ calls'[j].content = calls[j].content
                                /\ calls'[j].status = IF j = i THEN status ELSE calls[j].status
                                /\ calls'[j].answer = IF j = i THEN answer ELSE calls[j].answer
    BY <1>2, <1>4
  <1>6. TypeOK'
    <2>1. CallsType'
      BY <1>1, <1>4, <1>5 DEF CallsType, Status
    <2> QED BY <2>1 DEF IInv, TypeOK, CallsType
  <1>7. SentInv'
    <2>1. \A j \in DOMAIN calls' :
              calls'[j].status = "refused" <=> ~Builds(setup.client, calls'[j].content)
      BY <1>4, <1>5 DEF IInv, SentInv
    <2>2. ASSUME NEW d \in net, d.to = "responder"
          PROVE  \E j \in DOMAIN calls' :
                     /\ Builds(setup.client, calls'[j].content)
                     /\ d = CallPacket(setup.client, j, calls'[j].content)
      <3>1. PICK j \in DOMAIN calls : /\ Builds(setup.client, calls[j].content)
                                      /\ d = CallPacket(setup.client, j, calls[j].content)
        BY <2>2 DEF IInv, SentInv
      <3> QED BY <1>4, <1>5, <3>1
    <2> QED BY <2>1, <2>2 DEF SentInv
  <1>8. AnswerInv'
    <2> SUFFICES ASSUME NEW d \in net, d.to = "client"
                 PROVE  /\ setup.client = setup.responder /\ setup.scenario # "drop"
                        /\ \E j \in DOMAIN calls' : IsAnswer(d, j)'
      BY DEF AnswerInv
    <2>1. /\ setup.client = setup.responder /\ setup.scenario # "drop"
          /\ \E j \in DOMAIN calls : IsAnswer(d, j)
      BY DEF IInv, AnswerInv
    <2>2. PICK j \in DOMAIN calls : IsAnswer(d, j)
      BY <2>1
    <2>3. IsAnswer(d, j)'
      <3>1. \A b \in Buckets : ledger.allowed[b] \in Nat
        BY <1>1 DEF LedgerType
      <3>2. calls[j].content \in Contents /\ calls'[j].content = calls[j].content
        BY <1>1, <1>5 DEF CallsType
      <3> QED BY <1>1, <2>2, <3>1, <3>2, StableAnswer
    <2> QED BY <1>4, <2>1, <2>3
  <1>9. OutcomeInv'
    <2> SUFFICES ASSUME NEW j \in DOMAIN calls', calls'[j].status = "answered"
                 PROVE  /\ setup.scenario \notin {"malformed-auth", "malformed-truncated",
                                                  "malformed-request-id"}
                        /\ \E d \in net : /\ d.to = "client" /\ d.tenant.id = j
                                          /\ calls'[j].answer = Outcome(d.pdu)
      BY DEF OutcomeInv
    <2>1. CASE j = i
      BY <1>4, <1>5, <2>1
    <2>2. CASE j # i
      BY <1>4, <1>5, <2>2 DEF IInv, OutcomeInv
    <2> QED BY <2>1, <2>2
  <1>10. QuotaInv'
    BY DEF IInv, QuotaInv, Entries
  <1> QED BY <1>6, <1>7, <1>8, <1>9, <1>10 DEF IInv

LEMMA ApplyStep ==
    ASSUME IInv, NEW d \in net, Apply(d)
    PROVE  IInv'
  <1>1. SetupOK /\ CallsType
    BY TypeParts DEF IInv
  <1>2. d.to = "client" /\ Applies(d)
    BY DEF Apply
  <1>3. setup.client = setup.responder /\ \E i \in DOMAIN calls : IsAnswer(d, i)
    BY <1>2 DEF IInv, AnswerInv
  <1>4. PICK i \in DOMAIN calls : IsAnswer(d, i)
    BY <1>3
  <1>5. /\ setup.scenario \notin {"malformed-auth", "malformed-truncated",
                                  "malformed-request-id"}
        /\ d.tenant.id = i /\ calls[i].status = "pending"
    BY <1>1, <1>2, <1>3, <1>4, AppliedOf
  <1>6. /\ calls' = [calls EXCEPT ![i] = Over(calls[i], "answered", Outcome(d.pdu))]
        /\ setup' = setup /\ net' = net /\ quota' = quota /\ ledger' = ledger
    BY <1>5 DEF Apply
  <1>7. \E e \in net : e.to = "client" /\ e.tenant.id = i /\ Outcome(d.pdu) = Outcome(e.pdu)
    BY <1>2, <1>5
  <1> DEFINE status == "answered"
             answer == Outcome(d.pdu)
  <1>8. status \in {"answered", "timeout"}
    OBVIOUS
  <1> QED BY <1>5, <1>6, <1>7, <1>8, OverStep

LEMMA TimeoutStep ==
    ASSUME IInv, NEW i \in DOMAIN calls, Timeout(i)
    PROVE  IInv'
  <1>1. /\ calls[i].status = "pending"
        /\ calls' = [calls EXCEPT ![i] = Over(calls[i], "timeout", NoAnswer)]
        /\ setup' = setup /\ net' = net /\ quota' = quota /\ ledger' = ledger
    BY DEF Timeout
  <1>2. "timeout" \in {"answered", "timeout"} /\ "timeout" # "answered"
    OBVIOUS
  <1> QED BY <1>1, <1>2, OverStep
\* What the responder knows of the request it answers.
LEMMA AnsweredRequest ==
    ASSUME IInv, NEW d \in net, Answer(d)
    PROVE  \E i \in DOMAIN calls :
               /\ d = CallPacket(setup.client, i, calls[i].content)
               /\ Builds(setup.client, calls[i].content)
               /\ IsRate(calls[i].content) /\ d.pdu = RatePdu(calls[i].content)
               /\ setup.client = setup.responder
  <1>1. SetupOK /\ CallsType
    BY TypeParts DEF IInv
  <1>2. d.to = "responder" /\ Accepts(d) /\ d.pdu.type = "rate_request"
    BY DEF Answer, CanProcess
  <1>3. PICK i \in DOMAIN calls : /\ Builds(setup.client, calls[i].content)
                                  /\ d = CallPacket(setup.client, i, calls[i].content)
    BY <1>2 DEF IInv, SentInv
  <1> DEFINE c == calls[i].content
  <1>4. c \in Contents /\ setup.client \in Credentials
    BY <1>1 DEF CallsType, SetupOK
  <1>5. /\ d.tenant = [key |-> setup.client, id |-> i]
        /\ IsRate(c) => d.pdu = RatePdu(c) /\ d.pdu.type = "rate_request"
        /\ ~IsRate(c) => d.pdu = ReportPdu(c) /\ d.pdu.type = "latency_report"
    BY <1>3, <1>4, CallFields
  <1>6. setup.client = setup.responder
    BY <1>1, <1>2, <1>3, <1>4, Understood
  <1> QED BY <1>2, <1>3, <1>5, <1>6

\* The ledger after the request.
LEMMA LedgerAfter ==
    ASSUME LedgerType, NEW c \in Contents, NEW answered,
           ledger' = Recorded(RatePdu(c), answered),
           NEW blocks, blocks = (IF answered THEN AnswerResources(RatePdu(c)) ELSE <<>>),
           IsSequence(blocks)
    PROVE  /\ LedgerType'
           /\ \A b \in Buckets :
                /\ ledger'.received[b] = ledger.received[b] + Count(c.resources, b)
                /\ ledger'.allowed[b] = ledger.allowed[b] + Allowed(blocks, b)
                /\ ledger'.denied[b] = ledger.denied[b] + Denied(blocks, b)
                /\ Count(c.resources, b) \in Nat
                /\ Allowed(blocks, b) \in Nat /\ Denied(blocks, b) \in Nat
           /\ ledger'.overflowed <=>
                \/ ledger.overflowed
                \/ setup.scenario = "quota" /\ Charged(c.resources) < Len(c.resources)
  <1>1. RatePdu(c).resources = c.resources
    BY DEF RatePdu
  <1> DEFINE received == [b \in Buckets |-> ledger.received[b] + Count(c.resources, b)]
             allowed == [b \in Buckets |-> ledger.allowed[b] + Allowed(blocks, b)]
             denied == [b \in Buckets |-> ledger.denied[b] + Denied(blocks, b)]
             overflowed == \/ ledger.overflowed
                           \/ QuotaCharges /\ Charged(c.resources) < Len(c.resources)
  <1>2. Recorded(RatePdu(c), answered) =
            [received |-> received, allowed |-> allowed, denied |-> denied,
             overflowed |-> overflowed]
    BY <1>1, Zenon DEF Recorded
  <1>3. ledger'.received = received /\ ledger'.allowed = allowed /\ ledger'.denied = denied
    <2> HIDE DEF received, allowed, denied
    <2> QED BY <1>2
  <1>4. ledger'.overflowed <=> overflowed
    BY <1>2
  <1>5. \A b \in Buckets :
            /\ Count(c.resources, b) \in Nat
            /\ Allowed(blocks, b) \in Nat /\ Denied(blocks, b) \in Nat
    <2>1. IsSequence(c.resources)
      BY ContentFacts
    <2> QED BY <2>1, CountsAreNumbers
  <1>6. \A b \in Buckets :
            /\ ledger.received[b] \in Nat /\ ledger.allowed[b] \in Nat
            /\ ledger.denied[b] \in Nat
    BY DEF LedgerType
  <1>7. /\ received \in [Buckets -> Nat] /\ allowed \in [Buckets -> Nat]
        /\ denied \in [Buckets -> Nat]
    BY <1>5, <1>6
  <1>8. LedgerType'
    BY <1>3, <1>7 DEF LedgerType
  <1> QED BY <1>3, <1>5, <1>8, <1>4 DEF QuotaCharges

LEMMA QuotaStep ==
    ASSUME SetupOK, QuotaType, LedgerType, QuotaInv, NEW c \in Contents, IsRate(c),
           setup.client = setup.responder, Builds(setup.client, c), NEW i,
           NEW d, d = CallPacket(setup.client, i, c), d.pdu = RatePdu(c),
           setup' = setup,
           quota' = IF QuotaCharges THEN ChargedQuota(c.resources) ELSE quota,
           ledger' = Recorded(RatePdu(c), AnswerBuilds(d.pdu))
    PROVE  QuotaType' /\ QuotaInv'
  <1> DEFINE n == Charged(c.resources)
             L == Len(c.resources)
  <1>1. /\ IsSequence(c.resources) /\ L \in Nat /\ DOMAIN c.resources = 1 .. L
        /\ \A k \in 1 .. L : c.resources[k].bucket \in Buckets
    BY ContentFacts
  <1>2. n \in 0 .. L
    BY <1>1, ChargedBlocks
  <1>3. AllowCount \in Nat /\ QuotaCap \in Nat
    BY WireAssumption
  <1>4. CASE setup.scenario # "quota"
    <2>1. quota' = quota
      BY <1>4 DEF QuotaCharges
    <2> QED BY <1>4, <2>1 DEF QuotaType, QuotaInv, Entries
  <1>5. CASE setup.scenario = "quota"
    <2> DEFINE T(b) == Listings(c.resources, b)
               f(b) == Upto(T(b), L)
               g(b) == Upto(T(b), n)
    <2>1. ASSUME NEW b \in Buckets
          PROVE  /\ quota[b] \in Nat /\ f(b) \in Nat /\ g(b) \in Nat /\ g(b) <= f(b)
                 /\ (n = L => g(b) = f(b)) /\ quota'[b] = quota[b] + g(b)
      <3>1. quota[b] \in Nat
        BY DEF QuotaType
      <3>2. f(b) \in Nat /\ g(b) \in Nat /\ g(b) <= f(b)
        BY <1>1, <1>2, UptoGrows
      <3>3. quota'[b] = quota[b] + g(b)
        <4>1. ChargedQuota(c.resources)[b] = quota[b] + g(b)
          BY BucketCounts
        <4> QED BY <1>5, <4>1 DEF QuotaCharges
      <3> QED BY <3>1, <3>2, <3>3
    <2>2. DOMAIN quota' = Buckets
      BY <1>5 DEF QuotaCharges, ChargedQuota
    <2>3. QuotaType'
      <3>1. \A b \in Buckets : quota'[b] \in Nat
        BY <2>1
      <3>2. quota' = [b \in Buckets |-> quota'[b]]
        BY <1>5 DEF QuotaCharges, ChargedQuota
      <3> QED BY <3>1, <3>2 DEF QuotaType
    <2>4. Cardinality(Entries') <= QuotaCap
      <3>1. ASSUME NEW b \in Buckets
            PROVE  quota'[b] > 0 <=> quota[b] > 0 \/ \E j \in 1 .. n : c.resources[j].bucket = b
        <4>1. g(b) > 0 <=> \E j \in 1 .. n : c.resources[j].bucket = b
          <5> DEFINE S == T(b) \cap (1 .. n)
          <5>1. IsFiniteSet(S)
            <6>1. IsFiniteSet(1 .. n)
              BY <1>1, <1>2, FS_Interval
            <6> QED BY <6>1, FS_Subset
          <5>2. g(b) = Cardinality(S)
            BY DEF Upto
          <5>3. Cardinality(S) = 0 <=> S = {}
            BY <5>1, FS_EmptySet
          <5>4. S = {} <=> ~ \E j \in 1 .. n : c.resources[j].bucket = b
            BY <1>1, <1>2 DEF Listings
          <5> QED BY <2>1, <5>2, <5>3, <5>4
        <4> QED BY <2>1, <4>1
      <3>2. Entries' = {b \in Buckets : quota'[b] > 0}
        BY DEF Entries
      <3>3. \A j \in 1 .. n : c.resources[j].bucket \in Buckets
        BY <1>1, <1>2
      <3>4. Entries' = Known(c.resources, n)
        BY <3>1, <3>2, <3>3 DEF Known, Entries
      <3>5. Cardinality(Known(c.resources, n)) <= QuotaCap
        BY KnownFits DEF QuotaInv
      <3> QED BY <3>4, <3>5
    <2>5. AnswerBuilds(d.pdu) <=> n = L
      BY <1>5, AnswerFits
    <2> DEFINE blocks == IF AnswerBuilds(d.pdu) THEN AnswerResources(RatePdu(c)) ELSE <<>>
    <2>6. IsSequence(blocks)
      <3>1. IsSequence(<<>>)
        BY DEF IsSequence
      <3>2. IsSequence(AnswerResources(RatePdu(c)))
        BY ResourceAnswers
      <3> QED BY <3>1, <3>2
    <2>7. /\ \A b \in Buckets :
                /\ ledger'.received[b] = ledger.received[b] + Count(c.resources, b)
                /\ ledger'.allowed[b] = ledger.allowed[b] + Allowed(blocks, b)
                /\ ledger'.denied[b] = ledger.denied[b] + Denied(blocks, b)
                /\ Allowed(blocks, b) \in Nat /\ Denied(blocks, b) \in Nat
          /\ ledger'.overflowed <=> ledger.overflowed \/ n < L
      BY <1>5, <2>6, LedgerAfter
    <2>8. ASSUME NEW b \in Buckets
          PROVE  /\ quota'[b] <= ledger'.received[b] /\ ledger'.allowed[b] <= quota'[b]
                 /\ ledger'.allowed[b] <= AllowCount
                 /\ ledger'.denied[b] > 0 => ledger'.received[b] > AllowCount
                 /\ ~ledger'.overflowed =>
                       /\ quota'[b] = ledger'.received[b]
                       /\ ledger'.allowed[b] =
                             IF quota'[b] <= AllowCount THEN quota'[b] ELSE AllowCount
      <3> DEFINE q == quota[b]
                 received == ledger.received[b]
                 allowed == ledger.allowed[b]
                 denied == ledger.denied[b]
                 ok == Allowed(blocks, b)
                 no == Denied(blocks, b)
                 first == IF q + f(b) <= AllowCount THEN f(b)
                          ELSE IF q <= AllowCount THEN AllowCount - q ELSE 0
      <3>1. /\ q <= received /\ allowed <= q /\ allowed <= AllowCount
            /\ denied > 0 => received > AllowCount
            /\ ~ledger.overflowed =>
                  q = received /\ allowed = (IF q <= AllowCount THEN q ELSE AllowCount)
        BY <1>5 DEF QuotaInv
      <3>2. received \in Nat /\ allowed \in Nat /\ denied \in Nat
        BY DEF LedgerType
      <3>3. /\ ledger'.received[b] = received + f(b) /\ ledger'.allowed[b] = allowed + ok
            /\ ledger'.denied[b] = denied + no /\ ok \in Nat /\ no \in Nat
        <4>1. Count(c.resources, b) = f(b)
          BY BucketCounts
        <4> QED BY <2>7, <4>1
      <3>4. n # L => ok = 0 /\ no = 0
        <4> SUFFICES ASSUME n # L PROVE ok = 0 /\ no = 0
          OBVIOUS
        <4>1. blocks = <<>>
          BY <2>5
        <4> QED BY <4>1, NothingAnswered
      <3>5. n = L => ok = first /\ (no > 0 => q + f(b) > AllowCount)
        <4> SUFFICES ASSUME n = L PROVE ok = first /\ (no > 0 => q + f(b) > AllowCount)
          OBVIOUS
        <4> DEFINE good == {j \in T(b) \cap (1 .. L) : quota[b] + Upto(T(b), j - 1) < AllowCount}
        <4>1. blocks = AnswerResources(RatePdu(c))
          BY <2>5
        <4>2. /\ Allowed(AnswerResources(RatePdu(c)), b) = Upto(good, L)
              /\ Denied(AnswerResources(RatePdu(c)), b) > 0 => q + f(b) > AllowCount
          BY <1>5, BucketCounts
        <4>3. Upto(good, L) = first
          <5>1. L \in 0 .. L
            BY <1>1
          <5> DEFINE ls == T(b)
          <5> HIDE DEF L
          <5>2. good = {j \in ls \cap (1 .. L) : q + Upto(ls, j - 1) < AllowCount}
            OBVIOUS
          <5> HIDE DEF good, ls, T
          <5>3. \A k \in 0 .. L : Upto(good, k) = IF q + Upto(ls, k) <= AllowCount THEN Upto(ls, k)
                                     ELSE IF q <= AllowCount THEN AllowCount - q ELSE 0
            <6>1. q \in Nat /\ L \in Nat /\ AllowCount \in Nat
              BY <1>1, <1>3, <2>1 DEF L
            <6> HIDE DEF q
            <6> QED BY <5>2, <6>1, FirstAllowed
          <5> QED BY <5>1, <5>3 DEF ls
        <4> QED BY <4>1, <4>2, <4>3
      <3>6. /\ q \in Nat /\ f(b) \in Nat /\ g(b) \in Nat /\ g(b) <= f(b)
            /\ (n = L => g(b) = f(b)) /\ quota'[b] = q + g(b)
        BY <2>1
      <3> DEFINE fb == f(b)
                 gb == g(b)
      <3>7. \/ ok = 0 /\ no = 0
            \/ /\ gb = fb
               /\ ok = IF q + fb <= AllowCount THEN fb
                       ELSE IF q <= AllowCount THEN AllowCount - q ELSE 0
               /\ no > 0 => q + fb > AllowCount
        BY <3>4, <3>5, <3>6
      <3>8. ~ledger'.overflowed => ~ledger.overflowed /\ n = L
        BY <1>1, <1>2, <2>7
      <3>9. ~ledger'.overflowed =>
               /\ q = received /\ allowed = (IF q <= AllowCount THEN q ELSE AllowCount)
               /\ gb = fb /\ ok = IF q + fb <= AllowCount THEN fb
                                  ELSE IF q <= AllowCount THEN AllowCount - q ELSE 0
        BY <3>1, <3>5, <3>6, <3>8
      <3>10. /\ fb \in Nat /\ gb \in Nat /\ gb <= fb /\ quota'[b] = q + gb /\ q \in Nat
             /\ ledger'.received[b] = received + fb
        BY <3>3, <3>6
      <3> HIDE DEF q, received, allowed, denied, ok, no, fb, gb
      <3>11. /\ q + gb <= received + fb /\ allowed + ok <= q + gb /\ allowed + ok <= AllowCount
             /\ denied + no > 0 => received + fb > AllowCount
             /\ ~ledger'.overflowed =>
                   /\ q + gb = received + fb
                   /\ allowed + ok = IF q + gb <= AllowCount THEN q + gb ELSE AllowCount
        <4>1. /\ AllowCount \in Nat /\ received \in Nat /\ allowed \in Nat /\ denied \in Nat
              /\ ok \in Nat /\ no \in Nat
          BY <1>3, <3>2, <3>3
        <4>2. /\ q + gb <= received + fb /\ allowed + ok <= q + gb /\ allowed + ok <= AllowCount
              /\ denied + no > 0 => received + fb > AllowCount
          BY ONLY <3>1, <3>7, <3>10, <4>1, SMTT(30)
        <4>3. ASSUME ~ledger'.overflowed
              PROVE  /\ q + gb = received + fb
                     /\ allowed + ok = IF q + gb <= AllowCount THEN q + gb ELSE AllowCount
          BY ONLY <3>9, <3>10, <4>1, <4>3, SMTT(30)
        <4> QED BY <4>2, <4>3
      <3> QED BY <3>3, <3>10, <3>11
    <2> QED BY <1>5, <2>3, <2>4, <2>8 DEF QuotaInv
  <1> QED BY <1>4, <1>5
LEMMA AnswerStep ==
    ASSUME IInv, NEW d \in net, Answer(d)
    PROVE  IInv'
  <1>1. SetupOK /\ CallsType /\ QuotaType /\ LedgerType /\ QuotaInv
    BY TypeParts DEF IInv
  <1>2. PICK i \in DOMAIN calls :
               /\ d = CallPacket(setup.client, i, calls[i].content)
               /\ Builds(setup.client, calls[i].content)
               /\ IsRate(calls[i].content) /\ d.pdu = RatePdu(calls[i].content)
               /\ setup.client = setup.responder
    BY AnsweredRequest
  <1> DEFINE c == calls[i].content
             builds == AnswerBuilds(d.pdu)
             blocks == IF builds THEN AnswerResources(RatePdu(c)) ELSE <<>>
  <1>3. c \in Contents /\ d.pdu.resources = c.resources
    <2>1. RatePdu(c).resources = c.resources
      BY DEF RatePdu
    <2> QED BY <1>1, <1>2, <2>1 DEF CallsType
  <1>4. setup' = setup /\ calls' = calls /\ setup.scenario # "drop"
    BY DEF Answer
  <1> PICK a : a = AnswerPacket(d)
    OBVIOUS
  <1>5. net' = IF builds THEN net \cup {a} ELSE net
    BY DEF Answer
  <1>6. /\ quota' = IF QuotaCharges THEN ChargedQuota(c.resources) ELSE quota
        /\ ledger' = Recorded(RatePdu(c), AnswerBuilds(d.pdu))
    BY <1>2, <1>3 DEF Answer
  <1>7. IsSequence(blocks)
    <2>1. IsSequence(<<>>)
      BY DEF IsSequence
    <2>2. IsSequence(AnswerResources(RatePdu(c)))
      BY <1>1, <1>2, <1>3, ResourceAnswers
    <2> QED BY <2>1, <2>2
  <1>8. /\ LedgerType'
        /\ \A b \in Buckets : /\ ledger'.allowed[b] = ledger.allowed[b] + Allowed(blocks, b)
                              /\ Allowed(blocks, b) \in Nat
    BY <1>1, <1>3, <1>6, <1>7, LedgerAfter
  <1>9. \A b \in Buckets : /\ ledger'.allowed[b] \in Nat
                           /\ ledger'.allowed[b] >= ledger.allowed[b]
    <2> TAKE b \in Buckets
    <2>1. ledger.allowed[b] \in Nat
      BY <1>1 DEF LedgerType
    <2> QED BY <1>8, <2>1
  <1>10. QuotaType' /\ QuotaInv'
    BY <1>1, <1>2, <1>3, <1>4, <1>6, QuotaStep
  <1>11. /\ a.to = "client" /\ AnswerShape(a, i)
         /\ a.pdu.resources = AnswerResources(RatePdu(c))
    BY <1>1, <1>2, AnswerHasShape
  <1>12. builds => IsAnswer(a, i)'
    <2> SUFFICES ASSUME builds PROVE IsAnswer(a, i)'
      OBVIOUS
    <2> DEFINE r == AnswerResources(RatePdu(c))
    <2>1. \A b \in Buckets : ledger'.allowed[b] = ledger.allowed[b] + Allowed(r, b)
      BY <1>8
    <2>2. PICK s : s = r
      OBVIOUS
    <2>3. PICK x : x = c
      OBVIOUS
    <2>4. AnswersResources(x, s)'
      BY <1>1, <1>2, <1>3, <1>4, <2>1, <2>2, <2>3, AnswerHasResources
    <2>5. AnswerShape(a, i)'
      BY <1>4, <1>11, StableShape
    <2>6. a.pdu.resources = s /\ x = calls'[i].content
      BY <1>4, <1>11, <2>2, <2>3
    <2> QED BY <2>4, <2>5, <2>6 DEF IsAnswer
  <1> HIDE DEF builds, blocks
  <1>13. TypeOK'
    <2>1. \A e \in net' : e.to \in {"responder", "client"}
      BY <1>5, <1>11 DEF IInv, TypeOK
    <2>2. SetupOK' /\ CallsType'
      BY <1>1, <1>4 DEF SetupOK, CallsType
    <2> QED BY <1>8, <1>10, <2>1, <2>2
            DEF TypeOK, SetupOK, CallsType, QuotaType, LedgerType
  <1>14. SentInv'
    <2>1. \A e \in net' : e.to = "responder" => e \in net
      BY <1>5, <1>11
    <2> QED BY <1>4, <2>1 DEF IInv, SentInv
  <1>15. AnswerInv'
    <2> SUFFICES ASSUME NEW e \in net', e.to = "client"
                 PROVE  /\ setup.client = setup.responder /\ setup.scenario # "drop"
                        /\ \E j \in DOMAIN calls : IsAnswer(e, j)'
      BY <1>4 DEF AnswerInv
    <2>1. CASE e \in net
      <3>1. PICK j \in DOMAIN calls : IsAnswer(e, j)
        BY <2>1 DEF IInv, AnswerInv
      <3>2. calls[j].content \in Contents
        BY <1>1 DEF CallsType
      <3>3. IsAnswer(e, j)'
        BY <1>1, <1>4, <1>9, <3>1, <3>2, StableAnswer
      <3> QED BY <1>2, <1>4, <3>3
    <2>2. CASE builds /\ e = a
      BY <1>2, <1>4, <1>12, <2>2
    <2> QED BY <1>5, <2>1, <2>2
  <1>16. OutcomeInv'
    <2>1. net \subseteq net'
      BY <1>5
    <2> QED BY <1>4, <2>1 DEF IInv, OutcomeInv
  <1> QED BY <1>10, <1>13, <1>14, <1>15, <1>16 DEF IInv

(* What the responder was sent, what it sent back, what the hosts were told *)
(* and what the quota table holds stay in agreement, for every set of      *)
(* requests and reports and whatever the network does.                     *)
THEOREM Invariance == Spec => []IInv
  <1>1. IInv /\ [Next]_vars => IInv'
    <2> SUFFICES ASSUME IInv, [Next]_vars PROVE IInv'
      OBVIOUS
    <2>1. ASSUME NEW c \in Contents, Call(c) PROVE IInv'
      BY <2>1, CallStep
    <2>2. ASSUME NEW d \in net, Reject(d) PROVE IInv'
      BY <2>2, QuietStep DEF Reject, vars
    <2>3. ASSUME NEW d \in net, Observe(d) PROVE IInv'
      BY <2>3, QuietStep DEF Observe
    <2>4. ASSUME NEW d \in net, Answer(d) PROVE IInv'
      BY <2>4, AnswerStep
    <2>5. ASSUME NEW d \in net, Ignore(d) PROVE IInv'
      BY <2>5, QuietStep DEF Ignore, vars
    <2>6. ASSUME NEW d \in net, Apply(d) PROVE IInv'
      BY <2>6, ApplyStep
    <2>7. ASSUME NEW i \in DOMAIN calls, Timeout(i) PROVE IInv'
      BY <2>7, TimeoutStep
    <2>8. CASE UNCHANGED vars
      BY <2>8, QuietStep DEF vars
    <2> QED BY <2>1, <2>2, <2>3, <2>4, <2>5, <2>6, <2>7, <2>8 DEF Next
  <1> QED BY <1>1, InitIInv, PTL DEF Spec
-----------------------------------------------------------------------------
(* The properties *)

(* A call is refused exactly when its datagram would not fit, whatever the *)
(* client sends a responder with its credential reads, and the answer fits *)
(* too but where the documentation says otherwise.                         *)
THEOREM FormatsAlwaysAgree == Spec => []FormatsAgree
  <1>1. IInv => FormatsAgree
    <2> SUFFICES ASSUME IInv PROVE FormatsAgree
      OBVIOUS
    <2>1. SetupOK /\ CallsType /\ QuotaType
      BY TypeParts DEF IInv
    <2>2. setup.client \in Credentials
      BY <2>1 DEF SetupOK
    <2>3. RefusedIffOversized
      <3> SUFFICES ASSUME NEW i \in DOMAIN calls
                   PROVE  (calls[i].status = "refused")
                              <=> (DatagramSize(setup.client, calls[i].content) > 1200)
        BY DEF RefusedIffOversized
      <3> DEFINE c == calls[i].content
                 n == DatagramSize(setup.client, c)
      <3>1. c \in Contents
        BY <2>1 DEF CallsType
      <3>2. calls[i].status = "refused" <=> ~Builds(setup.client, c)
        BY DEF IInv, SentInv
      <3>3. BodyLen(c) \in Nat /\ (Builds(setup.client, c) <=> n <= 1200)
            /\ n = R_TENANT_TLV_LEN + AuthTlvLen(setup.client) + R_PDU_HEADER_LEN + BodyLen(c)
        BY <2>2, <3>1, BuildsIffFits
      <3>4. n \in Nat
        BY <3>3 DEF R_TENANT_TLV_LEN, R_PDU_HEADER_LEN, AuthTlvLen
      <3> HIDE DEF n
      <3>5. ~(n <= 1200) <=> n > 1200
        BY <3>4
      <3> QED BY <3>2, <3>3, <3>5 DEF n
    <2>4. ASSUME NEW d \in net, d.to = "responder"
          PROVE  \E i \in DOMAIN calls : /\ calls[i].content \in Contents
                                         /\ Builds(setup.client, calls[i].content)
                                         /\ d = CallPacket(setup.client, i, calls[i].content)
      BY <2>1, <2>4 DEF IInv, SentInv, CallsType
    <2>5. RequestsUnderstood
      <3> SUFFICES ASSUME NEW d \in net, d.to = "responder"
                   PROVE  Accepts(d) <=> /\ setup.client = setup.responder
                                         /\ d.pdu.type = "rate_request" => d.pdu.label <= 256
        BY DEF RequestsUnderstood
      <3>1. PICK i \in DOMAIN calls : /\ calls[i].content \in Contents
                                      /\ d = CallPacket(setup.client, i, calls[i].content)
        BY <2>4
      <3> QED BY <2>1, <3>1, Understood
    <2>6. AnswersFit
      <3> SUFFICES ASSUME NEW d \in net, d.to = "responder", d.pdu.type = "rate_request",
                          Accepts(d)
                   PROVE  \/ AnswerBuilds(d.pdu)
                          \/ setup.scenario = "count-extra" /\ d.len - d.pdu.tlv + 28 > 1200
                          \/ /\ setup.scenario = "quota"
                             /\ Cardinality(Entries \union {d.pdu.resources[k].bucket :
                                      k \in DOMAIN d.pdu.resources}) > QuotaCap
        BY DEF AnswersFit
      <3>1. PICK i \in DOMAIN calls : /\ calls[i].content \in Contents
                                      /\ Builds(setup.client, calls[i].content)
                                      /\ d = CallPacket(setup.client, i, calls[i].content)
        BY <2>4
      <3> DEFINE c == calls[i].content
      <3>2. setup.client = setup.responder
        BY <2>1, <3>1, Understood
      <3>3. /\ d.tenant = [key |-> setup.client, id |-> i]
            /\ ~IsRate(c) => d.pdu = ReportPdu(c) /\ d.pdu.type = "latency_report"
        BY <2>2, <3>1, CallFields
      <3>4. IsRate(c)
        BY <3>3
      <3>5. /\ \/ AnswerBuilds(d.pdu)
               \/ setup.scenario = "count-extra" /\ d.len - d.pdu.tlv + 28 > 1200
               \/ setup.scenario = "quota" /\ Charged(c.resources) # Len(c.resources)
            /\ d.pdu.resources = c.resources
        BY <2>1, <3>1, <3>2, <3>4, AnswerFits
      <3>6. Charged(c.resources) # Len(c.resources) =>
                Cardinality(Entries \cup {c.resources[k].bucket : k \in DOMAIN c.resources})
                    > QuotaCap
        BY <2>1, <3>1, OverflowNeedsBuckets
      <3> QED BY <3>5, <3>6
    <2> QED BY <2>3, <2>5, <2>6 DEF FormatsAgree
  <1> QED BY <1>1, Invariance, PTL

(* Every answer meets the code that docs/test-responder.md promises for    *)
(* its scenario when it reaches the client.                                *)
THEOREM IngressAlwaysAsDocumented == Spec => []IngressAsDocumented
  <1>1. IInv => IngressAsDocumented
    <2> SUFFICES ASSUME IInv, NEW d \in net, d.to = "client"
                 PROVE  CASE setup.scenario = "malformed-auth" ->
                               Awaited(d) => IngressCode(d) = IF setup.client = "cookie"
                                                              THEN "auth" ELSE "protocol"
                          [] setup.scenario = "malformed-truncated" ->
                               Awaited(d) => IngressCode(d) = "protocol"
                          [] setup.scenario = "malformed-request-id" ->
                               ~Awaited(d) /\ IngressCode(d) = "ok"
                          [] OTHER -> Awaited(d) => IngressCode(d) = "ok"
      BY DEF IngressAsDocumented
    <2>1. SetupOK /\ CallsType
      BY TypeParts DEF IInv
    <2>2. setup.client = setup.responder /\ \E i \in DOMAIN calls : IsAnswer(d, i)
      BY DEF IInv, AnswerInv
    <2>3. PICK i \in DOMAIN calls : IsAnswer(d, i)
      BY <2>2
    <2>4. /\ setup.scenario = "malformed-request-id" => ~Awaited(d) /\ IngressCode(d) = "ok"
          /\ setup.scenario = "malformed-auth" /\ Awaited(d) =>
                 IngressCode(d) = IF setup.client = "cookie" THEN "auth" ELSE "protocol"
          /\ setup.scenario = "malformed-truncated" /\ Awaited(d) => IngressCode(d) = "protocol"
          /\ setup.scenario \notin {"malformed-auth", "malformed-truncated"} =>
                 IngressCode(d) = "ok"
      BY <2>1, <2>2, <2>3, IngressOf
    <2> QED BY <2>4
  <1> QED BY <1>1, Invariance, PTL

(* However requests are replayed, interleaved or repeat a bucket, no bucket *)
(* is granted more than AllowCount listings and the table keeps its size.  *)
THEOREM ListingsAlwaysWithinQuota == Spec => []ListingsWithinQuota
  <1>1. IInv => ListingsWithinQuota
    <2> SUFFICES ASSUME IInv PROVE ListingsWithinQuota
      OBVIOUS
    <2>1. LedgerType /\ QuotaInv
      BY TypeParts DEF IInv
    <2>2. ASSUME setup.scenario = "quota", NEW b \in Buckets
          PROVE  /\ ledger.allowed[b] <= AllowCount
                 /\ ledger.denied[b] > 0 => ledger.received[b] > AllowCount
                 /\ ~ledger.overflowed =>
                       ledger.allowed[b] = Min({AllowCount, ledger.received[b]})
      <3> DEFINE r == ledger.received[b]
      <3>1. r \in Nat /\ AllowCount \in Nat
        BY <2>1, WireAssumption DEF LedgerType
      <3>2. Min({AllowCount, r}) = IF r <= AllowCount THEN r ELSE AllowCount
        <4> HIDE DEF r
        <4>1. {AllowCount, r} \in SUBSET Nat /\ {AllowCount, r} # {}
          BY <3>1
        <4>2. /\ Min({AllowCount, r}) \in {AllowCount, r}
              /\ \A m \in {AllowCount, r} : Min({AllowCount, r}) <= m
          BY <4>1, LeastNumber
        <4> QED BY <3>1, <4>2
      <3> QED BY <2>1, <2>2, <3>1, <3>2 DEF QuotaInv
    <2> QED BY <2>1, <2>2 DEF ListingsWithinQuota, QuotaInv
  <1> QED BY <1>1, Invariance, PTL
\* The guards of an answer that drops none.
LEMMA GuardsPassed ==
    ASSUME SetupOK, NEW c \in Contents, IsRate(c),
           NEW guards, guards = AnswerGuards(RatePdu(c)),
           setup.scenario \notin {"count-empty", "count-short"}
    PROVE  /\ Len(guards) = Len(c.guards) /\ Len(c.guards) \in Nat
           /\ \A i \in DOMAIN c.guards : guards[i].tracker = c.guards[i].tracker
           /\ setup.scenario # "guard-deny" =>
                  ((\A i \in DOMAIN guards : Passed(guards[i])) <=> Passable(c))
           /\ setup.scenario = "guard-deny" =>
                  ((\A i \in DOMAIN guards : Passed(guards[i])) <=> c.guards = <<>>)
  <1> DEFINE n == Len(c.guards)
  <1>1. /\ n \in Nat /\ DOMAIN c.guards = 1 .. n /\ IsSequence(c.guards)
        /\ \A i \in 1 .. n : c.guards[i].threshold \in Nat
    BY ContentFacts
  <1>2. Len(guards) = n /\ guards = [i \in 1 .. n |-> AnswerGuard(c.guards[i])]
    BY GuardAnswers
  <1>3. DOMAIN guards = 1 .. n
    BY <1>2
  <1>4. ASSUME NEW i \in 1 .. n
        PROVE  /\ guards[i].tracker = c.guards[i].tracker
               /\ setup.scenario # "guard-deny" =>
                      (Passed(guards[i]) <=> c.guards[i].threshold > 0)
               /\ setup.scenario = "guard-deny" => ~Passed(guards[i])
    <2> DEFINE t == c.guards[i].threshold
               cur == IF setup.scenario = "guard-deny" THEN t ELSE IF t > 0 THEN t - 1 ELSE 0
    <2>1. guards[i] = AnswerGuard(c.guards[i])
      BY <1>2
    <2>2. /\ guards[i].tracker = c.guards[i].tracker /\ guards[i].threshold = t
          /\ guards[i].current = cur
      BY <2>1 DEF AnswerGuard
    <2>3. t \in Nat
      BY <1>1
    <2>4. Passed(guards[i]) <=> cur < t
      BY <2>2 DEF Passed
    <2>5. /\ setup.scenario # "guard-deny" => (cur < t <=> t > 0)
          /\ setup.scenario = "guard-deny" => ~(cur < t)
      <3> HIDE DEF t
      <3> QED BY <2>3
    <2> QED BY <2>2, <2>4, <2>5
  <1>5. c.guards = <<>> <=> n = 0
    <2>1. c.guards \in Seq({c.guards[i] : i \in DOMAIN c.guards})
      BY <1>1 DEF IsSequence
    <2> QED BY <2>1, EmptySeq
  <1>6. \A i \in DOMAIN c.guards : guards[i].tracker = c.guards[i].tracker
    BY <1>1, <1>4
  <1>7. setup.scenario # "guard-deny" =>
            ((\A i \in DOMAIN guards : Passed(guards[i])) <=> Passable(c))
    BY <1>1, <1>3, <1>4 DEF Passable
  <1>8. setup.scenario = "guard-deny" =>
            ((\A i \in DOMAIN guards : Passed(guards[i])) <=> c.guards = <<>>)
    <2> SUFFICES ASSUME setup.scenario = "guard-deny"
                 PROVE  (\A i \in DOMAIN guards : Passed(guards[i])) <=> c.guards = <<>>
      OBVIOUS
    <2>1. ASSUME n # 0 PROVE ~ \A i \in DOMAIN guards : Passed(guards[i])
      <3>1. 1 \in 1 .. n
        BY <1>1, <2>1
      <3> QED BY <1>3, <1>4, <3>1
    <2>2. ASSUME n = 0 PROVE \A i \in DOMAIN guards : Passed(guards[i])
      BY <1>3, <2>2
    <2> QED BY <1>5, <2>1, <2>2
  <1> QED BY <1>1, <1>2, <1>6, <1>7, <1>8

LEMMA OutcomeFields ==
    ASSUME NEW pdu, NEW a, a = Outcome(pdu)
    PROVE  /\ a.guards = pdu.guards /\ a.resources = pdu.resources
           /\ a.success <=> /\ \A i \in DOMAIN pdu.guards : Passed(pdu.guards[i])
                            /\ \A i \in DOMAIN pdu.resources : pdu.resources[i].deficit = 0
  <1>1. a.guards = pdu.guards /\ a.resources = pdu.resources
    BY DEF Outcome
  <1>2. a.success <=> ResponseSuccess(pdu)
    BY DEF Outcome
  <1> QED BY <1>1, <1>2 DEF ResponseSuccess

\* What a host is told of an answer, scenario by scenario.
LEMMA OutcomeOf ==
    ASSUME SetupOK, CallsType, NEW i \in DOMAIN calls, NEW d, IsAnswer(d, i),
           NEW a, a = Outcome(d.pdu), NEW c, c = calls[i].content
    PROVE  /\ setup.scenario \in {"allow", "guard-pass"} =>
                  Echoes(c, a) /\ (a.success <=> Passable(c))
           /\ setup.scenario = "deny" =>
                  /\ Echoes(c, a) /\ \A k \in DOMAIN a.resources : a.resources[k].deficit > 0
                  /\ a.success <=> c.resources = <<>> /\ Passable(c)
           /\ setup.scenario = "guard-deny" => Echoes(c, a) /\ (a.success <=> c.guards = <<>>)
           /\ setup.scenario = "quota" =>
                  /\ Echoes(c, a)
                  /\ a.success => \A k \in DOMAIN a.resources :
                                      ledger.allowed[a.resources[k].bucket] > 0
           /\ setup.scenario = "count-empty" => a.success /\ Results(a) = 0
           /\ setup.scenario = "count-short" =>
                  Results(a) = Len(c.guards) + Len(c.resources) - 1
           /\ setup.scenario = "count-extra" =>
                  Results(a) = Len(c.guards) + Len(c.resources) + 1 /\ ~a.success
  <1> DEFINE guards == d.pdu.guards
             resources == d.pdu.resources
             passed == \A k \in DOMAIN guards : Passed(guards[k])
             clear == \A k \in DOMAIN resources : resources[k].deficit = 0
  <1>1. /\ a.guards = guards /\ a.resources = resources
        /\ a.success <=> passed /\ clear
    BY OutcomeFields
  <1>2. c \in Contents /\ IsRate(c) /\ guards = AnswerGuards(RatePdu(c))
        /\ AnswersResources(c, resources)
    BY DEF CallsType, IsAnswer, AnswerShape
  <1>3. /\ Len(c.guards) \in Nat /\ Len(c.resources) \in Nat
        /\ DOMAIN c.guards = 1 .. Len(c.guards) /\ DOMAIN c.resources = 1 .. Len(c.resources)
        /\ IsSequence(c.guards) /\ IsSequence(c.resources)
        /\ c.guards # <<>> \/ c.resources # <<>>
    BY <1>2, ContentFacts
  <1>4. /\ c.guards = <<>> <=> Len(c.guards) = 0
        /\ c.resources = <<>> <=> Len(c.resources) = 0
    <2>1. /\ c.guards \in Seq({c.guards[k] : k \in DOMAIN c.guards})
          /\ c.resources \in Seq({c.resources[k] : k \in DOMAIN c.resources})
      BY <1>3 DEF IsSequence
    <2> QED BY <2>1, EmptySeq
  <1>5. IsSequence(resources) /\ DOMAIN resources = 1 .. Len(resources) /\ Len(resources) \in Nat
    BY <1>2, SequenceLen DEF AnswersResources
  <1> HIDE DEF guards, resources, passed, clear
  <1>6. ASSUME setup.scenario \notin {"count-empty", "count-short", "count-extra"}
        PROVE  /\ Echoes(c, a) /\ DOMAIN resources = DOMAIN c.resources
               /\ \A k \in DOMAIN c.resources :
                      /\ resources[k].deficit \in Nat
                      /\ setup.scenario = "deny" => resources[k].deficit > 0
                      /\ setup.scenario \notin {"deny", "quota"} => resources[k].deficit = 0
                      /\ setup.scenario = "quota" /\ resources[k].deficit = 0 =>
                             ledger.allowed[resources[k].bucket] > 0
               /\ setup.scenario # "guard-deny" => (passed <=> Passable(c))
               /\ setup.scenario = "guard-deny" => (passed <=> c.guards = <<>>)
    <2>1. /\ Len(resources) = Len(c.resources)
          /\ \A k \in DOMAIN c.resources :
                 /\ resources[k].bucket = c.resources[k].bucket
                 /\ resources[k].deficit \in Nat
                 /\ setup.scenario = "deny" => resources[k].deficit > 0
                 /\ setup.scenario \notin {"deny", "quota"} => resources[k].deficit = 0
                 /\ setup.scenario = "quota" /\ resources[k].deficit = 0 =>
                        ledger.allowed[resources[k].bucket] > 0
      BY <1>2, <1>6 DEF AnswersResources
    <2>2. /\ Len(guards) = Len(c.guards)
          /\ \A k \in DOMAIN c.guards : guards[k].tracker = c.guards[k].tracker
          /\ setup.scenario # "guard-deny" => (passed <=> Passable(c))
          /\ setup.scenario = "guard-deny" => (passed <=> c.guards = <<>>)
      BY <1>2, <1>6, GuardsPassed DEF passed
    <2>3. Echoes(c, a)
      BY <1>1, <2>1, <2>2 DEF Echoes
    <2>4. DOMAIN resources = DOMAIN c.resources
      BY <1>3, <1>5, <2>1
    <2> QED BY <2>1, <2>2, <2>3, <2>4
  <1>7. ASSUME setup.scenario \in {"allow", "guard-pass"}
        PROVE  Echoes(c, a) /\ (a.success <=> Passable(c))
    <2>1. clear
      BY <1>6, <1>7 DEF clear
    <2> QED BY <1>1, <1>6, <1>7, <2>1
  <1>8. ASSUME setup.scenario = "deny"
        PROVE  /\ Echoes(c, a) /\ \A k \in DOMAIN a.resources : a.resources[k].deficit > 0
               /\ a.success <=> c.resources = <<>> /\ Passable(c)
    <2>1. Echoes(c, a) /\ DOMAIN resources = 1 .. Len(c.resources) /\ (passed <=> Passable(c))
          /\ \A k \in DOMAIN resources : resources[k].deficit > 0 /\ resources[k].deficit \in Nat
      BY <1>3, <1>6, <1>8
    <2>2. clear <=> Len(c.resources) = 0
      <3>1. ASSUME Len(c.resources) # 0 PROVE ~clear
        <4>1. 1 \in DOMAIN resources
          BY <1>3, <2>1, <3>1
        <4>2. ~(resources[1].deficit = 0)
          BY <2>1, <4>1
        <4> QED BY <4>1, <4>2 DEF clear
      <3>2. ASSUME Len(c.resources) = 0 PROVE clear
        BY <2>1, <3>2 DEF clear
      <3> QED BY <3>1, <3>2
    <2> QED BY <1>1, <1>4, <2>1, <2>2
  <1>9. ASSUME setup.scenario = "guard-deny"
        PROVE  Echoes(c, a) /\ (a.success <=> c.guards = <<>>)
    <2>1. clear
      BY <1>6, <1>9 DEF clear
    <2> QED BY <1>1, <1>6, <1>9, <2>1
  <1>10. ASSUME setup.scenario = "quota"
         PROVE  /\ Echoes(c, a)
                /\ a.success => \A k \in DOMAIN a.resources :
                                    ledger.allowed[a.resources[k].bucket] > 0
    <2>1. /\ Echoes(c, a) /\ DOMAIN resources = DOMAIN c.resources
          /\ \A k \in DOMAIN c.resources : resources[k].deficit = 0 =>
                 ledger.allowed[resources[k].bucket] > 0
      BY <1>6, <1>10
    <2> QED BY <1>1, <2>1 DEF clear
  <1>11. ASSUME setup.scenario = "count-empty" PROVE a.success /\ Results(a) = 0
    <2>1. guards = <<>> /\ Len(guards) = 0
      BY <1>2, <1>11, GuardAnswers
    <2>2. resources = <<>>
      BY <1>2, <1>11 DEF AnswersResources
    <2>3. passed /\ clear /\ Len(resources) = 0
      BY <2>1, <2>2 DEF passed, clear
    <2> QED BY <1>1, <2>1, <2>3 DEF Results
  <1>12. ASSUME setup.scenario = "count-short"
         PROVE  Results(a) = Len(c.guards) + Len(c.resources) - 1
    <2>1. Len(guards) = IF c.resources = <<>> THEN Len(c.guards) - 1 ELSE Len(c.guards)
      BY <1>2, <1>12, GuardAnswers
    <2>2. Len(resources) = IF c.resources = <<>> THEN 0 ELSE Len(c.resources) - 1
      BY <1>2, <1>12 DEF AnswersResources
    <2>3. Results(a) = Len(guards) + Len(resources)
      BY <1>1 DEF Results
    <2> DEFINE m == Len(c.guards)
               n == Len(c.resources)
    <2>4. m \in Nat /\ n \in Nat /\ (c.resources = <<>> <=> n = 0)
      BY <1>3, <1>4
    <2>5. Results(a) = (IF c.resources = <<>> THEN m - 1 ELSE m)
                         + (IF c.resources = <<>> THEN 0 ELSE n - 1)
      BY <2>1, <2>2, <2>3
    <2> HIDE DEF m, n
    <2>6. Results(a) = m + n - 1
      BY <2>4, <2>5
    <2> QED BY <2>6 DEF m, n
  <1>13. ASSUME setup.scenario = "count-extra"
         PROVE  Results(a) = Len(c.guards) + Len(c.resources) + 1 /\ ~a.success
    <2>1. Len(guards) = Len(c.guards)
      BY <1>2, <1>13, GuardAnswers
    <2>2. Len(resources) = Len(c.resources) + 1 /\ resources[Len(resources)].deficit # 0
      BY <1>2, <1>13 DEF AnswersResources
    <2>3. Len(resources) \in DOMAIN resources
      BY <1>3, <1>5, <2>2
    <2>4. ~clear
      BY <2>2, <2>3 DEF clear
    <2>5. Results(a) = Len(guards) + Len(resources)
      BY <1>1 DEF Results
    <2> DEFINE m == Len(c.guards)
               n == Len(c.resources)
    <2>6. m \in Nat /\ n \in Nat /\ Results(a) = m + (n + 1)
      BY <1>3, <2>1, <2>2, <2>5
    <2> HIDE DEF m, n
    <2>7. Results(a) = m + n + 1
      BY <2>6
    <2> QED BY <1>1, <2>4, <2>7 DEF m, n
  <1> QED BY <1>7, <1>8, <1>9, <1>10, <1>11, <1>12, <1>13

(* Whatever a host is told of a request is what the scenario makes of the  *)
(* guards and resources the request has, for requests of every shape.      *)
THEOREM OutcomeAlwaysOfScenario == Spec => []OutcomeOfScenario
  <1>1. IInv => OutcomeOfScenario
    <2> SUFFICES ASSUME IInv PROVE OutcomeOfScenario
      OBVIOUS
    <2>1. SetupOK /\ CallsType
      BY TypeParts DEF IInv
    <2>2. ASSUME NEW i \in DOMAIN calls, calls[i].status = "answered"
          PROVE  /\ setup.scenario \in {"allow", "deny", "guard-pass", "guard-deny", "quota",
                                        "count-empty", "count-short", "count-extra"}
                 /\ \E d : IsAnswer(d, i) /\ calls[i].answer = Outcome(d.pdu)
      <3>1. PICK d \in net : /\ d.to = "client" /\ d.tenant.id = i
                             /\ calls[i].answer = Outcome(d.pdu)
        BY <2>2 DEF IInv, OutcomeInv
      <3>2. /\ setup.client = setup.responder /\ setup.scenario # "drop"
            /\ \E j \in DOMAIN calls : IsAnswer(d, j)
        BY <3>1 DEF IInv, AnswerInv
      <3>3. setup.scenario \notin {"malformed-auth", "malformed-truncated",
                                   "malformed-request-id"}
        BY <2>2 DEF IInv, OutcomeInv
      <3>4. PICK j \in DOMAIN calls : IsAnswer(d, j)
        BY <3>2
      <3>5. j = i
        BY <2>1, <3>1, <3>2, <3>3, <3>4, IngressOf
      <3>6. setup.scenario \in Scenario
        BY <2>1, WireAssumption DEF SetupOK
      <3> QED BY <3>1, <3>2, <3>3, <3>4, <3>5, <3>6 DEF Scenario
    <2> SUFFICES ASSUME NEW i \in {j \in DOMAIN calls : calls[j].status = "answered"},
                        NEW c, NEW a, c = calls[i].content, a = calls[i].answer
                 PROVE  CASE setup.scenario \in {"allow", "guard-pass"} ->
                               Echoes(c, a) /\ (a.success <=> Passable(c))
                          [] setup.scenario = "deny" ->
                               /\ Echoes(c, a)
                               /\ \A k \in DOMAIN a.resources : a.resources[k].deficit > 0
                               /\ a.success <=> c.resources = <<>> /\ Passable(c)
                          [] setup.scenario = "guard-deny" ->
                               Echoes(c, a) /\ (a.success <=> c.guards = <<>>)
                          [] setup.scenario = "quota" ->
                               /\ Echoes(c, a)
                               /\ a.success => \A k \in DOMAIN a.resources :
                                                  ledger.allowed[a.resources[k].bucket] > 0
                          [] setup.scenario = "count-empty" -> a.success /\ Results(a) = 0
                          [] setup.scenario = "count-short" ->
                               Results(a) = Len(c.guards) + Len(c.resources) - 1
                          [] setup.scenario = "count-extra" ->
                               /\ Results(a) = Len(c.guards) + Len(c.resources) + 1
                               /\ ~a.success
                          [] OTHER -> FALSE
      BY DEF OutcomeOfScenario
    <2>3. PICK d : IsAnswer(d, i) /\ a = Outcome(d.pdu)
      BY <2>2
    <2>4. setup.scenario \in {"allow", "deny", "guard-pass", "guard-deny", "quota",
                              "count-empty", "count-short", "count-extra"}
      BY <2>2
    <2>5. /\ setup.scenario \in {"allow", "guard-pass"} =>
                 Echoes(c, a) /\ (a.success <=> Passable(c))
          /\ setup.scenario = "deny" =>
                 /\ Echoes(c, a) /\ \A k \in DOMAIN a.resources : a.resources[k].deficit > 0
                 /\ a.success <=> c.resources = <<>> /\ Passable(c)
          /\ setup.scenario = "guard-deny" => Echoes(c, a) /\ (a.success <=> c.guards = <<>>)
          /\ setup.scenario = "quota" =>
                 /\ Echoes(c, a)
                 /\ a.success => \A k \in DOMAIN a.resources :
                                     ledger.allowed[a.resources[k].bucket] > 0
          /\ setup.scenario = "count-empty" => a.success /\ Results(a) = 0
          /\ setup.scenario = "count-short" =>
                 Results(a) = Len(c.guards) + Len(c.resources) - 1
          /\ setup.scenario = "count-extra" =>
                 Results(a) = Len(c.guards) + Len(c.resources) + 1 /\ ~a.success
      BY <2>1, <2>3, OutcomeOf, ZenonT(60)
    <2> QED BY <2>4, <2>5
  <1> QED BY <1>1, Invariance, PTL
=============================================================================
