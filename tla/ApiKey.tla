------------------------------- MODULE ApiKey -------------------------------
(***************************************************************************)
(* The API key of r_crypto.c: bech32 text around 45 bytes, a version, a    *)
(* key identifier, a secret and a word of packed quotas.  A machine word   *)
(* is the set of the positions of its one bits, a byte likewise, so that   *)
(* 32- and 64-bit values keep their width.  The text is kept as what the   *)
(* decoder asks of it: its characters, its prefix, the number of its data  *)
(* characters, whether they are of the alphabet and sum up, and what they  *)
(* leave over when taken as bytes.                                         *)
(***************************************************************************)
EXTENDS Integers, FiniteSetsExt

\* Lengths in bytes: R_CREDENTIAL_*_LEN.
IdLen == 8
QuotaLen == 4
PayloadLen == 1 + IdLen + 32 + QuotaLen
ChecksumLen == 6
FormatVersion == 1

\* What the bits of a byte weigh, from bit 0 on.
Weight == <<1, 2, 4, 8, 16, 32, 64, 128>>

\* The number that a set of bits of a byte stands for.
Number(bits) ==
    LET Worth(b) == IF b \in bits THEN Weight[b + 1] ELSE 0
    IN  Worth(0) + Worth(1) + Worth(2) + Worth(3) + Worth(4) + Worth(5)
          + Worth(6) + Worth(7)

-----------------------------------------------------------------------------
(* Bytes and bits                                                          *)

\* r_read_le64_local and r_read_le32_local: the first byte is the lowest.
ReadLe(bytes) ==
    UNION {{8 * j + b : b \in bytes[j]} : j \in DOMAIN bytes}

\* (word >> low) & (2^width - 1)
Slice(word, low, width) ==
    Number({i - low : i \in word \cap (low..(low + width - 1))})

\* r_convert_bits_5_to_8_no_pad: the bytes that n characters make, the bits
\* left over, and the two tests on them.
PayloadBytes(n) == (5 * n) \div 8
LeftOver(n) == (5 * n) % 8
BitsConvert(key) ==
    LET n == key.chars - ChecksumLen
    IN  LeftOver(n) < 5 /\ key.pad = 0

-----------------------------------------------------------------------------
(* The quota word                                                          *)

\* The fields of r_decode_quota_word, by their shifts and masks.
RateExp(word) == Slice(word, 0, 5)
LatencyExp(word) == Slice(word, 5, 5)
LabelsExp(word) == Slice(word, 10, 5)
BufferExp(word) == Slice(word, 15, 4)

\* Mutant: the mask of the field before it, a bit short.
DedupUnitsNarrow(word) == Slice(word, 19, 7)

DedupUnits(word) == Slice(word, 19, 8)
WindowExp(word) == Slice(word, 27, 5)

QuotasInRange(word) ==
    /\ RateExp(word) <= 24
    /\ LatencyExp(word) <= 24
    /\ DedupUnits(word) \in 1..200

\* r_bech32_quotas_t: powers of two as one bit, UINT32_MAX as all 32.
QuotasOf(word) ==
    [rate    |-> {RateExp(word)},
     latency |-> {LatencyExp(word)},
     labels  |-> {LabelsExp(word)},
     buffer  |-> {BufferExp(word)},
     dedupMs |-> DedupUnits(word) * 10,
     window  |-> IF WindowExp(word) = 31 THEN 0..31 ELSE {WindowExp(word)}]

-----------------------------------------------------------------------------
(* The tests of r_decode_api_key_bech32_with_quotas, in their order        *)

\* Printable characters, at least one, and of one case.
CharactersPass(key) == key.text = "fine"

\* A last '1', something before it and a checksum's worth behind it.
Separated(key) ==
    key.hrp \notin {"none", "empty"} /\ key.chars >= ChecksumLen

\* r_bech32_char_value of every character, then r_bech32_verify_checksum
\* over the prefix and the data.
InAlphabet(key) == key.alphabet
ChecksumPasses(key) == key.checksum

PrefixKnown(key) == key.hrp \in {"rl-cookie", "rl-aes"}
TypeOf(key) == IF key.hrp = "rl-cookie" THEN "cookie" ELSE "aes"

PayloadFits(key) == PayloadBytes(key.chars - ChecksumLen) = PayloadLen
VersionKnown(key) == key.version = FormatVersion

\* What the decoder hands out at its end.
Decoded(key) ==
    [type   |-> TypeOf(key),
     id     |-> ReadLe(key.id),
     quotas |-> QuotasOf(ReadLe(key.word))]

-----------------------------------------------------------------------------
(* The issuer of keys: external, after docs/api.md and the decoder         *)

ByteOf(word, j) == {b \in 0..7 : 8 * j + b \in word}
WriteLe(word, len) == [j \in 0..(len - 1) |-> ByteOf(word, j)]

\* The bits of a number below 256.
Bits(n) == {b \in 0..7 : (n \div Weight[b + 1]) % 2 = 1}

\* The fields of a quota word, each in its width, which are packed from the
\* lowest bit up, the one below the rest.
Fields == (0..31) \X (0..31) \X (0..31) \X (0..15) \X (0..255) \X (0..31)
PutBelow(rest, width, field) == Bits(field) \cup {width + b : b \in rest}
Pack(fields) ==
    LET window == Bits(fields[6])
        dedup  == PutBelow(window, 8, fields[5])
        buffer == PutBelow(dedup, 4, fields[4])
        labels == PutBelow(buffer, 5, fields[3])
        latency == PutBelow(labels, 5, fields[2])
    IN  PutBelow(latency, 5, fields[1])

\* A key as the service writes it.
Issue(type, id, fields) ==
    [text |-> "fine", hrp |-> type, chars |-> 78, alphabet |-> TRUE,
     checksum |-> TRUE, pad |-> 0, version |-> FormatVersion,
     id |-> WriteLe(id, IdLen), word |-> WriteLe(Pack(fields), QuotaLen)]

\* The quotas that the issuer of these fields means.
Meant(fields) ==
    [rate |-> {fields[1]}, latency |-> {fields[2]}, labels |-> {fields[3]},
     buffer |-> {fields[4]}, dedupMs |-> fields[5] * 10,
     window |-> IF fields[6] = 31 THEN 0..31 ELSE {fields[6]}]

\* Quotas that the service grants.
Grantable(fields) ==
    fields[1] <= 24 /\ fields[2] <= 24 /\ fields[5] \in 1..200
=============================================================================
