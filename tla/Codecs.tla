-------------------------------- MODULE Codecs --------------------------------
(***************************************************************************)
(* Two codecs: pkg/bytes/bytes_packet.go, the packets of the chat hub, and *)
(* pkg/codes/custom_radix.go, numbers in a radix of its own digits.        *)
(*                                                                         *)
(* A byte has ByteCount values (256 in the code); an int32 is a word of    *)
(* four bytes with a sign, and an int is taken to be as wide.  The         *)
(* marshaler makes of each payload bytes of its own, which may begin with  *)
(* those of another payload, as the JSON number 123 does with 12;          *)
(* NoPayload is nil.                                                       *)
(***************************************************************************)
EXTENDS Integers, Sequences, SequencesExt

CONSTANTS
    ByteCount,
    Base,               \* the digits of CustomRadix
    Words,              \* the int32 values tried
    Payloads, NoPayload,
    Marshalled,         \* the bytes of each payload: JSON in the code
    SignatureLen        \* Signer.SignatureLen

WordCount == ByteCount * ByteCount * ByteCount * ByteCount
Least == -(WordCount \div 2)
Int32(n) == ((n - Least) % WordCount) + Least

ASSUME CodecsAssumption ==
    /\ ByteCount \in Nat \ {0, 1} /\ Base \in Nat \ {0, 1}
    /\ Words \subseteq Int /\ \A n \in Words : Least <= n /\ n < -Least
    /\ Marshalled \in [Payloads -> Seq(0 .. ByteCount - 1) \ {<<>>}]
    /\ \A q, r \in Payloads : Marshalled[q] = Marshalled[r] => q = r
    /\ NoPayload \notin Payloads
    /\ SignatureLen \in Nat \ {0}

MetaLength == 9

VARIABLES
    job,        \* what is done: "number", "request" or "reply", and how far
    given,      \* its input
    made,       \* what was encoded: digits, or the bytes on the wire
    got         \* what was decoded

codecVars == <<job, given, made, got>>

Failed == [ok |-> FALSE]

-----------------------------------------------------------------------------
(* CustomRadix.  The sign is a digit of its own, Minus.                     *)
Minus == -1

Digits ==
    LET digits[n \in 0 .. -Least] ==
            IF n < Base THEN IF n = 0 THEN <<>> ELSE <<n>>
            ELSE Append(digits[n \div Base], n % Base)
    IN  digits

(* Encode(-num) of the least number is a call with the same number: there   *)
(* is no result.                                                            *)
Encode(num) ==
    CASE num = Least -> Failed
      [] num < 0 /\ num # Least -> [ok |-> TRUE, text |-> <<Minus>> \o Digits[-num]]
      [] num = 0 -> [ok |-> TRUE, text |-> <<0>>]
      [] OTHER -> [ok |-> TRUE, text |-> Digits[num]]

Value(digits) ==
    LET v[k \in 0 .. Len(digits)] == IF k = 0 THEN 0 ELSE Int32(v[k - 1] * Base + digits[k])
    IN  v[Len(digits)]

Decode(text) ==
    LET negative == text # <<>> /\ Head(text) = Minus
        digits == IF negative THEN Tail(text) ELSE text
    IN  IF digits = <<>> \/ \E k \in DOMAIN digits : digits[k] \notin 0 .. Base - 1
        THEN Failed
        ELSE [ok |-> TRUE, num |-> IF negative THEN -Value(digits) ELSE Value(digits)]

-----------------------------------------------------------------------------
(* PacketProtocol.                                                          *)

(* The bytes of an int32, highest first: shifts and masks.                  *)
ToBytes(n) ==
    <<(n \div (ByteCount * ByteCount * ByteCount)) % ByteCount,
      (n \div (ByteCount * ByteCount)) % ByteCount, (n \div ByteCount) % ByteCount, n % ByteCount>>

FromBytes(data, at) ==
    Int32(((data[at] * ByteCount + data[at + 1]) * ByteCount + data[at + 2]) * ByteCount
          + data[at + 3])

(* data[from:to]; outside of the data it panics.                            *)
InRange(data, from, to) == 0 <= from /\ from <= to /\ to <= Len(data)
Slice(data, from, to) == SubSeq(data, from + 1, to)

(* External: the signature of some bytes, which they determine and which is *)
(* made of no bytes (a real one is only unlikely to occur in a packet), a   *)
(* cipher that takes byte by byte, so that it refuses nothing, and the      *)
(* marshaler.                                                               *)
SignatureOf(data) ==
    LET hash[k \in 0 .. Len(data)] ==
            IF k = 0 THEN 0 ELSE (hash[k - 1] * 3 + data[k] + 7) % 97
    IN  [k \in 1 .. SignatureLen |-> ByteCount + hash[Len(data)] * k]
Encrypt(body) == [k \in DOMAIN body |-> (body[k] + 1) % ByteCount]
Decrypt(body) == [k \in DOMAIN body |-> (body[k] + ByteCount - 1) % ByteCount]

Marshal(payload) == IF payload = NoPayload THEN <<>> ELSE Marshalled[payload]
Unmarshal(body) == IF \E q \in Payloads : Marshalled[q] = body
                   THEN [ok |-> TRUE, payload |-> CHOOSE q \in Payloads : Marshalled[q] = body]
                   ELSE Failed

GetMeta(data) ==
    IF Len(data) < MetaLength THEN Failed
    ELSE [ok |-> TRUE, msgType |-> data[1], requestId |-> FromBytes(data, 2),
          timestamp |-> FromBytes(data, 6)]

(* The body goes out only if there is a cipher for it.                      *)
EncodeResp(p, msgType, requestId, timestamp, code, payload) ==
    LET meta == <<msgType % ByteCount>> \o ToBytes(requestId) \o ToBytes(timestamp)
        out == meta \o <<code>>
               \o (IF p.cryptor THEN Encrypt(Marshal(payload)) ELSE <<>>)
    IN  IF p.signer THEN out \o SignatureOf(out) ELSE out

(* The body of a request, between the meta data and the signature.          *)
Body(meta, p, body) ==
    LET plain == Unmarshal(IF p.cryptor THEN Decrypt(body) ELSE body)
    IN  IF body = <<>> THEN [ok |-> TRUE, meta |-> meta, payload |-> NoPayload]
        ELSE IF plain.ok THEN [ok |-> TRUE, meta |-> meta, payload |-> plain.payload]
        ELSE Failed

Panicked == [ok |-> FALSE, panic |-> TRUE]

(* Mutant: the start of the signature is not compared with the meta data.   *)
DecodeReqUnchecked(p, data) ==
    LET meta == GetMeta(data)
        signStart == Len(data) - SignatureLen
    IN  CASE ~meta.ok -> Failed
          [] meta.ok /\ ~p.signer -> Body(meta, p, Slice(data, MetaLength, Len(data)))
          [] OTHER ->
                IF ~InRange(data, MetaLength, signStart) THEN Panicked
                ELSE IF Slice(data, signStart, Len(data)) = SignatureOf(Slice(data, 0, signStart))
                THEN Body(meta, p, Slice(data, MetaLength, signStart))
                ELSE Failed

DecodeReq(p, data) ==
    LET meta == GetMeta(data)
        signStart == Len(data) - SignatureLen
    IN  CASE ~meta.ok -> Failed
          [] meta.ok /\ ~p.signer -> Body(meta, p, Slice(data, MetaLength, Len(data)))
          [] OTHER ->
                IF signStart >= Len(data) \/ signStart < MetaLength THEN Failed
                ELSE IF ~InRange(data, MetaLength, signStart) THEN Panicked
                ELSE IF Slice(data, signStart, Len(data)) = SignatureOf(Slice(data, 0, signStart))
                THEN Body(meta, p, Slice(data, MetaLength, signStart))
                ELSE Failed

-----------------------------------------------------------------------------
Protocols == [signer : BOOLEAN, cryptor : BOOLEAN]

(* External: a request as a client makes it.                                *)
Request(p, msgType, requestId, timestamp, payload) ==
    LET meta == <<msgType>> \o ToBytes(requestId) \o ToBytes(timestamp)
        body == Marshal(payload)
        out == meta \o (IF p.cryptor THEN Encrypt(body) ELSE body)
    IN  IF p.signer THEN out \o SignatureOf(out) ELSE out

CodecInit == job = "idle" /\ given = <<>> /\ made = <<>> /\ got = Failed

Number ==
    /\ job = "idle"
    /\ \E n \in Least .. -Least - 1 :
       /\ given' = n
       /\ LET e == Encode(n) IN
          IF e.ok THEN job' = "number" /\ made' = e.text /\ got' = Decode(e.text)
          ELSE job' = "refused" /\ UNCHANGED <<made, got>>

(* A request that arrives whole, or cut off after some bytes.               *)
Receive ==
    /\ job = "idle"
    /\ \E p \in Protocols, id \in Words, ts \in Words, payload \in Payloads \cup {NoPayload} :
       LET whole == Request(p, 1, id, ts, payload) IN
       /\ given' = [p |-> p, requestId |-> id, timestamp |-> ts, payload |-> payload, size |-> Len(whole)]
       /\ \E n \in 0 .. Len(whole) : made' = SubSeq(whole, 1, n)
       /\ got' = DecodeReq(p, made')
    /\ job' = "request"

Respond ==
    /\ job = "idle"
    /\ \E p \in Protocols, id \in Words, ts \in Words, payload \in Payloads \cup {NoPayload} :
       /\ given' = [p |-> p, requestId |-> id, timestamp |-> ts, payload |-> payload]
       /\ made' = EncodeResp(p, ByteCount + 1, id, ts, 1, payload)
       /\ got' = GetMeta(made')
    /\ job' = "reply"

CodecNext == Number \/ Receive \/ Respond

-----------------------------------------------------------------------------
(* A number comes back from its digits, which have no leading zero.         *)
NumbersInvert ==
    job = "number" =>
        /\ got = [ok |-> TRUE, num |-> given]
        /\ \A k \in DOMAIN made : made[k] = 0 =>
              Len(made) = 1 \/ \E i \in 1 .. k - 1 : made[i] \notin {0, Minus}

(* A whole request gives its meta data and its payload with and without     *)
(* signature and cipher.  One that was cut off is refused if it has a       *)
(* signature; without one it is refused or has the right meta data and, of  *)
(* all payloads, one whose bytes begin the bytes that were sent: nil, or    *)
(* 12 instead of 123.  The slices taken of it are always within the data.   *)
RequestsInvert ==
    job = "request" =>
        /\ got # Panicked
        /\ Len(made) = given.size \/ given.p.signer => (got.ok <=> Len(made) = given.size)
        /\ got.ok => /\ got.meta.requestId = given.requestId
                     /\ got.meta.timestamp = given.timestamp
                     /\ IsPrefix(Marshal(got.payload), Marshal(given.payload))
        /\ got.ok /\ Len(made) = given.size => got.payload = given.payload

(* The meta data of an answer can be read, negative words too.              *)
RepliesInvert ==
    job = "reply" => got = [ok |-> TRUE, msgType |-> 1, requestId |-> given.requestId,
                            timestamp |-> given.timestamp]

(* Decoding gives back what was encoded.                                    *)
CodecsInvert == NumbersInvert /\ RequestsInvert /\ RepliesInvert
=============================================================================
