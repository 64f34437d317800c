------------------------------- MODULE Encode ------------------------------
(***************************************************************************)
(* The encoding and decoding of the protocol's messages (src/encode.cpp),  *)
(* between a sender and the handler that decodes what the transport        *)
(* brings.  A message is written and read field by field, in the order of  *)
(* operator<< and of operator>>.                                           *)
(*                                                                         *)
(* A name has two bytes here, a transaction id one uint64_t of two bytes.  *)
(* The transport may hand over a message without its end.                  *)
(***************************************************************************)
EXTENDS MessageBuffer

CONSTANTS
    Transactions,  \* transaction ids
    VarInts,       \* values of uintVar_t fields
    Payloads,      \* lengths of payloads
    Cut            \* may the end of a message be lost?

ASSUME CutAssumption == Cut \in BOOLEAN
ASSUME LimitAssumption == \A v \in VarInts : v < UintVarLimit

VARIABLES
    sent,     \* the message the sender encoded
    buffer,   \* its bytes
    whole,    \* did all of them arrive?
    decoded   \* what the receiver made of it

vars == <<sent, buffer, whole, decoded>>

----------------------------------------------------------------------------
(* enum MessageType                                                        *)
Types == <<"Subscribe", "SubscribeResponse", "SubscribeEnd", "Unsubscribe", "Publish",
           "PublishIntent", "PublishIntentResponse", "PublishIntentEnd">>
Code(t) == CHOOSE i \in DOMAIN Types : Types[i] = t

(* A field of a message after its type, and the kind of its encoding.      *)
F(kind, field) == [kind |-> kind, field |-> field]

(* What operator<< writes and what operator>> reads, in this order.        *)
Codec(written, expected) == [written |-> written, expected |-> expected]

Subscribe == Codec(
    <<F("u64", "transaction_id"), F("ns", "quicr_namespace"), F("u8", "intent")>>,
    <<F("u64", "transaction_id"), F("ns", "quicr_namespace"), F("u8", "intent")>>)

Unsubscribe == Codec(<<F("ns", "quicr_namespace")>>, <<F("ns", "quicr_namespace")>>)

SubscribeResponse == Codec(
    <<F("u8", "response"), F("u64", "transaction_id"), F("ns", "quicr_namespace")>>,
    <<F("u8", "response"), F("u64", "transaction_id"), F("ns", "quicr_namespace")>>)

SubscribeEnd == Codec(
    <<F("u8", "reason"), F("ns", "quicr_namespace")>>,
    <<F("u8", "reason"), F("ns", "quicr_namespace")>>)

PublishIntent == Codec(
    <<F("u64", "transaction_id"), F("ns", "quicr_namespace"), F("bytes", "payload"),
      F("var", "media_id"), F("var", "datagram_capable")>>,
    <<F("u64", "transaction_id"), F("ns", "quicr_namespace"), F("bytes", "payload"),
      F("var", "media_id"), F("var", "datagram_capable")>>)

PublishIntentResponse == Codec(
    <<F("ns", "quicr_namespace"), F("u8", "response"), F("u64", "transaction_id")>>,
    <<F("ns", "quicr_namespace"), F("u8", "response"), F("u64", "transaction_id")>>)

PublishIntentEnd == Codec(
    <<F("ns", "quicr_namespace"), F("bytes", "payload")>>,
    <<F("ns", "quicr_namespace"), F("bytes", "payload")>>)

Header == Codec(
    <<F("name", "name"), F("var", "media_id"), F("var", "group_id"),
      F("var", "object_id"), F("var", "offset_and_fin"), F("u8", "flags")>>,
    <<F("name", "name"), F("var", "media_id"), F("var", "group_id"),
      F("var", "object_id"), F("var", "offset_and_fin"), F("u8", "flags")>>)

PublishDatagram == Codec(
    Header.written \o
      <<F("u8", "media_type"), F("var", "media_data_length"), F("bytes", "media_data")>>,
    Header.expected \o
      <<F("u8", "media_type"), F("var", "media_data_length"), F("bytes", "media_data")>>)

CodecOf(t) ==
    CASE t = "Subscribe" -> Subscribe
      [] t = "SubscribeResponse" -> SubscribeResponse
      [] t = "SubscribeEnd" -> SubscribeEnd
      [] t = "Unsubscribe" -> Unsubscribe
      [] t = "Publish" -> PublishDatagram
      [] t = "PublishIntent" -> PublishIntent
      [] t = "PublishIntentResponse" -> PublishIntentResponse
      [] t = "PublishIntentEnd" -> PublishIntentEnd

----------------------------------------------------------------------------
(* Fields.                                                                 *)

(* The constructor of Namespace clears the bits after the first sig_bits.  *)
Masked(name, sig_bits) ==
    LET rest == 2 ^ (2 * B - sig_bits) IN (name \div rest) * rest

put(buf, kind, v) ==
    CASE kind = "u8" -> put_uint(buf, v, 1)
      [] kind = "u64" -> put_uint(buf, v, 2)
      [] kind = "name" -> put_uint(buf, v, 2)
      [] kind = "ns" -> put_uint(put_uint(buf, v.name, 2), v.sig_bits, 1)
      [] kind = "var" -> put_uintVar(buf, v)
      [] kind = "bytes" -> put_bytes(buf, v)

get_ns(buf) ==
    LET nm == get_uint(buf, 2)
        len == get_uint(nm.rest, 1)
    IN  IF ~nm.ok \/ ~len.ok THEN Failed
        ELSE Read([name |-> Masked(nm.val, len.val), sig_bits |-> len.val], len.rest)

get(buf, kind) ==
    CASE kind = "u8" -> get_uint(buf, 1)
      [] kind = "u64" -> get_uint(buf, 2)
      [] kind = "name" -> get_uint(buf, 2)
      [] kind = "ns" -> get_ns(buf)
      [] kind = "var" -> get_uintVar(buf)
      [] kind = "bytes" -> get_bytes(buf)

----------------------------------------------------------------------------
(* Messages.                                                               *)

EncodeMessage(m) ==
    FoldLeft(LAMBDA buf, f : put(buf, f.kind, m[f.field]),
             put_uint(<<>>, Code(m.type), 1), CodecOf(m.type).written)

(* The receiver looks at the first byte to see which message it is.  The    *)
(* lengths of a datagram must agree.                                        *)
DecodeMessage(buf) ==
    LET t == Types[Head(buf)]
        fields == CodecOf(t).expected
        step(acc, f) ==
            LET r == get(acc.rest, f.kind)
            IN  IF ~acc.ok \/ ~r.ok THEN Failed
                ELSE Read([acc.val EXCEPT ![f.field] = r.val], r.rest)
        empty == [x \in {f.field : f \in Range(fields)} \cup {"type"} |->
                    IF x = "type" THEN t ELSE 0]
        r == FoldLeft(step, Read(empty, Tail(buf)), fields)
    IN  IF r.ok /\ t = "Publish" /\ Len(r.val.media_data) # r.val.media_data_length
        THEN Failed ELSE r

----------------------------------------------------------------------------
Bytes(n) == [i \in 1..n |-> i % 2 ^ B]

(* Namespaces as the application constructs them: none, half and nearly all *)
(* of the bits of a name.                                                   *)
Namespaces == {[name |-> Masked(2 ^ (2 * B) - 2, len), sig_bits |-> len] :
                 len \in {0, B, 2 * B - 1}}

(* The messages the client and the server build.                           *)
Messages ==
    [type : {"Subscribe"}, transaction_id : Transactions, quicr_namespace : Namespaces,
     intent : 0..2]
    \cup [type : {"Unsubscribe"}, quicr_namespace : Namespaces]
    \cup [type : {"SubscribeResponse"}, transaction_id : Transactions,
          quicr_namespace : Namespaces, response : 0..6]
    \cup [type : {"SubscribeEnd"}, quicr_namespace : Namespaces, reason : 0..6]
    \cup [type : {"PublishIntent"}, transaction_id : Transactions,
          quicr_namespace : Namespaces, payload : {Bytes(n) : n \in Payloads},
          media_id : VarInts, datagram_capable : {1}]
    \cup [type : {"PublishIntentResponse"}, quicr_namespace : Namespaces,
          response : {0}, transaction_id : Transactions]
    \cup [type : {"PublishIntentEnd"}, quicr_namespace : Namespaces, payload : {<<>>}]
    \cup {[type |-> "Publish", name |-> 2 ^ (2 * B) - 2, media_id |-> v, group_id |-> 0,
           object_id |-> 0, offset_and_fin |-> w, flags |-> 0, media_type |-> 3,
           media_data_length |-> n, media_data |-> Bytes(n)] :
             v \in VarInts, w \in VarInts, n \in Payloads}

Nothing == [type |-> "none"]

Init ==
    /\ sent = Nothing
    /\ buffer = <<>>
    /\ whole = TRUE
    /\ decoded = Failed

encode(m) ==
    /\ buffer = <<>>
    /\ sent' = m
    /\ buffer' = EncodeMessage(m)
    /\ whole' = TRUE
    /\ decoded' = Failed

(* The transport brings the first n bytes only.                            *)
lose_end(n) ==
    /\ Cut
    /\ whole
    /\ n \in 1..(Len(buffer) - 1)
    /\ buffer' = SubSeq(buffer, 1, n)
    /\ whole' = FALSE
    /\ UNCHANGED <<sent, decoded>>

decode ==
    /\ buffer # <<>>
    /\ decoded' = DecodeMessage(buffer)
    /\ buffer' = <<>>
    /\ UNCHANGED <<sent, whole>>

Next ==
    \/ \E m \in Messages : encode(m)
    \/ \E n \in 1..(Len(buffer) - 1) : lose_end(n)
    \/ decode

Spec == Init /\ [][Next]_vars

----------------------------------------------------------------------------
(* Properties.                                                             *)

(* The state after a decode.                                               *)
Arrived == buffer = <<>> /\ sent # Nothing

(* A message that arrives whole is decoded to what was sent, every field of *)
(* it, with nothing left over: operator>> undoes operator<< for each type.  *)
RoundTrip == Arrived /\ whole => decoded.ok /\ decoded.val = sent /\ decoded.rest = <<>>

(* A message that lost its end is never taken for another one: wherever it  *)
(* is cut, some field runs out of bytes and decoding throws.                *)
CutThrows == Arrived /\ ~whole => ~decoded.ok

----------------------------------------------------------------------------
(* What comments and tests say, and the code does not do.                  *)

(* include/quicr/message_buffer.h:20, a uintVar_t holds what is below       *)
(* 0x1ull << 61: what the constructor accepts is what the receiver gets.    *)
VarIntKept ==
    Arrived /\ sent.type = "PublishIntent" /\ decoded.ok =>
        decoded.val.media_id = sent.media_id

(* test/encode.cpp:103, CHECK_EQ(pi_out.payload, pi.payload).               *)
PayloadKept ==
    Arrived /\ sent.type = "PublishIntent" => decoded.ok /\ decoded.val.payload = sent.payload
=============================================================================
