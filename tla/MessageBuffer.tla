--------------------------- MODULE MessageBuffer ---------------------------
(***************************************************************************)
(* quicr::messages::MessageBuffer (src/message_buffer.cpp): the bytes of a *)
(* message, written at the end and read from the front.  A byte has B bits *)
(* here; the layout of variable-length integers scales with it.  A read    *)
(* yields the value and the rest of the buffer, or fails: the exception    *)
(* that makes the receiver drop the message.                               *)
(***************************************************************************)
EXTENDS Naturals, SequencesExt

CONSTANT B   \* bits of a byte; 8 in the code

ASSUME ByteAssumption == B \in Nat /\ B >= 4

Failed == [ok |-> FALSE, val |-> 0, rest |-> <<>>]
Read(v, rest) == [ok |-> TRUE, val |-> v, rest |-> rest]

(* v in k bytes, the most significant first, and back.                     *)
ToBytes(v, k) == [i \in 1..k |-> (v \div 2 ^ (B * (k - i))) % 2 ^ B]
FromBytes(s) == FoldLeft(LAMBDA acc, byte : acc * 2 ^ B + byte, 0, s)

(* Integers of k bytes.                                                    *)
put_uint(buf, v, k) == buf \o ToBytes(v, k)
get_uint_Padded(buf, k) ==
    Read(FromBytes(SubSeq(buf \o [i \in 1..k |-> 0], 1, k)), SubSeq(buf, k + 1, Len(buf)))
get_uint(buf, k) ==
    IF Len(buf) < k THEN Failed
    ELSE Read(FromBytes(SubSeq(buf, 1, k)), SubSeq(buf, k + 1, Len(buf)))

----------------------------------------------------------------------------
(* uintVar_t.  The constructor refuses what needs more than 8B - 3 bits.   *)

UintVarLimit == 2 ^ (8 * B - 3)

(* The marks 0, 10, 110 and 111 of the first byte stand for 1, 2, 4 and 8  *)
(* bytes; the first byte also holds this many bits of the value.           *)
Mark(k) == CASE k = 1 -> 0
             [] k = 2 -> 2 ^ (B - 1)
             [] k = 4 -> 2 ^ (B - 1) + 2 ^ (B - 2)
             [] k = 8 -> 2 ^ (B - 1) + 2 ^ (B - 2) + 2 ^ (B - 3)
FirstBits(k) == CASE k = 1 -> B - 1 [] k = 2 -> B - 2 [] k = 4 -> B - 3 [] k = 8 -> B - 4

(* How many bytes a value is written in, and read from.                    *)
WrittenBytes_OffByOne(v) ==
    CASE v <= 2 ^ (B - 1) -> 1
      [] v > 2 ^ (B - 1) /\ v < 2 ^ (2 * B - 2) -> 2
      [] v >= 2 ^ (2 * B - 2) /\ v < 2 ^ (4 * B - 3) -> 4
      [] v >= 2 ^ (4 * B - 3) -> 8
WrittenBytes(v) ==
    CASE v < 2 ^ (B - 1) -> 1
      [] v >= 2 ^ (B - 1) /\ v < 2 ^ (2 * B - 2) -> 2
      [] v >= 2 ^ (2 * B - 2) /\ v < 2 ^ (4 * B - 3) -> 4
      [] v >= 2 ^ (4 * B - 3) -> 8
MarkedBytes(first) ==
    CASE first < Mark(2) -> 1
      [] first >= Mark(2) /\ first < Mark(4) -> 2
      [] first >= Mark(4) /\ first < Mark(8) -> 4
      [] first >= Mark(8) -> 8

put_uintVar(buf, v) ==
    LET k == WrittenBytes(v)
    IN  buf \o [ToBytes(v, k) EXCEPT ![1] = (@ % 2 ^ FirstBits(k)) + Mark(k)]

(* front() of an empty buffer is undefined, but whatever it yields, the    *)
(* read of a byte that follows throws.                                     *)
get_uintVar(buf) ==
    IF buf = <<>> \/ Len(buf) < MarkedBytes(Head(buf)) THEN Failed
    ELSE LET k == MarkedBytes(Head(buf))
             s == SubSeq(buf, 1, k)
         IN  Read(FromBytes([s EXCEPT ![1] = @ % 2 ^ FirstBits(k)]),
                  SubSeq(buf, k + 1, Len(buf)))

----------------------------------------------------------------------------
(* Byte vectors: the length and the bytes.  pop_front takes the length as   *)
(* a uint16_t, two bytes.                                                   *)

put_bytes(buf, s) == put_uintVar(buf, Len(s)) \o s

get_bytes(buf) ==
    LET size == get_uintVar(buf)
        len == size.val % 2 ^ (2 * B)
    IN  IF ~size.ok \/ len > Len(size.rest) THEN Failed
        ELSE Read(SubSeq(size.rest, 1, len), SubSeq(size.rest, len + 1, Len(size.rest)))
=============================================================================
