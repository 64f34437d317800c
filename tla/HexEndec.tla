------------------------------ MODULE HexEndec -----------------------------
(***************************************************************************)
(* Names as text: the constructor of quicr::Name from hex digits, to_hex   *)
(* (include/quicr/quicr_name.h, src/quicr_name.cpp), and quicr::HexEndec   *)
(* (include/quicr/hex_endec.h), which packs values of given widths into    *)
(* the text of a name and takes them out again.                            *)
(*                                                                         *)
(* A digit has D bits.  A text is the sequence of its digits after "0x",   *)
(* which every reader strips; a character that is no digit is read as 0,   *)
(* like the digit 0, and so is not told apart from it.                     *)
(*                                                                         *)
(* HexEndec comes in two versions, for texts of one word and of more (here *)
(* of two): the first computes in a word, where a field as wide as the     *)
(* word is an undefined shift, the second in a bitset, where it is not.    *)
(***************************************************************************)
EXTENDS QuicrName, Sequences

LOCAL INSTANCE SequencesExt

CONSTANTS
    D,          \* bits of a digit; 4 in the code
    MaxText,    \* bound on the digits of a text
    MaxFields   \* bound on the fields of a distribution

ASSUME DigitAssumption == D \in 1..W /\ W % D = 0 /\ MaxText \in Nat /\ MaxFields \in Nat

Digit == 0..(2 ^ D - 1)
Text == UNION {[1..k -> Digit] : k \in 0..MaxText}
WordDigits == W \div D

----------------------------------------------------------------------------
(* Words and names as text.                                                *)

hex_to_uint(t) == FoldLeft(LAMBDA y, x : (2 ^ D * y + x) % 2 ^ W, 0, t)
uint_to_hex(y) == [i \in 1..WordDigits |-> (y \div 2 ^ (W - i * D)) % 2 ^ D]

to_hex(nm) == uint_to_hex(nm.hi) \o uint_to_hex(nm.low)

(* The constructor throws if the text is too long for a name, and else     *)
(* gives its last digits to the low word.                                  *)
TooLong(t) == Len(t) > 2 * WordDigits
FromText_HighFirst(t) ==
    IF Len(t) > WordDigits
    THEN [hi |-> hex_to_uint(SubSeq(t, 1, WordDigits)),
          low |-> hex_to_uint(SubSeq(t, WordDigits + 1, Len(t)))]
    ELSE [hi |-> 0, low |-> hex_to_uint(t)]
FromText(t) ==
    LET cut == Len(t) - WordDigits
    IN  IF Len(t) > WordDigits
        THEN [hi |-> hex_to_uint(SubSeq(t, 1, cut)),
              low |-> hex_to_uint(SubSeq(t, cut + 1, Len(t)))]
        ELSE [hi |-> 0, low |-> hex_to_uint(t)]

----------------------------------------------------------------------------
(* HexEndec for a Size of `words` words.  dist: the widths of the fields.  *)

(* value & ~(~0 << width)                                                  *)
KeepLow(value, width) == value & WordNot(Shl(2 ^ W - 1, width))

EncodeWord(dist, values) ==
    LET bits == FoldLeft(LAMBDA acc, i : Shl(acc, dist[i]) | KeepLow(values[i], dist[i]),
                         0, [i \in 1..Len(dist) |-> i])
    IN  uint_to_hex(bits)

EncodeWide_NoMask(dist, values) ==
    LET bits == FoldLeft(LAMBDA acc, i : ((acc * 2 ^ dist[i]) % 2 ^ (2 * W)) | values[i],
                         0, [i \in 1..Len(dist) |-> i])
    IN  uint_to_hex(bits \div 2 ^ W) \o uint_to_hex(bits % 2 ^ W)
EncodeWide(dist, values) ==
    LET field(i) == IF dist[i] >= W THEN values[i] ELSE KeepLow(values[i], dist[i])
        bits == FoldLeft(LAMBDA acc, i : ((acc * 2 ^ dist[i]) % 2 ^ (2 * W)) | field(i),
                         0, [i \in 1..Len(dist) |-> i])
    IN  uint_to_hex(bits \div 2 ^ W) \o uint_to_hex(bits % 2 ^ W)

Encode(words, dist, values) ==
    IF words = 1 THEN EncodeWord(dist, values) ELSE EncodeWide(dist, values)

(* The fields of a word are taken from its end, ...                        *)
DecodeWord(dist, t) ==
    FoldRight(LAMBDA width, acc : [bits |-> Shr(acc.bits, width),
                                   out |-> <<KeepLow(acc.bits, width)>> \o acc.out],
              dist, [bits |-> hex_to_uint(t), out |-> <<>>]).out

(* ... those of two words from the beginning.  to_ullong throws when a     *)
(* field does not fit a word, as the length check does.                    *)
Throws == <<>>
DecodeWide(dist, t) ==
    LET read == [bits |-> Value([hi |-> hex_to_uint(SubSeq(t, 1, WordDigits)),
                                 low |-> hex_to_uint(SubSeq(t, WordDigits + 1, Len(t)))]),
                 out |-> <<>>]
        out == FoldLeft(LAMBDA acc, width : [bits |-> (acc.bits * 2 ^ width) % 2 ^ (2 * W),
                                             out |-> Append(acc.out, acc.bits \div 2 ^ (2 * W - width))],
                        read, dist).out
    IN  IF Len(t) # 2 * WordDigits \/ \E i \in 1..Len(out) : out[i] \notin Word
        THEN Throws ELSE out

Decode(words, dist, t) ==
    IF words = 1 THEN DecodeWord(dist, t) ELSE DecodeWide(dist, t)

----------------------------------------------------------------------------
(* Widths that fill the text, as the static assertions of Encode demand.   *)
Sum(dist) == FoldLeft(LAMBDA x, y : x + y, 0, dist)
Distribution(words) ==
    {dist \in UNION {[1..k -> 1..(words * W)] : k \in 1..MaxFields} : Sum(dist) = words * W}

(* A name is made of a text or of fields before anything is done with it;   *)
(* as what is made does not depend on the past, this loses nothing.         *)
Fresh == last.op = "none"

NameOfText(t) ==
    /\ Fresh
    /\ name' = IF TooLong(t) THEN name ELSE FromText(t)
    /\ last' = [op |-> "Name(text)", arg |-> t, threw |-> TooLong(t)]
    /\ ns' = Namespace(name', 0)
    /\ UNCHANGED wide

EncodeName(words, dist, values) ==
    /\ Fresh
    /\ name' = FromText(Encode(words, dist, values))
    /\ last' = [op |-> "Encode", words |-> words, dist |-> dist, fields |-> values]
    /\ ns' = Namespace(name', 0)
    /\ UNCHANGED wide

DecodeName(words, dist) ==
    /\ Fresh
    /\ last' = [op |-> "Decode", words |-> words, dist |-> dist,
                fields |-> Decode(words, dist, to_hex(name))]
    /\ ns' = Namespace(name, 0)
    /\ UNCHANGED <<wide, name>>

HexNext ==
    \/ Next
    \/ \E t \in Text : NameOfText(t)
    \/ \E words \in {1, 2} : \E dist \in Distribution(words) :
          \/ \E values \in [1..Len(dist) -> Word] : EncodeName(words, dist, values)
          \/ DecodeName(words, dist)

HexSpec == Init /\ [][HexNext]_vars

----------------------------------------------------------------------------
(* Properties.                                                             *)

(* A text of any length up to that of a name, the odd ones and those that   *)
(* end at a word included, is the number it denotes; a longer one is        *)
(* refused; and to_hex of every name reads as the name again.               *)
TextIsNumber ==
    /\ last.op = "Name(text)" =>
          \/ last.threw /\ Len(last.arg) > 2 * WordDigits
          \/ Value(name) = FoldLeft(LAMBDA y, x : 2 ^ D * y + x, 0, last.arg)
    /\ FromText(to_hex(name)) = name

(* The number whose fields, of the widths dist, are the low bits of values. *)
Packed(dist, values) ==
    FoldLeft(LAMBDA acc, i : acc * 2 ^ dist[i] + (values[i] % 2 ^ dist[i]),
             0, [i \in 1..Len(dist) |-> i])
OverWide(words, dist) == words = 1 /\ \E i \in 1..Len(dist) : dist[i] >= W

(* Encode puts the low bits of each value where Decode finds them again,    *)
(* for both versions, for values that are too large for their field and for *)
(* fields that straddle the words - unless a field is as wide as the word   *)
(* of the one-word version.                                                 *)
FieldsExact ==
    last.op \in {"Encode", "Decode"} /\ ~OverWide(last.words, last.dist) =>
        IF last.fields = Throws
        THEN \E i \in 1..Len(last.dist) : last.dist[i] > W
        ELSE Packed(last.dist, last.fields) = Value(name) % 2 ^ (last.words * W)

----------------------------------------------------------------------------
(* What comments say, and the code does not do.                            *)

(* include/quicr/hex_endec.h:50, "Encodes the last Dist bits of values":    *)
(* of a value that has the whole word, too.                                 *)
WholeWordField ==
    last.op = "Encode" => Packed(last.dist, last.fields) = Value(name)
=============================================================================
