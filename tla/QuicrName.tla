----------------------------- MODULE QuicrName -----------------------------
(***************************************************************************)
(* quicr::Name, a 128-bit value in two 64-bit words, and quicr::Namespace, *)
(* a prefix of names (src/quicr_name.cpp, src/quicr_namespace.cpp), with   *)
(* words of W bits.  A Name object goes through the operators that change  *)
(* it; a Namespace is constructed from it.                                 *)
(*                                                                         *)
(* A word is a natural number below 2^W.  To shift a word by its width or  *)
(* more is undefined: `wide` is what the build makes of it, a shift by the *)
(* remainder (the instruction of x86-64 and AArch64) or zero (a constant   *)
(* folded by the compiler).                                                *)
(***************************************************************************)
EXTENDS Integers, Bitwise

CONSTANTS
    W,          \* bits of a word; 64 in the code
    MaxShift    \* the largest shift and namespace length that is tried

ASSUME WidthAssumption == W \in Nat \ {0} /\ MaxShift \in Nat

VARIABLES
    wide,   \* what this build does with a shift of W bits or more
    name,   \* the Name object: [hi, low]
    ns,     \* a temporary Namespace made of it: [name, sig_bits]
    last    \* history: the last operation, its argument and the name before it

vars == <<wide, name, ns, last>>

Word == 0..(2 ^ W - 1)
Name == [hi : Word, low : Word]

(* The number a name stands for.                                           *)
Value(nm) == nm.hi * 2 ^ W + nm.low

----------------------------------------------------------------------------
(* Words.                                                                  *)

Shr(x, k) == IF k < W \/ wide = "remainder" THEN x \div 2 ^ (k % W) ELSE 0
Shl(x, k) == IF k < W \/ wide = "remainder" THEN (x * 2 ^ (k % W)) % 2 ^ W ELSE 0
WordNot(x) == 2 ^ W - 1 - x

----------------------------------------------------------------------------
(* Names.                                                                  *)

(* operator>>= and operator<<=                                             *)
shift_right_NoEarlyReturn(nm, v) ==
    IF v < W
    THEN [hi |-> Shr(nm.hi, v), low |-> Shr(nm.low, v) | Shl(nm.hi, W - v)]
    ELSE [hi |-> 0, low |-> Shr(nm.hi, v - W)]
shift_right(nm, v) ==
    IF v = 0 THEN nm
    ELSE IF v < W
    THEN [hi |-> Shr(nm.hi, v), low |-> Shr(nm.low, v) | Shl(nm.hi, W - v)]
    ELSE [hi |-> 0, low |-> Shr(nm.hi, v - W)]

shift_left(nm, v) ==
    IF v = 0 THEN nm
    ELSE IF v < W
    THEN [hi |-> Shl(nm.hi, v) | Shr(nm.low, W - v), low |-> Shl(nm.low, v)]
    ELSE [hi |-> Shl(nm.low, v - W), low |-> 0]

(* operator+= and operator-=: the carry is seen in the sum that wraps.     *)
add_CarryOnEqual(nm, v) ==
    LET sum == (nm.low + v) % 2 ^ W
    IN  [hi |-> IF sum <= nm.low THEN (nm.hi + 1) % 2 ^ W ELSE nm.hi, low |-> sum]
add(nm, v) ==
    LET sum == (nm.low + v) % 2 ^ W
    IN  [hi |-> IF sum < nm.low THEN (nm.hi + 1) % 2 ^ W ELSE nm.hi, low |-> sum]

subtract_NoWrap(nm, v) ==
    LET diff == (nm.low - v) % 2 ^ W
    IN  [hi |-> IF diff > nm.low THEN nm.hi - 1 ELSE nm.hi, low |-> diff]
subtract(nm, v) ==
    LET diff == (nm.low - v) % 2 ^ W
    IN  [hi |-> IF diff > nm.low THEN (nm.hi - 1) % 2 ^ W ELSE nm.hi, low |-> diff]

(* operator&=, |= and ^= with another name; with a word, the high word stays. *)
bit_and(a, b) == [hi |-> a.hi & b.hi, low |-> a.low & b.low]
bit_or(a, b) == [hi |-> a.hi | b.hi, low |-> a.low | b.low]
bit_xor(a, b) == [hi |-> a.hi ^^ b.hi, low |-> a.low ^^ b.low]
complement(a) == [hi |-> WordNot(a.hi), low |-> WordNot(a.low)]

less(a, b) ==
    \/ a.hi < b.hi
    \/ ~(b.hi < a.hi) /\ a.low < b.low

----------------------------------------------------------------------------
(* Namespaces.                                                             *)

(* ~(~0x0_name >> sig_bits)                                                *)
Mask(sig_bits) ==
    complement(shift_right(complement([hi |-> 0, low |-> 0]), sig_bits))

Namespace(nm, sig_bits) ==
    [name |-> bit_and(nm, Mask(sig_bits)), sig_bits |-> sig_bits]

contains_NoMask(n, nm) == ~less(nm, n.name)
contains(n, nm) == bit_and(nm, Mask(n.sig_bits)) = n.name

contains_namespace(n, prefix) == contains(n, prefix.name)

----------------------------------------------------------------------------
(* A Name can be given any value, by the constructor from hex digits.  The *)
(* namespace of length 0 stands for none.                                  *)
Init ==
    /\ wide \in {"remainder", "zero"}
    /\ name \in Name
    /\ ns = Namespace(name, 0)
    /\ last = [op |-> "none"]

Becomes(op, arg, nm) ==
    /\ name' = nm
    /\ last' = [op |-> op, arg |-> arg, before |-> name]
    /\ ns' = Namespace(nm, 0)
    /\ UNCHANGED wide

Shift(v) ==
    \/ Becomes(">>=", v, shift_right(name, v))
    \/ Becomes("<<=", v, shift_left(name, v))

Add(v) ==
    \/ Becomes("+=", v, add(name, v))
    \/ Becomes("-=", v, subtract(name, v))

(* The operators with a word only reach the low word.                      *)
Bits(v) ==
    \/ Becomes("&=", v, [name EXCEPT !.low = @ & v])
    \/ Becomes("|=", v, [name EXCEPT !.low = @ | v])

BitsOfName(nm) ==
    \/ Becomes("&=", nm, bit_and(name, nm))
    \/ Becomes("|=", nm, bit_or(name, nm))
    \/ Becomes("^=", nm, bit_xor(name, nm))

MakeNamespace(sig_bits) ==
    /\ ns' = Namespace(name, sig_bits)
    /\ last' = [op |-> "Namespace", arg |-> sig_bits, before |-> name]
    /\ UNCHANGED <<wide, name>>

Next ==
    \/ \E v \in 0..MaxShift : Shift(v) \/ MakeNamespace(v)
    \/ \E v \in Word : Add(v) \/ Bits(v)
    \/ \E nm \in Name : BitsOfName(nm)

Spec == Init /\ [][Next]_vars

----------------------------------------------------------------------------
(* Properties.                                                             *)

(* Every variable has its type; in particular no operator leaves a word    *)
(* that a word cannot hold.                                                *)
TypeOK ==
    /\ name \in Name
    /\ ns \in [name : Name, sig_bits : 0..MaxShift]

(* >>= and <<= divide and multiply the number of 2W bits, across the       *)
(* boundary of the words and with shifts of 0, of one word and of more.    *)
ShiftsExact ==
    /\ last.op = ">>=" => Value(name) = Value(last.before) \div 2 ^ last.arg
    /\ last.op = "<<=" =>
          Value(name) = (Value(last.before) * 2 ^ last.arg) % 2 ^ (2 * W)

(* += and -= carry from one word to the other, and only then: names are    *)
(* numbers modulo 2^(2W).                                                  *)
SumsExact ==
    /\ last.op = "+=" =>
          Value(name) = (Value(last.before) + last.arg) % 2 ^ (2 * W)
    /\ last.op = "-=" =>
          Value(name) = (Value(last.before) - last.arg) % 2 ^ (2 * W)

(* A namespace contains the names that share its first sig_bits bits with  *)
(* the name it was made of, and these are an interval of the order that    *)
(* operator< gives the maps.                                               *)
ContainsIsPrefix ==
    last.op = "Namespace" =>
        \A nm \in Name :
            LET rest == 2 ^ (2 * W - ns.sig_bits)
            IN  /\ contains(ns, nm)
                     <=> Value(nm) \div rest = Value(last.before) \div rest
                /\ contains(ns, nm)
                     <=> /\ ~less(nm, ns.name)
                         /\ Value(nm) < Value(ns.name) + rest

----------------------------------------------------------------------------
(* What comments and tests say, and the code does not do.                  *)

(* cmd/really/subscription.cpp:5, lengths are "128 + 1 to handle zero and   *)
(* 128": a namespace of all 2W bits contains one name.                      *)
FullLengthIsOneName ==
    ns.sig_bits = 2 * W => \A nm \in Name : contains(ns, nm) => nm = last.before

(* test/namespace.cpp:40, a namespace with fewer significant bits is not    *)
(* contained in one with more: contains(Namespace) only when every name of  *)
(* the one is a name of the other.                                          *)
ContainedNamespaceIsSubset ==
    \A len \in 0..MaxShift :
        LET wider == Namespace(name, len)
        IN  contains_namespace(ns, wider) =>
                \A nm \in Name : contains(wider, nm) => contains(ns, nm)
=============================================================================
