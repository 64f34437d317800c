-------------------------- MODULE MCQuicRClient ----------------------------
(***************************************************************************)
(* Finite instances of QuicRClient: a wide namespace A, a narrower one B   *)
(* inside it, and AA, which has A's masked name and a greater length.      *)
(***************************************************************************)
EXTENDS QuicRClient, TLC

CONSTANTS d1, d2, A, AA, B, a, b

NestedNamespaces == {A, B}
CollidingNamespaces == {A, AA}
DelegateSymmetry == Permutations(Delegate)
MCNames == {a, b}
MCNameOf == [n \in Namespace |-> IF n = B THEN b ELSE a]
MCCovers == [n \in Namespace |->
                IF n = A THEN {a, b} ELSE IF n = AA THEN {a} ELSE {b}]
=============================================================================
