-------------------------- MODULE MCReallyServer ---------------------------
(***************************************************************************)
(* Finite instances of ReallyServer. The names are those of a four-bit     *)
(* namespace tree, cut down to what the properties tell apart: a wide      *)
(* namespace A, a narrower one B inside it, and, where keys may collide,   *)
(* AA, which has A's masked name and a greater length.                     *)
(***************************************************************************)
EXTENDS ReallyServer, TLC

CONSTANTS c1, c2, A, AA, B, a, b

DistinctNamespaces == {A, B}
CollidingNamespaces == {A, AA}
ContextSymmetry == Permutations(Context)
MCNames == {a, b}
MCNameOf == [n \in Namespace |-> IF n = B THEN b ELSE a]
MCCovers == [n \in Namespace |->
                IF n = A THEN {a, b} ELSE IF n = AA THEN {a} ELSE {b}]
(* What peers send.                                                        *)
NamespaceMessages(types) == [type : types, ns : Namespace]
Object(nm) == [type |-> "Publish", name |-> nm]
Forwarding ==
    NamespaceMessages({"Subscribe"})
      \cup {[type |-> "Unsubscribe", ns |-> A], [type |-> "PublishIntent", ns |-> A]}
      \cup {Object(a), Object(b)}
AllTraffic ==
    NamespaceMessages({"Subscribe", "Unsubscribe", "PublishIntent", "PublishIntentEnd"})
      \cup {Object(a), [type |-> "Other"]}
=============================================================================
