-------------------------- MODULE MCQuicRServer ----------------------------
(***************************************************************************)
(* Finite instances of QuicRServer.  The names are those of a four-bit     *)
(* namespace tree, cut down to what the properties tell apart: a wide      *)
(* namespace A, a narrower one B inside it, and, where keys may collide,   *)
(* AA, which has A's masked name and a greater length.                     *)
(***************************************************************************)
EXTENDS QuicRServer, TLC

CONSTANTS c1, c2, A, AA, B, a, b

DistinctNamespaces == {A, B}
CollidingNamespaces == {A, AA}
ContextSymmetry == Permutations(Context)
MCNames == {a, b}
MCNameOf == [n \in Namespace |-> IF n = B THEN b ELSE a]
MCCovers == [n \in Namespace |->
                IF n = A THEN {a, b} ELSE IF n = AA THEN {a} ELSE {b}]
(* What peers send; the subscriptions and the publishing share no state.    *)
(* Objects under b come from inside A, and not under A's own key.           *)
Subscriptions == [type : {"Subscribe", "Unsubscribe"}, ns : Namespace]
Publications == [type : {"PublishIntent", "PublishIntentEnd"}, ns : Namespace]
                  \cup [type : {"Publish"}, name : Name]
                  \cup {[type |-> "Other"]}
AnyHandler ==
    Subscriptions
      \cup [type : {"PublishIntent", "PublishIntentEnd"}, ns : {A}]
      \cup {[type |-> "Publish", name |-> b], [type |-> "Other"]}
(* What is sent under an id does not matter to where it goes.              *)
OneMessage == {[type |-> "Publish"]}
=============================================================================
