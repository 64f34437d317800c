----------------------------- MODULE MCSystem ------------------------------
(***************************************************************************)
(* Finite instances of System: a wide namespace A, and a narrower one B    *)
(* inside it.                                                              *)
(***************************************************************************)
EXTENDS System

CONSTANTS A, B, a, b, d

MCNameOf == [n \in Namespace |-> IF n = A THEN a ELSE b]
MCCovers == [n \in Namespace |-> IF n = A THEN {a, b} ELSE {b}]
NamespaceMessages(types) == [type : types, ns : Namespace]
Objects == [type : {"Publish"}, name : {b}]
AllTraffic ==
    NamespaceMessages({"Subscribe", "Unsubscribe", "PublishIntent", "PublishIntentEnd"})
      \cup Objects
Publisher == NamespaceMessages({"PublishIntent"}) \cup Objects
Subscriber == NamespaceMessages({"Subscribe", "Unsubscribe"})
AllButObjects == AllTraffic \ Objects
=============================================================================
