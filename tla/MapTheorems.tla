---------------------------- MODULE MapTheorems ----------------------------
(***************************************************************************)
(* Facts about std::map as Maps.tla models it, for the proofs about the    *)
(* server, the relay, the client and the ring of fragments.                *)
(***************************************************************************)
EXTENDS Maps, TLAPS

(* A partial function is a function, from some of S, into T.               *)
LEMMA PartialFnIff ==
    ASSUME NEW S, NEW T, NEW f
    PROVE  f \in PartialFn(S, T) <=>
             /\ f = [x \in DOMAIN f |-> f[x]]
             /\ DOMAIN f \subseteq S
             /\ \A x \in DOMAIN f : f[x] \in T
BY DEF PartialFn

(* Put and EraseKeys stay among the partial functions.                     *)
LEMMA PutPartial ==
    ASSUME NEW S, NEW T, NEW f \in PartialFn(S, T), NEW k \in S, NEW v \in T
    PROVE  Put(f, k, v) \in PartialFn(S, T)
BY PartialFnIff DEF Put

(* erase() takes keys away and nothing else.                                *)
LEMMA ErasePartial ==
    ASSUME NEW S, NEW T, NEW f \in PartialFn(S, T), NEW K
    PROVE  EraseKeys(f, K) \in PartialFn(S, T)
BY PartialFnIff DEF EraseKeys, Restrict

(* The empty map is one of them, for any key and value type.                *)
LEMMA EmptyPartial ==
    ASSUME NEW S, NEW T
    PROVE  EmptyMap \in PartialFn(S, T)
<1>1. EmptyMap \in [{} -> T]
    BY DEF EmptyMap
<1>2. {} \in SUBSET S
    OBVIOUS
<1>. QED
    BY <1>1, <1>2 DEF PartialFn

(* A partial function, in the form TypeOK uses.                             *)
LEMMA PartialFnDomain ==
    ASSUME NEW S, NEW T, NEW f
    PROVE  f \in PartialFn(S, T) <=> f \in [DOMAIN f -> T] /\ DOMAIN f \subseteq S
BY DEF PartialFn
=============================================================================
