-------------------------------- MODULE Maps -------------------------------
(***************************************************************************)
(* std::map as a function whose domain is the set of keys in the map.      *)
(***************************************************************************)
EXTENDS Functions

(* The maps from some of S to T.                                           *)
PartialFn(S, T) == UNION {[D -> T] : D \in SUBSET S}

EmptyMap == [x \in {} |-> x]

(* m[k] = v                                                                *)
Put(f, k, v) == [x \in DOMAIN f \cup {k} |-> IF x = k THEN v ELSE f[x]]

(* m.erase(k) for every k in S                                             *)
EraseKeys(f, S) == Restrict(f, DOMAIN f \ S)
=============================================================================
