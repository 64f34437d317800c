----------------------------- MODULE Subscriber ----------------------------
(***************************************************************************)
(* What the client library promises the delegates of an application, as    *)
(* docs/unsubscribe-flows.md tells it, without threads, maps and messages: *)
(* a registration is open from subscribe to its one onSubscriptionEnded,   *)
(* and its delegate is called in between.                                  *)
(*                                                                         *)
(* QuicRClient implements this specification.  The code takes two          *)
(* liberties, where a registration ends while a message is looked up for   *)
(* it: a delegate that is in hand is called after the end, and an end that *)
(* comes before the delegate is in hand leaves an empty registration,      *)
(* which is nobody's and keeps others out until it ends in turn.           *)
(***************************************************************************)
EXTENDS Maps

CONSTANTS
    Key,        \* what registrations are told apart by
    Delegate,   \* the delegates of the application
    None        \* "nothing here"

VARIABLES
    open,       \* key -> delegate, or None: the open registrations
    alive,      \* the delegates that somebody owns
    looking,    \* the key that a message is looked up for
    inHand,     \* the registration whose delegate is about to be called
    told        \* what the last step told delegates

vars == <<open, alive, looking, inHand, told>>

Init ==
    /\ open = EmptyMap
    /\ alive = Delegate
    /\ looking = None
    /\ inHand = None
    /\ told = {}

Open(k, d) ==
    /\ k \notin DOMAIN open
    /\ open' = Put(open, k, d)
    /\ told' = {}
    /\ UNCHANGED <<alive, looking, inHand>>

(* The end of a registration: its delegate, if there still is one, is told, *)
(* and the registration is gone.                                            *)
End(k) ==
    /\ k \in DOMAIN open
    /\ open' = EraseKeys(open, {k})
    /\ told' = IF open[k] \in alive
               THEN {[cb |-> "onSubscriptionEnded", key |-> k, d |-> open[k]]} ELSE {}
    /\ UNCHANGED <<alive, looking, inHand>>

(* A response or an object for an open registration: it is found, ...      *)
Look(k) ==
    /\ looking = None
    /\ inHand = None
    /\ k \in DOMAIN open
    /\ looking' = k
    /\ told' = {}
    /\ UNCHANGED <<open, alive, inHand>>

(* ... its delegate taken in hand, if there still is one, ...              *)
Take ==
    /\ looking \in DOMAIN open
    /\ inHand' = IF open[looking] \in alive
                 THEN [key |-> looking, d |-> open[looking]] ELSE None
    /\ looking' = None
    /\ told' = {}
    /\ UNCHANGED <<open, alive>>

(* ... or, if the registration has ended meanwhile, an empty one left, ...  *)
Miss ==
    /\ looking # None
    /\ looking \notin DOMAIN open
    /\ open' = Put(open, looking, None)
    /\ looking' = None
    /\ told' = {}
    /\ UNCHANGED <<alive, inHand>>

(* ... and then given to the delegate, which may be the last to own it.    *)
Give(cb) ==
    /\ inHand # None
    /\ told' = {[cb |-> cb, key |-> inHand.key, d |-> inHand.d]}
    /\ inHand' = None
    /\ alive' \in {alive, alive \ {inHand.d}}
    /\ UNCHANGED <<open, looking>>

Drop(d) ==
    /\ alive' = alive \ {d}
    /\ told' = {}
    /\ UNCHANGED <<open, looking, inHand>>

Silent ==
    /\ told' = {}
    /\ UNCHANGED <<open, alive, looking, inHand>>

Next ==
    \/ \E k \in Key, d \in Delegate : Open(k, d)
    \/ \E k \in Key : End(k) \/ Look(k)
    \/ Take
    \/ Miss
    \/ \E cb \in {"SubscribeResponse", "Publish"} : Give(cb)
    \/ \E d \in Delegate : Drop(d)
    \/ Silent

Spec == Init /\ [][Next]_vars
=============================================================================
