---------------------------- MODULE QuicRClient ----------------------------
(***************************************************************************)
(* The client half of libquicr: quicr::QuicRClient                         *)
(* (src/quicr_client.cpp, include/quicr/quicr_client.h), without the       *)
(* reassembly of fragments, which is Reassembly.tla.                       *)
(*                                                                         *)
(* Three threads meet in a client.  The application subscribes, publishes  *)
(* and at last destroys the client; the transport's receive thread runs    *)
(* handle(); its status thread reports the loss of the connection.         *)
(* subscribe, unsubscribe and the removal of ONE subscription hold         *)
(* QuicRClient::mutex and are steps.  The removal of all collects the      *)
(* namespaces under the mutex, releases it, and then removes them one by   *)
(* one.  handle() looks delegates up WITHOUT the mutex: that there is one, *)
(* which one it is, and the callback are three steps.                      *)
(*                                                                         *)
(* The server may send anything at any time; the order and the loss of     *)
(* messages are the transport's.                                           *)
(***************************************************************************)
EXTENDS Naturals, FiniteSets, Functions, Maps

CONSTANTS
    Name,          \* quicr names
    Namespace,     \* quicr namespaces
    NameOf,        \* NameOf[n]: the masked name of n, the key of n in a map
    Covers,        \* Covers[n]: the names that n.contains()
    PubNamespace,  \* the namespaces the application announces
    Delegate,      \* delegate objects of the application
    Traffic,       \* the types of message the server sends
    None           \* "nothing here"

ASSUME ClientNamespaceAssumption ==
    /\ NameOf \in [Namespace -> Name]
    /\ Covers \in [Namespace -> SUBSET Name]
ASSUME ClientPubAssumption == PubNamespace \subseteq Namespace

VARIABLES
    phase,            \* life of the client object
    client_status,    \* what status() returns
    link,             \* the connection, as last reported by the transport
    sub_delegates,    \* key -> [ns, d]: subscriber delegates, d = None if empty
    subscribe_state,  \* key -> namespace: subscriptions, all of them Pending
    pub_delegates,    \* key -> [ns, d]: publisher delegates, likewise
    alive,            \* delegates the application still holds a shared_ptr to
    sweep,            \* namespaces a removal of all has still to remove
    handling,         \* the message in handle()
    calls,            \* delegate callbacks made by the last step
    sent,             \* messages the last step gave to transport->enqueue
    live              \* history: registrations that have not been ended

regVars == <<sub_delegates, subscribe_state, live>>
vars == <<phase, client_status, link, sub_delegates, subscribe_state, pub_delegates,
          alive, sweep, handling, calls, sent, live>>

Thread == {"app", "status"}

Incoming ==
    [type : {"SubscribeResponse", "SubscribeEnd", "PublishIntentResponse"}, ns : Namespace]
      \cup [type : {"Publish"}, name : Name]
      \cup [type : {"Other"}]

(* A delegate that is about to be called, and the receive thread at work.   *)
Held == [key : Name, d : Delegate]
Handling ==
    [msg : Incoming, base : SUBSET Name, visited : SUBSET Name,
     found : Namespace \cup {None}, held : Held \cup {None}, data : {"full", "moved"}]

Status == {"READY", "CONNECTING", "RELAY_HOST_INVALID", "RELAY_PORT_INVALID",
           "RELAY_NOT_CONNECTED", "TRANSPORT_ERROR", "UNAUTHORIZED", "TERMINATED"}

ASSUME ClientNoneAssumption ==
    None \notin Held \cup Handling \cup Delegate \cup Name \cup Namespace

----------------------------------------------------------------------------
(* Construction.                                                           *)

Init ==
    /\ phase = "connecting"
    /\ client_status = "TERMINATED"
    /\ link = "up"
    /\ sub_delegates = EmptyMap
    /\ subscribe_state = EmptyMap
    /\ pub_delegates = EmptyMap
    /\ alive = Delegate
    /\ sweep = [t \in Thread |-> {}]
    /\ handling = None
    /\ calls = {}
    /\ sent = {}
    /\ live = {}

(* make_transport waits for the transport to leave Connecting, and throws  *)
(* unless it is Ready.  client_status is never assigned.                   *)
make_transport ==
    /\ phase = "connecting"
    /\ phase' \in {"ready", "failed"}
    /\ calls' = {}
    /\ sent' = {}
    /\ UNCHANGED <<client_status, link, pub_delegates, alive, sweep, handling, regVars>>

----------------------------------------------------------------------------
(* What the application calls.                                             *)

AppIdle == phase = "ready"

(* History: the application asks for the end of k, or subscribes to it      *)
(* again.                                                                   *)
Leaving(k) ==
    {IF r.key = k THEN [r EXCEPT !.leaving = TRUE] ELSE r : r \in live}
Staying(k) ==
    {IF r.key = k THEN [r EXCEPT !.leaving = FALSE, !.link = link] ELSE r : r \in live}

(* A delegate is registered, and a subscription noted, only where there is  *)
(* none; a Subscribe is sent in any case.                                   *)
subscribe(d, n) ==
    LET k == NameOf[n]
        first == k \notin DOMAIN sub_delegates
    IN  /\ AppIdle
        /\ d \in alive
        /\ sub_delegates' = IF first THEN Put(sub_delegates, k, [ns |-> n, d |-> d])
                            ELSE sub_delegates
        /\ subscribe_state' = IF k \in DOMAIN subscribe_state THEN subscribe_state
                              ELSE Put(subscribe_state, k, n)
        /\ live' = IF first
                   THEN live \cup {[key |-> k, d |-> d, link |-> link, leaving |-> FALSE]}
                   ELSE Staying(k)
        /\ sent' = {[type |-> "Subscribe", ns |-> n]}
        /\ calls' = {}
        /\ UNCHANGED <<phase, client_status, link, pub_delegates, alive, sweep, handling>>

(* The delegate stays until the SubscribeEnd arrives.                      *)
unsubscribe_DropsDelegate(n) ==
    /\ AppIdle
    /\ sub_delegates' = EraseKeys(sub_delegates, {NameOf[n]})
    /\ sent' = {[type |-> "Unsubscribe", ns |-> n]}
    /\ calls' = {}
    /\ UNCHANGED <<phase, client_status, link, subscribe_state, live, pub_delegates,
                   alive, sweep, handling>>
unsubscribe(n) ==
    /\ AppIdle
    /\ subscribe_state' = EraseKeys(subscribe_state, {NameOf[n]})
    /\ live' = Leaving(NameOf[n])
    /\ sent' = {[type |-> "Unsubscribe", ns |-> n]}
    /\ calls' = {}
    /\ UNCHANGED <<phase, client_status, link, sub_delegates, pub_delegates,
                   alive, sweep, handling>>

publishIntent(d, n) ==
    /\ AppIdle
    /\ d \in alive
    /\ pub_delegates' = IF NameOf[n] \in DOMAIN pub_delegates THEN pub_delegates
                        ELSE Put(pub_delegates, NameOf[n], [ns |-> n, d |-> d])
    /\ sent' = {[type |-> "PublishIntent", ns |-> n]}
    /\ calls' = {}
    /\ UNCHANGED <<phase, client_status, link, alive, sweep, handling, regVars>>

publishIntentEnd(n) ==
    /\ AppIdle
    /\ NameOf[n] \in DOMAIN pub_delegates
    /\ pub_delegates' = EraseKeys(pub_delegates, {NameOf[n]})
    /\ sent' = {[type |-> "PublishIntentEnd", ns |-> n]}
    /\ calls' = {}
    /\ UNCHANGED <<phase, client_status, link, alive, sweep, handling, regVars>>

(* The application drops a delegate; the client only has weak_ptrs to it.  *)
release(d) ==
    /\ AppIdle
    /\ d \in alive
    /\ alive' = alive \ {d}
    /\ calls' = {}
    /\ sent' = {}
    /\ UNCHANGED <<phase, client_status, link, pub_delegates, sweep, handling, regVars>>

----------------------------------------------------------------------------
(* The removal of subscriptions.                                           *)

(* weak_ptr::lock succeeds while the application, or a callback under way,  *)
(* holds the delegate.                                                      *)
Lockable(d) ==
    \/ d \in alive
    \/ handling # None /\ handling.held # None /\ handling.held.d = d

(* removeSubscribeState(false, n): the state, the callback, the delegate,  *)
(* all under the mutex.                                                    *)
removeSubscribeState_OnlyIfSubscribed(n) ==
    LET k == NameOf[n]
    IN  IF k \in DOMAIN subscribe_state
        THEN /\ subscribe_state' = EraseKeys(subscribe_state, {k})
             /\ sub_delegates' = EraseKeys(sub_delegates, {k})
             /\ live' = {r \in live : r.key # k}
             /\ calls' = {}
        ELSE calls' = {} /\ UNCHANGED regVars
removeSubscribeState_KeepsDelegate(n) ==
    LET k == NameOf[n]
    IN  /\ subscribe_state' = EraseKeys(subscribe_state, {k})
        /\ sub_delegates' = sub_delegates
        /\ live' = {r \in live : r.key # k}
        /\ calls' = {[cb |-> "onSubscriptionEnded", key |-> k, d |-> sub_delegates[x].d] :
                        x \in {y \in DOMAIN sub_delegates \cap {k} : Lockable(sub_delegates[y].d)}}
removeSubscribeState(n) ==
    LET k == NameOf[n]
    IN  /\ subscribe_state' = EraseKeys(subscribe_state, {k})
        /\ sub_delegates' = EraseKeys(sub_delegates, {k})
        /\ live' = {r \in live : r.key # k}
        /\ calls' = {[cb |-> "onSubscriptionEnded", key |-> k, d |-> sub_delegates[x].d] :
                        x \in {y \in DOMAIN sub_delegates \cap {k} : Lockable(sub_delegates[y].d)}}

(* removeSubscribeState(true): collect under the mutex ...                 *)
collect(t) == sweep' = [sweep EXCEPT ![t] = Range(subscribe_state)]

(* ... and then remove them one at a time.                                 *)
sweepStep_MutexHeld(t) ==
    /\ phase \in {"ready", "closing", "resetting"}
    /\ sweep[t] = {}
    /\ UNCHANGED vars
sweepStep_StopsAfterFirst(t) ==
    /\ phase \in {"ready", "closing", "resetting"}
    /\ \E n \in sweep[t] : removeSubscribeState(n)
    /\ sweep' = [sweep EXCEPT ![t] = {}]
    /\ sent' = {}
    /\ UNCHANGED <<phase, client_status, link, pub_delegates, alive, handling>>
sweepStep(t) ==
    /\ phase \in {"ready", "closing", "resetting"}
    /\ \E n \in sweep[t] :
          /\ removeSubscribeState(n)
          /\ sweep' = [sweep EXCEPT ![t] = @ \ {n}]
    /\ sent' = {}
    /\ UNCHANGED <<phase, client_status, link, pub_delegates, alive, handling>>

on_disconnected ==
    /\ phase \in {"ready", "closing"}
    /\ link = "up"
    /\ link' = "down"
    /\ collect("status")
    /\ calls' = {}
    /\ sent' = {}
    /\ UNCHANGED <<phase, client_status, pub_delegates, alive, handling, regVars>>

(* ~QuicRClient removes all, then resets the transport and waits for it to  *)
(* close.  The transport's threads run until then; once it is closing they  *)
(* bring nothing new.                                                       *)
destroy ==
    /\ phase = "ready"
    /\ phase' = "closing"
    /\ collect("app")
    /\ calls' = {}
    /\ sent' = {}
    /\ UNCHANGED <<client_status, link, pub_delegates, alive, handling, regVars>>

transport_reset ==
    /\ phase = "closing"
    /\ sweep["app"] = {}
    /\ phase' = "resetting"
    /\ calls' = {}
    /\ sent' = {}
    /\ UNCHANGED <<client_status, link, pub_delegates, alive, sweep, handling, regVars>>

transport_closed ==
    /\ phase = "resetting"
    /\ sweep["status"] = {}
    /\ handling = None
    /\ phase' = "gone"
    /\ calls' = {}
    /\ sent' = {}
    /\ UNCHANGED <<client_status, link, pub_delegates, alive, sweep, handling, regVars>>

----------------------------------------------------------------------------
(* handle(), in the receive thread.                                        *)

(* The delegates that a message is for are in one of two maps.             *)
Table(m) == IF m.type = "PublishIntentResponse" THEN pub_delegates ELSE sub_delegates

on_recv_notify(m) ==
    /\ phase \in {"ready", "closing"}
    /\ handling = None
    /\ m.type \in Traffic
    /\ handling' = [msg |-> m, base |-> DOMAIN Table(m), visited |-> {},
                    found |-> None, held |-> None, data |-> "full"]
    /\ calls' = {}
    /\ sent' = {}
    /\ UNCHANGED <<phase, client_status, link, pub_delegates, alive, sweep, regVars>>

(* The receive thread is in handle() with a message of a type in T.        *)
InHandle(T) ==
    /\ phase \in {"ready", "closing", "resetting"}
    /\ handling # None
    /\ handling.msg.type \in T

DelegateCallbacks == {"SubscribeResponse", "Publish", "PublishIntentResponse"}

(* The registrations a response or an object is for: the one of the         *)
(* namespace, or every one that contains the name.                          *)
Matches_ByKey(m) ==
    {k \in DOMAIN Table(m) : k = IF m.type = "Publish" THEN m.name ELSE NameOf[m.ns]}
Matches(m) ==
    {k \in DOMAIN Table(m) :
        IF m.type = "Publish" THEN m.name \in Covers[sub_delegates[k].ns]
        ELSE k = NameOf[m.ns]}

(* There is an entry: count(), or contains() for the next one of the loop.  *)
handle_lookup ==
    /\ InHandle(DelegateCallbacks)
    /\ handling.found = None
    /\ handling.held = None
    /\ \E k \in Matches(handling.msg) \ handling.visited :
          handling' = [handling EXCEPT
                         !.visited = @ \cup {k},
                         !.found = IF handling.msg.type = "Publish"
                                   THEN sub_delegates[k].ns ELSE handling.msg.ns]
    /\ calls' = {}
    /\ sent' = {}
    /\ UNCHANGED <<phase, client_status, link, pub_delegates, alive, sweep, regVars>>

(* operator[] and lock(): an entry that has gone meanwhile is inserted with *)
(* an empty weak_ptr.                                                       *)
Entered(table, n) ==
    IF NameOf[n] \in DOMAIN table THEN table
    ELSE Put(table, NameOf[n], [ns |-> n, d |-> None])

(* if (auto delegate = ... .lock())                                        *)
Locked_NoNullCheck(k, d) == [key |-> k, d |-> d]
Locked(k, d) == IF Lockable(d) THEN [key |-> k, d |-> d] ELSE None

handle_find ==
    /\ InHandle(DelegateCallbacks)
    /\ handling.found # None
    /\ LET k == NameOf[handling.found]
           after == Entered(Table(handling.msg), handling.found)
       IN  /\ IF handling.msg.type = "PublishIntentResponse"
              THEN pub_delegates' = after /\ UNCHANGED sub_delegates
              ELSE sub_delegates' = after /\ UNCHANGED pub_delegates
           /\ handling' = [handling EXCEPT !.found = None, !.held = Locked(k, after[k].d)]
    /\ calls' = {}
    /\ sent' = {}
    /\ UNCHANGED <<phase, client_status, link, subscribe_state, live, alive, sweep>>

(* The callback.  The payload of an object is passed as an rvalue, which    *)
(* the delegate may move from.                                              *)
handle_callback ==
    /\ InHandle(DelegateCallbacks)
    /\ handling.held # None
    /\ calls' = {[cb |-> handling.msg.type, key |-> handling.held.key,
                  d |-> handling.held.d, data |-> handling.data]}
    /\ \E data \in {handling.data, "moved"} :
          handling' = [handling EXCEPT !.held = None, !.data = data]
    /\ sent' = {}
    /\ UNCHANGED <<phase, client_status, link, pub_delegates, alive, sweep, regVars>>

handle_return ==
    /\ InHandle(DelegateCallbacks)
    /\ handling.found = None
    /\ handling.held = None
    /\ Matches(handling.msg) \subseteq handling.visited
    /\ handling' = None
    /\ calls' = {}
    /\ sent' = {}
    /\ UNCHANGED <<phase, client_status, link, pub_delegates, alive, sweep, regVars>>

(* A lookup that races with a change of the map is undefined: it may as     *)
(* well bring the process down.                                             *)
handle_race ==
    /\ InHandle(DelegateCallbacks)
    /\ DOMAIN Table(handling.msg) # handling.base
    /\ phase' = "crashed"
    /\ calls' = {}
    /\ sent' = {}
    /\ UNCHANGED <<client_status, link, pub_delegates, alive, sweep, handling, regVars>>

handle_subscribe_end ==
    /\ InHandle({"SubscribeEnd"})
    /\ removeSubscribeState(handling.msg.ns)
    /\ handling' = None
    /\ sent' = {}
    /\ UNCHANGED <<phase, client_status, link, pub_delegates, alive, sweep>>

(* An empty, unknown or malformed message.                                 *)
handle_other ==
    /\ InHandle({"Other"})
    /\ handling' = None
    /\ calls' = {}
    /\ sent' = {}
    /\ UNCHANGED <<phase, client_status, link, pub_delegates, alive, sweep, regVars>>

----------------------------------------------------------------------------
Receive ==
    \/ handle_lookup
    \/ handle_find
    \/ handle_callback
    \/ handle_return
    \/ handle_race
    \/ handle_subscribe_end
    \/ handle_other

Next ==
    \/ make_transport
    \/ \E d \in Delegate, n \in Namespace : subscribe(d, n)
    \/ \E n \in Namespace : unsubscribe(n)
    \/ \E d \in Delegate, n \in PubNamespace : publishIntent(d, n)
    \/ \E n \in PubNamespace : publishIntentEnd(n)
    \/ \E d \in Delegate : release(d)
    \/ on_disconnected
    \/ \E t \in Thread : sweepStep(t)
    \/ destroy
    \/ transport_reset
    \/ transport_closed
    \/ \E m \in Incoming : on_recv_notify(m)
    \/ Receive

(* A thread that is inside the client goes on: the mutex is held for one    *)
(* step at a time, and nothing else makes a thread wait.  Whether the       *)
(* application calls, or the server sends, is up to them.                   *)
Fairness ==
    /\ \A t \in Thread : WF_vars(sweepStep(t))
    /\ WF_vars(Receive)
    /\ WF_vars(transport_reset)
    /\ WF_vars(transport_closed)

Spec == Init /\ [][Next]_vars
FairSpec == Spec /\ Fairness

----------------------------------------------------------------------------
(* Properties.                                                             *)

(* Every variable has its type.  An entry may be empty, but the delegate    *)
(* that is about to be called is there.                                     *)
TypeOK ==
    /\ phase \in {"connecting", "ready", "failed", "closing", "resetting", "gone",
                 "crashed"}
    /\ client_status \in Status
    /\ link \in {"up", "down"}
    /\ sub_delegates \in [DOMAIN sub_delegates -> [ns : Namespace, d : Delegate \cup {None}]]
    /\ DOMAIN sub_delegates \subseteq Name
    /\ subscribe_state \in [DOMAIN subscribe_state -> Namespace]
    /\ DOMAIN subscribe_state \subseteq Name
    /\ pub_delegates \in [DOMAIN pub_delegates -> [ns : Namespace, d : Delegate \cup {None}]]
    /\ DOMAIN pub_delegates \subseteq Name
    /\ alive \subseteq Delegate
    /\ sweep \in [Thread -> SUBSET Namespace]
    /\ handling \in Handling \cup {None}
    /\ live \subseteq [key : Name, d : Delegate, link : {"up", "down"}, leaving : BOOLEAN]

(* Whoever is subscribed has an entry in sub_delegates, the one that the    *)
(* end looks up: no interleaving of subscribe, unsubscribe, a late          *)
(* SubscribeEnd, a disconnect and the destructor leaves a subscription      *)
(* without one.                                                             *)
SubscribedHasDelegate ==
    DOMAIN subscribe_state \subseteq DOMAIN sub_delegates

(* After a disconnect, once the removal is through, the only registrations  *)
(* from before it are those the application had unsubscribed and that wait  *)
(* for a SubscribeEnd: no other is overlooked, whoever subscribes,          *)
(* unsubscribes or is ended while the list of the removal is worked off.    *)
DisconnectEndsSubscribed ==
    link = "down" /\ sweep["status"] = {} =>
        \A r \in live : r.link = "down" \/ r.leaving

(* The client as its delegates see it: what the receive thread has found   *)
(* and holds for them, and which of them somebody owns.                    *)
HeldDelegates ==
    IF handling = None \/ handling.held = None THEN {} ELSE {handling.held.d}
ForSubscriber == handling # None /\ handling.msg.type # "PublishIntentResponse"

Delegates == INSTANCE Subscriber WITH
    Key <- Name,
    open <- [k \in DOMAIN sub_delegates |-> sub_delegates[k].d],
    alive <- alive \cup HeldDelegates,
    looking <- IF ForSubscriber /\ handling.found # None THEN NameOf[handling.found] ELSE None,
    inHand <- IF ForSubscriber THEN handling.held ELSE None,
    told <- {[cb |-> c.cb, key |-> c.key, d |-> c.d] :
               c \in {x \in calls : x.cb # "PublishIntentResponse"}}

(* The client implements the life cycle of a subscription: exactly one      *)
(* onSubscriptionEnded, by whichever of SubscribeEnd, disconnect and        *)
(* destructor comes first and although each works from what another may     *)
(* have removed, and no callback that is not for an open registration,      *)
(* except the one the receive thread has in hand.  An empty registration,   *)
(* which nobody made and which keeps delegates out, is left behind only by  *)
(* an end between the two lookups of a message.                             *)
ImplementsSubscriber == Delegates!Spec

(* A subscription that a disconnect or the destructor has collected is      *)
(* ended, and its delegate let go, whatever the application and the server  *)
(* do in the meantime.                                                      *)
SweepCompletes ==
    \A n \in Namespace : \A t \in Thread :
        (n \in sweep[t]) ~> (NameOf[n] \notin DOMAIN sub_delegates \/ phase = "crashed")

(* The destructor comes to an end.                                         *)
DestructorReturns == (phase = "closing") ~> (phase \in {"gone", "crashed"})

----------------------------------------------------------------------------
(* What comments and documentation say, and the code does not do.          *)

(* docs/unsubscribe-flows.md:17, after onSubscriptionEnded "The client      *)
(* provided delegate will no longer be called at this point".               *)
NoCallbackAfterEnd ==
    \A call \in calls : call.cb \in {"SubscribeResponse", "Publish"} =>
        \E r \in live : r.key = call.key /\ r.d = call.d

(* docs/unsubscribe-flows.md:45, on the loss of the connection the client   *)
(* "Frees any internal state, includes removing the subscriber delegate":   *)
(* no registration from before the disconnect is left when it is done.      *)
DisconnectEndsAll ==
    link = "down" /\ sweep["status"] = {} => \A r \in live : r.link = "down"

(* include/quicr/quicr_client.h:218, subscriber_delegate: "Reference to     *)
(* receive callback for subscriber ooperations": the delegate given to      *)
(* subscribe is the one that will be called.                                *)
SubscriberIsRegistered ==
    [][\A d \in Delegate, n \in Namespace :
          subscribe(d, n) => sub_delegates'[NameOf[n]].d = d]_vars

(* include/quicr/quicr_client.h:57 and 66, onSubscribedObject reports        *)
(* "arrival of subscribed QUICR object", with its payload: each delegate is  *)
(* given the object, not what another one left of it.                       *)
PayloadIntact ==
    \A call \in calls : call.cb = "Publish" => call.data = "full"

(* include/quicr/quicr_client.h:179, status() "should be used to determine  *)
(* if the client is connected and ready".                                   *)
StatusTellsReady ==
    phase = "ready" /\ link = "up" => client_status = "READY"
=============================================================================
