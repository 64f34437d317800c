---------------------------- MODULE QuicRServer ----------------------------
(***************************************************************************)
(* The server half of libquicr: quicr::QuicRServer with an unconstrained   *)
(* ServerDelegate (src/quicr_server.cpp, include/quicr/quicr_server.h).    *)
(*                                                                         *)
(* Two threads of the transport call into the server.  The receive thread  *)
(* runs on_recv_notify: it dequeues a message of a connection and runs its *)
(* handler.  The status thread runs on_connection_status.  The subscribe   *)
(* handlers and the status callback take QuicRServer::mutex, so each is    *)
(* one step, except that handle_unsubscribe looks the subscription up      *)
(* BEFORE it takes the mutex, which makes it two.  A message that was      *)
(* dequeued may be handled after its connection is gone.                   *)
(*                                                                         *)
(* subscribeResponse, subscriptionEnded and sendNamedObject take no lock.  *)
(* In onSubscribe and onUnsubscribe their caller holds the mutex, and a    *)
(* send is part of the handler's step; in onPublisherObject, and in a      *)
(* thread of the application, nobody does, and a send is three steps: the  *)
(* count() of the id, its operator[], and the use of what that referred to. *)
(* publishIntentResponse looks a namespace up in the same way.             *)
(*                                                                         *)
(* std::map<Namespace, ...> is ordered by operator<, which compares the    *)
(* masked names only (src/quicr_namespace.cpp:59): namespaces of different *)
(* length with the same masked name are ONE key, and the map keeps the     *)
(* namespace it was first given.  NameOf[n] is the masked name, Covers[n]  *)
(* the names n.contains() accepts; QuicrName.tla computes both.            *)
(***************************************************************************)
EXTENDS Naturals, FiniteSets, Functions, Maps

CONSTANTS
    Context,       \* transport connections, as the server sees them
    Name,          \* quicr names
    Namespace,     \* quicr namespaces: a masked name and a length
    NameOf,        \* NameOf[n]: the masked name of namespace n
    Covers,        \* Covers[n]: the names that n.contains()
    ContextReuse,  \* may the transport give a closed connection's id out again?
    Traffic,       \* the messages that peers send
    SubscriberMessage,  \* the messages that the delegate sends under an id
    MaxId,         \* bound on subscriber_id
    MaxSends,      \* bound on the sends and answers under way at a time
    None           \* "nothing here"

ASSUME NamespaceAssumption ==
    /\ NameOf \in [Namespace -> Name]
    /\ Covers \in [Namespace -> SUBSET Name]
ASSUME ReuseAssumption == ContextReuse \in BOOLEAN
ASSUME BoundAssumption == MaxId \in Nat /\ MaxSends \in Nat
ASSUME NoneAssumption == None \notin Context

VARIABLES
    conn,               \* status of each connection, as reported to the server
    handling,           \* the message the receive thread is working on
    subscribe_state,    \* key -> [ns, subs: context -> subscriber id]
    subscribe_id_state, \* subscriber id -> context, None for a context 0
    subscriber_id,      \* the next subscriber id
    publish_state,      \* name -> context of its publisher
    publish_namespaces, \* key -> [ns, state, ctx], ctx None for a context 0
    answering,          \* the intent responses between lookup and enqueue
    sending,            \* the sends that are between their lookups and enqueue
    calls,              \* delegate callbacks made by the last step
    sent,               \* messages the last step gave to transport->enqueue
    told                \* history: what onSubscribe ever told the delegate

subVars == <<subscribe_state, subscribe_id_state, subscriber_id>>
pubVars == <<publish_state, publish_namespaces, answering>>
vars == <<conn, handling, subscribe_state, subscribe_id_state, subscriber_id,
          publish_state, publish_namespaces, answering, sending, calls, sent, told>>

----------------------------------------------------------------------------
(* operator[] on a map keyed by namespaces: an absent key is inserted, with *)
(* an empty inner map.                                                      *)
Touch(ss, n) ==
    IF NameOf[n] \in DOMAIN ss THEN ss
    ELSE Put(ss, NameOf[n], [ns |-> n, subs |-> EmptyMap])

Id == 0..MaxId

Message ==
    [type : {"Subscribe", "Unsubscribe", "PublishIntent", "PublishIntentEnd"},
     ns : Namespace]
      \cup [type : {"Publish"}, name : Name]
      \cup [type : {"Other"}]

----------------------------------------------------------------------------
(* Connections and the receive loop.                                       *)

Init ==
    /\ conn = [c \in Context |-> "new"]
    /\ handling = None
    /\ subscribe_state = EmptyMap
    /\ subscribe_id_state = EmptyMap
    /\ subscriber_id = 0
    /\ publish_state = EmptyMap
    /\ publish_namespaces = EmptyMap
    /\ answering = {}
    /\ sending = {}
    /\ calls = {}
    /\ sent = {}
    /\ told = {}

(* on_new_connection only logs.                                            *)
on_new_connection(c) ==
    /\ conn[c] = "new" \/ (ContextReuse /\ conn[c] = "down")
    /\ conn' = [conn EXCEPT ![c] = "up"]
    /\ calls' = {}
    /\ sent' = {}
    /\ UNCHANGED <<handling, subVars, pubVars, sending, told>>

(* on_recv_notify takes the next message of a connection off the transport's *)
(* queue; which message that is, is the peer's choice.                       *)
on_recv_notify(c, m) ==
    /\ handling = None
    /\ conn[c] = "up"
    /\ m \in Traffic
    /\ m.type = "Subscribe" => subscriber_id < MaxId
    /\ handling' = [ctx |-> c, msg |-> m, found |-> FALSE]
    /\ calls' = {}
    /\ sent' = {}
    /\ UNCHANGED <<conn, subVars, pubVars, sending, told>>

(* The receive thread is about to run the handler of a message of type t.  *)
Dispatching(t) ==
    /\ handling # None
    /\ handling.msg.type = t
    /\ ~handling.found

(* An unknown message type, or one whose decoding throws: the loop goes on. *)
IgnoreMessage ==
    /\ Dispatching("Other")
    /\ handling' = None
    /\ calls' = {}
    /\ UNCHANGED <<conn, subVars, pubVars, sending, told>>

----------------------------------------------------------------------------
(* Subscriptions.                                                          *)

(* The handlers of subscriptions, by what they do to the maps.  c, n: the   *)
(* connection and the namespace of the message.                             *)
HasSub_AnyContext(ss, n, c) ==
    NameOf[n] \in DOMAIN ss /\ DOMAIN ss[NameOf[n]].subs # {}
HasSub(ss, n, c) ==
    /\ NameOf[n] \in DOMAIN ss
    /\ c \in DOMAIN ss[NameOf[n]].subs

(* operator[] again: an absent entry would be a value-initialised one.     *)
SubId(ss, n, c) ==
    IF NameOf[n] \in DOMAIN ss /\ c \in DOMAIN ss[NameOf[n]].subs
    THEN ss[NameOf[n]].subs[c] ELSE 0

FreshId_FromMapSize == Cardinality(DOMAIN subscribe_id_state)
FreshId == subscriber_id

AddSub(ss, n, c, id) ==
    [Touch(ss, n) EXCEPT ![NameOf[n]].subs = Put(@, c, id)]

(* handle_unsubscribe erases the whole namespace when subscribers are LEFT  *)
(* in it, and keeps it when the last one is gone.                           *)
DropSub(ss, n, c) ==
    LET s == Touch(ss, n)
        rest == EraseKeys(s[NameOf[n]].subs, {c})
    IN  IF DOMAIN rest # {}
        THEN EraseKeys(s, {NameOf[n]})
        ELSE [s EXCEPT ![NameOf[n]].subs = rest]

handle_subscribe ==
    /\ Dispatching("Subscribe")
    /\ LET c == handling.ctx
           n == handling.msg.ns
           fresh == ~HasSub(subscribe_state, n, c)
           id == IF fresh THEN FreshId ELSE SubId(subscribe_state, n, c)
       IN  /\ subscribe_state' = IF fresh THEN AddSub(subscribe_state, n, c, id)
                                 ELSE subscribe_state
           /\ subscribe_id_state' = IF fresh THEN Put(subscribe_id_state, id, c)
                                    ELSE subscribe_id_state
           /\ subscriber_id' = IF fresh THEN subscriber_id + 1 ELSE subscriber_id
           /\ calls' = {[cb |-> "onSubscribe", ns |-> n, id |-> id, ctx |-> c]}
           /\ told' = told \cup {[ns |-> n, id |-> id, ctx |-> c]}
    /\ handling' = None
    /\ UNCHANGED <<conn, pubVars, sending>>

(* The lookup, before the lock: subscribe_state[ns].count(context_id).     *)
handle_unsubscribe_check ==
    /\ Dispatching("Unsubscribe")
    /\ subscribe_state' = Touch(subscribe_state, handling.msg.ns)
    /\ handling' = IF HasSub(subscribe_state, handling.msg.ns, handling.ctx)
                   THEN [handling EXCEPT !.found = TRUE] ELSE None
    /\ calls' = {}
    /\ UNCHANGED <<conn, subscribe_id_state, subscriber_id, pubVars, sending, told>>

(* The locked part: the callback comes before the removals.                *)
handle_unsubscribe_KeepsId ==
    /\ handling # None
    /\ handling.found
    /\ LET c == handling.ctx
           n == handling.msg.ns
       IN  /\ calls' = {[cb |-> "onUnsubscribe", ns |-> n, id |-> SubId(subscribe_state, n, c)]}
           /\ subscribe_state' = DropSub(subscribe_state, n, c)
    /\ handling' = None
    /\ UNCHANGED <<conn, subscribe_id_state, subscriber_id, pubVars, sending, told>>
handle_unsubscribe ==
    /\ handling # None
    /\ handling.found
    /\ LET c == handling.ctx
           n == handling.msg.ns
           id == SubId(subscribe_state, n, c)
       IN  /\ calls' = {[cb |-> "onUnsubscribe", ns |-> n, id |-> id]}
           /\ subscribe_id_state' = EraseKeys(subscribe_id_state, {id})
           /\ subscribe_state' = DropSub(subscribe_state, n, c)
    /\ handling' = None
    /\ UNCHANGED <<conn, subscriber_id, pubVars, sending, told>>

(* The keys of the namespaces that connection c has an entry in, and the   *)
(* ids of these entries.                                                   *)
KeysOf(ss, c) == {k \in DOMAIN ss : c \in DOMAIN ss[k].subs}
IdsOf_WholeNamespace(ss, c) ==
    UNION {Range(ss[k].subs) : k \in KeysOf(ss, c)}
IdsOf_None(ss, c) == {}
IdsOf(ss, c) == {ss[k].subs[c] : k \in KeysOf(ss, c)}

(* The test for namespaces to remove is size() == 0, but the entry of the   *)
(* connection itself is never taken out.                                    *)
AfterDisconnect_EntryErased(ss, c) ==
    [k \in DOMAIN ss |-> [ss[k] EXCEPT !.subs = EraseKeys(@, {c})]]
AfterDisconnect(ss, c) ==
    EraseKeys(ss, {k \in KeysOf(ss, c) : DOMAIN ss[k].subs = {}})

(* on_connection_status(Disconnected): one onUnsubscribe for each namespace  *)
(* the connection is in, under the namespace the map stores.                 *)
on_disconnected(c) ==
    /\ conn[c] = "up"
    /\ conn' = [conn EXCEPT ![c] = "down"]
    /\ calls' = {[cb |-> "onUnsubscribe", ns |-> subscribe_state[k].ns,
                  id |-> subscribe_state[k].subs[c]] :
                    k \in KeysOf(subscribe_state, c)}
    /\ subscribe_id_state' =
           EraseKeys(subscribe_id_state, IdsOf(subscribe_state, c))
    /\ subscribe_state' = AfterDisconnect(subscribe_state, c)
    /\ UNCHANGED <<handling, subscriber_id, pubVars, sending, told>>

----------------------------------------------------------------------------
(* Publishing.                                                             *)

Accepting(nm) ==
    \E k \in DOMAIN publish_namespaces : nm \in Covers[publish_namespaces[k].ns]

(* The connection that first published a name stays its publisher, and is  *)
(* the one reported to the delegate.                                       *)
PublisherOf_Unset(nm, c) ==
    IF nm \in DOMAIN publish_state THEN publish_state[nm] ELSE None
PublisherOf(nm, c) ==
    IF nm \in DOMAIN publish_state THEN publish_state[nm] ELSE c

handle_publish ==
    /\ Dispatching("Publish")
    /\ LET nm == handling.msg.name
           c == PublisherOf(nm, handling.ctx)
       IN  IF Accepting(nm)
           THEN /\ publish_state' = Put(publish_state, nm, c)
                /\ calls' = {[cb |-> "onPublisherObject", name |-> nm, ctx |-> c,
                              from |-> handling.ctx]}
           ELSE publish_state' = publish_state /\ calls' = {}
    /\ handling' = None
    /\ UNCHANGED <<conn, subVars, publish_namespaces, answering, sending, told>>

AddIntent(pn, n, c) ==
    IF NameOf[n] \in DOMAIN pn THEN pn
    ELSE Put(pn, NameOf[n], [ns |-> n, state |-> "Pending", ctx |-> c])

(* publishIntentResponse marks a known namespace Ready; the response goes to *)
(* the connection that first announced it.                                   *)
AnswerIntent(pn, n) ==
    IF NameOf[n] \in DOMAIN pn
    THEN [pn EXCEPT ![NameOf[n]].state = "Ready"] ELSE pn

IntentAnswers(pn, n) ==
    {[to |-> pn[k].ctx, msg |-> [type |-> "PublishIntentResponse", ns |-> n]] :
        k \in DOMAIN pn \cap {NameOf[n]}}

(* handle_publish_intent, when its callback leaves publish_namespaces as pn. *)
PublishIntentHandled(pn) ==
    /\ Dispatching("PublishIntent")
    /\ publish_namespaces' = pn
    /\ calls' = {[cb |-> "onPublishIntent", ns |-> handling.msg.ns,
                  ctx |-> handling.ctx]}
    /\ handling' = None
    /\ UNCHANGED <<conn, subVars, publish_state, answering, sending, told>>

handle_publish_intent ==
    PublishIntentHandled(
        AddIntent(publish_namespaces, handling.msg.ns, handling.ctx))

EndedNames_Exact(n) == {NameOf[n]}
EndedNames(n) == Covers[n]

(* The namespace is erased by its key, the published names by what the      *)
(* message's namespace contains.                                            *)
handle_publish_intent_end ==
    /\ Dispatching("PublishIntentEnd")
    /\ LET n == handling.msg.ns
       IN  IF NameOf[n] \in DOMAIN publish_namespaces
           THEN /\ publish_namespaces' = EraseKeys(publish_namespaces, {NameOf[n]})
                /\ publish_state' = EraseKeys(publish_state, EndedNames(n))
                /\ calls' = {[cb |-> "onPublishIntentEnd", ns |-> n]}
           ELSE calls' = {} /\ UNCHANGED <<publish_state, publish_namespaces>>
    /\ handling' = None
    /\ UNCHANGED <<conn, subVars, answering, sending, told>>

----------------------------------------------------------------------------
(* What the application calls.  A message for a subscriber id goes to the  *)
(* connection the id stands for, and nowhere when the id is unknown.       *)

(* A send inside a handler that holds the mutex.                           *)
ToSubscriber(ids, m, id) ==
    {[to |-> ids[i], id |-> i, msg |-> m] : i \in DOMAIN ids \cap {id}}

(* subscribeResponse, subscriptionEnded and sendNamedObject without the    *)
(* mutex; they differ in the message only.  count(subscriber_id) == 0      *)
(* returns early.                                                          *)
send_lookup(m, id) ==
    /\ sending' = sending \cup
          {[id |-> i, msg |-> m, bound |-> FALSE, ref |-> None] :
              i \in DOMAIN subscribe_id_state \cap {id}}
    /\ calls' = {}
    /\ sent' = {}
    /\ UNCHANGED <<conn, handling, subVars, pubVars, told>>

(* auto& context = subscribe_id_state[subscriber_id] inserts an id that has *)
(* gone meanwhile, with the context 0 of no connection.                     *)
send_find(s) ==
    /\ s \in sending
    /\ ~s.bound
    /\ subscribe_id_state' =
          IF s.id \in DOMAIN subscribe_id_state THEN subscribe_id_state
          ELSE Put(subscribe_id_state, s.id, None)
    /\ sending' = (sending \ {s}) \cup
          {[id |-> s.id, msg |-> s.msg, bound |-> TRUE, ref |-> subscribe_id_state'[s.id]]}
    /\ calls' = {}
    /\ sent' = {}
    /\ UNCHANGED <<conn, handling, subscribe_state, subscriber_id, pubVars, told>>

(* enqueue(context.transport_context_id, ...).  The reference of an id that *)
(* was erased meanwhile dangles: what it yields is what is in that memory.  *)
Addressees(s) ==
    IF s.id \in DOMAIN subscribe_id_state /\ subscribe_id_state[s.id] = s.ref
    THEN {s.ref} ELSE Context \cup {None}

send_enqueue(s) ==
    /\ s \in sending
    /\ s.bound
    /\ \E c \in Addressees(s) : sent' = {[to |-> c, id |-> s.id, msg |-> s.msg]}
    /\ sending' = sending \ {s}
    /\ calls' = {}
    /\ UNCHANGED <<conn, handling, subVars, pubVars, told>>

(* publishIntentResponse in a thread of the application, which races with   *)
(* the receive thread.  count(quicr_namespace) == 0 returns early.          *)
answer_lookup(n) ==
    /\ answering' = answering \cup
          {[ns |-> n, bound |-> FALSE, ref |-> None] :
              k \in DOMAIN publish_namespaces \cap {NameOf[n]}}
    /\ calls' = {}
    /\ sent' = {}
    /\ UNCHANGED <<conn, handling, subVars, publish_state, publish_namespaces, sending, told>>

(* auto& context = publish_namespaces[quicr_namespace]: the namespace of an *)
(* intent that ended meanwhile is announced again, for context 0.           *)
answer_find(x) ==
    /\ x \in answering
    /\ ~x.bound
    /\ publish_namespaces' =
          IF NameOf[x.ns] \in DOMAIN publish_namespaces THEN publish_namespaces
          ELSE Put(publish_namespaces, NameOf[x.ns],
                   [ns |-> x.ns, state |-> "Unknown", ctx |-> None])
    /\ answering' = (answering \ {x}) \cup
          {[ns |-> x.ns, bound |-> TRUE, ref |-> publish_namespaces'[NameOf[x.ns]].ctx]}
    /\ calls' = {}
    /\ sent' = {}
    /\ UNCHANGED <<conn, handling, subVars, publish_state, sending, told>>

(* The reference is to an entry that is still there.                       *)
RefersToEntry(x) ==
    /\ NameOf[x.ns] \in DOMAIN publish_namespaces
    /\ publish_namespaces[NameOf[x.ns]].ctx = x.ref

(* State::Ready and enqueue, through the reference.  If it dangles, both    *)
(* are about what is in that memory now.                                    *)
answer_enqueue(x) ==
    /\ x \in answering
    /\ x.bound
    /\ publish_namespaces' \in {AnswerIntent(publish_namespaces, x.ns)} \cup
          (IF RefersToEntry(x) THEN {} ELSE {publish_namespaces})
    /\ \E c \in IF RefersToEntry(x) THEN {x.ref} ELSE Context \cup {None} :
          sent' = {[to |-> c, msg |-> [type |-> "PublishIntentResponse", ns |-> x.ns]]}
    /\ answering' = answering \ {x}
    /\ calls' = {}
    /\ UNCHANGED <<conn, handling, subVars, publish_state, sending, told>>

----------------------------------------------------------------------------
(* The receive thread runs a handler.                                      *)
Handle ==
    \/ IgnoreMessage
    \/ handle_subscribe
    \/ handle_unsubscribe_check
    \/ handle_unsubscribe
    \/ handle_publish
    \/ handle_publish_intent
    \/ handle_publish_intent_end

(* The delegate may use any id it was told of and any namespace, at any    *)
(* time and in any thread.                                                 *)
Next ==
    \/ \E c \in Context : on_new_connection(c)
    \/ \E c \in Context, m \in Message : on_recv_notify(c, m)
    \/ Handle /\ sent' = {}
    \/ \E c \in Context : on_disconnected(c) /\ sent' = {}
    \/ /\ Cardinality(sending) + Cardinality(answering) < MaxSends
       /\ \/ \E m \in SubscriberMessage, s \in told : send_lookup(m, s.id)
          \/ \E n \in Namespace : answer_lookup(n)
    \/ \E s \in sending : send_find(s) \/ send_enqueue(s)
    \/ \E x \in answering : answer_find(x) \/ answer_enqueue(x)

Spec == Init /\ [][Next]_vars

----------------------------------------------------------------------------
(* Properties.                                                             *)

(* Every variable has its type; the maps are keyed and filled as the C++   *)
(* declarations say.  A subscriber id stands for a connection or, once     *)
(* operator[] of a send has inserted it, for context 0, and so does an      *)
(* announced namespace; the publisher of a name is always a connection.     *)
TypeOK ==
    /\ conn \in [Context -> {"new", "up", "down"}]
    /\ handling \in [ctx : Context, msg : Message, found : BOOLEAN] \cup {None}
    /\ subscribe_state \in [DOMAIN subscribe_state ->
                              [ns : Namespace, subs : PartialFn(Context, Id)]]
    /\ DOMAIN subscribe_state \subseteq Name
    /\ subscribe_id_state \in PartialFn(Id, Context \cup {None})
    /\ subscriber_id \in Id
    /\ publish_state \in PartialFn(Name, Context)
    /\ publish_namespaces \in [DOMAIN publish_namespaces ->
          [ns : Namespace, state : {"Unknown", "Pending", "Ready"},
           ctx : Context \cup {None}]]
    /\ DOMAIN publish_namespaces \subseteq Name
    /\ \A x \in answering :
          x.ns \in Namespace /\ x.bound \in BOOLEAN /\ x.ref \in Context \cup {None}
    /\ \A s \in sending : s.id \in Id /\ s.bound \in BOOLEAN /\ s.ref \in Context \cup {None}
    /\ \A m \in sent : m.to \in Context \cup {None}
    /\ told \subseteq [ns : Namespace, id : Id, ctx : Context]

(* The id stands for a connection, and has not come back with context 0.   *)
Live(id) == id \in DOMAIN subscribe_id_state /\ subscribe_id_state[id] # None

(* The ids in subscribe_state identify subscriptions: no two entries share  *)
(* one, none is still to be handed out, and subscribe_id_state never sends  *)
(* the traffic of an entry to another connection than the entry's own.      *)
IdsIdentifySubscriptions ==
    \A k \in DOMAIN subscribe_state :
        \A c \in DOMAIN subscribe_state[k].subs :
            LET id == subscribe_state[k].subs[c]
            IN  /\ id < subscriber_id
                /\ Live(id) => subscribe_id_state[id] = c
                /\ \A k2 \in DOMAIN subscribe_state :
                     \A c2 \in DOMAIN subscribe_state[k2].subs :
                        subscribe_state[k2].subs[c2] = id => k2 = k /\ c2 = c

(* A subscriber id never stands for another connection than the one that    *)
(* onSubscribe named for it, and while it stands for that one, whatever is  *)
(* sent under it goes there, however late and from whichever thread: a      *)
(* message goes astray only if the id was erased while it was being sent.   *)
AddresseeAsTold ==
    \A s \in told :
        Live(s.id) =>
            /\ subscribe_id_state[s.id] = s.ctx
            /\ \A m \in sent : "id" \in DOMAIN m /\ m.id = s.id => m.to = s.ctx

(* While a connection is up, each of its entries in subscribe_state can be  *)
(* reached through subscribe_id_state - as long as the transport never      *)
(* gives out the id of a closed connection again.                           *)
ReachableWhileUp ==
    ~ContextReuse =>
        \A k \in DOMAIN subscribe_state :
            \A c \in DOMAIN subscribe_state[k].subs :
                conn[c] = "up" => Live(subscribe_state[k].subs[c])

(* No two namespaces in use share a masked name, i.e. a key.               *)
DistinctKeys == IsInjective(NameOf)

(* Every name with a publisher lies in a namespace that is announced: an    *)
(* ended intent leaves no publisher behind, unless keys collide.            *)
PublishedNamesCovered ==
    DistinctKeys => \A nm \in DOMAIN publish_state : Accepting(nm)

(* A subscriber id leaves subscribe_id_state only when its own connection   *)
(* disconnects or unsubscribes: not through the unlocked lookup and the     *)
(* later operator[] of handle_unsubscribe, and not by somebody else's       *)
(* message.                                                                 *)
OnlyOwnIdsErased ==
    [][\A id \in DOMAIN subscribe_id_state \ DOMAIN subscribe_id_state' :
          LET c == subscribe_id_state[id]
          IN  \/ c = None
              \/ conn[c] = "up" /\ conn'[c] = "down"
              \/ handling # None /\ handling.found /\ handling.ctx = c]_vars

(* A subscriber id that is gone never stands for a connection again, and    *)
(* none moves to another connection: of what enters subscribe_id_state only *)
(* a new id does, though an overlapping send brings old ones back.          *)
IdsNeverReturn ==
    [][\A id \in DOMAIN subscribe_id_state' :
          \/ subscribe_id_state'[id] = None
          \/ id >= subscriber_id
          \/ /\ id \in DOMAIN subscribe_id_state
             /\ subscribe_id_state'[id] = subscribe_id_state[id]]_vars

----------------------------------------------------------------------------
(* What comments and documentation say, and the code does not do.          *)

(* docs/unsubscribe-flows.md:8 and include/quicr/quicr_server.h:124: an     *)
(* Unsubscribe of a connection for a namespace that it still receives       *)
(* objects for is reported with onUnsubscribe.                              *)
UnsubscribeReported ==
    [][\A s \in told :
          /\ Dispatching("Unsubscribe")
          /\ handling' = None
          /\ s.ctx = handling.ctx
          /\ s.ns = handling.msg.ns
          => ~Live(s.id)]_vars

(* src/quicr_server.cpp:399, "Removing state for context_id": once a        *)
(* connection is down and no message of it is being handled, subscribe_state *)
(* holds nothing for it.                                                    *)
DisconnectRemovesState ==
    \A c \in Context :
        conn[c] = "down" /\ handling = None => KeysOf(subscribe_state, c) = {}

(* include/quicr/quicr_server.h:63, "Context id the message was received    *)
(* on": the context passed to onPublisherObject is the sender's.            *)
PublisherIsSender ==
    \A call \in calls : call.cb = "onPublisherObject" => call.ctx = call.from

(* include/quicr/quicr_server.h:193, 209 and 221, subscriber_id:            *)
(* "Subscriber ID to send the message to": what is sent under an id goes to *)
(* the connection that onSubscribe named for it.                            *)
SentToSubscriber ==
    \A m \in sent : "id" \in DOMAIN m =>
        \E s \in told : s.id = m.id /\ s.ctx = m.to
=============================================================================
