---------------------------- MODULE ReallyServer ---------------------------
(***************************************************************************)
(* The relay "really" (cmd/really): a QuicRServer whose delegate answers   *)
(* every intent and subscription and forwards each published object to the *)
(* subscribers that Subscriptions (cmd/really/subscription.cpp) finds.     *)
(*                                                                         *)
(* Callbacks run inside the server's handlers, so the relay's reaction is  *)
(* part of the handler's step: onSubscribe runs after the new id is in     *)
(* subscribe_id_state, onUnsubscribe before the id leaves it, both under   *)
(* the server's mutex.  onPublisherObject runs without it: its copies go   *)
(* out one by one, each in the three steps of a send, and a connection may *)
(* be lost between any two of them.                                        *)
(*                                                                         *)
(* A namespace stands for its (length, masked name) pair, the two indices  *)
(* of Subscriptions; an absent entry and an empty list are the same to it. *)
(***************************************************************************)
EXTENDS QuicRServer

VARIABLES
    subscriptions,  \* Subscriptions::subscriptions: namespace -> set of Remote
    fan,            \* the object that onPublisherObject is copying
    ended           \* history: the ids a SubscribeEnd was sent for

relayVars == <<subscriptions, fan, ended>>
allVars == <<vars, relayVars>>

(* onSubscribe fills in the subscribe_id only: the context and the stream   *)
(* of a Remote stay 0, the context of no connection.                        *)
Remote(id) == [subscribe_id |-> id, context_id |-> None]

Fan ==
    [name : Name, todo : SUBSET (Namespace \X [subscribe_id : Id, context_id : {None}]),
     source : SUBSET Context, done : SUBSET Id]

ASSUME FanAssumption == None \notin Fan

(* Subscriptions::add and remove, on the list they find for the namespace. *)
(* remove erases a remote it did NOT find.                                 *)
add_FirstOnly(list, r) == IF list = {} THEN {r} ELSE list
add(list, r) == list \cup {r}
remove(list, r) == IF r \notin list THEN list \ {r} ELSE list

(* Subscriptions::find collects the remotes under every prefix of the name; *)
(* one that is listed under two prefixes is found twice.                    *)
find(subs, nm) ==
    {f \in Namespace \X UNION {subs[n] : n \in Namespace} :
        nm \in Covers[f[1]] /\ f[2] \in subs[f[1]]}

(* For each callback of cs, one per namespace: subscriptionEnded and then   *)
(* remove.  The ids are still in subscribe_id_state.                        *)
EndMessages_Response(cs) ==
    UNION {ToSubscriber(subscribe_id_state, [type |-> "SubscribeResponse", ns |-> u.ns], u.id) :
             u \in cs}
EndMessages(cs) ==
    UNION {ToSubscriber(subscribe_id_state, [type |-> "SubscribeEnd", ns |-> u.ns], u.id) :
             u \in cs}

onUnsubscribe(cs) ==
    /\ sent' = EndMessages(cs)
    /\ subscriptions' =
         [n \in Namespace |->
            IF \E u \in cs : u.ns = n
            THEN remove(subscriptions[n], Remote((CHOOSE u \in cs : u.ns = n).id))
            ELSE subscriptions[n]]
    /\ ended' = ended \cup {m.id : m \in sent'}
    /\ UNCHANGED fan

onSubscribe_AnswersEarly(call) ==
    /\ subscriptions' = [subscriptions EXCEPT ![call.ns] = add(@, Remote(call.id))]
    /\ sent' = ToSubscriber(subscribe_id_state,
                            [type |-> "SubscribeResponse", ns |-> call.ns], call.id)
    /\ UNCHANGED <<fan, ended>>
onSubscribe(call) ==
    /\ subscriptions' = [subscriptions EXCEPT ![call.ns] = add(@, Remote(call.id))]
    /\ sent' = ToSubscriber(subscribe_id_state',
                            [type |-> "SubscribeResponse", ns |-> call.ns], call.id)
    /\ UNCHANGED <<fan, ended>>

(* The loop of onPublisherObject: the remotes found, except those of the    *)
(* publisher itself, are still to get a copy.  source and done are for the  *)
(* properties: where the object came from, and the ids it went to.          *)
onPublisherObject(call) ==
    fan' = [name |-> call.name,
            todo |-> {f \in find(subscriptions, call.name) : f[2].context_id # call.ctx},
            source |-> {call.ctx, call.from},
            done |-> {}]

Copy(nm, n) == [type |-> "Publish", name |-> nm, prefix |-> n]

----------------------------------------------------------------------------
Quiet == sent' = {} /\ UNCHANGED relayVars

(* The receive thread takes a message when it is done with the last one.   *)
RelayReceive(c, m) ==
    /\ fan = None
    /\ on_recv_notify(c, m)
    /\ UNCHANGED relayVars

RelaySubscribe ==
    handle_subscribe /\ \A call \in calls' : onSubscribe(call)

RelayUnsubscribe ==
    handle_unsubscribe /\ onUnsubscribe(calls')

RelayDisconnect(c) ==
    on_disconnected(c) /\ onUnsubscribe(calls')

RelayPublish ==
    /\ handle_publish
    /\ sent' = {}
    /\ IF calls' = {} THEN UNCHANGED fan ELSE \A call \in calls' : onPublisherObject(call)
    /\ UNCHANGED <<subscriptions, ended>>

(* sendNamedObject for the next remote of the loop.                        *)
RelayCopy(f) ==
    /\ fan # None
    /\ sending = {}
    /\ f \in fan.todo
    /\ send_lookup(Copy(fan.name, f[1]), f[2].subscribe_id)
    /\ fan' = [fan EXCEPT !.todo = @ \ {f}]
    /\ UNCHANGED <<subscriptions, ended>>

RelayFind ==
    /\ \E s \in sending : send_find(s)
    /\ UNCHANGED relayVars

RelayEnqueue ==
    /\ \E s \in sending :
          send_enqueue(s) /\ fan' = [fan EXCEPT !.done = @ \cup {s.id}]
    /\ UNCHANGED <<subscriptions, ended>>

(* The loop is over, and with it handle_publish.                           *)
FanoutOver == fan # None /\ fan.todo = {} /\ sending = {}

RelayPublished ==
    /\ FanoutOver
    /\ fan' = None
    /\ calls' = {}
    /\ sent' = {}
    /\ UNCHANGED <<conn, handling, subVars, pubVars, sending, told, subscriptions, ended>>

(* onPublishIntent answers Ok at once.                                     *)
RelayPublishIntent ==
    LET n == handling.msg.ns
        known == AddIntent(publish_namespaces, n, handling.ctx)
    IN  /\ PublishIntentHandled(AnswerIntent(known, n))
        /\ sent' = IntentAnswers(known, n)
        /\ UNCHANGED relayVars

RelayInit ==
    /\ Init
    /\ fan = None
    /\ subscriptions = [n \in Namespace |-> {}]
    /\ ended = {}

RelayNext ==
    \/ \E c \in Context : on_new_connection(c) /\ UNCHANGED relayVars
    \/ \E c \in Context, m \in Message : RelayReceive(c, m)
    \/ RelaySubscribe
    \/ handle_unsubscribe_check /\ Quiet
    \/ RelayUnsubscribe
    \/ RelayPublish
    \/ fan # None /\ \E f \in fan.todo : RelayCopy(f)
    \/ RelayFind
    \/ RelayEnqueue
    \/ RelayPublished
    \/ RelayPublishIntent
    \/ handle_publish_intent_end /\ Quiet
    \/ IgnoreMessage /\ Quiet
    \/ \E c \in Context : RelayDisconnect(c)

RelaySpec == RelayInit /\ [][RelayNext]_allVars

----------------------------------------------------------------------------
(* Properties.                                                             *)

(* When the copies of an object are out, each subscription that covers its  *)
(* name and is live has one, except perhaps those of the publisher: none    *)
(* is forgotten by Subscriptions or by the removal of another one, however  *)
(* many were lost meanwhile.  And nobody got one who never subscribed to    *)
(* the name.                                                                *)
FanoutExact ==
    FanoutOver =>
        LET covering == {s \in told : fan.name \in Covers[s.ns]}
        IN  /\ {s.id : s \in {t \in covering : Live(t.id) /\ t.ctx \notin fan.source}}
                  \subseteq fan.done
            /\ fan.done \subseteq {s.id : s \in covering}

(* Unless the keys of namespaces collide, a subscriber id gets an object at *)
(* most once, although Subscriptions never forgets an id.                   *)
OneCopyPerId ==
    [][DistinctKeys => \A m \in sent' : m.msg.type = "Publish" => m.id \notin fan.done]_allVars

(* A connection that is up gets a SubscribeResponse for each Subscribe that *)
(* is handled - if no connection id is ever given out again.                *)
SubscribeAnswered ==
    ~ContextReuse => \A call \in calls :
        call.cb = "onSubscribe" /\ conn[call.ctx] = "up" =>
            \E m \in sent : m.to = call.ctx /\ m.msg.type = "SubscribeResponse"

(* A send under the id holds a reference to its connection.                *)
UnderWay(id) == \E s \in sending : s.id = id /\ s.ref # None

(* After the SubscribeEnd of a subscription no connection gets anything     *)
(* under its id any more, neither an object nor a second SubscribeEnd,      *)
(* except for the one copy that may be under way: whatever overlaps, the    *)
(* id never stands for a connection again.  If connection ids are given out *)
(* again, the end of an id may come again, and a copy go astray once more.  *)
EndIsFinal ==
    [][~ContextReuse => \A id \in ended : ~UnderWay(id) =>
          /\ ~UnderWay(id)'
          /\ \A m \in sent' : "id" \in DOMAIN m /\ m.id = id => m.to = None]_allVars

(* What the relay is to its peers, through its maps: a subscription is      *)
(* served while its id stands for its connection, whatever subscribe_state, *)
(* Subscriptions and the entries of lost connections say.  A copy is due    *)
(* from the acceptance of the object until it is enqueued, or until the     *)
(* subscription ends with no reference to its connection held.              *)
Due(s) ==
    LET begun == {x \in sending : x.id = s.id /\ x.msg = Copy(fan.name, s.ns)}
    IN  /\ fan # None
        /\ \/ Live(s.id) /\ (begun # {} \/ <<s.ns, Remote(s.id)>> \in fan.todo)
           \/ \E x \in begun : x.ref # None

Peers == INSTANCE Broker WITH
    members <- {s \in told : Live(s.id)},
    used <- {s.id : s \in told},
    announced <- {publish_namespaces[k].ns : k \in DOMAIN publish_namespaces},
    source <- IF fan = None THEN {} ELSE fan.source,
    pending <- {[to |-> s.ctx, id |-> s.id, msg |-> Copy(fan.name, s.ns)] :
                  s \in {t \in told : Due(t)}},
    out <- {m \in sent : "id" \in DOMAIN m /\ m.to # None}

(* The relay implements the broker: no interleaving of subscribers,         *)
(* publishers and disconnects, between the copies of an object and within   *)
(* one, serves a subscription that was over when the object came, skips one *)
(* that is not, ends one twice or uses an id again.                         *)
ImplementsBroker == Peers!Spec

----------------------------------------------------------------------------
(* What comments and documentation say, and the code does not do.          *)

(* cmd/really/really.cpp:174, "split horizon - drop packets back to the     *)
(* source that originated the published object".                            *)
SplitHorizon ==
    fan # None => \A m \in sent : m.msg.type = "Publish" => m.to \notin fan.source

(* docs/unsubscribe-flows.md:10, the application "Frees any state for       *)
(* tracking the subscription" in onUnsubscribe.                             *)
EndedForgotten ==
    \A n \in Namespace : \A r \in subscriptions[n] : r.subscribe_id \notin ended

(* include/quicr/quicr_client.h:123, "Callback on the response to the       *)
(* publish intent": the sender of a PublishIntent gets the response to it.  *)
IntentAnswered ==
    \A call \in calls : call.cb = "onPublishIntent" =>
        \E m \in sent : m.to = call.ctx
=============================================================================
