------------------------------ MODULE System -------------------------------
(***************************************************************************)
(* One client of libquicr, the relay it is connected to, and the network   *)
(* between them.  The relay has one more connection, Other, whose peer     *)
(* sends any of the messages in PeerTraffic at any time.                   *)
(*                                                                         *)
(* The client puts everything on the one stream that its constructor       *)
(* creates as unreliable (src/quicr_client.cpp:182): messages are          *)
(* datagrams, which may be lost and overtake each other, and are not       *)
(* duplicated.  The two ends notice the loss of the connection at          *)
(* different times, and neither of them makes a new one.                   *)
(*                                                                         *)
(* A patient application subscribes to a namespace that it has no          *)
(* registration for, and unsubscribes once the subscription is answered    *)
(* (cmd/really/reallyTest.cpp:147-173 does, by sleeping in between).       *)
(***************************************************************************)
EXTENDS ReallyServer, Bags

CONSTANTS
    Me,           \* the connection of the client
    Other,        \* the other connection
    Delegate,     \* the delegate objects of the client's application
    PeerTraffic,  \* what the peer behind Other sends
    Lossy,        \* may messages be lost?
    Patient,      \* is the application patient?
    MaxFlight     \* bound on the messages in each direction

ASSUME ConnectionAssumption == Context = {Me, Other} /\ Me # Other
ASSUME TrafficAssumption == PeerTraffic \subseteq Traffic \cap Message
ASSUME NetworkAssumption == Lossy \in BOOLEAN /\ Patient \in BOOLEAN /\ MaxFlight \in Nat

VARIABLES
    phase, client_status, link, sub_delegates, client_subscriptions, pub_delegates,
    alive, sweep, client_handling, client_calls, client_sent, live,
    toRelay,      \* messages of the client on their way
    toClient,     \* messages of the relay to the client on their way
    answered      \* history: the registrations whose delegate has a response

clientVars == <<phase, client_status, link, sub_delegates, client_subscriptions,
                pub_delegates, alive, sweep, client_handling, client_calls,
                client_sent, live>>
systemVars == <<allVars, clientVars, toRelay, toClient, answered>>

(* The types of message that the client sends and gets.                    *)
FromClient == {"Subscribe", "Unsubscribe"}
FromRelay == {"SubscribeResponse", "SubscribeEnd", "Publish"}

(* The client, whose delegates are never dropped and which publishes        *)
(* nothing; only what the network brings is handled.                        *)
Client == INSTANCE QuicRClient WITH
    PubNamespace <- {},
    Traffic <- FromRelay,
    subscribe_state <- client_subscriptions,
    handling <- client_handling,
    calls <- client_calls,
    sent <- client_sent

----------------------------------------------------------------------------
(* The network.                                                            *)

Room(net) == BagCardinality(net) < MaxFlight

(* The messages in S for the client, as it decodes them: it is not told     *)
(* which of its subscriptions an object is sent for.                        *)
Decoded(msg) == IF msg.type = "Publish" THEN [type |-> "Publish", name |-> msg.name] ELSE msg
ForClient(S) ==
    LET mine == {s \in S : s.to = Me}
    IN  [d \in {Decoded(s.msg) : s \in mine} |->
            Cardinality({s \in mine : Decoded(s.msg) = d})]

(* What is enqueued for, or under way on, a connection that an end has      *)
(* given up goes nowhere.                                                   *)
Carry(net, new) == IF link' = "up" /\ conn'[Me] # "down" THEN net (+) new ELSE EmptyBag

(* A step of the client, taking the messages in got off the network, and a  *)
(* step of the relay.                                                       *)
ByClient(step, got) ==
    /\ step
    /\ answered' = DOMAIN sub_delegates' \cap
                     (answered \cup {c.key : c \in {x \in client_calls' :
                                                      x.cb = "SubscribeResponse"}})
    /\ calls' = {}
    /\ sent' = {}
    /\ UNCHANGED <<conn, handling, subVars, pubVars, sending, told, relayVars>>
    /\ toRelay' = Carry(toRelay, SetToBag(client_sent'))
    /\ toClient' = Carry(toClient (-) got, EmptyBag)

ByRelay(step, got) ==
    /\ step
    /\ client_calls' = {}
    /\ client_sent' = {}
    /\ UNCHANGED <<phase, client_status, link, sub_delegates, client_subscriptions,
                   pub_delegates, alive, sweep, client_handling, live, answered>>
    /\ toRelay' = Carry(toRelay (-) got, EmptyBag)
    /\ toClient' = Carry(toClient, ForClient(sent'))

Lose ==
    /\ Lossy
    /\ \/ \E m \in BagToSet(toRelay) :
             toRelay' = toRelay (-) SetToBag({m}) /\ UNCHANGED toClient
       \/ \E m \in BagToSet(toClient) :
             toClient' = toClient (-) SetToBag({m}) /\ UNCHANGED toRelay
    /\ calls' = {}
    /\ sent' = {}
    /\ client_calls' = {}
    /\ client_sent' = {}
    /\ UNCHANGED <<conn, handling, subVars, pubVars, sending, told, relayVars,
                   phase, client_status, link, sub_delegates, client_subscriptions,
                   pub_delegates, alive, sweep, client_handling, live, answered>>

----------------------------------------------------------------------------
(* The client and its application.                                         *)

(* A bound: the relay still has an id for one more Subscribe.              *)
Subscribes ==
    BagCardinality([m \in {x \in BagToSet(toRelay) : x.type = "Subscribe"} |-> toRelay[m]])
      + (IF handling # None /\ handling.msg.type = "Subscribe" THEN 1 ELSE 0)
IdsLeft == subscriber_id + Subscribes < MaxId

AppSubscribe(d, n) ==
    /\ Room(toRelay)
    /\ IdsLeft
    /\ Patient => NameOf[n] \notin DOMAIN sub_delegates
    /\ ByClient(Client!subscribe(d, n), EmptyBag)

AppUnsubscribe(n) ==
    /\ Room(toRelay)
    /\ Patient => NameOf[n] \in answered \cap DOMAIN client_subscriptions
    /\ ByClient(Client!unsubscribe(n), EmptyBag)

ClientThreads ==
    \/ Client!make_transport
    \/ \E t \in Client!Thread : Client!sweepStep(t)
    \/ Client!destroy
    \/ Client!transport_reset
    \/ Client!transport_closed
    \/ Client!Receive
    \/ Client!on_disconnected

ClientReceives(m) ==
    /\ link = "up"
    /\ BagIn(m, toClient)
    /\ ByClient(Client!on_recv_notify(m), SetToBag({m}))

----------------------------------------------------------------------------
(* The relay.                                                              *)

RelayReceives(m) ==
    /\ BagIn(m, toRelay)
    /\ ByRelay(RelayReceive(Me, m), SetToBag({m}))

PeerSends(m) ==
    /\ m \in PeerTraffic
    /\ m.type = "Publish" => Room(toClient)
    /\ m.type = "Subscribe" => IdsLeft
    /\ ByRelay(RelayReceive(Other, m), EmptyBag)

Connect(c) ==
    ByRelay(on_new_connection(c) /\ UNCHANGED relayVars, EmptyBag)

RelayHandles ==
    \/ RelaySubscribe
    \/ handle_unsubscribe_check /\ Quiet
    \/ RelayUnsubscribe
    \/ RelayPublish
    \/ fan # None /\ \E f \in fan.todo : RelayCopy(f)
    \/ RelayFind
    \/ RelayEnqueue
    \/ RelayPublished
    \/ RelayPublishIntent
    \/ handle_publish_intent_end /\ Quiet

----------------------------------------------------------------------------
SystemInit ==
    /\ RelayInit
    /\ Client!Init
    /\ toRelay = EmptyBag
    /\ toClient = EmptyBag
    /\ answered = {}

SystemNext ==
    \/ \E d \in Delegate, n \in Namespace : AppSubscribe(d, n)
    \/ \E n \in Namespace : AppUnsubscribe(n)
    \/ ByClient(ClientThreads, EmptyBag)
    \/ \E m \in BagToSet(toClient) : ClientReceives(m)
    \/ \E m \in BagToSet(toRelay) : RelayReceives(m)
    \/ \E m \in PeerTraffic : PeerSends(m)
    \/ \E c \in Context : Connect(c)
    \/ ByRelay(RelayHandles, EmptyBag)
    \/ \E c \in Context : ByRelay(RelayDisconnect(c), EmptyBag)
    \/ Lose

(* The threads of the client and the relay go on with what they are in; the *)
(* transport reports a connection and, having lost nothing, delivers each   *)
(* message, whatever else keeps arriving at the receiver (strong fairness:  *)
(* a receive thread is busy time and again, and serves every queue).        *)
(* Applications and connections owe nothing.                                *)
Delivery ==
    /\ \A m \in {x \in Client!Incoming : x.type \in FromRelay \ {"Publish"}}
                \cup {x \in PeerTraffic : x.type = "Publish"} :
          SF_systemVars(ClientReceives(m))
    /\ \A m \in {x \in Message : x.type \in FromClient} :
          SF_systemVars(RelayReceives(m))

SystemFairness ==
    /\ WF_systemVars(ByClient(Client!Receive, EmptyBag))
    /\ WF_systemVars(ByRelay(RelayHandles, EmptyBag))
    /\ WF_systemVars(Connect(Me))
    /\ Delivery

SystemSpec == SystemInit /\ [][SystemNext]_systemVars
FairSystemSpec == SystemSpec /\ SystemFairness

----------------------------------------------------------------------------
(* Properties.  The first four hold for patient applications, the others   *)
(* if nothing is lost, too.                                                *)

(* The subscriptions of the client that the relay serves, and whether       *)
(* neither end has given the connection up.                                 *)
ServedIds(n) ==
    {s.id : s \in {t \in told : /\ t.ctx = Me
                                /\ t.ns = n
                                /\ Live(t.id)}}
Connected == phase = "ready" /\ link = "up" /\ conn[Me] = "up"

(* Who was told that its subscription stands, and has not asked for its     *)
(* end, is served: no unsubscribe or disconnect of another connection, no   *)
(* late or lost message, takes the subscription away at the relay alone.    *)
AnsweredIsServed ==
    Connected =>
        \A n \in Namespace :
            NameOf[n] \in answered \cap DOMAIN client_subscriptions => ServedIds(n) # {}

(* A subscription that the relay serves has its delegate at the client: a   *)
(* SubscribeEnd that is under way is never for an older subscription than   *)
(* the one it will end, and nothing is dropped before the relay knows.      *)
ServedIsRegistered ==
    Connected =>
        \A n \in Namespace : ServedIds(n) # {} => NameOf[n] \in DOMAIN sub_delegates

(* The client never has two subscriptions to a namespace at the relay,      *)
(* which would bring it every object twice, although the relay keeps two    *)
(* tables that disagree after the unsubscribe of another connection.        *)
OneIdPerSubscription ==
    \A n \in Namespace : Cardinality(ServedIds(n)) <= 1

(* A registration gets one response: the lookup and the callback of        *)
(* handle() call a delegate once for a message, and no response of an       *)
(* earlier subscription is under way when the next one is made.             *)
AnsweredOnce ==
    [][\A c \in client_calls' : c.cb = "SubscribeResponse" => c.key \notin answered]_systemVars

(* The connection is lost, or the client object is not in use any more.    *)
Lost == phase # "ready" \/ link = "down" \/ conn[Me] = "down"

(* A subscription is answered.                                             *)
SubscribeCompletes ==
    \A n \in Namespace :
        (NameOf[n] \in DOMAIN client_subscriptions) ~> (NameOf[n] \in answered \/ Lost)

(* docs/unsubscribe-flows.md:3-17, flow 1: after unsubscribe() the server   *)
(* reports onUnsubscribe, a SubscribeEnd is sent, the client runs           *)
(* onSubscriptionEnded and removes the delegate.                            *)
UnsubscribeCompletes ==
    \A n \in Namespace :
        (NameOf[n] \in DOMAIN sub_delegates \ DOMAIN client_subscriptions)
            ~> (NameOf[n] \notin DOMAIN sub_delegates \/ Lost)

(* An object that the relay accepts while it serves a subscription of the   *)
(* client reaches the delegate, unless the subscription ends meanwhile.     *)
ObjectArrives ==
    \A n \in Namespace :
        (/\ NameOf[n] \in DOMAIN sub_delegates
         /\ ServedIds(n) # {}
         /\ \E call \in calls : call.cb = "onPublisherObject" /\ call.name \in Covers[n])
            ~> (\/ \E call \in client_calls : call.cb = "Publish" /\ call.key = NameOf[n]
                \/ NameOf[n] \notin DOMAIN sub_delegates
                \/ Lost)
=============================================================================
