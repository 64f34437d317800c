---------------------------- MODULE SystemProofs ---------------------------
(***************************************************************************)
(* Proofs about the client, the relay and the network between them, for    *)
(* patient applications, connection ids that are not given out again and   *)
(* namespaces with distinct keys; any number of namespaces, delegates and  *)
(* messages in flight, any traffic of the peer, any loss and reordering.   *)
(*                                                                         *)
(* For each namespace the invariant follows the four messages that are     *)
(* about it: each is in one place at most, and the tables of the two ends  *)
(* differ only as the messages under way explain.                          *)
(***************************************************************************)
EXTENDS System, ReallyServerProofs, FiniteSetTheorems

(* The message of type t about namespace n, on the network or being worked  *)
(* on.  The client has a SubscribeResponse to work on until the delegate is *)
(* called.                                                                  *)
About(t, n) == [type |-> t, ns |-> n]
ToMe == {"SubscribeResponse", "SubscribeEnd"}

AtRelay(t, n) == handling # None /\ handling.ctx = Me /\ handling.msg = About(t, n)
ToBeTold(n) ==
    \/ client_handling.found # None
    \/ client_handling.held # None
    \/ NameOf[n] \notin client_handling.visited
AtClient(t, n) ==
    /\ client_handling # None
    /\ client_handling.msg = About(t, n)
    /\ t = "SubscribeResponse" => ToBeTold(n)

ToRelay(t, n) == BagIn(About(t, n), toRelay) \/ AtRelay(t, n)
ToClient(t, n) == BagIn(About(t, n), toClient) \/ AtClient(t, n)

Asking(n) == ToRelay("Subscribe", n)
Quitting(n) == ToRelay("Unsubscribe", n)
Answering(n) == ToClient("SubscribeResponse", n)
Ending(n) == ToClient("SubscribeEnd", n)

Serving(n) == ServedIds(n) # {}
InUse == phase \in {"connecting", "ready"} /\ link = "up"
Registered(n) == NameOf[n] \in DOMAIN sub_delegates
Subscribed(n) == NameOf[n] \in DOMAIN client_subscriptions
Told(n) == NameOf[n] \in answered

(* A message is in one place.                                              *)
LoneToRelay(t, n) ==
    BagIn(About(t, n), toRelay) => toRelay[About(t, n)] = 1 /\ ~AtRelay(t, n)
LoneToClient(t, n) ==
    BagIn(About(t, n), toClient) => toClient[About(t, n)] = 1 /\ ~AtClient(t, n)
Lone(n) ==
    /\ \A t \in FromClient : LoneToRelay(t, n)
    /\ \A t \in ToMe : LoneToClient(t, n)

(* A Subscribe is under way only before the relay serves the namespace, a   *)
(* SubscribeEnd only after that; neither a Subscribe nor a response is      *)
(* under way for a registration that has its response.                      *)
Exclusive(n) ==
    /\ \A i, j \in ServedIds(n) : i = j
    /\ Asking(n) => ~Serving(n) /\ ~Ending(n) /\ ~Answering(n)
    /\ Serving(n) => ~Ending(n)
    /\ Asking(n) \/ Answering(n) => ~Told(n)

(* What each message, and the relay, imply about the tables of the client.  *)
Agreed(n) ==
    /\ Asking(n) \/ Serving(n) \/ Ending(n) => Registered(n)
    /\ Asking(n) => Subscribed(n)
    /\ Quitting(n) => Registered(n) /\ Told(n) /\ ~Subscribed(n)
    /\ Ending(n) => ~Subscribed(n) /\ ~Quitting(n)
    /\ Answering(n) => /\ Registered(n) /\ Subscribed(n)
                       /\ conn[Me] # "down" => Serving(n)
    /\ Told(n) /\ Subscribed(n) /\ conn[Me] # "down" => Serving(n)

InvOf(n) == Lone(n) /\ Exclusive(n) /\ (InUse => Agreed(n))

(* The receive thread of the client, and the rest of what the client and    *)
(* the network guarantee by themselves.                                     *)
Proper(m) == m.type \in ToMe => m \in [type : ToMe, ns : Namespace]
InHand ==
    client_handling # None =>
        /\ Proper(client_handling.msg)
        /\ client_handling = [x \in {"msg", "base", "visited", "found", "held", "data"} |->
                                client_handling[x]]
        /\ client_handling.found = None \/ client_handling.held = None
        /\ client_handling.msg.type = "SubscribeResponse" =>
              /\ client_handling.found # None =>
                    /\ client_handling.found = client_handling.msg.ns
                    /\ NameOf[client_handling.found] \in client_handling.visited
              /\ client_handling.held # None =>
                    /\ client_handling.held.key = NameOf[client_handling.msg.ns]
                    /\ client_handling.held.key \in client_handling.visited
Tidy ==
    /\ answered \subseteq DOMAIN sub_delegates
    /\ InUse => \A t \in Client!Thread : sweep[t] = {}
    /\ InHand
    /\ DOMAIN toRelay \subseteq Message
    /\ \A m \in DOMAIN toClient : Proper(m)

SystemInv == RelayInv /\ Tidy /\ \A n \in Namespace : InvOf(n)

(* The conditions of the theorems.                                         *)
Conditions == Patient /\ ~ContextReuse /\ DistinctKeys

----------------------------------------------------------------------------
(* Messages on the network, one at a time.                                 *)

(* What is added to the network.                                           *)
LEMMA AddFacts ==
    ASSUME NEW B, NEW C, NEW m
    PROVE  /\ BagIn(m, B (+) C) <=> BagIn(m, B) \/ BagIn(m, C)
           /\ BagIn(m, B) /\ B[m] = 1 /\ ~BagIn(m, C) => (B (+) C)[m] = 1
           /\ BagIn(m, C) /\ C[m] = 1 /\ ~BagIn(m, B) => (B (+) C)[m] = 1
BY DEF BagIn, BagToSet, (+)

(* What is taken off the network, of messages with one copy.               *)
LEMMA TakeFacts ==
    ASSUME NEW B, NEW x, NEW m, BagIn(m, B) => B[m] = 1
    PROVE  /\ BagIn(m, B (-) SetToBag({x})) =>
                BagIn(m, B) /\ m # x /\ (B (-) SetToBag({x}))[m] = 1
           /\ BagIn(m, B (-) EmptyBag) => BagIn(m, B) /\ (B (-) EmptyBag)[m] = 1
BY DEF BagIn, BagToSet, SetToBag, EmptyBag, (-)

LEMMA TakeLeaves ==
    ASSUME NEW B, NEW C, NEW m, BagIn(m, B (-) C)
    PROVE  BagIn(m, B)
BY DEF BagIn, BagToSet, (-)

(* Nothing is in the empty bag, and only its members are in a set.          *)
LEMMA SetFacts ==
    ASSUME NEW S, NEW m
    PROVE  /\ ~BagIn(m, EmptyBag)
           /\ BagIn(m, SetToBag(S)) <=> m \in S
           /\ m \in S => SetToBag(S)[m] = 1
BY DEF BagIn, BagToSet, SetToBag, EmptyBag

(* The network carries on, or loses everything with the connection.        *)
LEMMA CarryFacts ==
    ASSUME NEW net, NEW new
    PROVE  /\ link' = "up" /\ conn'[Me] # "down" => Carry(net, new) = net (+) new
           /\ ~(link' = "up" /\ conn'[Me] # "down") => Carry(net, new) = EmptyBag
BY DEF Carry

(* A network that gets nothing new about n.                                *)
LEMMA CarryKeeps ==
    ASSUME NEW net, NEW new, NEW m,
           BagIn(m, net) => net[m] = 1,
           ~BagIn(m, new),
           BagIn(m, Carry(net, new))
    PROVE  BagIn(m, net) /\ Carry(net, new)[m] = 1
BY CarryFacts, AddFacts, SetFacts

(* What the relay sends the client, of messages about a namespace.          *)
LEMMA ForClientFacts ==
    ASSUME NEW S, NEW t \in ToMe, NEW n
    PROVE  /\ BagIn(About(t, n), ForClient(S)) <=>
                \E s \in S : s.to = Me /\ s.msg = About(t, n)
           /\ \A s : S = {s} /\ s.to = Me /\ s.msg = About(t, n) =>
                ForClient(S)[About(t, n)] = 1
<1> DEFINE m == About(t, n)
           mine == {s \in S : s.to = Me}
<1>1. \A s : Decoded(s.msg) = m <=> s.msg = m
    BY DEF Decoded, About, ToMe
<1>2. BagIn(m, ForClient(S)) <=> \E s \in mine : Decoded(s.msg) = m
    BY DEF BagIn, BagToSet, ForClient
<1>3. ASSUME NEW s, S = {s}, s.to = Me, s.msg = m
      PROVE  ForClient(S)[m] = 1
  <2>1. {x \in mine : Decoded(x.msg) = m} = {s}
    BY <1>1, <1>3
  <2>2. Cardinality({s}) = 1
    BY FS_Singleton
  <2>3. m \in {Decoded(x.msg) : x \in mine}
    BY <1>1, <1>3
  <2>. QED
    BY <2>1, <2>2, <2>3 DEF ForClient
<1>. QED
    BY <1>1, <1>2, <1>3

----------------------------------------------------------------------------
(* Steps that bring nothing new for n.                                     *)

(* No message about n appears; one that is received leaves the network.     *)
LessToRelay(t, n) ==
    /\ BagIn(About(t, n), toRelay') =>
          BagIn(About(t, n), toRelay) /\ toRelay'[About(t, n)] = 1
    /\ AtRelay(t, n)' =>
          \/ AtRelay(t, n)
          \/ BagIn(About(t, n), toRelay) /\ ~BagIn(About(t, n), toRelay')
LessToClient(t, n) ==
    /\ BagIn(About(t, n), toClient') =>
          BagIn(About(t, n), toClient) /\ toClient'[About(t, n)] = 1
    /\ AtClient(t, n)' =>
          \/ AtClient(t, n)
          \/ BagIn(About(t, n), toClient) /\ ~BagIn(About(t, n), toClient')
NoneToRelay(n) == \A t \in FromClient : LessToRelay(t, n)
NoneToClient(n) == \A t \in ToMe : LessToClient(t, n)

(* The tables of the client are as they were, but for entries left by a     *)
(* second lookup, or it is not in use; nobody is told anything.             *)
SameAtClient(n) ==
    /\ Told(n)' => Told(n)
    /\ InUse' => /\ InUse
                 /\ Registered(n) => Registered(n)'
                 /\ Subscribed(n)' <=> Subscribed(n)
                 /\ Told(n)' <=> Told(n)

(* The relay serves n as it did, or has lost the connection.               *)
DownStaysDown == conn[Me] = "down" => conn'[Me] = "down"
SameAtRelay(n) ==
    /\ DownStaysDown
    /\ ServedIds(n)' \subseteq ServedIds(n)
    /\ conn'[Me] # "down" => ServedIds(n)' = ServedIds(n)

LEMMA LessRelay ==
    ASSUME NEW n, NEW t, LoneToRelay(t, n), LessToRelay(t, n)
    PROVE  LoneToRelay(t, n)' /\ (ToRelay(t, n)' => ToRelay(t, n))
BY DEF LoneToRelay, LessToRelay, ToRelay

LEMMA LessClient ==
    ASSUME NEW n, NEW t, LoneToClient(t, n), LessToClient(t, n)
    PROVE  LoneToClient(t, n)' /\ (ToClient(t, n)' => ToClient(t, n))
BY DEF LoneToClient, LessToClient, ToClient

(* The messages to the relay are not more than before, ...                  *)
LEMMA NoneToRelayFacts ==
    ASSUME NEW n, Lone(n), NoneToRelay(n)
    PROVE  /\ \A t \in FromClient : LoneToRelay(t, n)'
           /\ Asking(n)' => Asking(n)
           /\ Quitting(n)' => Quitting(n)
<1>1. ASSUME NEW t \in FromClient
      PROVE  LoneToRelay(t, n)' /\ (ToRelay(t, n)' => ToRelay(t, n))
    BY <1>1, LessRelay DEF Lone, NoneToRelay
<1>. QED
    BY <1>1 DEF FromClient, Asking, Quitting

(* ... nor those to the client.                                            *)
LEMMA NoneToClientFacts ==
    ASSUME NEW n, Lone(n), NoneToClient(n)
    PROVE  /\ \A t \in ToMe : LoneToClient(t, n)'
           /\ Answering(n)' => Answering(n)
           /\ Ending(n)' => Ending(n)
<1>1. ASSUME NEW t \in ToMe
      PROVE  LoneToClient(t, n)' /\ (ToClient(t, n)' => ToClient(t, n))
    BY <1>1, LessClient DEF Lone, NoneToClient
<1>. QED
    BY <1>1 DEF ToMe, Answering, Ending

(* Both together.                                                          *)
LEMMA LessFacts ==
    ASSUME NEW n, InvOf(n), NoneToRelay(n), NoneToClient(n)
    PROVE  /\ Lone(n)'
           /\ Asking(n)' => Asking(n)
           /\ Quitting(n)' => Quitting(n)
           /\ Answering(n)' => Answering(n)
           /\ Ending(n)' => Ending(n)
BY NoneToRelayFacts, NoneToClientFacts DEF InvOf, Lone

(* What only forgets keeps the invariant.                                  *)
LEMMA ForgetKeeps ==
    ASSUME NEW n, InvOf(n), NoneToRelay(n), NoneToClient(n), SameAtClient(n), SameAtRelay(n)
    PROVE  InvOf(n)'
<1>1. Exclusive(n)'
    BY LessFacts DEF InvOf, Exclusive, SameAtRelay, SameAtClient, Serving
<1>2. InUse' => Agreed(n)'
    BY LessFacts DEF InvOf, Agreed, SameAtRelay, SameAtClient, DownStaysDown, Serving
<1>. QED
    BY <1>1, <1>2, LessFacts DEF InvOf

----------------------------------------------------------------------------
(* Steps of the client.                                                    *)

(* What every step of the client does to the rest of the system.           *)
ClientFrame(got) ==
    /\ answered' = DOMAIN sub_delegates' \cap
                     (answered \cup {c.key : c \in {x \in client_calls' :
                                                      x.cb = "SubscribeResponse"}})
    /\ calls' = {}
    /\ sent' = {}
    /\ UNCHANGED <<conn, handling, subVars, pubVars, sending, told, subscriptions, fan, ended>>
    /\ toRelay' = Carry(toRelay, SetToBag(client_sent'))
    /\ toClient' = Carry(toClient (-) got, EmptyBag)

(* The relay does not notice.                                              *)
LEMMA RelayStays ==
    ASSUME RelayInv, calls' = {}, sent' = {},
           UNCHANGED <<conn, handling, subVars, pubVars, sending, told, subscriptions, fan,
                       ended>>
    PROVE  /\ RelayInv'
           /\ \A n : SameAtRelay(n)
           /\ \A n, t : AtRelay(t, n)' <=> AtRelay(t, n)
<1>1. TypeOK'
    BY DEF RelayInv, IInv, TypeOK, subVars, pubVars
<1>2. IInv'
    BY <1>1, QuietStep DEF RelayInv
<1>l. \A i : Live(i)' <=> Live(i)
    BY DEF Live, subVars
<1>3. KeyedByName' /\ FanInv'
    BY <1>l, SameFan DEF RelayInv, KeyedByName, pubVars, subVars
<1>4. RelayInv'
    BY <1>2, <1>3, <1>l, QuietKeeps DEF subVars, Has
<1>5. \A n : SameAtRelay(n)
    BY <1>l DEF SameAtRelay, DownStaysDown, ServedIds
<1>6. \A n, t : AtRelay(t, n)' <=> AtRelay(t, n)
    BY DEF AtRelay
<1>. QED
    BY <1>4, <1>5, <1>6

LEMMA FrameFacts ==
    ASSUME SystemInv, NEW got, ClientFrame(got)
    PROVE  /\ RelayInv'
           /\ answered' \subseteq DOMAIN sub_delegates'
           /\ \A n : SameAtRelay(n)
           /\ \A n, t : AtRelay(t, n)' <=> AtRelay(t, n)
BY RelayStays DEF SystemInv, ClientFrame

(* The client sends nothing about n.                                       *)
LEMMA SendsNothing ==
    ASSUME SystemInv, NEW got, ClientFrame(got), NEW n \in Namespace,
           \A t \in FromClient : About(t, n) \notin client_sent'
    PROVE  NoneToRelay(n)
<1>1. SUFFICES ASSUME NEW t \in FromClient
               PROVE  LessToRelay(t, n)
    BY DEF NoneToRelay
<1>2. BagIn(About(t, n), toRelay) => toRelay[About(t, n)] = 1
    BY DEF SystemInv, InvOf, Lone, LoneToRelay
<1>3. ~BagIn(About(t, n), SetToBag(client_sent'))
    BY SetFacts
<1>4. BagIn(About(t, n), toRelay') =>
          BagIn(About(t, n), toRelay) /\ toRelay'[About(t, n)] = 1
    BY <1>2, <1>3, CarryKeeps DEF ClientFrame
<1>5. AtRelay(t, n)' => AtRelay(t, n)
    BY FrameFacts
<1>. QED
    BY <1>4, <1>5 DEF LessToRelay

(* The client takes nothing, and has nothing new, to work on.              *)
LEMMA ReceivesNothing ==
    ASSUME SystemInv, ClientFrame(EmptyBag), NEW n \in Namespace,
           \A t \in ToMe : AtClient(t, n)' => AtClient(t, n)
    PROVE  NoneToClient(n)
<1>1. SUFFICES ASSUME NEW t \in ToMe
               PROVE  LessToClient(t, n)
    BY DEF NoneToClient
<1>2. BagIn(About(t, n), toClient) => toClient[About(t, n)] = 1
    BY DEF SystemInv, InvOf, Lone, LoneToClient
<1> DEFINE net == toClient (-) EmptyBag
<1>3. BagIn(About(t, n), net) => BagIn(About(t, n), toClient) /\ net[About(t, n)] = 1
    BY <1>2, TakeFacts
<1>4. toClient' = Carry(net, EmptyBag)
    BY DEF ClientFrame
<1>5. ~BagIn(About(t, n), EmptyBag)
    BY SetFacts
<1> HIDE DEF net
<1>6. BagIn(About(t, n), toClient') =>
          BagIn(About(t, n), net) /\ toClient'[About(t, n)] = 1
    BY <1>3, <1>4, <1>5, CarryKeeps
<1>. QED
    BY <1>3, <1>6 DEF LessToClient

(* Such a step keeps the invariant, unless it changes the tables of a       *)
(* client that is in use.                                                   *)
LEMMA ClientForgets ==
    ASSUME SystemInv, ClientFrame(EmptyBag), NEW n \in Namespace,
           \A t \in FromClient : About(t, n) \notin client_sent',
           \A t \in ToMe : AtClient(t, n)' => AtClient(t, n),
           SameAtClient(n)
    PROVE  InvOf(n)'
BY SendsNothing, ReceivesNothing, FrameFacts, ForgetKeeps DEF SystemInv

(* The messages to the relay stay messages.                                 *)
LEMMA FrameMessages ==
    ASSUME SystemInv, NEW got, ClientFrame(got), client_sent' \subseteq Message
    PROVE  DOMAIN toRelay' \subseteq Message
<1>1. SUFFICES ASSUME NEW m, BagIn(m, toRelay')
               PROVE  m \in Message
    BY DEF BagIn, BagToSet
<1>2. BagIn(m, toRelay) \/ BagIn(m, SetToBag(client_sent'))
    BY <1>1, CarryFacts, AddFacts, SetFacts DEF ClientFrame
<1>. QED
    BY <1>2, SetFacts DEF SystemInv, Tidy, BagIn, BagToSet

(* Nothing is added to the messages to the client.                         *)
LEMMA FrameProper ==
    ASSUME SystemInv, NEW got, ClientFrame(got)
    PROVE  \A m \in DOMAIN toClient' : Proper(m)
<1>1. SUFFICES ASSUME NEW m, BagIn(m, toClient')
               PROVE  Proper(m)
    BY DEF BagIn, BagToSet
<1>2. BagIn(m, toClient (-) got)
    BY <1>1, CarryFacts, AddFacts, SetFacts DEF ClientFrame
<1>3. BagIn(m, toClient)
    BY <1>2, TakeLeaves
<1>. QED
    BY <1>3 DEF SystemInv, Tidy, BagIn, BagToSet

(* The client connects, loses the connection or is destroyed; a removal of  *)
(* all goes on; a race brings the process down.                             *)
LifeCycle ==
    \/ Client!make_transport
    \/ \E t \in Client!Thread : Client!sweepStep(t)
    \/ Client!destroy
    \/ Client!transport_reset
    \/ Client!transport_closed
    \/ Client!on_disconnected
    \/ Client!handle_race

(* None of it touches the tables of a client that is in use.               *)
LEMMA LifeCycleFacts ==
    ASSUME Tidy, LifeCycle
    PROVE  /\ client_sent' = {}
           /\ client_handling' = client_handling
           /\ \A c \in client_calls' : c.cb # "SubscribeResponse"
           /\ InUse' => /\ InUse
                        /\ UNCHANGED <<sub_delegates, client_subscriptions, sweep>>
<1>1. CASE Client!make_transport
    BY <1>1 DEF Client!make_transport, Client!regVars, InUse
<1>2. CASE \E t \in Client!Thread : Client!sweepStep(t)
  <2>1. \A c \in client_calls' : c.cb # "SubscribeResponse"
    BY <1>2 DEF Client!sweepStep, Client!removeSubscribeState
  <2>. QED
    BY <1>2, <2>1 DEF Client!sweepStep, InUse, Tidy
<1>3. CASE Client!destroy
    BY <1>3 DEF Client!destroy, InUse
<1>4. CASE Client!transport_reset
    BY <1>4 DEF Client!transport_reset, InUse
<1>5. CASE Client!transport_closed
    BY <1>5 DEF Client!transport_closed, InUse
<1>6. CASE Client!on_disconnected
    BY <1>6 DEF Client!on_disconnected, InUse
<1>7. CASE Client!handle_race
    BY <1>7 DEF Client!handle_race, InUse
<1>. QED
    BY <1>1, <1>2, <1>3, <1>4, <1>5, <1>6, <1>7 DEF LifeCycle

(* A client whose tables and callbacks stay as they are knows of n what it  *)
(* knew.                                                                    *)
LEMMA TablesStay ==
    ASSUME SystemInv, NEW got, ClientFrame(got), NEW n \in Namespace,
           \A c \in client_calls' : c.cb # "SubscribeResponse",
           InUse' => /\ InUse /\ UNCHANGED client_subscriptions
                     /\ DOMAIN sub_delegates \subseteq DOMAIN sub_delegates'
    PROVE  SameAtClient(n)
<1>1. answered' = DOMAIN sub_delegates' \cap answered
    BY DEF ClientFrame
<1>2. InUse' => answered' = answered
    BY <1>1 DEF SystemInv, Tidy
<1>. QED
    BY <1>1, <1>2 DEF SameAtClient, Registered, Subscribed, Told

LEMMA LifeCycleStep ==
    ASSUME SystemInv, LifeCycle, ClientFrame(EmptyBag)
    PROVE  SystemInv'
<1>1. /\ client_sent' = {}
      /\ client_handling' = client_handling
      /\ \A c \in client_calls' : c.cb # "SubscribeResponse"
      /\ InUse' => /\ InUse
                   /\ UNCHANGED <<sub_delegates, client_subscriptions, sweep>>
    BY LifeCycleFacts DEF SystemInv
<1>2. ASSUME NEW n \in Namespace
      PROVE  InvOf(n)'
  <2>1. \A t \in FromClient : About(t, n) \notin client_sent'
    BY <1>1
  <2>2. \A t \in ToMe : AtClient(t, n)' => AtClient(t, n)
    BY <1>1 DEF AtClient, ToBeTold
  <2>3. SameAtClient(n)
    BY <1>1, TablesStay
  <2>. QED
    BY <2>1, <2>2, <2>3, ClientForgets
<1>3. DOMAIN toRelay' \subseteq Message
    BY <1>1, FrameMessages
<1>4. InHand'
    BY <1>1 DEF SystemInv, Tidy, InHand
<1>5. InUse' => \A t \in Client!Thread : sweep'[t] = {}
    BY <1>1 DEF SystemInv, Tidy
<1>6. Tidy'
    BY <1>3, <1>4, <1>5, FrameFacts, FrameProper DEF Tidy
<1>. QED
    BY <1>2, <1>6, FrameFacts DEF SystemInv

(* The receive thread, without the steps that change what the client knows. *)
Looking ==
    \/ Client!handle_lookup
    \/ Client!handle_find
    \/ Client!handle_return
    \/ Client!handle_other

(* A SubscribeResponse in hand finds its own namespace only, once; an entry *)
(* that is gone when it is looked up again is made anew.                    *)
LEMMA LookingFacts ==
    ASSUME InHand, Looking
    PROVE  /\ client_sent' = {}
           /\ UNCHANGED <<phase, link, client_subscriptions, sweep>>
           /\ DOMAIN sub_delegates \subseteq DOMAIN sub_delegates'
           /\ \A c \in client_calls' : c.cb # "SubscribeResponse"
           /\ InHand'
           /\ \A n, t : AtClient(t, n)' => AtClient(t, n)
<1> DEFINE ch == client_handling
<1>1. CASE Client!handle_lookup
  <2>1. PICK k \in Client!Matches(ch.msg) \ ch.visited :
          ch' = [ch EXCEPT
                 !.visited = @ \cup {k},
                 !.found = IF ch.msg.type = "Publish" THEN sub_delegates[k].ns ELSE ch.msg.ns]
    BY <1>1 DEF Client!handle_lookup
  <2> DEFINE h == IF ch.msg.type = "Publish" THEN sub_delegates[k].ns ELSE ch.msg.ns
  <2>2. /\ ch # None /\ ch.found = None /\ ch.held = None
        /\ client_sent' = {}
        /\ client_calls' = {}
        /\ UNCHANGED <<phase, link, sub_delegates, client_subscriptions, sweep>>
    BY <1>1 DEF Client!handle_lookup, Client!InHandle, Client!regVars
  <2>3. ch.msg.type = "SubscribeResponse" => h = ch.msg.ns
    OBVIOUS
  <2>4. ch' = [ch EXCEPT !.visited = @ \cup {k}, !.found = h]
    BY <2>1
  <2> HIDE DEF h
  <2>5. /\ ch' = [x \in {"msg", "base", "visited", "found", "held", "data"} |-> ch'[x]]
        /\ ch'.msg = ch.msg
        /\ ch'.visited = ch.visited \cup {k}
        /\ ch'.found = h
        /\ ch'.held = ch.held
    BY <2>2, <2>4 DEF InHand
  <2>6. ch.msg.type = "SubscribeResponse" => k = NameOf[ch.msg.ns]
    BY <2>1 DEF Client!Matches
  <2>7. InHand'
    BY <2>2, <2>3, <2>5, <2>6 DEF InHand, Proper
  <2>8. \A n, t : AtClient(t, n)' => AtClient(t, n)
    BY <2>1, <2>2, <2>5, <2>6 DEF AtClient, ToBeTold, About
  <2>. QED
    BY <2>2, <2>7, <2>8
<1>2. CASE Client!handle_find
  <2> DEFINE k == NameOf[ch.found]
             after == Client!Entered(Client!Table(ch.msg), ch.found)
             h == Client!Locked(k, after[k].d)
  <2>1. /\ ch # None /\ ch.found # None
        /\ client_sent' = {}
        /\ client_calls' = {}
        /\ UNCHANGED <<phase, link, client_subscriptions, sweep>>
    BY <1>2 DEF Client!handle_find, Client!InHandle
  <2>2. h = None \/ h.key = k
    BY DEF Client!Locked
  <2>3. ch' = [ch EXCEPT !.found = None, !.held = h]
    BY <1>2 DEF Client!handle_find
  <2>4. DOMAIN sub_delegates \subseteq DOMAIN sub_delegates'
    <3>1. sub_delegates' = sub_delegates \/ sub_delegates' = Client!Entered(sub_delegates, ch.found)
      BY <1>2 DEF Client!handle_find, Client!Table
    <3>2. DOMAIN sub_delegates \subseteq DOMAIN Client!Entered(sub_delegates, ch.found)
      BY DEF Client!Entered, Client!Put
    <3>. QED
      BY <3>1, <3>2
  <2> HIDE DEF h
  <2>5. /\ ch' = [x \in {"msg", "base", "visited", "found", "held", "data"} |-> ch'[x]]
        /\ ch'.msg = ch.msg
        /\ ch'.visited = ch.visited
        /\ ch'.found = None
        /\ ch'.held = h
    BY <2>1, <2>3 DEF InHand
  <2>6. InHand'
    BY <2>1, <2>2, <2>5 DEF InHand, Proper
  <2>7. \A n, t : AtClient(t, n)' => AtClient(t, n)
    BY <2>1, <2>5 DEF AtClient, ToBeTold
  <2>. QED
    BY <2>1, <2>4, <2>6, <2>7
<1>3. CASE Client!handle_return
    BY <1>3 DEF Client!handle_return, Client!regVars, InHand, AtClient
<1>4. CASE Client!handle_other
    BY <1>4 DEF Client!handle_other, Client!regVars, InHand, AtClient
<1>. QED
    BY <1>1, <1>2, <1>3, <1>4 DEF Looking

LEMMA LookingStep ==
    ASSUME SystemInv, Looking, ClientFrame(EmptyBag)
    PROVE  SystemInv'
<1>1. /\ client_sent' = {}
      /\ UNCHANGED <<phase, link, client_subscriptions, sweep>>
      /\ DOMAIN sub_delegates \subseteq DOMAIN sub_delegates'
      /\ \A c \in client_calls' : c.cb # "SubscribeResponse"
      /\ InHand'
      /\ \A n, t : AtClient(t, n)' => AtClient(t, n)
    BY LookingFacts DEF SystemInv, Tidy
<1>2. InUse' <=> InUse
    BY <1>1 DEF InUse
<1>3. ASSUME NEW n \in Namespace
      PROVE  InvOf(n)'
  <2>1. \A t \in FromClient : About(t, n) \notin client_sent'
    BY <1>1
  <2>2. SameAtClient(n)
    BY <1>1, <1>2, TablesStay
  <2>. QED
    BY <1>1, <2>1, <2>2, ClientForgets
<1>4. DOMAIN toRelay' \subseteq Message
    BY <1>1, FrameMessages
<1>5. InUse' => \A t \in Client!Thread : sweep'[t] = {}
    BY <1>1, <1>2 DEF SystemInv, Tidy
<1>6. Tidy'
    BY <1>1, <1>4, <1>5, FrameFacts, FrameProper DEF Tidy
<1>. QED
    BY <1>3, <1>6, FrameFacts DEF SystemInv

(* Namespaces do not share keys.                                           *)
LEMMA KeysDiffer ==
    ASSUME DistinctKeys, NEW n \in Namespace, NEW x \in Namespace, NameOf[n] = NameOf[x]
    PROVE  n = x
BY NamespaceAssumption DEF DistinctKeys, IsInjective

(* The delegate is called: of a SubscribeResponse, it is the only one, the  *)
(* namespace was not answered before, and now nothing of it is under way.   *)
LEMMA CallbackFacts ==
    ASSUME InHand, Client!handle_callback
    PROVE  /\ client_handling # None
           /\ client_handling.held # None
           /\ client_sent' = {}
           /\ UNCHANGED <<phase, link, sub_delegates, client_subscriptions, sweep>>
           /\ {c.key : c \in {x \in client_calls' : x.cb = "SubscribeResponse"}} =
                IF client_handling.msg.type = "SubscribeResponse"
                THEN {client_handling.held.key} ELSE {}
           /\ InHand'
           /\ \A n, t : AtClient(t, n)' =>
                /\ AtClient(t, n)
                /\ t = "SubscribeResponse" => NameOf[n] \notin client_handling.visited
<1>1. /\ client_handling # None
      /\ client_handling.held # None
      /\ client_sent' = {}
      /\ UNCHANGED <<phase, link, sub_delegates, client_subscriptions, sweep>>
      /\ client_calls' = {[cb |-> client_handling.msg.type, key |-> client_handling.held.key,
                           d |-> client_handling.held.d, data |-> client_handling.data]}
    BY DEF Client!handle_callback, Client!InHandle, Client!regVars
<1>2. PICK data : client_handling' = [client_handling EXCEPT !.held = None, !.data = data]
    BY DEF Client!handle_callback
<1>3. /\ client_handling' = [x \in {"msg", "base", "visited", "found", "held", "data"} |->
                               client_handling'[x]]
      /\ client_handling'.msg = client_handling.msg
      /\ client_handling'.visited = client_handling.visited
      /\ client_handling'.found = client_handling.found
      /\ client_handling'.held = None
    BY <1>1, <1>2 DEF InHand
<1>4. InHand'
    BY <1>1, <1>3 DEF InHand, Proper
<1>5. \A n, t : AtClient(t, n)' =>
         /\ AtClient(t, n)
         /\ t = "SubscribeResponse" => NameOf[n] \notin client_handling.visited
    BY <1>1, <1>3 DEF AtClient, ToBeTold, InHand
<1> DEFINE r == [cb |-> client_handling.msg.type, key |-> client_handling.held.key,
                 d |-> client_handling.held.d, data |-> client_handling.data]
<1>6. /\ client_calls' = {r}
      /\ r.cb = client_handling.msg.type
      /\ r.key = client_handling.held.key
    BY <1>1
<1> HIDE DEF r
<1>7. {c.key : c \in {x \in client_calls' : x.cb = "SubscribeResponse"}} =
        IF client_handling.msg.type = "SubscribeResponse"
        THEN {client_handling.held.key} ELSE {}
    BY <1>6
<1>. QED
    BY <1>1, <1>4, <1>5, <1>7

LEMMA CallbackStep ==
    ASSUME DistinctKeys, SystemInv, Client!handle_callback, ClientFrame(EmptyBag)
    PROVE  SystemInv'
<1> DEFINE m == client_handling.msg
<1>1. /\ client_handling # None
      /\ client_handling.held # None
      /\ client_sent' = {}
      /\ UNCHANGED <<phase, link, sub_delegates, client_subscriptions, sweep>>
      /\ {c.key : c \in {x \in client_calls' : x.cb = "SubscribeResponse"}} =
           IF m.type = "SubscribeResponse" THEN {client_handling.held.key} ELSE {}
      /\ InHand'
      /\ \A n, t : AtClient(t, n)' =>
           /\ AtClient(t, n)
           /\ t = "SubscribeResponse" => NameOf[n] \notin client_handling.visited
    BY CallbackFacts DEF SystemInv, Tidy
<1>2. InUse' <=> InUse
    BY <1>1 DEF InUse
<1>3. answered' = DOMAIN sub_delegates \cap
        (answered \cup IF m.type = "SubscribeResponse" THEN {client_handling.held.key} ELSE {})
    BY <1>1 DEF ClientFrame
<1>4. m.type = "SubscribeResponse" =>
         /\ m.ns \in Namespace
         /\ m = About("SubscribeResponse", m.ns)
         /\ client_handling.held.key = NameOf[m.ns]
         /\ NameOf[m.ns] \in client_handling.visited
    BY <1>1 DEF SystemInv, Tidy, InHand, Proper, About, ToMe
<1>5. ASSUME NEW n \in Namespace
      PROVE  InvOf(n)'
  <2>1. InvOf(n)
    BY DEF SystemInv
  <2>2. \A t \in FromClient : About(t, n) \notin client_sent'
    BY <1>1
  <2>3. \A t \in ToMe : AtClient(t, n)' => AtClient(t, n)
    BY <1>1
  <2>4. NoneToRelay(n) /\ NoneToClient(n) /\ SameAtRelay(n)
    BY <2>2, <2>3, SendsNothing, ReceivesNothing, FrameFacts
  <2>5. /\ Registered(n)' <=> Registered(n)
        /\ Subscribed(n)' <=> Subscribed(n)
    BY <1>1 DEF Registered, Subscribed
  <2>6. CASE m.type = "SubscribeResponse" /\ n = m.ns
    <3>1. AtClient("SubscribeResponse", n)
      BY <1>1, <1>4, <2>6 DEF AtClient, ToBeTold
    <3>2. ~BagIn(About("SubscribeResponse", n), toClient)
      BY <2>1, <3>1 DEF InvOf, Lone, LoneToClient, ToMe
    <3>3. ~BagIn(About("SubscribeResponse", n), toClient')
      BY <2>4, <3>2 DEF NoneToClient, LessToClient, ToMe
    <3>4. ~AtClient("SubscribeResponse", n)'
      BY <1>1, <1>4, <2>6
    <3>5. Answering(n) /\ ~Answering(n)'
      BY <3>1, <3>3, <3>4 DEF Answering, ToClient
    <3>6. Exclusive(n)'
      BY <2>1, <2>4, <3>5, LessFacts DEF InvOf, Exclusive, SameAtRelay, Serving
    <3>7. ASSUME InUse'
          PROVE  Agreed(n)'
      <4>1. Agreed(n)
        BY <1>2, <2>1, <3>7 DEF InvOf
      <4>2. ~Asking(n) /\ ~Quitting(n) /\ ~Ending(n)
        BY <2>1, <3>5, <4>1 DEF InvOf, Exclusive, Agreed
      <4>3. conn'[Me] # "down" => Serving(n)'
        BY <2>4, <3>5, <4>1 DEF Agreed, SameAtRelay, DownStaysDown, Serving
      <4>4. Registered(n)'
        BY <2>5, <3>5, <4>1 DEF Agreed
      <4>. QED
        BY <2>1, <2>4, <3>5, <4>2, <4>3, <4>4, LessFacts DEF Agreed
    <3>. QED
      BY <2>1, <2>4, <3>6, <3>7, LessFacts DEF InvOf
  <2>7. CASE ~(m.type = "SubscribeResponse" /\ n = m.ns)
    <3>1. Told(n)' <=> Told(n)
      <4>1. m.type = "SubscribeResponse" => NameOf[n] # client_handling.held.key
        BY <1>4, <2>7, KeysDiffer
      <4>. QED
        BY <1>3, <4>1 DEF SystemInv, Tidy, Told
    <3>2. SameAtClient(n)
      BY <1>2, <2>5, <3>1 DEF SameAtClient
    <3>. QED
      BY <2>1, <2>4, <3>2, ForgetKeeps
  <2>. QED
    BY <2>6, <2>7
<1>6. DOMAIN toRelay' \subseteq Message
    BY <1>1, FrameMessages
<1>7. InUse' => \A t \in Client!Thread : sweep'[t] = {}
    BY <1>1, <1>2 DEF SystemInv, Tidy
<1>8. Tidy'
    BY <1>1, <1>6, <1>7, FrameFacts, FrameProper DEF Tidy
<1>. QED
    BY <1>5, <1>8, FrameFacts DEF SystemInv

(* A SubscribeEnd ends a registration that nothing else is under way for.   *)
LEMMA SubscribeEndFacts ==
    ASSUME InHand, Client!handle_subscribe_end
    PROVE  \E n \in Namespace :
             /\ AtClient("SubscribeEnd", n)
             /\ client_handling' = None
             /\ client_sent' = {}
             /\ \A c \in client_calls' : c.cb # "SubscribeResponse"
             /\ UNCHANGED <<phase, link, sweep>>
             /\ DOMAIN sub_delegates' = DOMAIN sub_delegates \ {NameOf[n]}
             /\ DOMAIN client_subscriptions' = DOMAIN client_subscriptions \ {NameOf[n]}
<1> DEFINE n == client_handling.msg.ns
<1>1. /\ client_handling # None
      /\ client_handling.msg.type = "SubscribeEnd"
      /\ Client!removeSubscribeState(n)
      /\ client_handling' = None
      /\ client_sent' = {}
      /\ UNCHANGED <<phase, link, sweep>>
    BY DEF Client!handle_subscribe_end, Client!InHandle
<1>2. n \in Namespace /\ client_handling.msg = About("SubscribeEnd", n)
    BY <1>1 DEF InHand, Proper, About, ToMe
<1>3. AtClient("SubscribeEnd", n)
    BY <1>1, <1>2 DEF AtClient
<1>4. /\ DOMAIN sub_delegates' = DOMAIN sub_delegates \ {NameOf[n]}
      /\ DOMAIN client_subscriptions' = DOMAIN client_subscriptions \ {NameOf[n]}
    BY <1>1 DEF Client!removeSubscribeState, Client!EraseKeys, Client!Restrict
<1>5. \A c \in client_calls' : c.cb # "SubscribeResponse"
    BY <1>1 DEF Client!removeSubscribeState
<1>. QED
    BY <1>1, <1>2, <1>3, <1>4, <1>5

LEMMA SubscribeEndStep ==
    ASSUME DistinctKeys, SystemInv, Client!handle_subscribe_end, ClientFrame(EmptyBag)
    PROVE  SystemInv'
<1>1. PICK x \in Namespace :
        /\ AtClient("SubscribeEnd", x)
        /\ client_handling' = None
        /\ client_sent' = {}
        /\ \A c \in client_calls' : c.cb # "SubscribeResponse"
        /\ UNCHANGED <<phase, link, sweep>>
        /\ DOMAIN sub_delegates' = DOMAIN sub_delegates \ {NameOf[x]}
        /\ DOMAIN client_subscriptions' = DOMAIN client_subscriptions \ {NameOf[x]}
    BY SubscribeEndFacts DEF SystemInv, Tidy
<1>2. InUse' <=> InUse
    BY <1>1 DEF InUse
<1>3. answered' = answered \ {NameOf[x]}
    BY <1>1 DEF ClientFrame, SystemInv, Tidy
<1>4. ASSUME NEW n \in Namespace
      PROVE  InvOf(n)'
  <2>1. InvOf(n)
    BY DEF SystemInv
  <2>2. \A t \in FromClient : About(t, n) \notin client_sent'
    BY <1>1
  <2>3. \A t : ~AtClient(t, n)'
    BY <1>1 DEF AtClient
  <2>4. NoneToRelay(n) /\ NoneToClient(n) /\ SameAtRelay(n)
    BY <2>2, <2>3, SendsNothing, ReceivesNothing, FrameFacts
  <2>5. CASE n = x
    <3>1. ~BagIn(About("SubscribeEnd", n), toClient)
      BY <1>1, <2>1, <2>5 DEF InvOf, Lone, LoneToClient, ToMe
    <3>2. ~BagIn(About("SubscribeEnd", n), toClient')
      BY <2>4, <3>1 DEF NoneToClient, LessToClient, ToMe
    <3>3. Ending(n) /\ ~Ending(n)'
      BY <1>1, <2>3, <2>5, <3>2 DEF Ending, ToClient
    <3>4. ~Told(n)'
      BY <1>3, <2>5 DEF Told
    <3>5. Exclusive(n)'
      BY <2>1, <2>4, <3>4, LessFacts DEF InvOf, Exclusive, SameAtRelay, Serving
    <3>6. ASSUME InUse'
          PROVE  Agreed(n)'
      <4>1. ~Asking(n) /\ ~Quitting(n) /\ ~Answering(n) /\ ~Serving(n)
        BY <1>2, <2>1, <3>3, <3>6 DEF InvOf, Exclusive, Agreed
      <4>2. ~Serving(n)'
        BY <2>4, <4>1 DEF SameAtRelay, Serving
      <4>. QED
        BY <2>1, <2>4, <3>3, <3>4, <4>1, <4>2, LessFacts DEF Agreed
    <3>. QED
      BY <2>1, <2>4, <3>5, <3>6, LessFacts DEF InvOf
  <2>6. CASE n # x
    <3>1. NameOf[n] # NameOf[x]
      BY <2>6, KeysDiffer
    <3>2. SameAtClient(n)
      BY <1>1, <1>2, <1>3, <3>1 DEF SameAtClient, Registered, Subscribed, Told
    <3>. QED
      BY <2>1, <2>4, <3>2, ForgetKeeps
  <2>. QED
    BY <2>5, <2>6
<1>5. DOMAIN toRelay' \subseteq Message
    BY <1>1, FrameMessages
<1>6. InUse' => \A t \in Client!Thread : sweep'[t] = {}
    BY <1>1, <1>2 DEF SystemInv, Tidy
<1>7. InHand'
    BY <1>1 DEF InHand
<1>8. Tidy'
    BY <1>5, <1>6, <1>7, FrameFacts, FrameProper DEF Tidy
<1>. QED
    BY <1>4, <1>8, FrameFacts DEF SystemInv

(* All that the threads of the client do by themselves.                    *)
LEMMA ThreadsStep ==
    ASSUME DistinctKeys, SystemInv, ByClient(ClientThreads, EmptyBag)
    PROVE  SystemInv'
<1>1. ClientFrame(EmptyBag)
    BY DEF ByClient, ClientFrame, relayVars
<1>2. \/ LifeCycle
      \/ Looking
      \/ Client!handle_callback
      \/ Client!handle_subscribe_end
    BY DEF ByClient, ClientThreads, Client!Receive, LifeCycle, Looking
<1>. QED
    BY <1>1, <1>2, LifeCycleStep, LookingStep, CallbackStep, SubscribeEndStep

(* A message reaches the client.                                           *)
LEMMA ReceivesStep ==
    ASSUME SystemInv, NEW m, ClientReceives(m)
    PROVE  SystemInv'
<1>1. /\ ClientFrame(SetToBag({m}))
      /\ BagIn(m, toClient)
      /\ client_handling' = [msg |-> m, base |-> DOMAIN Client!Table(m), visited |-> {},
                             found |-> None, held |-> None, data |-> "full"]
      /\ client_calls' = {}
      /\ client_sent' = {}
      /\ UNCHANGED <<phase, link, sub_delegates, client_subscriptions, sweep>>
    BY DEF ClientReceives, ByClient, ClientFrame, relayVars, Client!on_recv_notify,
           Client!regVars
<1>2. InUse' <=> InUse
    BY <1>1 DEF InUse
<1>3. ASSUME NEW n \in Namespace
      PROVE  InvOf(n)'
  <2>1. InvOf(n)
    BY DEF SystemInv
  <2>2. \A t \in FromClient : About(t, n) \notin client_sent'
    BY <1>1
  <2>3. NoneToRelay(n) /\ SameAtRelay(n)
    BY <1>1, <2>2, SendsNothing, FrameFacts
  <2>4. SameAtClient(n)
    BY <1>1, <1>2, TablesStay
  <2>5. ASSUME NEW t \in ToMe
        PROVE  LessToClient(t, n)
    <3> DEFINE net == toClient (-) SetToBag({m})
    <3>1. BagIn(About(t, n), toClient) => toClient[About(t, n)] = 1
      BY <2>1, <2>5 DEF InvOf, Lone, LoneToClient
    <3>2. BagIn(About(t, n), net) =>
            BagIn(About(t, n), toClient) /\ About(t, n) # m /\ net[About(t, n)] = 1
      BY <3>1, TakeFacts
    <3>3. toClient' = Carry(net, EmptyBag)
      BY <1>1 DEF ClientFrame
    <3>4. ~BagIn(About(t, n), EmptyBag)
      BY SetFacts
    <3> HIDE DEF net
    <3>5. BagIn(About(t, n), toClient') =>
            BagIn(About(t, n), net) /\ toClient'[About(t, n)] = 1
      BY <3>2, <3>3, <3>4, CarryKeeps
    <3>6. AtClient(t, n)' => About(t, n) = m
      BY <1>1 DEF AtClient
    <3>. QED
      BY <1>1, <3>2, <3>5, <3>6 DEF LessToClient
  <2>. QED
    BY <2>1, <2>3, <2>4, <2>5, ForgetKeeps DEF NoneToClient
<1>4. DOMAIN toRelay' \subseteq Message
    BY <1>1, FrameMessages
<1>5. InUse' => \A t \in Client!Thread : sweep'[t] = {}
    BY <1>1, <1>2 DEF SystemInv, Tidy
<1>6. Proper(m)
    BY <1>1 DEF SystemInv, Tidy, BagIn, BagToSet
<1>7. InHand'
    BY <1>1, <1>6 DEF InHand, Proper
<1>8. Tidy'
    BY <1>1, <1>4, <1>5, <1>7, FrameFacts, FrameProper DEF Tidy
<1>. QED
    BY <1>1, <1>3, <1>8, FrameFacts DEF SystemInv

(* A message of the client enters the network, unless the connection is     *)
(* lost; no other does.                                                     *)
LEMMA SendsOne ==
    ASSUME SystemInv, NEW got, ClientFrame(got), NEW n \in Namespace,
           NEW x \in FromClient, client_sent' = {About(x, n)}, ~ToRelay(x, n)
    PROVE  /\ \A t \in FromClient : LoneToRelay(t, n)'
           /\ \A t \in FromClient : t # x => (ToRelay(t, n)' => ToRelay(t, n))
           /\ ToRelay(x, n)' => link' = "up" /\ conn'[Me] # "down"
<1>1. \A t : About(t, n) \in client_sent' <=> t = x
    BY DEF About
<1>2. ASSUME NEW t \in FromClient, t # x
      PROVE  LoneToRelay(t, n)' /\ (ToRelay(t, n)' => ToRelay(t, n))
  <2>1. BagIn(About(t, n), toRelay) => toRelay[About(t, n)] = 1
    BY <1>2 DEF SystemInv, InvOf, Lone, LoneToRelay
  <2>2. ~BagIn(About(t, n), SetToBag(client_sent'))
    BY <1>1, <1>2, SetFacts
  <2>3. LessToRelay(t, n)
    BY <2>1, <2>2, CarryKeeps, FrameFacts DEF ClientFrame, LessToRelay
  <2>. QED
    BY <1>2, <2>3, LessRelay DEF SystemInv, InvOf, Lone
<1>3. ~BagIn(About(x, n), toRelay) /\ ~AtRelay(x, n)'
    BY FrameFacts DEF ToRelay
<1>4. BagIn(About(x, n), toRelay') =>
         link' = "up" /\ conn'[Me] # "down" /\ toRelay'[About(x, n)] = 1
  <2>1. BagIn(About(x, n), SetToBag(client_sent')) /\ SetToBag(client_sent')[About(x, n)] = 1
    BY <1>1, SetFacts
  <2>. QED
    BY <1>3, <2>1, CarryFacts, AddFacts, SetFacts DEF ClientFrame
<1>5. LoneToRelay(x, n)' /\ (ToRelay(x, n)' => link' = "up" /\ conn'[Me] # "down")
    BY <1>3, <1>4 DEF LoneToRelay, ToRelay
<1>. QED
    BY <1>2, <1>5

(* A patient application subscribes: nothing of an earlier subscription to  *)
(* the namespace is left anywhere.                                          *)
LEMMA SubscribeStepOfApp ==
    ASSUME Conditions, SystemInv, NEW d, NEW x \in Namespace, AppSubscribe(d, x)
    PROVE  SystemInv'
<1>1. /\ ClientFrame(EmptyBag)
      /\ NameOf[x] \notin DOMAIN sub_delegates
      /\ Client!subscribe(d, x)
    BY DEF AppSubscribe, ByClient, ClientFrame, relayVars, Conditions
<1>2. /\ phase = "ready"
      /\ DOMAIN sub_delegates' = DOMAIN sub_delegates \cup {NameOf[x]}
      /\ DOMAIN client_subscriptions' = DOMAIN client_subscriptions \cup {NameOf[x]}
      /\ client_sent' = {About("Subscribe", x)}
      /\ client_calls' = {}
      /\ UNCHANGED <<phase, link, sweep, client_handling>>
    BY <1>1 DEF Client!subscribe, Client!AppIdle, Client!Put, About
<1>3. InUse' <=> InUse
    BY <1>2 DEF InUse
<1>4. answered' = answered
    BY <1>1, <1>2 DEF ClientFrame, SystemInv, Tidy
<1>5. \A n, t : AtClient(t, n)' => AtClient(t, n)
    BY <1>2 DEF AtClient, ToBeTold
<1>6. ASSUME NEW n \in Namespace
      PROVE  InvOf(n)'
  <2>1. InvOf(n)
    BY DEF SystemInv
  <2>2. NoneToClient(n) /\ SameAtRelay(n)
    BY <1>1, <1>5, ReceivesNothing, FrameFacts
  <2>3. CASE n # x
    <3>1. \A t \in FromClient : About(t, n) \notin client_sent'
      BY <1>2, <2>3 DEF About
    <3>2. NameOf[n] # NameOf[x]
      BY <2>3, KeysDiffer DEF Conditions
    <3>3. SameAtClient(n)
      BY <1>2, <1>3, <1>4, <3>2 DEF SameAtClient, Registered, Subscribed, Told
    <3>. QED
      BY <1>1, <2>1, <2>2, <3>1, <3>3, SendsNothing, ForgetKeeps
  <2>4. CASE n = x /\ InUse
    <3>1. ~Registered(n) /\ ~Told(n)
      BY <1>1, <2>4 DEF Registered, Told, SystemInv, Tidy
    <3>2. ~Asking(n) /\ ~Quitting(n) /\ ~Answering(n) /\ ~Ending(n) /\ ~Serving(n)
      BY <2>1, <2>4, <3>1 DEF InvOf, Agreed
    <3>3. /\ \A t \in FromClient : LoneToRelay(t, n)'
          /\ Quitting(n)' => Quitting(n)
      BY <1>1, <1>2, <2>4, <3>2, SendsOne DEF Asking, Quitting, FromClient
    <3>4. /\ \A t \in ToMe : LoneToClient(t, n)'
          /\ Answering(n)' => Answering(n)
          /\ Ending(n)' => Ending(n)
      BY <2>1, <2>2, NoneToClientFacts DEF InvOf
    <3>5. ServedIds(n)' = {} /\ ~Serving(n)'
      BY <2>2, <3>2 DEF SameAtRelay, Serving
    <3>6. Registered(n)' /\ Subscribed(n)' /\ ~Told(n)'
      BY <1>2, <1>4, <2>4, <3>1 DEF Registered, Subscribed, Told
    <3>. QED
      BY <3>2, <3>3, <3>4, <3>5, <3>6 DEF InvOf, Lone, Exclusive, Agreed
  <2>5. CASE n = x /\ ~InUse
    <3>1. link' # "up"
      BY <1>2, <2>5 DEF InUse
    <3>2. toRelay' = EmptyBag
      BY <1>1, <3>1, CarryFacts DEF ClientFrame
    <3>3. NoneToRelay(n)
      BY <1>1, <3>2, SetFacts, FrameFacts DEF NoneToRelay, LessToRelay
    <3>4. SameAtClient(n)
      BY <1>3, <1>4, <2>5 DEF SameAtClient, Told
    <3>. QED
      BY <2>1, <2>2, <3>3, <3>4, ForgetKeeps
  <2>. QED
    BY <2>3, <2>4, <2>5
<1>7. DOMAIN toRelay' \subseteq Message
  <2>1. client_sent' \subseteq Message
    BY <1>2 DEF Message, About
  <2>. QED
    BY <1>1, <2>1, FrameMessages
<1>8. InUse' => \A t \in Client!Thread : sweep'[t] = {}
    BY <1>2, <1>3 DEF SystemInv, Tidy
<1>9. InHand'
    BY <1>2 DEF SystemInv, Tidy, InHand
<1>10. Tidy'
    BY <1>1, <1>7, <1>8, <1>9, FrameFacts, FrameProper DEF Tidy
<1>. QED
    BY <1>1, <1>6, <1>10, FrameFacts DEF SystemInv

(* A patient application unsubscribes: it was answered, so the relay serves *)
(* it, and no earlier Unsubscribe or SubscribeEnd is under way.             *)
LEMMA UnsubscribeStepOfApp ==
    ASSUME Conditions, SystemInv, NEW x \in Namespace, AppUnsubscribe(x)
    PROVE  SystemInv'
<1>1. /\ ClientFrame(EmptyBag)
      /\ NameOf[x] \in answered
      /\ NameOf[x] \in DOMAIN client_subscriptions
      /\ Client!unsubscribe(x)
    BY DEF AppUnsubscribe, ByClient, ClientFrame, relayVars, Conditions
<1>2. /\ phase = "ready"
      /\ DOMAIN client_subscriptions' = DOMAIN client_subscriptions \ {NameOf[x]}
      /\ client_sent' = {About("Unsubscribe", x)}
      /\ client_calls' = {}
      /\ UNCHANGED <<phase, link, sub_delegates, sweep, client_handling>>
    BY <1>1 DEF Client!unsubscribe, Client!AppIdle, Client!EraseKeys, Client!Restrict, About
<1>3. InUse' <=> InUse
    BY <1>2 DEF InUse
<1>4. answered' = answered
    BY <1>1, <1>2 DEF ClientFrame, SystemInv, Tidy
<1>5. \A n, t : AtClient(t, n)' => AtClient(t, n)
    BY <1>2 DEF AtClient, ToBeTold
<1>6. ASSUME NEW n \in Namespace
      PROVE  InvOf(n)'
  <2>1. InvOf(n)
    BY DEF SystemInv
  <2>2. NoneToClient(n) /\ SameAtRelay(n)
    BY <1>1, <1>5, ReceivesNothing, FrameFacts
  <2>3. CASE n # x
    <3>1. \A t \in FromClient : About(t, n) \notin client_sent'
      BY <1>2, <2>3 DEF About
    <3>2. NameOf[n] # NameOf[x]
      BY <2>3, KeysDiffer DEF Conditions
    <3>3. SameAtClient(n)
      BY <1>2, <1>3, <1>4, <3>2 DEF SameAtClient, Registered, Subscribed, Told
    <3>. QED
      BY <1>1, <2>1, <2>2, <3>1, <3>3, SendsNothing, ForgetKeeps
  <2>4. CASE n = x /\ InUse
    <3>1. Registered(n) /\ Subscribed(n) /\ Told(n)
      BY <1>1, <2>4 DEF Registered, Subscribed, Told, SystemInv, Tidy
    <3>2. ~Asking(n) /\ ~Quitting(n) /\ ~Answering(n) /\ ~Ending(n)
      BY <2>1, <2>4, <3>1 DEF InvOf, Exclusive, Agreed
    <3>3. /\ \A t \in FromClient : LoneToRelay(t, n)'
          /\ Asking(n)' => Asking(n)
      BY <1>1, <1>2, <2>4, <3>2, SendsOne DEF Asking, Quitting, FromClient
    <3>4. /\ \A t \in ToMe : LoneToClient(t, n)'
          /\ Answering(n)' => Answering(n)
          /\ Ending(n)' => Ending(n)
      BY <2>1, <2>2, NoneToClientFacts DEF InvOf
    <3>5. ServedIds(n)' \subseteq ServedIds(n)
      BY <2>2 DEF SameAtRelay
    <3>6. Registered(n)' /\ ~Subscribed(n)' /\ Told(n)'
      BY <1>2, <1>4, <2>4, <3>1 DEF Registered, Subscribed, Told
    <3>7. Exclusive(n)'
      BY <2>1, <3>2, <3>3, <3>4, <3>5 DEF InvOf, Exclusive
    <3>8. Agreed(n)'
      BY <3>2, <3>3, <3>4, <3>6 DEF Agreed
    <3>. QED
      BY <3>3, <3>4, <3>7, <3>8 DEF InvOf, Lone
  <2>5. CASE n = x /\ ~InUse
    <3>1. link' # "up"
      BY <1>2, <2>5 DEF InUse
    <3>2. toRelay' = EmptyBag
      BY <1>1, <3>1, CarryFacts DEF ClientFrame
    <3>3. NoneToRelay(n)
      BY <1>1, <3>2, SetFacts, FrameFacts DEF NoneToRelay, LessToRelay
    <3>4. SameAtClient(n)
      BY <1>3, <1>4, <2>5 DEF SameAtClient, Told
    <3>. QED
      BY <2>1, <2>2, <3>3, <3>4, ForgetKeeps
  <2>. QED
    BY <2>3, <2>4, <2>5
<1>7. DOMAIN toRelay' \subseteq Message
  <2>1. client_sent' \subseteq Message
    BY <1>2 DEF Message, About
  <2>. QED
    BY <1>1, <2>1, FrameMessages
<1>8. InUse' => \A t \in Client!Thread : sweep'[t] = {}
    BY <1>2, <1>3 DEF SystemInv, Tidy
<1>9. InHand'
    BY <1>2 DEF SystemInv, Tidy, InHand
<1>10. Tidy'
    BY <1>1, <1>7, <1>8, <1>9, FrameFacts, FrameProper DEF Tidy
<1>. QED
    BY <1>1, <1>6, <1>10, FrameFacts DEF SystemInv

----------------------------------------------------------------------------
(* Steps of the relay.                                                     *)

(* What every step of the relay does to the rest of the system.            *)
RelayFrame(got) ==
    /\ client_calls' = {}
    /\ client_sent' = {}
    /\ UNCHANGED <<phase, client_status, link, sub_delegates, client_subscriptions,
                   pub_delegates, alive, sweep, client_handling, live, answered>>
    /\ toRelay' = Carry(toRelay (-) got, EmptyBag)
    /\ toClient' = Carry(toClient, ForClient(sent'))

(* The client does not notice.                                             *)
LEMMA ClientStays ==
    ASSUME SystemInv,
           UNCHANGED <<phase, link, sub_delegates, client_subscriptions, sweep,
                       client_handling, answered>>
    PROVE  /\ \A n : SameAtClient(n)
           /\ \A n, t : AtClient(t, n)' => AtClient(t, n)
           /\ answered' \subseteq DOMAIN sub_delegates'
           /\ InUse' <=> InUse
           /\ InUse' => \A t \in Client!Thread : sweep'[t] = {}
           /\ InHand'
<1>1. \A n : SameAtClient(n)
    BY DEF SameAtClient, Registered, Subscribed, Told, InUse
<1>2. \A n, t : AtClient(t, n)' => AtClient(t, n)
    BY DEF AtClient, ToBeTold
<1>3. InHand'
    BY DEF SystemInv, Tidy, InHand
<1>. QED
    BY <1>1, <1>2, <1>3 DEF SystemInv, Tidy, InUse

LEMMA RelayFrameFacts ==
    ASSUME SystemInv, NEW got, RelayFrame(got)
    PROVE  /\ \A n : SameAtClient(n)
           /\ \A n, t : AtClient(t, n)' => AtClient(t, n)
           /\ answered' \subseteq DOMAIN sub_delegates'
           /\ InUse' <=> InUse
           /\ InUse' => \A t \in Client!Thread : sweep'[t] = {}
           /\ InHand'
BY ClientStays DEF RelayFrame

(* The messages on the network stay what they have to be, if the relay      *)
(* sends the client proper ones.                                            *)
LEMMA RelayFrameTidy ==
    ASSUME SystemInv, NEW got, RelayFrame(got),
           \A s \in sent' : s.to = Me => Proper(s.msg)
    PROVE  Tidy'
<1>1. ASSUME NEW m, BagIn(m, toRelay')
      PROVE  m \in Message
  <2>1. BagIn(m, toRelay (-) got)
    BY <1>1, CarryFacts, AddFacts, SetFacts DEF RelayFrame
  <2>. QED
    BY <2>1, TakeLeaves DEF SystemInv, Tidy, BagIn, BagToSet
<1>2. ASSUME NEW m, BagIn(m, toClient')
      PROVE  Proper(m)
  <2>1. BagIn(m, toClient) \/ BagIn(m, ForClient(sent'))
    BY <1>2, CarryFacts, AddFacts, SetFacts DEF RelayFrame
  <2>2. CASE BagIn(m, toClient)
    BY <2>2 DEF SystemInv, Tidy, BagIn, BagToSet
  <2>3. CASE BagIn(m, ForClient(sent'))
    <3>1. PICK s \in sent' : s.to = Me /\ m = Decoded(s.msg)
      BY <2>3 DEF BagIn, BagToSet, ForClient
    <3>2. m = s.msg \/ m.type = "Publish"
      BY <3>1 DEF Decoded
    <3>. QED
      BY <3>1, <3>2 DEF Proper, ToMe
  <2>. QED
    BY <2>1, <2>2, <2>3
<1>. QED
    BY <1>1, <1>2, RelayFrameFacts DEF Tidy, BagIn, BagToSet

(* The relay takes nothing off the network, and has nothing new to handle. *)
LEMMA RelayTakesNothing ==
    ASSUME SystemInv, RelayFrame(EmptyBag), NEW n \in Namespace,
           \A t \in FromClient : AtRelay(t, n)' => AtRelay(t, n)
    PROVE  NoneToRelay(n)
<1>1. SUFFICES ASSUME NEW t \in FromClient
               PROVE  LessToRelay(t, n)
    BY DEF NoneToRelay
<1>2. BagIn(About(t, n), toRelay) => toRelay[About(t, n)] = 1
    BY DEF SystemInv, InvOf, Lone, LoneToRelay
<1> DEFINE net == toRelay (-) EmptyBag
<1>3. BagIn(About(t, n), net) => BagIn(About(t, n), toRelay) /\ net[About(t, n)] = 1
    BY <1>2, TakeFacts
<1>4. toRelay' = Carry(net, EmptyBag)
    BY DEF RelayFrame
<1>5. ~BagIn(About(t, n), EmptyBag)
    BY SetFacts
<1> HIDE DEF net
<1>6. BagIn(About(t, n), toRelay') =>
          BagIn(About(t, n), net) /\ toRelay'[About(t, n)] = 1
    BY <1>3, <1>4, <1>5, CarryKeeps
<1>. QED
    BY <1>3, <1>6 DEF LessToRelay

(* The relay sends nothing of type t about n.                              *)
LEMMA RelaySendsLess ==
    ASSUME SystemInv, NEW got, RelayFrame(got), NEW n \in Namespace, NEW t \in ToMe,
           ~ \E s \in sent' : s.to = Me /\ s.msg = About(t, n)
    PROVE  LessToClient(t, n)
<1>1. BagIn(About(t, n), toClient) => toClient[About(t, n)] = 1
    BY DEF SystemInv, InvOf, Lone, LoneToClient
<1>2. ~BagIn(About(t, n), ForClient(sent'))
    BY ForClientFacts
<1>3. BagIn(About(t, n), toClient') =>
          BagIn(About(t, n), toClient) /\ toClient'[About(t, n)] = 1
    BY <1>1, <1>2, CarryKeeps DEF RelayFrame
<1>. QED
    BY <1>3, RelayFrameFacts DEF LessToClient

(* A step of the relay that is not about a subscription of the client.     *)
LEMMA RelayForgets ==
    ASSUME SystemInv, RelayFrame(EmptyBag), RelayInv',
           \A s \in sent' : s.to = Me => s.msg.type \notin ToMe,
           \A n, t : AtRelay(t, n)' => AtRelay(t, n),
           \A n \in Namespace : SameAtRelay(n)
    PROVE  SystemInv'
<1>1. ASSUME NEW n \in Namespace
      PROVE  InvOf(n)'
  <2>1. NoneToRelay(n)
    BY RelayTakesNothing
  <2>2. \A t \in ToMe : ~ \E s \in sent' : s.to = Me /\ s.msg = About(t, n)
    BY DEF About
  <2>3. NoneToClient(n)
    BY <2>2, RelaySendsLess DEF NoneToClient
  <2>. QED
    BY <2>1, <2>3, RelayFrameFacts, ForgetKeeps DEF SystemInv
<1>2. Tidy'
    BY RelayFrameTidy DEF Proper
<1>. QED
    BY <1>1, <1>2 DEF SystemInv

(* The subscriptions that the relay serves stay.                           *)
LEMMA ServedStay ==
    ASSUME UNCHANGED told, \A i : Live(i)' <=> Live(i), DownStaysDown
    PROVE  \A n : SameAtRelay(n)
BY DEF SameAtRelay, ServedIds

LEMMA LiveStay ==
    ASSUME UNCHANGED subscribe_id_state
    PROVE  \A i : Live(i)' <=> Live(i)
BY DEF Live

(* Handlers that end with a message they have nothing to tell the client    *)
(* about.                                                                   *)
LEMMA OtherHandlersStep ==
    ASSUME SystemInv, RelayFrame(EmptyBag),
           \/ handle_unsubscribe_check /\ Quiet
           \/ RelayPublish
           \/ RelayPublishIntent
           \/ handle_publish_intent_end /\ Quiet
    PROVE  SystemInv'
<1>1. RelayInv
    BY DEF SystemInv
<1>2. RelayInv'
    BY <1>1, NextRelayInv DEF RelayNext
<1>3. UNCHANGED <<told, subscribe_id_state, conn>>
    BY DEF handle_unsubscribe_check, RelayPublish, handle_publish, RelayPublishIntent,
           PublishIntentHandled, handle_publish_intent_end, subVars
<1>4. \A n \in Namespace : SameAtRelay(n)
    BY <1>3, LiveStay, ServedStay DEF DownStaysDown
<1>5. \A n, t : AtRelay(t, n)' => AtRelay(t, n)
  <2>1. CASE handle_unsubscribe_check
    <3>1. handling \in [ctx : Context, msg : Message, found : BOOLEAN]
      BY <1>1, <2>1, HandlingFacts DEF RelayInv, IInv, handle_unsubscribe_check, Dispatching
    <3>2. handling' = None \/ handling' = [handling EXCEPT !.found = TRUE]
      BY <2>1 DEF handle_unsubscribe_check
    <3>. QED
      BY <2>1, <3>1, <3>2 DEF AtRelay, handle_unsubscribe_check, Dispatching
  <2>2. CASE handling' = None
    BY <2>2 DEF AtRelay
  <2>. QED
    BY <2>1, <2>2 DEF RelayPublish, handle_publish, RelayPublishIntent,
                      PublishIntentHandled, handle_publish_intent_end
<1>6. \A s \in sent' : s.msg.type \notin ToMe
  <2>1. CASE handle_unsubscribe_check /\ Quiet
    BY <2>1 DEF Quiet
  <2>2. CASE RelayPublish
    BY <2>2 DEF RelayPublish
  <2>3. CASE RelayPublishIntent
    BY <1>1, <2>3, PublishIntentFacts DEF ToMe
  <2>4. CASE handle_publish_intent_end /\ Quiet
    BY <2>4 DEF Quiet
  <2>. QED
    BY <2>1, <2>2, <2>3, <2>4
<1>. QED
    BY <1>2, <1>4, <1>5, <1>6, RelayForgets

(* The fan-out sends the client objects only.                               *)
LEMMA CopyingStep ==
    ASSUME SystemInv, RelayFrame(EmptyBag), Copying
    PROVE  SystemInv'
<1>1. RelayInv
    BY DEF SystemInv
<1>2. /\ RelayInv'
      /\ \A i : Live(i)' <=> Live(i)
      /\ UNCHANGED <<conn, told>>
    BY <1>1, CopyingKeeps
<1>3. \A n \in Namespace : SameAtRelay(n)
    BY <1>2, ServedStay DEF DownStaysDown
<1>4. handling' = handling
    BY <1>1, CopyFacts, RelayFindFacts, RelayEnqueueFacts DEF Copying, RelayPublished
<1>5. \A n, t : AtRelay(t, n)' => AtRelay(t, n)
    BY <1>4 DEF AtRelay
<1>6. ASSUME NEW s \in sent'
      PROVE  s.msg.type \notin ToMe
  <2>1. RelayEnqueue
    BY <1>1, <1>6, CopyFacts, RelayFindFacts DEF Copying, RelayPublished
  <2>2. PICK x \in sending : \E c : sent' = {[to |-> c, id |-> x.id, msg |-> x.msg]}
    BY <1>1, <2>1, RelayEnqueueFacts
  <2>3. PICK e \in told : x.msg = Copy(fan.name, e.ns)
    BY <1>1, <2>1, RelayEnqueueFacts DEF RelayInv, FanInv, CopiesKept
  <2>4. s.msg = x.msg
    BY <1>6, <2>2
  <2>. QED
    BY <2>3, <2>4 DEF Copy, ToMe
<1>. QED
    BY <1>2, <1>3, <1>5, <1>6, RelayForgets

(* A connection comes up; no closed one does.                              *)
LEMMA ConnectStep ==
    ASSUME Conditions, SystemInv, NEW c \in Context, Connect(c)
    PROVE  SystemInv'
<1>1. RelayInv
    BY DEF SystemInv
<1>2. /\ RelayFrame(EmptyBag)
      /\ on_new_connection(c) /\ UNCHANGED relayVars
    BY DEF Connect, ByRelay, RelayFrame
<1>3. RelayInv'
    BY <1>1, <1>2, NextRelayInv DEF RelayNext
<1>4. conn[c] = "new" /\ conn' = [conn EXCEPT ![c] = "up"]
    BY <1>2 DEF on_new_connection, Conditions
<1>5. DownStaysDown
    BY <1>1, <1>4 DEF DownStaysDown, RelayInv, IInv, TypeOK
<1>6. \A n \in Namespace : SameAtRelay(n)
    BY <1>2, <1>5, LiveStay, ServedStay DEF on_new_connection, subVars
<1>7. \A n, t : AtRelay(t, n)' => AtRelay(t, n)
    BY <1>2 DEF on_new_connection, AtRelay
<1>8. sent' = {}
    BY <1>2 DEF on_new_connection
<1>. QED
    BY <1>2, <1>3, <1>6, <1>7, <1>8, RelayForgets

(* A message of the other peer arrives.                                    *)
LEMMA PeerStep ==
    ASSUME SystemInv, NEW m, PeerSends(m)
    PROVE  SystemInv'
<1>1. RelayInv
    BY DEF SystemInv
<1>2. /\ RelayFrame(EmptyBag)
      /\ RelayReceive(Other, m)
      /\ m \in Message
    BY TrafficAssumption DEF PeerSends, ByRelay, RelayFrame
<1>3. RelayInv'
    BY <1>1, <1>2, ConnectionAssumption, NextRelayInv DEF RelayNext
<1>4. \A n \in Namespace : SameAtRelay(n)
    BY <1>2, LiveStay, ServedStay DEF RelayReceive, on_recv_notify, subVars, DownStaysDown
<1>5. \A n, t : ~AtRelay(t, n)'
    BY <1>2, ConnectionAssumption DEF RelayReceive, on_recv_notify, AtRelay
<1>6. sent' = {}
    BY <1>2 DEF RelayReceive, on_recv_notify
<1>. QED
    BY <1>2, <1>3, <1>4, <1>5, <1>6, RelayForgets

(* A message of the client arrives.                                        *)
LEMMA ArrivesStep ==
    ASSUME SystemInv, NEW m, RelayReceives(m)
    PROVE  SystemInv'
<1>1. RelayInv
    BY DEF SystemInv
<1>2. /\ RelayFrame(SetToBag({m}))
      /\ RelayReceive(Me, m)
      /\ BagIn(m, toRelay)
      /\ m \in Message
    BY DEF RelayReceives, ByRelay, RelayFrame, SystemInv, Tidy, BagIn, BagToSet
<1>3. RelayInv'
    BY <1>1, <1>2, ConnectionAssumption, NextRelayInv DEF RelayNext
<1>4. \A n \in Namespace : SameAtRelay(n)
    BY <1>2, LiveStay, ServedStay DEF RelayReceive, on_recv_notify, subVars, DownStaysDown
<1>5. sent' = {}
    BY <1>2 DEF RelayReceive, on_recv_notify
<1>6. \A n, t : AtRelay(t, n)' => About(t, n) = m
    BY <1>2 DEF RelayReceive, on_recv_notify, AtRelay
<1>7. ASSUME NEW n \in Namespace
      PROVE  InvOf(n)'
  <2>1. NoneToClient(n)
    BY <1>2, <1>5, RelaySendsLess DEF NoneToClient
  <2>2. ASSUME NEW t \in FromClient
        PROVE  LessToRelay(t, n)
    <3> DEFINE net == toRelay (-) SetToBag({m})
    <3>1. BagIn(About(t, n), toRelay) => toRelay[About(t, n)] = 1
      BY <2>2 DEF SystemInv, InvOf, Lone, LoneToRelay
    <3>2. BagIn(About(t, n), net) =>
            BagIn(About(t, n), toRelay) /\ About(t, n) # m /\ net[About(t, n)] = 1
      BY <3>1, TakeFacts
    <3>3. toRelay' = Carry(net, EmptyBag)
      BY <1>2 DEF RelayFrame
    <3>4. ~BagIn(About(t, n), EmptyBag)
      BY SetFacts
    <3> HIDE DEF net
    <3>5. BagIn(About(t, n), toRelay') =>
            BagIn(About(t, n), net) /\ toRelay'[About(t, n)] = 1
      BY <3>2, <3>3, <3>4, CarryKeeps
    <3>. QED
      BY <1>2, <1>6, <3>2, <3>5 DEF LessToRelay
  <2>. QED
    BY <1>2, <1>4, <2>1, <2>2, RelayFrameFacts, ForgetKeeps DEF SystemInv, NoneToRelay
<1>8. Tidy'
    BY <1>2, <1>5, RelayFrameTidy
<1>. QED
    BY <1>3, <1>7, <1>8 DEF SystemInv

(* The ids of a connection that leaves are its own.                        *)
LEMMA IdsOfOthers ==
    ASSUME RelayInv, NEW c, NEW k, Has(subscribe_state, k, c),
           NEW s \in told, s.id = subscribe_state[k].subs[c]
    PROVE  s.ctx = c /\ NameOf[s.ns] = k
BY DEF RelayInv, EntriesWereTold

(* A connection of the relay is lost.                                      *)
LEMMA DisconnectStepOfRelay ==
    ASSUME SystemInv, NEW c \in Context, ByRelay(RelayDisconnect(c), EmptyBag)
    PROVE  SystemInv'
<1>1. RelayInv
    BY DEF SystemInv
<1>2. /\ RelayFrame(EmptyBag)
      /\ RelayDisconnect(c)
    BY DEF ByRelay, RelayFrame
<1>3. RelayInv'
    BY <1>1, <1>2, NextRelayInv DEF RelayNext
<1>4. LeavingOf(c, calls') /\ onUnsubscribe(calls')
    BY <1>1, <1>2, DisconnectLeaves DEF RelayDisconnect, RelayInv
<1>5. /\ conn' = [conn EXCEPT ![c] = "down"]
      /\ handling' = handling
      /\ told' = told
    BY <1>2 DEF RelayDisconnect, on_disconnected
<1>6. conn'[c] = "down" /\ (c # Me => conn'[Me] = conn[Me])
    BY <1>1, <1>5, ConnectionAssumption DEF RelayInv, IInv, TypeOK
<1>7. ASSUME NEW s \in sent'
      PROVE  /\ s.to \in {c, None}
             /\ s.msg \in [type : {"SubscribeEnd"}, ns : Namespace]
  <2>1. PICK u \in calls' : /\ u.id \in DOMAIN subscribe_id_state
                            /\ s = [to |-> subscribe_id_state[u.id], id |-> u.id,
                                    msg |-> [type |-> "SubscribeEnd", ns |-> u.ns]]
    BY <1>1, <1>4, <1>7, EndFacts
  <2>2. Live(u.id) => subscribe_id_state[u.id] = c
    BY <1>1, <1>4, EndFacts
  <2>. QED
    BY <1>4, <2>1, <2>2 DEF LeavingOf, Live
<1>8. \A n, t : AtRelay(t, n)' => AtRelay(t, n)
    BY <1>5 DEF AtRelay
<1>9. PICK cs : cs = calls'
    OBVIOUS
<1>10. \A i : Live(i)' <=> Live(i) /\ i \notin {u.id : u \in cs}
    BY <1>4, <1>9 DEF LeavingOf, EraseKeys, Restrict, Live
<1>11. \A n : ServedIds(n)' \subseteq ServedIds(n)
    BY <1>5, <1>10 DEF ServedIds
<1>12. CASE c # Me
  <2>1. ASSUME NEW s \in told, s.ctx = Me, NEW u \in cs
        PROVE  s.id # u.id
    <3>1. PICK k : Has(subscribe_state, k, c) /\ subscribe_state[k].subs[c] = u.id
      BY <1>4, <1>9, <2>1 DEF LeavingOf
    <3>. QED
      BY <1>1, <1>12, <2>1, <3>1, IdsOfOthers
  <2>2. \A n : ServedIds(n)' = ServedIds(n)
    BY <1>5, <1>10, <2>1 DEF ServedIds
  <2>3. \A n \in Namespace : SameAtRelay(n)
    BY <1>6, <1>12, <2>2 DEF SameAtRelay, DownStaysDown
  <2>. QED
    BY <1>2, <1>3, <1>7, <1>8, <1>12, <2>3, RelayForgets, NoneAssumption, ConnectionAssumption
<1>13. CASE c = Me
  <2>1. toRelay' = EmptyBag /\ toClient' = EmptyBag
    BY <1>2, <1>6, <1>13, CarryFacts DEF RelayFrame
  <2>2. ASSUME NEW n \in Namespace
        PROVE  InvOf(n)'
    <3>1. NoneToRelay(n) /\ NoneToClient(n)
      BY <1>2, <1>8, <2>1, SetFacts, RelayFrameFacts
      DEF NoneToRelay, NoneToClient, LessToRelay, LessToClient
    <3>2. SameAtRelay(n)
      BY <1>6, <1>11, <1>13 DEF SameAtRelay, DownStaysDown
    <3>. QED
      BY <1>2, <3>1, <3>2, RelayFrameFacts, ForgetKeeps DEF SystemInv
  <2>3. \A s \in sent' : Proper(s.msg)
    BY <1>7 DEF Proper, ToMe
  <2>4. Tidy'
    BY <1>2, <2>3, RelayFrameTidy
  <2>. QED
    BY <1>3, <2>2, <2>4 DEF SystemInv
<1>. QED
    BY <1>12, <1>13

(* What RelaySubscribe makes of the message in hand.                       *)
LEMMA RelaySubscribeFacts ==
    ASSUME RelayInv, RelaySubscribe
    PROVE  \E c \in Context, n \in Namespace, id \in Id :
             /\ handling # None /\ handling' = None
             /\ handling.ctx = c /\ handling.msg = About("Subscribe", n)
             /\ UNCHANGED conn
             /\ told' = told \cup {[ns |-> n, id |-> id, ctx |-> c]}
             /\ IF Live(id)'
                THEN sent' = {[to |-> c, id |-> id, msg |-> About("SubscribeResponse", n)]}
                ELSE \A s \in sent' : s.to = None /\ s.msg = About("SubscribeResponse", n)
             /\ \/ /\ \A s \in told : s.id # id
                   /\ \A i : Live(i)' <=> Live(i) \/ i = id
                \/ /\ \A i : Live(i)' <=> Live(i)
                   /\ Has(subscribe_state, NameOf[n], c)
                   /\ subscribe_state[NameOf[n]].subs[c] = id
<1>1. PICK c \in Context, n \in Namespace, id \in Id :
             /\ calls' = {[cb |-> "onSubscribe", ns |-> n, id |-> id, ctx |-> c]}
             /\ told' = told \cup {[ns |-> n, id |-> id, ctx |-> c]}
             /\ UNCHANGED <<conn, publish_namespaces, sending, fan, ended>>
             /\ fan = None
             /\ sent' = IF id \in DOMAIN subscribe_id_state'
                        THEN {[to |-> subscribe_id_state'[id], id |-> id,
                               msg |-> [type |-> "SubscribeResponse", ns |-> n]]}
                        ELSE {}
             /\ Live(id)' => subscribe_id_state'[id] = c
             /\ \/ /\ id = subscriber_id
                   /\ subscribe_id_state' = Put(subscribe_id_state, id, c)
                \/ /\ UNCHANGED subscribe_id_state
                   /\ Has(subscribe_state, NameOf[n], c)
                   /\ subscribe_state[NameOf[n]].subs[c] = id
    BY SubscribeSends
<1>2. /\ handling # None /\ handling' = None
      /\ handling.msg.type = "Subscribe"
    BY DEF RelaySubscribe, handle_subscribe, Dispatching
<1>3. \A r \in calls' : r.ns = handling.msg.ns /\ r.ctx = handling.ctx
    BY DEF RelaySubscribe, handle_subscribe
<1>4. handling.ctx = c /\ handling.msg.ns = n
  <2>1. [cb |-> "onSubscribe", ns |-> n, id |-> id, ctx |-> c] \in calls'
    BY <1>1
  <2>. QED
    BY <1>3, <2>1
<1>5. handling.msg \in Message
    BY <1>2, HandlingFacts DEF RelayInv, IInv
<1>6. handling.msg = About("Subscribe", n)
    BY <1>2, <1>4, <1>5 DEF Message, About
<1>7. ASSUME id = subscriber_id, NEW s \in told
      PROVE  s.id # id
  <2>1. s.id < subscriber_id
    BY DEF RelayInv, IInv, IdsAreOld
  <2>2. id \in Nat
    BY BoundAssumption DEF Id
  <2>. QED
    BY <1>7, <2>1, <2>2
<1>8. subscribe_id_state' = Put(subscribe_id_state, id, c) =>
         \A i : Live(i)' <=> Live(i) \/ i = id
    BY NoneAssumption DEF Put, Live
<1>9. IF Live(id)'
      THEN sent' = {[to |-> c, id |-> id, msg |-> About("SubscribeResponse", n)]}
      ELSE \A s \in sent' : s.to = None /\ s.msg = About("SubscribeResponse", n)
    BY <1>1 DEF About, Live
<1>10. UNCHANGED subscribe_id_state => \A i : Live(i)' <=> Live(i)
    BY LiveStay
<1>. QED
    BY <1>1, <1>2, <1>4, <1>6, <1>7, <1>8, <1>9, <1>10

(* The relay tells the client something about n that was not under way.    *)
LEMMA RelaySendsOne ==
    ASSUME SystemInv, NEW got, RelayFrame(got), NEW n \in Namespace, NEW x \in ToMe,
           NEW s, sent' = {s}, s.to = Me, s.msg = About(x, n), ~ToClient(x, n)
    PROVE  /\ \A t \in ToMe : LoneToClient(t, n)'
           /\ \A t \in ToMe : t # x => (ToClient(t, n)' => ToClient(t, n))
<1>1. ASSUME NEW t \in ToMe, t # x
      PROVE  LoneToClient(t, n)' /\ (ToClient(t, n)' => ToClient(t, n))
  <2>1. ~ \E r \in sent' : r.to = Me /\ r.msg = About(t, n)
    BY <1>1 DEF About
  <2>2. LessToClient(t, n)
    BY <1>1, <2>1, RelaySendsLess
  <2>. QED
    BY <1>1, <2>2, LessClient DEF SystemInv, InvOf, Lone
<1>2. ~BagIn(About(x, n), toClient) /\ ~AtClient(x, n)'
    BY RelayFrameFacts DEF ToClient
<1>3. BagIn(About(x, n), ForClient(sent')) /\ ForClient(sent')[About(x, n)] = 1
    BY ForClientFacts
<1>4. BagIn(About(x, n), toClient') => toClient'[About(x, n)] = 1
    BY <1>2, <1>3, CarryFacts, AddFacts, SetFacts DEF RelayFrame
<1>5. LoneToClient(x, n)'
    BY <1>2, <1>4 DEF LoneToClient
<1>. QED
    BY <1>1, <1>5

(* The relay handles a Subscribe.  One of the client finds the namespace    *)
(* not served; if the relay still knows an entry of it, the connection is   *)
(* gone.                                                                    *)
LEMMA SubscribeStepOfRelay ==
    ASSUME Conditions, SystemInv, RelaySubscribe, RelayFrame(EmptyBag)
    PROVE  SystemInv'
<1>1. RelayInv
    BY DEF SystemInv
<1>2. RelayInv'
    BY <1>1, NextRelayInv DEF RelayNext
<1>3. PICK c \in Context, x \in Namespace, id \in Id :
             /\ handling # None /\ handling' = None
             /\ handling.ctx = c /\ handling.msg = About("Subscribe", x)
             /\ UNCHANGED conn
             /\ told' = told \cup {[ns |-> x, id |-> id, ctx |-> c]}
             /\ IF Live(id)'
                THEN sent' = {[to |-> c, id |-> id, msg |-> About("SubscribeResponse", x)]}
                ELSE \A s \in sent' : s.to = None /\ s.msg = About("SubscribeResponse", x)
             /\ \/ /\ \A s \in told : s.id # id
                   /\ \A i : Live(i)' <=> Live(i) \/ i = id
                \/ /\ \A i : Live(i)' <=> Live(i)
                   /\ Has(subscribe_state, NameOf[x], c)
                   /\ subscribe_state[NameOf[x]].subs[c] = id
    BY <1>1, RelaySubscribeFacts
<1>4. \A n, t : ~AtRelay(t, n)'
    BY <1>3 DEF AtRelay
<1>5. ASSUME NEW n \in Namespace, ~(c = Me /\ n = x)
      PROVE  ServedIds(n)' = ServedIds(n)
    BY <1>3, <1>5 DEF ServedIds
<1>6. c = Me => ServedIds(x)' = ServedIds(x) \cup {i \in {id} : Live(i)'}
  <2>1. SUFFICES ASSUME c = Me, NEW i
                 PROVE  i \in ServedIds(x)' <=>
                          \/ i \in ServedIds(x)
                          \/ i = id /\ Live(i)'
    OBVIOUS
  <2> DEFINE new == [ns |-> x, id |-> id, ctx |-> c]
  <2>2. new.ns = x /\ new.id = id /\ new.ctx = Me /\ told' = told \cup {new}
    BY <1>3, <2>1
  <2>3. /\ i \in ServedIds(x)' <=> \E s \in told' : /\ s.ctx = Me /\ s.ns = x /\ s.id = i
                                                   /\ Live(i)'
        /\ i \in ServedIds(x) <=> \E s \in told : /\ s.ctx = Me /\ s.ns = x /\ s.id = i
                                                 /\ Live(i)
    BY DEF ServedIds
  <2>4. \A s \in told : s.id = i => (Live(i)' <=> Live(i))
    BY <1>3
  <2> HIDE DEF new
  <2>. QED
    BY <2>2, <2>3, <2>4
<1>7. \A s \in sent' : s.to \in {c, None} /\ s.msg = About("SubscribeResponse", x)
    BY <1>3
<1>n. Me # None
    BY NoneAssumption, ConnectionAssumption
<1>8. ASSUME NEW n \in Namespace
      PROVE  InvOf(n)'
  <2>1. InvOf(n)
    BY DEF SystemInv
  <2>2. NoneToRelay(n)
    BY <1>4, RelayTakesNothing
  <2>3. CASE ~(c = Me /\ n = x)
    <3>1. SameAtRelay(n)
      BY <1>3, <1>5, <2>3 DEF SameAtRelay, DownStaysDown
    <3>2. \A t \in ToMe : ~ \E s \in sent' : s.to = Me /\ s.msg = About(t, n)
      BY <1>7, <1>n, <2>3 DEF About
    <3>3. NoneToClient(n)
      BY <3>2, RelaySendsLess DEF NoneToClient
    <3>. QED
      BY <2>1, <2>2, <3>1, <3>3, RelayFrameFacts, ForgetKeeps
  <2>4. CASE c = Me /\ n = x
    <3>1. AtRelay("Subscribe", n)
      BY <1>3, <2>4 DEF AtRelay
    <3>2. Asking(n) /\ ~BagIn(About("Subscribe", n), toRelay)
      BY <2>1, <3>1 DEF Asking, ToRelay, InvOf, Lone, LoneToRelay, FromClient
    <3>3. ~Asking(n)'
      BY <1>4, <2>2, <3>2 DEF Asking, ToRelay, NoneToRelay, LessToRelay, FromClient
    <3>4. ~Serving(n) /\ ~Ending(n) /\ ~Answering(n)
      BY <2>1, <3>2 DEF InvOf, Exclusive
    <3>5. /\ ~Told(n)'
          /\ InUse' => Registered(n)' /\ Subscribed(n)' /\ ~Quitting(n)
      BY <2>1, <3>2, RelayFrameFacts DEF InvOf, Exclusive, Agreed, SameAtClient
    <3>6. /\ \A t \in FromClient : LoneToRelay(t, n)'
          /\ Quitting(n)' => Quitting(n)
      BY <2>1, <2>2, NoneToRelayFacts DEF InvOf
    <3>7. CASE Live(id)'
      <4>1. ServedIds(n)' = {id}
        BY <1>6, <2>4, <3>4, <3>7 DEF Serving
      <4> DEFINE s == [to |-> c, id |-> id, msg |-> About("SubscribeResponse", x)]
      <4>2. sent' = {s} /\ s.to = Me /\ s.msg = About("SubscribeResponse", n)
        BY <1>3, <2>4, <3>7
      <4> HIDE DEF s
      <4>3. /\ \A t \in ToMe : LoneToClient(t, n)'
            /\ Ending(n)' => Ending(n)
        BY <3>4, <4>2, RelaySendsOne DEF Answering, Ending, ToMe
      <4>4. Exclusive(n)'
        BY <3>3, <3>4, <3>5, <4>1, <4>3 DEF Exclusive
      <4>5. InUse' => Agreed(n)'
        BY <3>3, <3>4, <3>5, <3>6, <4>1, <4>3 DEF Agreed, Serving
      <4>. QED
        BY <3>6, <4>3, <4>4, <4>5 DEF InvOf, Lone
    <3>8. CASE ~Live(id)'
      <4>1. SameAtRelay(n)
        BY <1>3, <1>6, <2>4, <3>8 DEF SameAtRelay, DownStaysDown
      <4>2. \A s \in sent' : s.to # Me
        BY <1>3, <1>n, <3>8
      <4>3. NoneToClient(n)
        BY <4>2, RelaySendsLess DEF NoneToClient
      <4>. QED
        BY <2>1, <2>2, <4>1, <4>3, RelayFrameFacts, ForgetKeeps
    <3>. QED
      BY <3>7, <3>8
  <2>. QED
    BY <2>3, <2>4
<1>9. \A s \in sent' : Proper(s.msg)
    BY <1>7 DEF Proper, About, ToMe
<1>10. Tidy'
    BY <1>9, RelayFrameTidy
<1>. QED
    BY <1>2, <1>8, <1>10 DEF SystemInv

(* What RelayUnsubscribe makes of the message in hand.                     *)
LEMMA RelayUnsubscribeFacts ==
    ASSUME RelayInv, RelayUnsubscribe
    PROVE  \E c \in Context, n \in Namespace, id \in Id :
             /\ handling # None /\ handling' = None
             /\ handling.ctx = c /\ handling.msg = About("Unsubscribe", n)
             /\ UNCHANGED <<conn, told>>
             /\ Has(subscribe_state, NameOf[n], c)
             /\ subscribe_state[NameOf[n]].subs[c] = id
             /\ \A i : Live(i)' <=> Live(i) /\ i # id
             /\ IF Live(id)
                THEN sent' = {[to |-> c, id |-> id, msg |-> About("SubscribeEnd", n)]}
                ELSE \A s \in sent' : s.to = None /\ s.msg = About("SubscribeEnd", n)
<1> DEFINE c == handling.ctx
           n == handling.msg.ns
           id == subscribe_state[NameOf[n]].subs[c]
           u == [cb |-> "onUnsubscribe", ns |-> n, id |-> id]
<1>1. /\ c \in Context /\ n \in Namespace
      /\ Has(subscribe_state, NameOf[n], c)
      /\ subscribe_id_state' = EraseKeys(subscribe_id_state, {id})
      /\ handling' = None
      /\ UNCHANGED <<conn, told>>
    BY UnsubscribeFacts DEF RelayInv, RelayUnsubscribe
<1>2. /\ handling # None
      /\ handling.msg.type = "Unsubscribe"
      /\ handling.msg \in Message
    BY HandlingFacts DEF RelayUnsubscribe, handle_unsubscribe, RelayInv, IInv, ReceiveThread
<1>3. handling.msg = About("Unsubscribe", n)
    BY <1>2 DEF Message, About
<1>4. SubId(subscribe_state, n, c) = id
    BY <1>1 DEF SubId, Has
<1>5. calls' = {u}
    BY <1>4 DEF RelayUnsubscribe, handle_unsubscribe
<1>6. u.ns = n /\ u.id = id
    OBVIOUS
<1>7. sent' = EndMessages(calls')
    BY DEF RelayUnsubscribe, onUnsubscribe
<1>8. Live(id) => subscribe_id_state[id] = c
    BY <1>1, IdentifiedIff DEF RelayInv, IInv, Identified, Live, LiveIn
<1>9. \A i : Live(i)' <=> Live(i) /\ i # id
  <2> HIDE DEF id
  <2>. QED
    BY <1>1 DEF EraseKeys, Restrict, Live
<1>12. id \in Id
    BY <1>1, TypeMaps, SubMapFacts DEF RelayInv, IInv, Has
<1> HIDE DEF u, id, n, c
<1>10. sent' = ToSubscriber(subscribe_id_state, [type |-> "SubscribeEnd", ns |-> n], id)
    BY <1>5, <1>6, <1>7 DEF EndMessages
<1>11. IF Live(id)
       THEN sent' = {[to |-> c, id |-> id, msg |-> About("SubscribeEnd", n)]}
       ELSE \A s \in sent' : s.to = None /\ s.msg = About("SubscribeEnd", n)
    BY <1>8, <1>10, ToSubscriberFacts DEF About, Live
<1>. QED
    BY <1>1, <1>2, <1>3, <1>9, <1>11, <1>12 DEF id, n, c

(* The relay handles an Unsubscribe.  One of the client ends the one id it  *)
(* is served under, and the SubscribeEnd is the only message left.          *)
LEMMA UnsubscribeStepOfRelay ==
    ASSUME Conditions, SystemInv, RelayUnsubscribe, RelayFrame(EmptyBag)
    PROVE  SystemInv'
<1>1. RelayInv
    BY DEF SystemInv
<1>2. RelayInv'
    BY <1>1, NextRelayInv DEF RelayNext
<1>3. PICK c \in Context, x \in Namespace, id \in Id :
             /\ handling # None /\ handling' = None
             /\ handling.ctx = c /\ handling.msg = About("Unsubscribe", x)
             /\ UNCHANGED <<conn, told>>
             /\ Has(subscribe_state, NameOf[x], c)
             /\ subscribe_state[NameOf[x]].subs[c] = id
             /\ \A i : Live(i)' <=> Live(i) /\ i # id
             /\ IF Live(id)
                THEN sent' = {[to |-> c, id |-> id, msg |-> About("SubscribeEnd", x)]}
                ELSE \A s \in sent' : s.to = None /\ s.msg = About("SubscribeEnd", x)
    BY <1>1, RelayUnsubscribeFacts
<1>4. \A n, t : ~AtRelay(t, n)'
    BY <1>3 DEF AtRelay
<1>5. \A n : ServedIds(n)' = ServedIds(n) \ {id}
    BY <1>3 DEF ServedIds
<1>6. ASSUME NEW n \in Namespace, id \in ServedIds(n)
      PROVE  c = Me /\ n = x
  <2>1. PICK s \in told : s.ctx = Me /\ s.ns = n /\ s.id = id
    BY <1>6 DEF ServedIds
  <2>2. s.ctx = c /\ NameOf[s.ns] = NameOf[x]
    BY <1>1, <1>3, <2>1, IdsOfOthers
  <2>. QED
    BY <2>1, <2>2, KeysDiffer DEF Conditions
<1>7. ASSUME c = Me, Live(id)
      PROVE  id \in ServedIds(x)
  <2>1. PICK s \in told : s.id = id
    BY <1>1, <1>3 DEF RelayInv, EntriesWereTold
  <2>2. s.ns \in Namespace /\ s.ctx = c /\ NameOf[s.ns] = NameOf[x]
    BY <1>1, <1>3, <2>1, IdsOfOthers DEF RelayInv, IInv, TypeOK
  <2>3. s.ns = x
    BY <2>2, KeysDiffer DEF Conditions
  <2>. QED
    BY <1>7, <2>1, <2>2, <2>3 DEF ServedIds
<1>8. \A s \in sent' : s.to \in {c, None} /\ s.msg = About("SubscribeEnd", x)
    BY <1>3
<1>n. Me # None
    BY NoneAssumption, ConnectionAssumption
<1>9. ASSUME NEW n \in Namespace
      PROVE  InvOf(n)'
  <2>1. InvOf(n)
    BY DEF SystemInv
  <2>2. NoneToRelay(n)
    BY <1>4, RelayTakesNothing
  <2>3. CASE ~(c = Me /\ n = x) \/ ~Live(id)
    <3>1. ServedIds(n)' = ServedIds(n)
      BY <1>5, <1>6, <2>3 DEF ServedIds
    <3>2. SameAtRelay(n)
      BY <1>3, <3>1 DEF SameAtRelay, DownStaysDown
    <3>3. \A t \in ToMe : ~ \E s \in sent' : s.to = Me /\ s.msg = About(t, n)
      BY <1>3, <1>8, <1>n, <2>3 DEF About
    <3>4. NoneToClient(n)
      BY <3>3, RelaySendsLess DEF NoneToClient
    <3>. QED
      BY <2>1, <2>2, <3>2, <3>4, RelayFrameFacts, ForgetKeeps
  <2>4. CASE c = Me /\ n = x /\ Live(id)
    <3>1. AtRelay("Unsubscribe", n)
      BY <1>3, <2>4 DEF AtRelay
    <3>2. Quitting(n) /\ ~BagIn(About("Unsubscribe", n), toRelay)
      BY <2>1, <3>1 DEF Quitting, ToRelay, InvOf, Lone, LoneToRelay, FromClient
    <3>3. ~Quitting(n)'
      BY <1>4, <2>2, <3>2 DEF Quitting, ToRelay, NoneToRelay, LessToRelay, FromClient
    <3>4. id \in ServedIds(n)
      BY <1>7, <2>4
    <3>5. ServedIds(n)' = {} /\ ~Serving(n)'
      BY <1>5, <2>1, <3>4 DEF InvOf, Exclusive, Serving
    <3>6. ~Asking(n) /\ ~Ending(n)
      BY <2>1, <3>4 DEF InvOf, Exclusive, Serving
    <3>7. InUse' => /\ Registered(n)' /\ ~Subscribed(n)' /\ Told(n)'
                    /\ ~Answering(n)
      BY <2>1, <3>2, RelayFrameFacts DEF InvOf, Exclusive, Agreed, SameAtClient
    <3>8. /\ \A t \in FromClient : LoneToRelay(t, n)'
          /\ Asking(n)' => Asking(n)
      BY <2>1, <2>2, NoneToRelayFacts DEF InvOf
    <3> DEFINE s == [to |-> c, id |-> id, msg |-> About("SubscribeEnd", x)]
    <3>9. sent' = {s} /\ s.to = Me /\ s.msg = About("SubscribeEnd", n)
      BY <1>3, <2>4
    <3> HIDE DEF s
    <3>10. /\ \A t \in ToMe : LoneToClient(t, n)'
           /\ Answering(n)' => Answering(n)
      BY <3>6, <3>9, RelaySendsOne DEF Answering, Ending, ToMe
    <3>11. Exclusive(n)'
      BY <2>1, <3>5, <3>6, <3>8, <3>10, RelayFrameFacts DEF InvOf, Exclusive, SameAtClient
    <3>12. InUse' => Agreed(n)'
      BY <3>3, <3>5, <3>6, <3>7, <3>8, <3>10 DEF Agreed
    <3>. QED
      BY <3>8, <3>10, <3>11, <3>12 DEF InvOf, Lone
  <2>. QED
    BY <2>3, <2>4
<1>10. \A s \in sent' : Proper(s.msg)
    BY <1>8 DEF Proper, About, ToMe
<1>11. Tidy'
    BY <1>10, RelayFrameTidy
<1>. QED
    BY <1>2, <1>9, <1>11 DEF SystemInv

----------------------------------------------------------------------------
(* The system.                                                             *)

(* A message about n that stays, or is lost.                                *)
LEMMA LoseLess ==
    ASSUME NEW net, NEW net2, NEW m, BagIn(m, net) => net[m] = 1,
           \/ net2 = net
           \/ \E x : net2 = net (-) SetToBag({x}),
           BagIn(m, net2)
    PROVE  BagIn(m, net) /\ net2[m] = 1
<1>1. CASE net2 = net
    BY <1>1
<1>2. ASSUME NEW x, net2 = net (-) SetToBag({x})
      PROVE  BagIn(m, net) /\ net2[m] = 1
  <2>1. BagIn(m, net (-) SetToBag({x})) => BagIn(m, net) /\ (net (-) SetToBag({x}))[m] = 1
    BY TakeFacts
  <2>. QED
    BY <1>2, <2>1
<1>. QED
    BY <1>1, <1>2

LEMMA LoseStep ==
    ASSUME SystemInv, Lose
    PROVE  SystemInv'
<1>1. /\ RelayInv'
      /\ \A n : SameAtRelay(n)
      /\ \A n, t : AtRelay(t, n)' <=> AtRelay(t, n)
    BY RelayStays DEF SystemInv, Lose, relayVars
<1>2. /\ \A n : SameAtClient(n)
      /\ \A n, t : AtClient(t, n)' => AtClient(t, n)
      /\ answered' \subseteq DOMAIN sub_delegates'
      /\ InUse' => \A t \in Client!Thread : sweep'[t] = {}
      /\ InHand'
    BY ClientStays DEF Lose
<1>3. /\ toRelay' = toRelay \/ \E x : toRelay' = toRelay (-) SetToBag({x})
      /\ toClient' = toClient \/ \E x : toClient' = toClient (-) SetToBag({x})
    BY DEF Lose
<1>4. ASSUME NEW n \in Namespace
      PROVE  InvOf(n)'
  <2>1. NoneToRelay(n)
    <3>1. SUFFICES ASSUME NEW t \in FromClient PROVE LessToRelay(t, n)
      BY DEF NoneToRelay
    <3>2. BagIn(About(t, n), toRelay) => toRelay[About(t, n)] = 1
      BY DEF SystemInv, InvOf, Lone, LoneToRelay
    <3>3. BagIn(About(t, n), toRelay') =>
            BagIn(About(t, n), toRelay) /\ toRelay'[About(t, n)] = 1
      BY <1>3, <3>2, LoseLess
    <3>. QED
      BY <1>1, <3>3 DEF LessToRelay
  <2>2. NoneToClient(n)
    <3>1. SUFFICES ASSUME NEW t \in ToMe PROVE LessToClient(t, n)
      BY DEF NoneToClient
    <3>2. BagIn(About(t, n), toClient) => toClient[About(t, n)] = 1
      BY DEF SystemInv, InvOf, Lone, LoneToClient
    <3>3. BagIn(About(t, n), toClient') =>
            BagIn(About(t, n), toClient) /\ toClient'[About(t, n)] = 1
      BY <1>3, <3>2, LoseLess
    <3>. QED
      BY <1>2, <3>3 DEF LessToClient
  <2>. QED
    BY <1>1, <1>2, <2>1, <2>2, ForgetKeeps DEF SystemInv
<1>5. DOMAIN toRelay' \subseteq DOMAIN toRelay /\ DOMAIN toClient' \subseteq DOMAIN toClient
    BY <1>3, TakeLeaves DEF BagIn, BagToSet
<1>6. Tidy'
    BY <1>2, <1>5 DEF SystemInv, Tidy
<1>. QED
    BY <1>1, <1>4, <1>6 DEF SystemInv

(* Nothing happens.                                                        *)
LEMMA SystemStutters ==
    ASSUME SystemInv, UNCHANGED systemVars
    PROVE  SystemInv'
<1>1. RelayInv'
    BY NextRelayInv DEF SystemInv, systemVars
<1>2. UNCHANGED <<conn, handling, told, subscribe_id_state, phase, link, sub_delegates,
                  client_subscriptions, sweep, client_handling, toRelay, toClient, answered>>
    BY DEF systemVars, clientVars, allVars, vars
<1>3. Tidy'
    BY <1>2 DEF SystemInv, Tidy, InUse, InHand
<1>4. ASSUME NEW n \in Namespace
      PROVE  InvOf(n)'
  <2>1. NoneToRelay(n)
    BY <1>2 DEF SystemInv, InvOf, Lone, LoneToRelay, NoneToRelay, LessToRelay, AtRelay
  <2>2. NoneToClient(n)
    BY <1>2 DEF SystemInv, InvOf, Lone, LoneToClient, NoneToClient, LessToClient, AtClient,
                ToBeTold
  <2>3. SameAtClient(n)
    BY <1>2, ClientStays
  <2>4. SameAtRelay(n)
    BY <1>2, LiveStay, ServedStay DEF DownStaysDown
  <2>. QED
    BY <2>1, <2>2, <2>3, <2>4, ForgetKeeps DEF SystemInv
<1>. QED
    BY <1>1, <1>3, <1>4 DEF SystemInv

LEMMA InitSystemInv == SystemInit => SystemInv
<1>1. SUFFICES ASSUME SystemInit
               PROVE  SystemInv
    OBVIOUS
<1>2. RelayInv
    BY <1>1, InitRelayInv DEF SystemInit
<1>3. /\ handling = None /\ told = {}
      /\ client_handling = None
      /\ sweep = [t \in Client!Thread |-> {}]
      /\ answered = {} /\ toRelay = EmptyBag /\ toClient = EmptyBag
    BY <1>1 DEF SystemInit, RelayInit, Init, Client!Init
<1>4. DOMAIN toRelay = {} /\ DOMAIN toClient = {}
    BY <1>3 DEF EmptyBag, SetToBag
<1>5. Tidy
    BY <1>3, <1>4 DEF Tidy, InHand
<1>6. ASSUME NEW n
      PROVE  InvOf(n)
  <2>1. \A t : ~ToRelay(t, n) /\ ~ToClient(t, n)
    BY <1>3, <1>4 DEF ToRelay, ToClient, AtRelay, AtClient, BagIn, BagToSet
  <2>2. Lone(n)
    BY <2>1 DEF Lone, LoneToRelay, LoneToClient, ToRelay, ToClient
  <2>3. ServedIds(n) = {} /\ ~Serving(n) /\ ~Told(n)
    BY <1>3 DEF ServedIds, Serving, Told
  <2>. QED
    BY <2>1, <2>2, <2>3 DEF InvOf, Exclusive, Agreed, Asking, Quitting, Answering, Ending
<1>. QED
    BY <1>2, <1>5, <1>6 DEF SystemInv

LEMMA NextSystemInv ==
    ASSUME Conditions, SystemInv, [SystemNext]_systemVars
    PROVE  SystemInv'
<1>1. CASE \E d \in Delegate, n \in Namespace : AppSubscribe(d, n)
    BY <1>1, SubscribeStepOfApp
<1>2. CASE \E n \in Namespace : AppUnsubscribe(n)
    BY <1>2, UnsubscribeStepOfApp
<1>3. CASE ByClient(ClientThreads, EmptyBag)
    BY <1>3, ThreadsStep DEF Conditions
<1>4. CASE \E m \in BagToSet(toClient) : ClientReceives(m)
    BY <1>4, ReceivesStep
<1>5. CASE \E m \in BagToSet(toRelay) : RelayReceives(m)
    BY <1>5, ArrivesStep
<1>6. CASE \E m \in PeerTraffic : PeerSends(m)
    BY <1>6, PeerStep
<1>7. CASE \E c \in Context : Connect(c)
    BY <1>7, ConnectStep
<1>8. CASE ByRelay(RelayHandles, EmptyBag)
  <2>1. RelayFrame(EmptyBag) /\ RelayHandles
    BY <1>8 DEF ByRelay, RelayFrame
  <2>. QED
    BY <2>1, SubscribeStepOfRelay, UnsubscribeStepOfRelay, OtherHandlersStep, CopyingStep
    DEF RelayHandles, Copying
<1>9. CASE \E c \in Context : ByRelay(RelayDisconnect(c), EmptyBag)
    BY <1>9, DisconnectStepOfRelay
<1>10. CASE Lose
    BY <1>10, LoseStep
<1>11. CASE UNCHANGED systemVars
    BY <1>11, SystemStutters
<1>. QED
    BY <1>1, <1>2, <1>3, <1>4, <1>5, <1>6, <1>7, <1>8, <1>9, <1>10, <1>11 DEF SystemNext

LEMMA SpecSystemInv ==
    ASSUME Conditions
    PROVE  SystemSpec => []SystemInv
<1>1. SystemInv /\ [SystemNext]_systemVars => SystemInv'
    BY NextSystemInv
<1>. QED
    BY <1>1, InitSystemInv, PTL DEF SystemSpec

(* A response is given in handle_callback, and in no other step.           *)
LEMMA OnlyCallbacksAnswer ==
    ASSUME Tidy, SystemNext, NEW c \in client_calls', c.cb = "SubscribeResponse"
    PROVE  Client!handle_callback
<1>1. CASE \E d \in Delegate, n \in Namespace : AppSubscribe(d, n)
    BY <1>1 DEF AppSubscribe, ByClient, Client!subscribe
<1>2. CASE \E n \in Namespace : AppUnsubscribe(n)
    BY <1>2 DEF AppUnsubscribe, ByClient, Client!unsubscribe
<1>3. CASE ByClient(ClientThreads, EmptyBag)
  <2>1. \/ LifeCycle
        \/ Looking
        \/ Client!handle_callback
        \/ Client!handle_subscribe_end
    BY <1>3 DEF ByClient, ClientThreads, Client!Receive, LifeCycle, Looking
  <2>. QED
    BY <2>1, LifeCycleFacts, LookingFacts, SubscribeEndFacts DEF Tidy
<1>4. CASE \E m \in BagToSet(toClient) : ClientReceives(m)
    BY <1>4 DEF ClientReceives, ByClient, Client!on_recv_notify
<1>5. CASE client_calls' = {}
    BY <1>5
<1>. QED
    BY <1>1, <1>2, <1>3, <1>4, <1>5
    DEF SystemNext, ByRelay, RelayReceives, PeerSends, Connect, Lose

(* Who was told that its subscription stands, and has not asked for its     *)
(* end, is served by the relay while both ends have the connection,         *)
(* whatever is lost, late or overtaken and whatever the other peer does.    *)
THEOREM AnsweredServed ==
    ASSUME Conditions
    PROVE  SystemSpec => []AnsweredIsServed
<1>1. SystemInv => AnsweredIsServed
    BY DEF SystemInv, InvOf, Agreed, Told, Subscribed, Serving, InUse, Connected,
           AnsweredIsServed
<1>. QED
    BY <1>1, SpecSystemInv, PTL

(* What the relay serves has its delegate at the client, while both ends    *)
(* have the connection.                                                     *)
THEOREM ServedRegistered ==
    ASSUME Conditions
    PROVE  SystemSpec => []ServedIsRegistered
<1>1. SystemInv => ServedIsRegistered
    BY DEF SystemInv, InvOf, Agreed, Registered, Serving, InUse, Connected,
           ServedIsRegistered
<1>. QED
    BY <1>1, SpecSystemInv, PTL

(* The relay never serves the client twice for one namespace, although its  *)
(* tables disagree after the unsubscribe of another connection.             *)
THEOREM OneId ==
    ASSUME Conditions
    PROVE  SystemSpec => []OneIdPerSubscription
<1>1. ASSUME SystemInv, NEW n \in Namespace
      PROVE  Cardinality(ServedIds(n)) <= 1
  <2>1. \A i, j \in ServedIds(n) : i = j
    BY <1>1 DEF SystemInv, InvOf, Exclusive
  <2>2. CASE ServedIds(n) = {}
    BY <2>2, FS_EmptySet
  <2>3. CASE ServedIds(n) # {}
    <3>1. PICK i : i \in ServedIds(n)
      BY <2>3
    <3>2. ServedIds(n) = {i}
      BY <2>1, <3>1
    <3>. QED
      BY <3>2, FS_Singleton
  <2>. QED
    BY <2>2, <2>3
<1>2. SystemInv => OneIdPerSubscription
    BY <1>1 DEF OneIdPerSubscription
<1>. QED
    BY <1>2, SpecSystemInv, PTL

(* A registration gets one response: the delegate of one that has been      *)
(* answered is not called again, whichever messages of this or of an        *)
(* earlier subscription are still under way.                                *)
THEOREM OneAnswer ==
    ASSUME Conditions
    PROVE  SystemSpec => AnsweredOnce
<1>1. ASSUME SystemInv, SystemNext, NEW c \in client_calls', c.cb = "SubscribeResponse"
      PROVE  c.key \notin answered
  <2>1. Client!handle_callback
    BY <1>1, OnlyCallbacksAnswer DEF SystemInv
  <2> DEFINE n == client_handling.msg.ns
  <2>2. /\ client_handling # None
        /\ client_handling.held # None
        /\ client_handling.msg.type = "SubscribeResponse"
        /\ c.key = client_handling.held.key
    BY <1>1, <2>1 DEF Client!handle_callback, Client!InHandle
  <2>3. /\ n \in Namespace
        /\ client_handling.msg = About("SubscribeResponse", n)
        /\ c.key = NameOf[n]
    BY <1>1, <2>2 DEF SystemInv, Tidy, InHand, Proper, About, ToMe
  <2>4. Answering(n)
    BY <2>2, <2>3 DEF Answering, ToClient, AtClient, ToBeTold
  <2>. QED
    BY <1>1, <2>3, <2>4 DEF SystemInv, InvOf, Exclusive, Told
<1>2. ASSUME SystemInv, [SystemNext]_systemVars
      PROVE  [\A c \in client_calls' : c.cb = "SubscribeResponse" => c.key \notin answered]_systemVars
    BY <1>1, <1>2
<1>. QED
    BY <1>2, SpecSystemInv, PTL DEF SystemSpec, AnsweredOnce
=============================================================================
