------------------------- MODULE ReallyServerProofs ------------------------
(***************************************************************************)
(* Proofs about the relay, for any set of connections, names and           *)
(* namespaces, colliding keys and reused connection ids included: what it  *)
(* sends in each step, whom an object goes to however its copies overlap   *)
(* with lost connections, what may follow a SubscribeEnd, and that the     *)
(* relay implements Broker.                                                *)
(***************************************************************************)
EXTENDS ReallyServer, QuicRServerProofs

(* A message under a subscriber id goes to the connection of the id.       *)
LEMMA ToSubscriberFacts ==
    ASSUME NEW ids, NEW m, NEW id
    PROVE  ToSubscriber(ids, m, id) =
             IF id \in DOMAIN ids THEN {[to |-> ids[id], id |-> id, msg |-> m]} ELSE {}
BY DEF ToSubscriber

(* Whom the ids in subscribe_id_state stand for.                           *)
LEMMA IdsToConnections ==
    ASSUME IInv
    PROVE  \A i \in DOMAIN subscribe_id_state :
             i \in Id /\ subscribe_id_state[i] \in Context \cup {None}
BY PartialFnIff DEF IInv, TypeOK

(* What handle_subscribe does to the tables: a new entry with a new id, or  *)
(* nothing; in both cases the delegate is told of the entry.                *)
LEMMA SubscribeFacts ==
    ASSUME IInv, handle_subscribe
    PROVE  \E c \in Context, n \in Namespace, id \in Id :
             /\ calls' = {[cb |-> "onSubscribe", ns |-> n, id |-> id, ctx |-> c]}
             /\ told' = told \cup {[ns |-> n, id |-> id, ctx |-> c]}
             /\ UNCHANGED <<conn, publish_state, publish_namespaces, answering, sending>>
             /\ \/ /\ id = subscriber_id
                   /\ id < MaxId
                   /\ subscriber_id' = id + 1
                   /\ subscribe_id_state' = Put(subscribe_id_state, id, c)
                   /\ \A k, d : Has(subscribe_state', k, d) <=>
                                  Has(subscribe_state, k, d) \/ (k = NameOf[n] /\ d = c)
                   /\ subscribe_state'[NameOf[n]].subs[c] = id
                   /\ \A k, d : Has(subscribe_state, k, d) /\ ~(k = NameOf[n] /\ d = c) =>
                                  subscribe_state'[k].subs[d] = subscribe_state[k].subs[d]
                \/ /\ UNCHANGED <<subscribe_state, subscribe_id_state, subscriber_id>>
                   /\ Has(subscribe_state, NameOf[n], c)
                   /\ subscribe_state[NameOf[n]].subs[c] = id
<1> DEFINE c == handling.ctx
           n == handling.msg.ns
<1>1. c \in Context /\ n \in Namespace /\ subscriber_id < MaxId
    BY HandlingFacts, MessageFacts DEF IInv, handle_subscribe, Dispatching, ReceiveThread
<1>2. UNCHANGED <<conn, publish_state, publish_namespaces, answering, sending>>
    BY DEF handle_subscribe, pubVars
<1>3. subscribe_state \in SubMap /\ subscriber_id \in Id
    BY TypeMaps DEF IInv, TypeOK
<1>4. CASE ~HasSub(subscribe_state, n, c)
  <2>1. /\ subscribe_state' = AddSub(subscribe_state, n, c, subscriber_id)
        /\ subscribe_id_state' = Put(subscribe_id_state, subscriber_id, c)
        /\ subscriber_id' = subscriber_id + 1
        /\ calls' = {[cb |-> "onSubscribe", ns |-> n, id |-> subscriber_id, ctx |-> c]}
        /\ told' = told \cup {[ns |-> n, id |-> subscriber_id, ctx |-> c]}
    BY <1>4 DEF handle_subscribe, FreshId
  <2>2. /\ \A k, d : Has(subscribe_state', k, d) <=>
                       Has(subscribe_state, k, d) \/ (k = NameOf[n] /\ d = c)
        /\ subscribe_state'[NameOf[n]].subs[c] = subscriber_id
        /\ \A k, d : Has(subscribe_state, k, d) /\ ~(k = NameOf[n] /\ d = c) =>
                       subscribe_state'[k].subs[d] = subscribe_state[k].subs[d]
    BY <1>1, <1>3, <2>1, AddSubFacts
  <2> HIDE DEF c, n
  <2>. QED
    BY <1>1, <1>2, <1>3, <2>1, <2>2, Zenon
<1>5. CASE HasSub(subscribe_state, n, c)
  <2> DEFINE id == subscribe_state[NameOf[n]].subs[c]
  <2>1. /\ UNCHANGED <<subscribe_state, subscribe_id_state, subscriber_id>>
        /\ calls' = {[cb |-> "onSubscribe", ns |-> n, id |-> id, ctx |-> c]}
        /\ told' = told \cup {[ns |-> n, id |-> id, ctx |-> c]}
    BY <1>5 DEF handle_subscribe, SubId, HasSub
  <2>2. Has(subscribe_state, NameOf[n], c)
    BY <1>5 DEF HasSub, Has
  <2>3. id \in Id
    BY <1>3, <2>2, SubMapFacts DEF Has
  <2> HIDE DEF c, n
  <2>. QED
    BY <1>1, <1>2, <2>1, <2>2, <2>3, Zenon
<1>. QED
    BY <1>4, <1>5

(* What an Unsubscribe or a disconnect of connection c does: the ids of some *)
(* of its entries leave subscribe_id_state, each with an onUnsubscribe.      *)
LeavingOf(c, cs) ==
    /\ \A u \in cs : /\ u.ns \in Namespace
                     /\ u.cb = "onUnsubscribe"
                     /\ \E k : Has(subscribe_state, k, c) /\ subscribe_state[k].subs[c] = u.id
    /\ \A u, v \in cs : u.id = v.id => u = v
    /\ subscribe_id_state' = EraseKeys(subscribe_id_state, {u.id : u \in cs})
    /\ \A k, d : Has(subscribe_state', k, d) =>
          /\ Has(subscribe_state, k, d)
          /\ subscribe_state'[k].subs[d] = subscribe_state[k].subs[d]
    /\ UNCHANGED <<subscriber_id, publish_state, publish_namespaces, answering, sending, told>>

(* The locked part of handle_unsubscribe ends one subscription ...         *)
LEMMA UnsubscribeLeaves ==
    ASSUME IInv, handle_unsubscribe
    PROVE  \E c \in Context : LeavingOf(c, calls')
<1> DEFINE c == handling.ctx
           n == handling.msg.ns
           id == subscribe_state[NameOf[n]].subs[c]
<1>1. /\ c \in Context /\ n \in Namespace
      /\ Has(subscribe_state, NameOf[n], c)
      /\ subscribe_state' = DropSub(subscribe_state, n, c)
      /\ subscribe_id_state' = EraseKeys(subscribe_id_state, {id})
      /\ UNCHANGED <<subscriber_id, publish_state, publish_namespaces, answering, sending, told>>
    BY UnsubscribeFacts
<1>2. calls' = {[cb |-> "onUnsubscribe", ns |-> n, id |-> id]}
    BY <1>1 DEF handle_unsubscribe, SubId, Has
<1>3. \A k, d : Has(subscribe_state', k, d) =>
        Has(subscribe_state, k, d)
          /\ subscribe_state'[k].subs[d] = subscribe_state[k].subs[d]
    BY <1>1, TypeMaps, DropSubFacts DEF IInv
<1>4. {u.id : u \in calls'} = {id}
    BY <1>2
<1>5. \A u \in calls' : u.ns = n /\ u.cb = "onUnsubscribe" /\ u.id = id
    BY <1>2
<1>6. \A u, v \in calls' : u = v
    BY <1>2
<1> HIDE DEF c, n
<1>. QED
    BY <1>1, <1>3, <1>4, <1>5, <1>6 DEF LeavingOf, c

(* ... and a disconnect all those of a connection.                         *)
LEMMA DisconnectLeaves ==
    ASSUME IInv, NEW c \in Context, on_disconnected(c)
    PROVE  LeavingOf(c, calls')
<1> DEFINE call(k) == [cb |-> "onUnsubscribe", ns |-> subscribe_state[k].ns,
                       id |-> subscribe_state[k].subs[c]]
<1>1. /\ calls' = {call(k) : k \in KeysOf(subscribe_state, c)}
      /\ subscribe_id_state' = EraseKeys(subscribe_id_state, IdsOf(subscribe_state, c))
      /\ subscribe_state' = AfterDisconnect(subscribe_state, c)
      /\ UNCHANGED <<subscriber_id, publish_state, publish_namespaces, answering, sending, told>>
    BY DEF on_disconnected, pubVars
<1>2. subscribe_state \in SubMap
    BY TypeMaps DEF IInv
<1>3. \A k \in KeysOf(subscribe_state, c) :
        Has(subscribe_state, k, c) /\ subscribe_state[k].ns \in Namespace
    BY <1>2, SubMapFacts DEF KeysOf, Has
<1>4. \A k, d : Has(subscribe_state', k, d) =>
        Has(subscribe_state, k, d)
          /\ subscribe_state'[k].subs[d] = subscribe_state[k].subs[d]
    BY <1>1, <1>2, AfterDisconnectFacts
<1>5. {u.id : u \in calls'} = IdsOf(subscribe_state, c)
  <2>1. \A k \in KeysOf(subscribe_state, c) : call(k).id = subscribe_state[k].subs[c]
    OBVIOUS
  <2> HIDE DEF call
  <2>2. {u.id : u \in calls'} = {call(k).id : k \in KeysOf(subscribe_state, c)}
    BY <1>1
  <2>. QED
    BY <2>1, <2>2 DEF IdsOf
<1>6. \A u \in calls' : /\ u.ns \in Namespace /\ u.cb = "onUnsubscribe"
                        /\ \E k : Has(subscribe_state, k, c)
                                   /\ subscribe_state[k].subs[c] = u.id
  <2> TAKE u \in calls'
  <2>1. PICK k \in KeysOf(subscribe_state, c) : u = call(k)
    BY <1>1
  <2>2. /\ u.ns = subscribe_state[k].ns /\ u.cb = "onUnsubscribe"
        /\ u.id = subscribe_state[k].subs[c]
    BY <2>1
  <2>. QED
    BY <1>3, <2>2
<1>7. ASSUME NEW u \in calls', NEW v \in calls', u.id = v.id PROVE u = v
  <2>1. PICK k \in KeysOf(subscribe_state, c) : u = call(k)
    BY <1>1
  <2>2. PICK k2 \in KeysOf(subscribe_state, c) : v = call(k2)
    BY <1>1
  <2>3. subscribe_state[k].subs[c] = subscribe_state[k2].subs[c]
    BY <1>7, <2>1, <2>2
  <2>4. k = k2
    BY <1>3, <2>3, IdentifiedIff DEF IInv, Identified
  <2>. QED
    BY <2>1, <2>2, <2>4
<1>. QED
    BY <1>1, <1>4, <1>5, <1>6, <1>7 DEF LeavingOf

----------------------------------------------------------------------------
(* The inductive invariant of the relay.                                   *)

(* Subscriptions lists whom onSubscribe ever named, each under the namespace *)
(* it was named with: remove never takes anything out.                       *)
ListsWhatWasTold ==
    subscriptions = [n \in Namespace |-> {Remote(s.id) : s \in {t \in told : t.ns = n}}]

(* The delegate was told of each entry of subscribe_state, and of its id     *)
(* only with the key and the connection of the entry.                        *)
EntriesWereTold ==
    \A k, c : Has(subscribe_state, k, c) =>
        /\ \E s \in told : s.id = subscribe_state[k].subs[c]
        /\ \A s \in told : s.id = subscribe_state[k].subs[c] => NameOf[s.ns] = k /\ s.ctx = c

(* An id is told of with one key and one connection only.                   *)
OneKeyPerId ==
    \A s, t \in told : s.id = t.id => NameOf[s.ns] = NameOf[t.ns] /\ s.ctx = t.ctx

(* An id that was ended is an old one, and stands for no connection.        *)
EndedAreGone ==
    \A i \in ended : i \in Id /\ i < subscriber_id /\ ~Live(i)

(* The copy that a subscription is due, as an item of fan.todo.             *)
Item(s) == <<s.ns, Remote(s.id)>>

(* Whom the object in hand goes to: whatever is to be copied, is being sent  *)
(* or is done was told of, and each live subscription is among them.         *)
CopiesKept ==
    /\ \A f \in fan.todo : \E s \in told : fan.name \in Covers[s.ns] /\ f = Item(s)
    /\ \A x \in sending : \E s \in told :
          /\ fan.name \in Covers[s.ns]
          /\ x.id = s.id /\ x.msg = Copy(fan.name, s.ns)
          /\ Item(s) \notin fan.todo
    /\ \A i \in fan.done : \E s \in told : fan.name \in Covers[s.ns] /\ i = s.id
    /\ \A s \in told : fan.name \in Covers[s.ns] /\ Live(s.id) =>
          \/ Item(s) \in fan.todo
          \/ s.id \in fan.done
          \/ \E x \in sending : x.id = s.id

(* No id is at two of these stages, if no two namespaces share a key.       *)
CopiesOnce ==
    DistinctKeys =>
        /\ \A f \in fan.todo : /\ f[2].subscribe_id \notin fan.done
                               /\ \A x \in sending : x.id # f[2].subscribe_id
        /\ \A x \in sending : x.id \notin fan.done

(* The relay sends without the mutex in onPublisherObject only, one copy    *)
(* after the other.                                                         *)
OneSend ==
    /\ fan = None => sending = {}
    /\ \A x, y \in sending : x = y
    /\ \A x \in sending : ~x.bound => x.ref = None

(* Without reuse of connection ids, an id with context 0 is not erased under *)
(* the reference that a send holds to it.                                    *)
GhostsStay ==
    ~ContextReuse =>
        \A x \in sending : x.bound /\ x.ref = None => x.id \in DOMAIN subscribe_id_state

FanInv ==
    /\ fan \in Fan \cup {None}
    /\ handling # None => fan = None
    /\ fan # None => CopiesKept /\ CopiesOnce
    /\ OneSend
    /\ GhostsStay

RelayInv ==
    /\ IInv
    /\ KeyedByName
    /\ ListsWhatWasTold
    /\ EntriesWereTold
    /\ OneKeyPerId
    /\ EndedAreGone
    /\ FanInv

(* What an item and a copy tell.                                            *)
LEMMA ItemFacts ==
    /\ \A s : Item(s)[1] = s.ns /\ Item(s)[2] = Remote(s.id) /\ Item(s)[2].subscribe_id = s.id
    /\ \A s, t : Item(s) = Item(t) <=> s.ns = t.ns /\ s.id = t.id
    /\ \A nm, n1, n2 : Copy(nm, n1) = Copy(nm, n2) <=> n1 = n2
<1>1. \A i, j : Remote(i).subscribe_id = i /\ (Remote(i) = Remote(j) <=> i = j)
  <2>1. \A i : Remote(i).subscribe_id = i
    BY DEF Remote
  <2>. QED
    BY <2>1
<1>2. \A s : Item(s)[1] = s.ns /\ Item(s)[2] = Remote(s.id)
    BY DEF Item
<1>3. \A s, t : s.ns = t.ns /\ s.id = t.id => Item(s) = Item(t)
    BY DEF Item
<1>4. \A nm, n1, n2 : Copy(nm, n1) = Copy(nm, n2) <=> n1 = n2
  <2>1. \A nm, n : Copy(nm, n).prefix = n
    BY DEF Copy
  <2>. QED
    BY <2>1
<1>5. ASSUME NEW s, NEW t, Item(s) = Item(t) PROVE s.ns = t.ns /\ s.id = t.id
  <2>1. s.ns = t.ns /\ Remote(s.id) = Remote(t.id)
    BY <1>2, <1>5
  <2>. QED
    BY <1>1, <2>1
<1>6. \A s : Item(s)[2].subscribe_id = s.id
    BY <1>1, <1>2
<1>. QED
    BY <1>2, <1>3, <1>4, <1>5, <1>6, Zenon

(* Nothing was told at the start.                                           *)
LEMMA InitRelayInv == RelayInit => RelayInv
<1> SUFFICES ASSUME RelayInit PROVE RelayInv
    OBVIOUS
<1>1. IInv
    BY InitIInv DEF RelayInit
<1>2. /\ told = {} /\ DOMAIN subscribe_state = {} /\ DOMAIN publish_namespaces = {}
      /\ subscriptions = [n \in Namespace |-> {}] /\ ended = {} /\ fan = None /\ sending = {}
    BY DEF RelayInit, Init, EmptyMap
<1>. QED
    BY <1>1, <1>2
    DEF RelayInv, KeyedByName, ListsWhatWasTold, EntriesWereTold, OneKeyPerId,
        EndedAreGone, Has, FanInv, OneSend, GhostsStay

(* The SubscribeEnds of a step, what it does to Subscriptions (nothing: an   *)
(* absent remote is erased, a listed one kept) and to the history.           *)
LEMMA EndFacts ==
    ASSUME RelayInv, NEW c \in Context, LeavingOf(c, calls'), onUnsubscribe(calls')
    PROVE  /\ UNCHANGED <<subscriptions, fan>>
           /\ \A u \in calls' : Live(u.id) => subscribe_id_state[u.id] = c
           /\ sent' = {[to |-> subscribe_id_state[u.id], id |-> u.id,
                        msg |-> [type |-> "SubscribeEnd", ns |-> u.ns]] :
                         u \in {v \in calls' : v.id \in DOMAIN subscribe_id_state}}
           /\ ended' = ended \cup {u.id : u \in {v \in calls' :
                                                v.id \in DOMAIN subscribe_id_state}}
<1> DEFINE end(u) == [to |-> subscribe_id_state[u.id], id |-> u.id,
                      msg |-> [type |-> "SubscribeEnd", ns |-> u.ns]]
           known == {v \in calls' : v.id \in DOMAIN subscribe_id_state}
<1>1. UNCHANGED <<subscriptions, fan>>
  <2>1. \A list, r : remove(list, r) = list
    BY DEF remove
  <2>2. subscriptions = [n \in Namespace |-> subscriptions[n]]
    BY DEF RelayInv, ListsWhatWasTold
  <2>. QED
    BY <2>1, <2>2 DEF onUnsubscribe
<1>2. \A u \in calls' : Live(u.id) => subscribe_id_state[u.id] = c
    BY IdentifiedIff DEF LeavingOf, RelayInv, IInv, Identified, Live, LiveIn
<1>3. \A u \in calls' :
        ToSubscriber(subscribe_id_state, [type |-> "SubscribeEnd", ns |-> u.ns], u.id)
          = IF u \in known THEN {end(u)} ELSE {}
    BY DEF ToSubscriber
<1>4. sent' = {end(u) : u \in known}
  <2>1. sent' = UNION {ToSubscriber(subscribe_id_state,
                                    [type |-> "SubscribeEnd", ns |-> u.ns], u.id) : u \in calls'}
    BY DEF onUnsubscribe, EndMessages
  <2>2. known \subseteq calls'
    OBVIOUS
  <2> HIDE DEF end, known
  <2>. QED
    BY <1>3, <2>1, <2>2
<1>5. ended' = ended \cup {u.id : u \in known}
  <2>1. ended' = ended \cup {m.id : m \in sent'}
    BY DEF onUnsubscribe
  <2>2. \A u : end(u).id = u.id
    OBVIOUS
  <2> HIDE DEF end, known
  <2>. QED
    BY <1>4, <2>1, <2>2
<1>. QED
    BY <1>1, <1>2, <1>4, <1>5

----------------------------------------------------------------------------
(* Each kind of step preserves the invariant.                              *)

(* Between two objects there is nothing to say of copies.                  *)
LEMMA IdleFan ==
    ASSUME FanInv, fan = None, fan' = None, sending' = sending
    PROVE  FanInv'
BY DEF FanInv, OneSend, GhostsStay

(* A step beside the fan-out, which may take the connections of ids away.  *)
LEMMA SameFan ==
    ASSUME IInv, FanInv, UNCHANGED <<handling, fan, sending, told>>,
           \A i : Live(i)' => Live(i),
           ~ContextReuse =>
              \A i \in DOMAIN subscribe_id_state \ DOMAIN subscribe_id_state' : Live(i)
    PROVE  FanInv'
<1>1. ASSUME fan # None PROVE CopiesKept' /\ CopiesOnce'
  <2>1. CopiesKept /\ CopiesOnce
    BY <1>1 DEF FanInv
  <2>. QED
    BY <2>1 DEF CopiesKept, CopiesOnce
<1>2. GhostsStay'
  <2> SUFFICES ASSUME ~ContextReuse, NEW x \in sending, x.bound, x.ref = None
               PROVE  x.id \in DOMAIN subscribe_id_state'
    BY DEF GhostsStay
  <2>1. x.id \in DOMAIN subscribe_id_state
    BY DEF FanInv, GhostsStay
  <2>2. ~Live(x.id)
    BY DEF IInv, SendsAsTold, Live
  <2>. QED
    BY <2>1, <2>2
<1>3. OneSend'
    BY DEF FanInv, OneSend
<1>. QED
    BY <1>1, <1>2, <1>3 DEF FanInv

(* The ends of subscriptions.                                              *)
LEMMA LeaveKeeps ==
    ASSUME RelayInv, NEW c \in Context, LeavingOf(c, calls'), onUnsubscribe(calls'),
           IInv', FanInv'
    PROVE  RelayInv'
<1>1. /\ subscriptions' = subscriptions
      /\ ended' = ended \cup {u.id : u \in {v \in calls' : v.id \in DOMAIN subscribe_id_state}}
    BY EndFacts
<1>2. /\ UNCHANGED <<subscriber_id, publish_namespaces, told>>
      /\ \A k, d : Has(subscribe_state', k, d) =>
            /\ Has(subscribe_state, k, d)
            /\ subscribe_state'[k].subs[d] = subscribe_state[k].subs[d]
    BY DEF LeavingOf
<1>3. /\ KeyedByName' /\ ListsWhatWasTold' /\ OneKeyPerId'
      /\ EntriesWereTold'
    BY <1>1, <1>2
    DEF RelayInv, KeyedByName, ListsWhatWasTold, OneKeyPerId, EntriesWereTold
<1>4. EndedAreGone'
  <2>1. /\ DOMAIN subscribe_id_state' = DOMAIN subscribe_id_state \ {u.id : u \in calls'}
        /\ \A i \in DOMAIN subscribe_id_state' : subscribe_id_state'[i] = subscribe_id_state[i]
    BY DEF LeavingOf, EraseKeys, Restrict
  <2>2. \A i \in DOMAIN subscribe_id_state : i \in Id /\ i < subscriber_id
    BY IdsToConnections DEF RelayInv, IInv, IdsAreOld
  <2>. QED
    BY <1>1, <1>2, <2>1, <2>2 DEF RelayInv, EndedAreGone, Live
<1>. QED
    BY <1>3, <1>4 DEF RelayInv

(* A subscription: the relay's list and the history grow by the same entry. *)
LEMMA SubscribeKeeps ==
    ASSUME RelayInv, RelaySubscribe
    PROVE  RelayInv'
<1>1. PICK c \in Context, n \in Namespace, id \in Id :
        /\ calls' = {[cb |-> "onSubscribe", ns |-> n, id |-> id, ctx |-> c]}
        /\ told' = told \cup {[ns |-> n, id |-> id, ctx |-> c]}
        /\ UNCHANGED <<conn, publish_state, publish_namespaces, answering, sending>>
        /\ \/ /\ id = subscriber_id
              /\ id < MaxId
              /\ subscriber_id' = id + 1
              /\ subscribe_id_state' = Put(subscribe_id_state, id, c)
              /\ \A k, d : Has(subscribe_state', k, d) <=>
                             Has(subscribe_state, k, d) \/ (k = NameOf[n] /\ d = c)
              /\ subscribe_state'[NameOf[n]].subs[c] = id
              /\ \A k, d : Has(subscribe_state, k, d) /\ ~(k = NameOf[n] /\ d = c) =>
                             subscribe_state'[k].subs[d] = subscribe_state[k].subs[d]
           \/ /\ UNCHANGED <<subscribe_state, subscribe_id_state, subscriber_id>>
              /\ Has(subscribe_state, NameOf[n], c)
              /\ subscribe_state[NameOf[n]].subs[c] = id
    BY SubscribeFacts DEF RelayInv, RelaySubscribe
<1> DEFINE new == [ns |-> n, id |-> id, ctx |-> c]
           call == [cb |-> "onSubscribe", ns |-> n, id |-> id, ctx |-> c]
<1>2. new.ns = n /\ new.id = id /\ new.ctx = c /\ told' = told \cup {new}
    BY <1>1
<1>3. /\ subscriptions' = [subscriptions EXCEPT ![n] = @ \cup {Remote(id)}]
      /\ sent' = ToSubscriber(subscribe_id_state',
                              [type |-> "SubscribeResponse", ns |-> n], id)
      /\ UNCHANGED <<fan, ended>>
  <2>1. onSubscribe(call)
    BY <1>1 DEF RelaySubscribe
  <2>. QED
    BY <2>1 DEF onSubscribe, add
<1>4. /\ subscriber_id \in Nat
      /\ \A s \in told : s.id \in Nat /\ s.id < subscriber_id
      /\ \A k, d : Has(subscribe_state, k, d) =>
            /\ subscribe_state[k].subs[d] \in Nat
            /\ subscribe_state[k].subs[d] < subscriber_id
      /\ \A i \in DOMAIN subscribe_id_state : i \in Nat /\ i < subscriber_id
  <2>1. subscriber_id \in Nat /\ Id \subseteq Nat
    BY BoundAssumption DEF RelayInv, IInv, TypeOK, Id
  <2>2. \A s \in told : s.id \in Id /\ s.id < subscriber_id
    BY DEF RelayInv, IInv, TypeOK, IdsAreOld
  <2>3. \A k, d : Has(subscribe_state, k, d) => subscribe_state[k].subs[d] \in Id
    BY TypeMaps, SubMapFacts DEF RelayInv, IInv, Has
  <2>4. \A k, d : Has(subscribe_state, k, d) => subscribe_state[k].subs[d] < subscriber_id
    BY IdentifiedIff DEF RelayInv, IInv, Identified
  <2>5. \A i \in DOMAIN subscribe_id_state : i \in Id /\ i < subscriber_id
    BY IdsToConnections DEF RelayInv, IInv, IdsAreOld
  <2>. QED
    BY <2>1, <2>2, <2>3, <2>4, <2>5
<1>5. IInv'
  <2>1. \A i \in DOMAIN subscribe_id_state' : subscribe_id_state'[i] \in Context \cup {None}
    BY <1>1, IdsToConnections DEF RelayInv, Put
  <2>2. SentOK'
    BY <1>3, <2>1 DEF ToSubscriber, SentOK
  <2>. QED
    BY <2>2, SubscribeStep DEF RelayInv, RelaySubscribe
<1>6. KeyedByName' /\ FanInv'
  <2>1. fan = None
    BY DEF RelayInv, FanInv, RelaySubscribe, handle_subscribe, Dispatching
  <2>. QED
    BY <1>1, <1>3, <2>1, IdleFan DEF RelayInv, KeyedByName
<1> HIDE DEF new, call
<1>7. ListsWhatWasTold'
  <2> DEFINE list(T, x) == {Remote(s.id) : s \in {t \in T : t.ns = x}}
  <2>1. list(told', n) = list(told, n) \cup {Remote(id)}
    BY <1>2
  <2>2. \A x \in Namespace \ {n} : list(told', x) = list(told, x)
    BY <1>2
  <2>3. subscriptions = [x \in Namespace |-> list(told, x)]
    BY DEF RelayInv, ListsWhatWasTold
  <2> HIDE DEF list
  <2>4. subscriptions' = [x \in Namespace |-> list(told', x)]
    BY <1>3, <2>1, <2>2, <2>3
  <2>. QED
    BY <2>4 DEF ListsWhatWasTold, list
<1>8. CASE /\ id = subscriber_id
           /\ subscriber_id' = id + 1
           /\ subscribe_id_state' = Put(subscribe_id_state, id, c)
           /\ \A k, d : Has(subscribe_state', k, d) <=>
                          Has(subscribe_state, k, d) \/ (k = NameOf[n] /\ d = c)
           /\ subscribe_state'[NameOf[n]].subs[c] = id
           /\ \A k, d : Has(subscribe_state, k, d) /\ ~(k = NameOf[n] /\ d = c) =>
                          subscribe_state'[k].subs[d] = subscribe_state[k].subs[d]
  <2>1. OneKeyPerId'
    BY <1>2, <1>4, <1>8 DEF RelayInv, OneKeyPerId
  <2>2. EntriesWereTold'
    <3> SUFFICES ASSUME NEW k, NEW d, Has(subscribe_state', k, d)
                 PROVE  /\ \E s \in told' : s.id = subscribe_state'[k].subs[d]
                        /\ \A s \in told' : s.id = subscribe_state'[k].subs[d] =>
                               NameOf[s.ns] = k /\ s.ctx = d
      BY DEF EntriesWereTold
    <3>1. CASE k = NameOf[n] /\ d = c
      BY <1>2, <1>4, <1>8, <3>1
    <3>2. CASE ~(k = NameOf[n] /\ d = c)
      <4>1. Has(subscribe_state, k, d)
            /\ subscribe_state'[k].subs[d] = subscribe_state[k].subs[d]
        BY <1>8, <3>2
      <4>2. /\ \E s \in told : s.id = subscribe_state[k].subs[d]
            /\ \A s \in told : s.id = subscribe_state[k].subs[d] =>
                  NameOf[s.ns] = k /\ s.ctx = d
        BY <4>1 DEF RelayInv, EntriesWereTold
      <4>3. subscribe_state[k].subs[d] # id
        BY <1>4, <1>8, <4>1
      <4>. QED
        BY <1>2, <4>1, <4>2, <4>3
    <3>. QED
      BY <3>1, <3>2
  <2>3. EndedAreGone'
    <3>1. /\ DOMAIN subscribe_id_state' = DOMAIN subscribe_id_state \cup {id}
          /\ \A i \in DOMAIN subscribe_id_state \ {id} :
                subscribe_id_state'[i] = subscribe_id_state[i]
      BY <1>8 DEF Put
    <3>2. \A i \in ended : i \in Nat
      BY BoundAssumption DEF RelayInv, EndedAreGone, Id
    <3>. QED
      BY <1>3, <1>4, <1>8, <3>1, <3>2 DEF RelayInv, EndedAreGone, Live
  <2>. QED
    BY <1>5, <1>6, <1>7, <2>1, <2>2, <2>3 DEF RelayInv
<1>9. CASE /\ UNCHANGED <<subscribe_state, subscribe_id_state, subscriber_id>>
           /\ Has(subscribe_state, NameOf[n], c)
           /\ subscribe_state[NameOf[n]].subs[c] = id
  <2>1. \A s \in told : s.id = id => NameOf[s.ns] = NameOf[n] /\ s.ctx = c
    BY <1>9 DEF RelayInv, EntriesWereTold
  <2>2. OneKeyPerId'
    BY <1>2, <2>1 DEF RelayInv, OneKeyPerId
  <2>3. EntriesWereTold'
    <3> SUFFICES ASSUME NEW k, NEW d, Has(subscribe_state, k, d)
                 PROVE  /\ \E s \in told' : s.id = subscribe_state[k].subs[d]
                        /\ \A s \in told' : s.id = subscribe_state[k].subs[d] =>
                               NameOf[s.ns] = k /\ s.ctx = d
      BY <1>9 DEF EntriesWereTold, Has
    <3>1. subscribe_state[k].subs[d] = id => k = NameOf[n] /\ d = c
      BY <1>9, IdentifiedIff DEF RelayInv, IInv, Identified
    <3>. QED
      BY <1>2, <3>1 DEF RelayInv, EntriesWereTold
  <2>4. EndedAreGone'
    BY <1>3, <1>9 DEF RelayInv, EndedAreGone, Live
  <2>. QED
    BY <1>5, <1>6, <1>7, <2>2, <2>3, <2>4 DEF RelayInv
<1>. QED
    BY <1>1, <1>8, <1>9

(* A step that neither adds nor ends a subscription.                       *)
LEMMA QuietKeeps ==
    ASSUME RelayInv, IInv', KeyedByName', FanInv',
           UNCHANGED <<subscriber_id, told, subscriptions, ended>>,
           \A i : Live(i)' => Live(i),
           \A k, d : Has(subscribe_state', k, d) =>
               /\ Has(subscribe_state, k, d)
               /\ subscribe_state'[k].subs[d] = subscribe_state[k].subs[d]
    PROVE  RelayInv'
BY DEF RelayInv, ListsWhatWasTold, EntriesWereTold, OneKeyPerId, EndedAreGone

(* What a Publish does: if it is accepted, there is a copy to make for each *)
(* id and namespace that covers the name and that the relay was ever told.  *)
LEMMA PublishFacts ==
    ASSUME RelayInv, RelayPublish
    PROVE  /\ fan = None /\ sending = {}
           /\ UNCHANGED <<conn, subVars, publish_namespaces, answering, sending, told>>
           /\ UNCHANGED <<subscriptions, ended>>
           /\ sent' = {}
           /\ \A call \in calls' : call.cb = "onPublisherObject"
           /\ \/ fan' = None
              \/ \E nm \in Name :
                    /\ Accepting(nm)
                    /\ fan' \in Fan
                    /\ fan'.name = nm
                    /\ fan'.done = {}
                    /\ \E c, d \in Context : fan'.source = {c, d}
                    /\ fan'.todo = {Item(s) : s \in {t \in told : nm \in Covers[t.ns]}}
<1> DEFINE nm == handling.msg.name
           p == PublisherOf(nm, handling.ctx)
           call == [cb |-> "onPublisherObject", name |-> nm, ctx |-> p, from |-> handling.ctx]
<1>1. handling.ctx \in Context /\ nm \in Name /\ handling # None
    BY HandlingFacts, MessageFacts DEF RelayInv, IInv, RelayPublish, handle_publish, Dispatching
<1>2. p \in Context
    BY <1>1, PartialFnIff DEF RelayInv, IInv, TypeOK, PublisherOf
<1>3. /\ UNCHANGED <<conn, subVars, publish_namespaces, answering, sending, told>>
      /\ UNCHANGED <<subscriptions, ended>>
      /\ sent' = {}
    BY DEF RelayPublish, handle_publish
<1>4. fan = None /\ sending = {}
    BY <1>1 DEF RelayInv, FanInv, OneSend
<1>5. CASE ~Accepting(nm)
  <2>1. calls' = {}
    BY <1>5 DEF RelayPublish, handle_publish
  <2>2. fan' = fan
    BY <2>1 DEF RelayPublish
  <2>. QED
    BY <1>3, <1>4, <2>1, <2>2
<1>6. CASE Accepting(nm)
  <2>1. calls' = {call}
    BY <1>6 DEF RelayPublish, handle_publish
  <2>2. calls' # {} /\ call \in calls'
    BY <2>1
  <2>3. onPublisherObject(call)
    BY <2>2 DEF RelayPublish
  <2> DEFINE todo == {f \in find(subscriptions, nm) : f[2].context_id # p}
             item == [subscribe_id : Id, context_id : {None}]
  <2>4. fan' = [name |-> nm, todo |-> todo, source |-> {p, handling.ctx}, done |-> {}]
    BY <2>3 DEF onPublisherObject
  <2>5. \A id : Remote(id).context_id # p
    BY <1>2, NoneAssumption DEF Remote
  <2>6. \A n \in Namespace : subscriptions[n] = {Remote(s.id) : s \in {t \in told : t.ns = n}}
    BY DEF RelayInv, ListsWhatWasTold
  <2> HIDE DEF nm
  <2>7. ASSUME NEW f \in todo
        PROVE  \E s \in told : nm \in Covers[s.ns] /\ f = Item(s)
    <3>1. /\ f[1] \in Namespace /\ nm \in Covers[f[1]] /\ f[2] \in subscriptions[f[1]]
          /\ f = <<f[1], f[2]>>
      BY DEF find
    <3>2. PICK s \in told : s.ns = f[1] /\ f[2] = Remote(s.id)
      BY <2>6, <3>1
    <3>. QED
      BY <3>1, <3>2 DEF Item
  <2>8. ASSUME NEW s \in told, nm \in Covers[s.ns]
        PROVE  Item(s) \in todo
    <3>1. s.ns \in Namespace
      BY DEF RelayInv, IInv, TypeOK
    <3>2. Remote(s.id) \in subscriptions[s.ns]
      BY <2>6, <3>1
    <3>3. Item(s) \in find(subscriptions, nm)
      BY <2>8, <3>1, <3>2 DEF find, Item
    <3>4. Item(s)[2] = Remote(s.id)
      BY ItemFacts
    <3>5. Item(s)[2].context_id # p
      BY <2>5, <3>4
    <3> HIDE DEF p
    <3>. QED
      BY <3>3, <3>5
  <2> HIDE DEF todo
  <2>9. todo = {Item(s) : s \in {t \in told : nm \in Covers[t.ns]}}
    BY <2>7, <2>8
  <2>10. \A s \in told : Item(s) \in Namespace \X item
    <3>1. \A s \in told : s.ns \in Namespace /\ s.id \in Id
      BY DEF RelayInv, IInv, TypeOK
    <3>2. \A id \in Id : Remote(id) \in item
      BY DEF Remote
    <3> HIDE DEF item
    <3>. QED
      BY <3>1, <3>2 DEF Item
  <2>11. todo \in SUBSET (Namespace \X item)
    BY <2>7, <2>10
  <2>12. /\ fan' \in Fan /\ fan'.name = nm /\ fan'.done = {} /\ fan'.todo = todo
    BY <1>1, <1>2, <2>4, <2>11 DEF Fan, nm
  <2>13. \E c, d \in Context : fan'.source = {c, d}
    BY <1>1, <1>2, <2>4
  <2>14. \A q \in calls' : q.cb = "onPublisherObject"
    BY <2>1
  <2>. QED
    BY <1>1, <1>3, <1>4, <1>6, <2>9, <2>12, <2>13, <2>14 DEF nm
<1>. QED
    BY <1>5, <1>6

(* The loop of onPublisherObject takes the next copy: the id is looked up. *)
LEMMA CopyFacts ==
    ASSUME RelayInv, NEW f, RelayCopy(f)
    PROVE  /\ fan \in Fan /\ fan # None /\ fan' \in Fan /\ fan' # None
           /\ fan'.name = fan.name /\ fan'.done = fan.done /\ fan'.todo = fan.todo \ {f}
           /\ f \in fan.todo /\ sending = {}
           /\ calls' = {} /\ sent' = {}
           /\ UNCHANGED <<conn, handling, subscribe_state, subscribe_id_state, subscriber_id,
                          publish_state, publish_namespaces, answering, told, subscriptions, ended>>
           /\ \E s \in told :
                 /\ fan.name \in Covers[s.ns] /\ f = Item(s)
                 /\ \/ s.id \notin DOMAIN subscribe_id_state /\ sending' = {}
                    \/ /\ s.id \in DOMAIN subscribe_id_state
                       /\ \E x : /\ sending' = {x}
                                 /\ x.id = s.id /\ x.msg = Copy(fan.name, s.ns)
                                 /\ x.bound = FALSE /\ x.ref = None
<1>1. /\ fan # None /\ sending = {} /\ f \in fan.todo
      /\ send_lookup(Copy(fan.name, f[1]), f[2].subscribe_id)
      /\ fan' = [fan EXCEPT !.todo = @ \ {f}]
      /\ UNCHANGED <<subscriptions, ended>>
    BY DEF RelayCopy
<1>2. fan \in Fan /\ CopiesKept
    BY <1>1 DEF RelayInv, FanInv
<1>3. /\ fan' \in Fan /\ fan'.name = fan.name /\ fan'.done = fan.done
      /\ fan'.todo = fan.todo \ {f}
    BY <1>1, <1>2 DEF Fan
<1>4. fan' # None
    BY <1>3, FanAssumption
<1>5. PICK s \in told : fan.name \in Covers[s.ns] /\ f = Item(s)
    BY <1>1, <1>2 DEF CopiesKept
<1>6. f[1] = s.ns /\ f[2].subscribe_id = s.id
    BY <1>5, ItemFacts
<1> DEFINE m == Copy(fan.name, s.ns)
           x == [id |-> s.id, msg |-> m, bound |-> FALSE, ref |-> None]
<1>7. /\ sending' = {[id |-> i, msg |-> m, bound |-> FALSE, ref |-> None] :
                        i \in DOMAIN subscribe_id_state \cap {s.id}}
      /\ calls' = {} /\ sent' = {}
      /\ UNCHANGED <<conn, handling, subscribe_state, subscribe_id_state, subscriber_id,
                     publish_state, publish_namespaces, answering, told>>
    BY <1>1, <1>6 DEF send_lookup, subVars, pubVars
<1> HIDE DEF m
<1>8. x.id = s.id /\ x.msg = m /\ x.bound = FALSE /\ x.ref = None
    OBVIOUS
<1>9. IF s.id \in DOMAIN subscribe_id_state THEN sending' = {x} ELSE sending' = {}
    BY <1>7
<1> HIDE DEF x
<1>10. \/ s.id \notin DOMAIN subscribe_id_state /\ sending' = {}
       \/ /\ s.id \in DOMAIN subscribe_id_state
          /\ \E y : /\ sending' = {y}
                    /\ y.id = s.id /\ y.msg = Copy(fan.name, s.ns)
                    /\ y.bound = FALSE /\ y.ref = None
    BY <1>8, <1>9 DEF m
<1>. QED
    BY <1>1, <1>2, <1>3, <1>4, <1>5, <1>7, <1>10, Zenon

(* The second lookup of a copy.                                             *)
LEMMA RelayFindFacts ==
    ASSUME RelayInv, RelayFind
    PROVE  /\ fan # None
           /\ calls' = {} /\ sent' = {}
           /\ \A i : Live(i)' <=> Live(i)
           /\ UNCHANGED <<conn, handling, subscribe_state, subscriber_id, publish_state,
                          publish_namespaces, answering, told, subscriptions, fan, ended>>
           /\ DOMAIN subscribe_id_state \subseteq DOMAIN subscribe_id_state'
           /\ \E x \in sending : \E q :
                 /\ send_find(x)
                 /\ sending = {x} /\ sending' = {q}
                 /\ x.bound = FALSE /\ x.ref = None
                 /\ q.id = x.id /\ q.msg = x.msg /\ q.bound = TRUE
                 /\ q.ref = subscribe_id_state'[x.id]
                 /\ x.id \in DOMAIN subscribe_id_state'
<1>1. PICK x \in sending : send_find(x)
    BY DEF RelayFind
<1>2. /\ DOMAIN subscribe_id_state' = DOMAIN subscribe_id_state \cup {x.id}
      /\ \A i : LiveIn(subscribe_id_state', i) <=> LiveIn(subscribe_id_state, i)
      /\ UNCHANGED <<conn, handling, subscribe_state, subscriber_id, publish_state,
                     publish_namespaces, answering, told>>
    BY <1>1, FindFacts DEF RelayInv
<1>3. \A i : Live(i)' <=> Live(i)
    BY <1>2 DEF Live, LiveIn
<1>4. fan # None /\ sending = {x} /\ x.bound \in BOOLEAN
    BY DEF RelayInv, FanInv, OneSend, IInv, TypeOK
<1>5. x.bound = FALSE /\ x.ref = None
    BY <1>1, <1>4 DEF send_find, RelayInv, FanInv, OneSend
<1>6. PICK q : q = [id |-> x.id, msg |-> x.msg, bound |-> TRUE, ref |-> subscribe_id_state'[x.id]]
    OBVIOUS
<1>7. sending' = {q} /\ calls' = {} /\ sent' = {}
    BY <1>1, <1>4, <1>6 DEF send_find
<1>8. q.id = x.id /\ q.msg = x.msg /\ q.bound = TRUE /\ q.ref = subscribe_id_state'[x.id]
    BY <1>6
<1>9. UNCHANGED <<subscriptions, fan, ended>>
    BY DEF RelayFind, relayVars
<1>10. \E y \in sending : \E z :
         /\ send_find(y)
         /\ sending = {y} /\ sending' = {z}
         /\ y.bound = FALSE /\ y.ref = None
         /\ z.id = y.id /\ z.msg = y.msg /\ z.bound = TRUE
         /\ z.ref = subscribe_id_state'[y.id]
         /\ y.id \in DOMAIN subscribe_id_state'
  <2>1. x.id \in DOMAIN subscribe_id_state'
    BY <1>2
  <2>. QED
    BY <1>1, <1>4, <1>5, <1>7, <1>8, <2>1, Zenon
<1>. QED
    BY <1>2, <1>3, <1>4, <1>7, <1>9, <1>10

(* A copy is enqueued.                                                      *)
LEMMA RelayEnqueueFacts ==
    ASSUME RelayInv, RelayEnqueue
    PROVE  /\ fan \in Fan /\ fan # None /\ fan' \in Fan /\ fan' # None
           /\ fan'.name = fan.name /\ fan'.todo = fan.todo
           /\ calls' = {} /\ sending' = {}
           /\ UNCHANGED <<conn, handling, subscribe_state, subscribe_id_state, subscriber_id,
                          publish_state, publish_namespaces, answering, told, subscriptions, ended>>
           /\ \E x \in sending : \E c \in Addressees(x) :
                 /\ send_enqueue(x)
                 /\ sending = {x} /\ x.bound
                 /\ c \in Context \cup {None}
                 /\ sent' = {[to |-> c, id |-> x.id, msg |-> x.msg]}
                 /\ fan'.done = fan.done \cup {x.id}
<1>1. PICK x \in sending : send_enqueue(x) /\ fan' = [fan EXCEPT !.done = @ \cup {x.id}]
    BY DEF RelayEnqueue
<1>2. /\ sending = {x} /\ fan # None /\ fan \in Fan /\ x.id \in Id
      /\ x.ref \in Context \cup {None}
    BY DEF RelayInv, FanInv, OneSend, IInv, TypeOK
<1>3. /\ x.bound /\ sending' = {} /\ calls' = {}
      /\ UNCHANGED <<conn, handling, subscribe_state, subscribe_id_state, subscriber_id,
                     publish_state, publish_namespaces, answering, told>>
    BY <1>1, <1>2 DEF send_enqueue, subVars, pubVars
<1>4. PICK c \in Addressees(x) : sent' = {[to |-> c, id |-> x.id, msg |-> x.msg]}
    BY <1>1 DEF send_enqueue
<1>5. c \in Context \cup {None}
    BY <1>2, <1>4 DEF Addressees
<1>6. /\ fan' \in Fan /\ fan'.name = fan.name /\ fan'.todo = fan.todo
      /\ fan'.done = fan.done \cup {x.id}
    BY <1>1, <1>2 DEF Fan
<1>7. fan' # None
    BY <1>6, FanAssumption
<1>8. UNCHANGED <<subscriptions, ended>>
    BY DEF RelayEnqueue
<1>. QED
    BY <1>1, <1>2, <1>3, <1>4, <1>5, <1>6, <1>7, <1>8, Zenon

(* A Publish starts with all the copies to make.                            *)
LEMMA PublishFan ==
    ASSUME RelayInv, RelayPublish
    PROVE  FanInv'
<1>1. fan = None /\ sending = {} /\ sending' = {} /\ told' = told
    BY PublishFacts
<1>2. CASE fan' = None
    BY <1>1, <1>2, IdleFan DEF RelayInv
<1>3. ASSUME NEW nm \in Name, fan' \in Fan, fan'.name = nm, fan'.done = {},
             fan'.todo = {Item(s) : s \in {t \in told : nm \in Covers[t.ns]}}
      PROVE  FanInv'
  <2>1. handling' = None
    BY DEF RelayPublish, handle_publish
  <2>2. CopiesKept' /\ CopiesOnce'
    BY <1>1, <1>3 DEF CopiesKept, CopiesOnce
  <2>. QED
    BY <1>1, <1>3, <2>1, <2>2, FanAssumption DEF FanInv, OneSend, GhostsStay
<1>. QED
    BY <1>2, <1>3, PublishFacts

(* A copy that is looked up is being sent, unless its id is not in use.     *)
LEMMA CopyFan ==
    ASSUME RelayInv, NEW f, RelayCopy(f)
    PROVE  FanInv'
<1>1. /\ fan \in Fan /\ fan # None /\ fan' \in Fan /\ fan' # None
      /\ fan'.name = fan.name /\ fan'.done = fan.done /\ fan'.todo = fan.todo \ {f}
      /\ f \in fan.todo /\ sending = {}
      /\ UNCHANGED <<handling, subscribe_id_state, told>>
    BY CopyFacts
<1>2. PICK s \in told :
        /\ fan.name \in Covers[s.ns] /\ f = Item(s)
        /\ \/ s.id \notin DOMAIN subscribe_id_state /\ sending' = {}
           \/ /\ s.id \in DOMAIN subscribe_id_state
              /\ \E x : /\ sending' = {x}
                        /\ x.id = s.id /\ x.msg = Copy(fan.name, s.ns)
                        /\ x.bound = FALSE /\ x.ref = None
    BY CopyFacts
<1>3. CopiesKept /\ CopiesOnce
    BY <1>1 DEF RelayInv, FanInv
<1>4. f[2].subscribe_id = s.id
    BY <1>2, ItemFacts
<1>5. \A t \in told : Live(t.id)' <=> Live(t.id)
    BY <1>1 DEF Live
<1>6. CopiesKept'
  <2>1. \A g \in fan'.todo : \E t \in told' : fan'.name \in Covers[t.ns] /\ g = Item(t)
    BY <1>1, <1>3 DEF CopiesKept
  <2>2. \A x \in sending' : x.id = s.id /\ x.msg = Copy(fan'.name, s.ns)
    BY <1>1, <1>2
  <2>3. Item(s) \notin fan'.todo
    BY <1>1, <1>2
  <2>4. \A i \in fan'.done : \E t \in told' : fan'.name \in Covers[t.ns] /\ i = t.id
    BY <1>1, <1>3 DEF CopiesKept
  <2>5. ASSUME NEW t \in told, fan.name \in Covers[t.ns], Live(t.id)
        PROVE  Item(t) \in fan'.todo \/ t.id \in fan'.done \/ \E x \in sending' : x.id = t.id
    <3>1. CASE Item(t) = f
      <4>1. t.id = s.id
        BY <1>2, <3>1, ItemFacts
      <4>2. s.id \in DOMAIN subscribe_id_state
        BY <2>5, <4>1 DEF Live
      <4>. QED
        BY <1>2, <4>1, <4>2
    <3>2. CASE Item(t) # f
      BY <1>1, <1>3, <2>5, <3>2 DEF CopiesKept
    <3>. QED
      BY <3>1, <3>2
  <2>. QED
    BY <1>1, <1>2, <1>5, <2>1, <2>2, <2>3, <2>4, <2>5 DEF CopiesKept
<1>7. CopiesOnce'
  <2> SUFFICES ASSUME DistinctKeys
               PROVE  /\ \A g \in fan'.todo : /\ g[2].subscribe_id \notin fan'.done
                                              /\ \A x \in sending' : x.id # g[2].subscribe_id
                      /\ \A x \in sending' : x.id \notin fan'.done
    BY DEF CopiesOnce
  <2>1. ASSUME NEW g \in fan'.todo PROVE g[2].subscribe_id # s.id
    <3>1. PICK t \in told : g = Item(t)
      BY <1>1, <1>3 DEF CopiesKept
    <3>2. SUFFICES ASSUME t.id = s.id PROVE FALSE
      BY <3>1, ItemFacts
    <3>3. t.ns \in Namespace /\ s.ns \in Namespace
      BY DEF RelayInv, IInv, TypeOK
    <3>4. t.ns = s.ns
      BY <3>2, <3>3, NamespaceAssumption DEF RelayInv, OneKeyPerId, DistinctKeys, IsInjective
    <3>5. g = f
      BY <1>2, <3>1, <3>2, <3>4, ItemFacts
    <3>. QED
      BY <1>1, <3>5
  <2>2. \A x \in sending' : x.id = s.id
    BY <1>2
  <2>. QED
    BY <1>1, <1>3, <1>4, <2>1, <2>2 DEF CopiesOnce
<1>8. OneSend' /\ GhostsStay'
    BY <1>1, <1>2 DEF OneSend, GhostsStay
<1>. QED
    BY <1>1, <1>6, <1>7, <1>8 DEF RelayInv, FanInv

(* The reference that a copy takes is to a connection exactly if the id is  *)
(* live.                                                                    *)
LEMMA FindFan ==
    ASSUME RelayInv, RelayFind
    PROVE  FanInv'
<1>1. /\ fan # None
      /\ \A i : Live(i)' <=> Live(i)
      /\ UNCHANGED <<handling, told, fan>>
    BY RelayFindFacts
<1>2. PICK x \in sending : \E q :
        /\ sending = {x} /\ sending' = {q}
        /\ q.id = x.id /\ q.msg = x.msg /\ q.bound = TRUE
        /\ x.id \in DOMAIN subscribe_id_state'
    BY RelayFindFacts
<1>3. CopiesKept /\ CopiesOnce
    BY <1>1 DEF RelayInv, FanInv
<1>4. CopiesKept' /\ CopiesOnce'
    BY <1>1, <1>2, <1>3 DEF CopiesKept, CopiesOnce
<1>5. OneSend' /\ GhostsStay'
    BY <1>1, <1>2 DEF OneSend, GhostsStay
<1>. QED
    BY <1>1, <1>4, <1>5 DEF RelayInv, FanInv

(* A copy that is enqueued is done.                                         *)
LEMMA EnqueueFan ==
    ASSUME RelayInv, RelayEnqueue
    PROVE  FanInv'
<1>1. /\ fan # None /\ fan' \in Fan /\ fan' # None
      /\ fan'.name = fan.name /\ fan'.todo = fan.todo /\ sending' = {}
      /\ UNCHANGED <<handling, subscribe_id_state, told>>
    BY RelayEnqueueFacts
<1>2. PICK x \in sending : sending = {x} /\ fan'.done = fan.done \cup {x.id}
    BY RelayEnqueueFacts
<1>3. CopiesKept /\ CopiesOnce
    BY <1>1 DEF RelayInv, FanInv
<1>4. \A t \in told : Live(t.id)' <=> Live(t.id)
    BY <1>1 DEF Live
<1>5. CopiesKept' /\ CopiesOnce'
    BY <1>1, <1>2, <1>3, <1>4 DEF CopiesKept, CopiesOnce
<1>6. OneSend' /\ GhostsStay'
    BY <1>1 DEF OneSend, GhostsStay
<1>. QED
    BY <1>1, <1>5, <1>6 DEF RelayInv, FanInv

(* What a PublishIntent does: the namespace is announced, unless its key is  *)
(* taken, and what is sent goes to no subscriber id.                         *)
LEMMA PublishIntentFacts ==
    ASSUME RelayInv, RelayPublishIntent
    PROVE  /\ IInv' /\ fan = None
           /\ KeyedByName'
           /\ UNCHANGED <<conn, subVars, sending, told, subscriptions, fan, ended>>
           /\ \A m \in sent' : /\ "id" \notin DOMAIN m
                               /\ m.msg.type = "PublishIntentResponse"
           /\ \A call \in calls' : call.cb = "onPublishIntent"
           /\ \E n \in Namespace :
                 /\ DOMAIN publish_namespaces' = DOMAIN publish_namespaces \cup {NameOf[n]}
                 /\ \A k \in DOMAIN publish_namespaces :
                       publish_namespaces'[k].ns = publish_namespaces[k].ns
                 /\ NameOf[n] \notin DOMAIN publish_namespaces =>
                       publish_namespaces'[NameOf[n]].ns = n
<1> DEFINE n == handling.msg.ns
           c == handling.ctx
           known == AddIntent(publish_namespaces, n, c)
           pn == AnswerIntent(known, n)
<1>1. c \in Context /\ n \in Namespace
    BY HandlingFacts, MessageFacts
    DEF RelayInv, IInv, RelayPublishIntent, PublishIntentHandled, Dispatching
<1>2. /\ publish_namespaces' = pn
      /\ sent' = IntentAnswers(known, n)
      /\ calls' = {[cb |-> "onPublishIntent", ns |-> n, ctx |-> c]}
      /\ handling' = None
      /\ UNCHANGED <<conn, subVars, publish_state, answering, sending, told>>
      /\ UNCHANGED <<subscriptions, fan, ended>>
    BY DEF RelayPublishIntent, PublishIntentHandled, relayVars
<1>3. known \in PartialFn(Name, IntentRec)
    BY <1>1, TypeMaps, AddIntentType DEF RelayInv, IInv
<1>4. pn \in PartialFn(Name, IntentRec)
    BY <1>1, <1>3, AnswerIntentType
<1>5. \A k \in DOMAIN known : known[k].ctx \in Context \cup {None}
  <2>1. \A k \in DOMAIN known : known[k] \in IntentRec
    BY <1>3, PartialFnIff
  <2>. QED
    BY <2>1 DEF IntentRec
<1>6. /\ DOMAIN known = DOMAIN publish_namespaces \cup {NameOf[n]}
      /\ \A k \in DOMAIN publish_namespaces : known[k].ns = publish_namespaces[k].ns
      /\ NameOf[n] \notin DOMAIN publish_namespaces => known[NameOf[n]].ns = n
    BY DEF AddIntent, Put
<1>7. /\ DOMAIN pn = DOMAIN known
      /\ \A k \in DOMAIN known : pn[k].ns = known[k].ns
  <2>1. known \in [DOMAIN known -> IntentRec]
    BY <1>3, PartialFnDomain
  <2> HIDE DEF known
  <2>. QED
    BY <2>1 DEF AnswerIntent, IntentRec
<1>8. \A m \in sent' : /\ m.to \in Context \cup {None}
                      /\ "id" \notin DOMAIN m
                      /\ m.msg.type = "PublishIntentResponse"
  <2> TAKE m \in sent'
  <2>1. PICK k \in DOMAIN known :
          m = [to |-> known[k].ctx, msg |-> [type |-> "PublishIntentResponse", ns |-> n]]
    BY <1>2 DEF IntentAnswers
  <2>2. known[k].ctx \in Context \cup {None}
    BY <1>5
  <2> HIDE DEF known
  <2>. QED
    BY <2>1, <2>2
<1>9. \A call \in calls' : call.cb = "onPublishIntent"
    BY <1>2
<1> HIDE DEF n, c, known, pn
<1>10. TypeOK'
    BY <1>2, <1>4, <1>8, IntentMapType DEF RelayInv, IInv, TypeOK, subVars
<1>11. IInv'
    BY <1>2, <1>10, QuietStep DEF RelayInv
<1>12. KeyedByName'
    BY <1>2, <1>6, <1>7, GrowingIntents DEF RelayInv
<1>13. fan = None
    BY DEF RelayInv, FanInv, RelayPublishIntent, PublishIntentHandled, Dispatching
<1>. QED
    BY <1>1, <1>2, <1>6, <1>7, <1>8, <1>9, <1>11, <1>12, <1>13

(* What a PublishIntentEnd does: the key is gone, or was not there.         *)
LEMMA PublishIntentEndFacts ==
    ASSUME RelayInv, handle_publish_intent_end, Quiet
    PROVE  /\ IInv' /\ fan = None
           /\ KeyedByName'
           /\ UNCHANGED <<conn, subVars, sending, told, subscriptions, fan, ended>>
           /\ sent' = {}
           /\ \A call \in calls' : call.cb = "onPublishIntentEnd"
           /\ \E n \in Namespace :
                 /\ DOMAIN publish_namespaces' = DOMAIN publish_namespaces \ {NameOf[n]}
                 /\ \A k \in DOMAIN publish_namespaces' :
                       publish_namespaces'[k] = publish_namespaces[k]
<1> DEFINE n == handling.msg.ns
<1>1. n \in Namespace
    BY HandlingFacts, MessageFacts DEF RelayInv, IInv, handle_publish_intent_end, Dispatching
<1>2. /\ UNCHANGED <<conn, subVars, sending, told, subscriptions, fan, ended>>
      /\ sent' = {}
      /\ \A call \in calls' : call.cb = "onPublishIntentEnd"
    BY DEF handle_publish_intent_end, Quiet, relayVars
<1>3. /\ DOMAIN publish_namespaces' = DOMAIN publish_namespaces \ {NameOf[n]}
      /\ \A k \in DOMAIN publish_namespaces' :
            publish_namespaces'[k] = publish_namespaces[k]
    BY DEF handle_publish_intent_end, pubVars, EraseKeys, Restrict
<1>4. IInv'
    BY <1>2, PublishIntentEndStep DEF RelayInv, SentOK
<1>5. KeyedByName'
    BY <1>3 DEF RelayInv, KeyedByName
<1>6. fan = None
    BY DEF RelayInv, FanInv, handle_publish_intent_end, Dispatching
<1>. QED
    BY <1>1, <1>2, <1>3, <1>4, <1>5, <1>6

(* The steps that the relay's peers do not see: connections that come up,   *)
(* messages that are taken, looked up or dropped.                           *)
Unseen ==
    \/ \E c \in Context : on_new_connection(c) /\ UNCHANGED relayVars
    \/ \E c \in Context, m \in Message : RelayReceive(c, m)
    \/ handle_unsubscribe_check /\ Quiet
    \/ IgnoreMessage /\ Quiet

(* They send and report nothing, and leave the subscriptions as they are.   *)
LEMMA UnseenFacts ==
    ASSUME RelayInv, Unseen
    PROVE  /\ RelayInv'
           /\ calls' = {} /\ sent' = {}
           /\ UNCHANGED <<subscribe_id_state, subscriber_id, publish_namespaces, sending, told,
                          subscriptions, fan, ended>>
<1>1. /\ calls' = {} /\ sent' = {}
      /\ UNCHANGED <<subscribe_id_state, subscriber_id, publish_namespaces, sending, told,
                     subscriptions, fan, ended>>
    BY DEF Unseen, Quiet, RelayReceive, on_new_connection, on_recv_notify,
           handle_unsubscribe_check, IgnoreMessage, subVars, pubVars, relayVars
<1>2. SentOK'
    BY <1>1 DEF SentOK
<1>3. IInv'
    BY <1>2, NewConnectionStep, ReceiveStep, UnsubscribeCheckStep, IgnoreStep
    DEF Unseen, RelayInv, RelayReceive
<1>4. KeyedByName'
    BY <1>1 DEF RelayInv, KeyedByName
<1>5. \A k, d : Has(subscribe_state', k, d) =>
        /\ Has(subscribe_state, k, d)
        /\ subscribe_state'[k].subs[d] = subscribe_state[k].subs[d]
  <2>1. CASE UNCHANGED subscribe_state
    BY <2>1 DEF Has
  <2>2. CASE handle_unsubscribe_check
    <3>1. /\ handling.msg.ns \in Namespace
          /\ subscribe_state' = Touch(subscribe_state, handling.msg.ns)
      BY <2>2, HandlingFacts, MessageFacts
      DEF RelayInv, IInv, handle_unsubscribe_check, Dispatching
    <3>. QED
      BY <3>1, TypeMaps, TouchFacts DEF RelayInv, IInv
  <2>. QED
    BY <2>1, <2>2 DEF Unseen, RelayReceive, on_new_connection, on_recv_notify, IgnoreMessage,
                      subVars
<1>6. \A i : Live(i)' <=> Live(i)
    BY <1>1 DEF Live
<1>7. FanInv'
  <2>1. CASE fan = None
    BY <1>1, <2>1, IdleFan DEF RelayInv
  <2>2. CASE UNCHANGED handling
    BY <1>1, <1>6, <2>2, SameFan DEF RelayInv
  <2>. QED
    BY <2>1, <2>2
    DEF Unseen, RelayReceive, on_new_connection, handle_unsubscribe_check, IgnoreMessage,
        Dispatching, RelayInv, FanInv
<1>. QED
    BY <1>1, <1>3, <1>4, <1>5, <1>6, <1>7, QuietKeeps

(* An Unsubscribe comes between two objects, and a disconnect erases no id   *)
(* with context 0 while connection ids are not reused.                       *)
LEMMA LeaveFan ==
    ASSUME RelayInv, RelayUnsubscribe \/ \E c \in Context : RelayDisconnect(c)
    PROVE  FanInv'
<1>1. UNCHANGED <<fan, sending, told>>
    BY DEF RelayUnsubscribe, RelayDisconnect, onUnsubscribe, handle_unsubscribe,
           on_disconnected
<1>2. CASE RelayUnsubscribe
  <2>1. fan = None
    BY <1>2 DEF RelayUnsubscribe, handle_unsubscribe, RelayInv, FanInv
  <2>. QED
    BY <1>1, <2>1, IdleFan DEF RelayInv
<1>3. ASSUME NEW c \in Context, RelayDisconnect(c) PROVE FanInv'
  <2>1. /\ conn[c] = "up" /\ UNCHANGED handling
        /\ subscribe_id_state' = EraseKeys(subscribe_id_state, IdsOf(subscribe_state, c))
    BY <1>3 DEF RelayDisconnect, on_disconnected
  <2>2. /\ DOMAIN subscribe_id_state' = DOMAIN subscribe_id_state \ IdsOf(subscribe_state, c)
        /\ \A i \in DOMAIN subscribe_id_state' : subscribe_id_state'[i] = subscribe_id_state[i]
    BY <2>1 DEF EraseKeys, Restrict
  <2>3. \A i : Live(i)' => Live(i)
    BY <2>2 DEF Live
  <2>4. ASSUME ~ContextReuse, NEW i \in IdsOf(subscribe_state, c) PROVE Live(i)
    <3>1. PICK k : Has(subscribe_state, k, c) /\ i = subscribe_state[k].subs[c]
      BY DEF IdsOf, KeysOf, Has
    <3>. QED
      BY <2>1, <2>4, <3>1, ReachableIff DEF RelayInv, IInv, Reachable, Live, LiveIn
  <2>5. ~ContextReuse =>
          \A i \in DOMAIN subscribe_id_state \ DOMAIN subscribe_id_state' : Live(i)
    BY <2>2, <2>4
  <2>. QED
    BY <1>1, <2>1, <2>3, <2>5, SameFan DEF RelayInv
<1>. QED
    BY <1>2, <1>3

(* An Unsubscribe or a disconnect preserves the invariant of the server and *)
(* that of the relay.                                                       *)
LEMMA LeaveFacts ==
    ASSUME RelayInv, RelayUnsubscribe \/ \E c \in Context : RelayDisconnect(c)
    PROVE  /\ RelayInv'
           /\ \E c \in Context : LeavingOf(c, calls') /\ onUnsubscribe(calls')
<1>1. PICK c \in Context : LeavingOf(c, calls')
    BY UnsubscribeLeaves, DisconnectLeaves DEF RelayInv, RelayUnsubscribe, RelayDisconnect
<1>2. onUnsubscribe(calls')
    BY DEF RelayUnsubscribe, RelayDisconnect
<1>3. SentOK'
  <2>1. \A m \in sent' : \E i \in DOMAIN subscribe_id_state : m.to = subscribe_id_state[i]
    BY <1>1, <1>2, EndFacts
  <2>. QED
    BY <2>1, IdsToConnections DEF SentOK, RelayInv
<1>4. IInv'
    BY <1>3, UnsubscribeStep, DisconnectStep DEF RelayInv, RelayUnsubscribe, RelayDisconnect
<1>. QED
    BY <1>1, <1>2, <1>4, LeaveFan, LeaveKeeps

(* A Publish changes neither the subscriptions nor what is announced.       *)
LEMMA PublishKeeps ==
    ASSUME RelayInv, RelayPublish
    PROVE  RelayInv'
<1>1. /\ UNCHANGED <<conn, subscribe_state, subscribe_id_state, subscriber_id,
                     publish_namespaces, told, subscriptions, ended>>
      /\ sent' = {}
    BY PublishFacts DEF subVars
<1>2. IInv'
    BY <1>1, PublishStep DEF RelayInv, RelayPublish, SentOK
<1>3. KeyedByName'
    BY <1>1 DEF RelayInv, KeyedByName
<1>4. \A i : Live(i)' <=> Live(i)
    BY <1>1 DEF Live
<1>. QED
    BY <1>1, <1>2, <1>3, <1>4, PublishFan, QuietKeeps DEF Has

(* The steps of the fan-out.                                                *)
Copying ==
    \/ \E f : RelayCopy(f)
    \/ RelayFind
    \/ RelayEnqueue
    \/ RelayPublished

(* They add no subscription and end none.                                   *)
LEMMA CopyingKeeps ==
    ASSUME RelayInv, Copying
    PROVE  /\ RelayInv'
           /\ calls' = {}
           /\ \A i : Live(i)' <=> Live(i)
           /\ UNCHANGED <<conn, publish_namespaces, told, ended>>
<1>1. /\ calls' = {}
      /\ UNCHANGED <<conn, subscribe_state, subscriber_id, publish_namespaces, told,
                     subscriptions, ended>>
    BY CopyFacts, RelayFindFacts, RelayEnqueueFacts DEF Copying, RelayPublished, subVars, pubVars
<1>2. \A i : Live(i)' <=> Live(i)
  <2>1. CASE UNCHANGED subscribe_id_state
    BY <2>1 DEF Live
  <2>2. CASE RelayFind
    BY <2>2, RelayFindFacts
  <2>. QED
    BY <2>1, <2>2, CopyFacts, RelayEnqueueFacts DEF Copying, RelayPublished, subVars
<1>3. IInv'
  <2>1. ASSUME NEW f, RelayCopy(f) PROVE IInv'
    BY <2>1, LookupStep DEF RelayCopy, RelayInv
  <2>2. CASE RelayFind
    BY <2>2, FindStep DEF RelayFind, RelayInv
  <2>3. CASE RelayEnqueue
    BY <2>3, EnqueueStep DEF RelayEnqueue, RelayInv
  <2>4. CASE RelayPublished
    <3>1. /\ UNCHANGED <<conn, handling, subVars, pubVars, sending, told>>
          /\ sent' = {}
      BY <2>4 DEF RelayPublished
    <3>2. TypeOK'
      BY <3>1 DEF RelayInv, IInv, TypeOK, subVars, pubVars
    <3>. QED
      BY <3>1, <3>2, QuietStep DEF RelayInv
  <2>. QED
    BY <2>1, <2>2, <2>3, <2>4 DEF Copying
<1>4. FanInv'
  <2>1. CASE RelayPublished
    <3>1. fan' = None /\ sending = {} /\ sending' = {}
      BY <2>1 DEF RelayPublished, FanoutOver
    <3>. QED
      BY <3>1 DEF FanInv, OneSend, GhostsStay
  <2>. QED
    BY <2>1, CopyFan, FindFan, EnqueueFan DEF Copying
<1>5. KeyedByName'
    BY <1>1 DEF RelayInv, KeyedByName
<1>. QED
    BY <1>1, <1>2, <1>3, <1>4, <1>5, QuietKeeps DEF Has

(* A step of the relay, by its kind.                                        *)
LEMMA StepKinds ==
    RelayNext =>
        \/ Unseen
        \/ RelaySubscribe
        \/ RelayUnsubscribe \/ \E c \in Context : RelayDisconnect(c)
        \/ RelayPublish
        \/ Copying
        \/ RelayPublishIntent
        \/ handle_publish_intent_end /\ Quiet
BY DEF RelayNext, Unseen, Copying

(* Every step of the relay preserves the invariant.                         *)
LEMMA NextRelayInv == RelayInv /\ [RelayNext]_allVars => RelayInv'
<1> SUFFICES ASSUME RelayInv, [RelayNext]_allVars PROVE RelayInv'
    OBVIOUS
<1>1. CASE Unseen
    BY <1>1, UnseenFacts
<1>2. CASE RelaySubscribe
    BY <1>2, SubscribeKeeps
<1>3. CASE RelayUnsubscribe \/ \E c \in Context : RelayDisconnect(c)
    BY <1>3, LeaveFacts
<1>4. CASE RelayPublish
    BY <1>4, PublishKeeps
<1>5. CASE RelayPublishIntent \/ (handle_publish_intent_end /\ Quiet)
  <2>1. /\ IInv' /\ KeyedByName' /\ fan = None
        /\ UNCHANGED <<subscribe_state, subscribe_id_state, subscriber_id, sending, told,
                       subscriptions, fan, ended>>
    BY <1>5, PublishIntentFacts, PublishIntentEndFacts DEF subVars
  <2>2. \A i : Live(i)' <=> Live(i)
    BY <2>1 DEF Live
  <2>3. FanInv'
    BY <2>1, IdleFan DEF RelayInv
  <2>. QED
    BY <2>1, <2>2, <2>3, QuietKeeps DEF Has
<1>6. CASE UNCHANGED allVars
  <2>1. IInv'
    BY <1>6, StutterStep DEF RelayInv, allVars
  <2>2. UNCHANGED <<handling, subscribe_state, subscribe_id_state, subscriber_id, sending, told,
                    publish_namespaces, subscriptions, fan, ended>>
    BY <1>6 DEF allVars, vars, relayVars
  <2>3. KeyedByName'
    BY <2>2 DEF RelayInv, KeyedByName
  <2>4. \A i : Live(i)' <=> Live(i)
    BY <2>2 DEF Live
  <2>5. FanInv'
    BY <2>2, <2>4, SameFan DEF RelayInv
  <2>. QED
    BY <2>1, <2>2, <2>3, <2>4, <2>5, QuietKeeps DEF Has
<1>7. CASE Copying
    BY <1>7, CopyingKeeps
<1>. QED
    BY <1>1, <1>2, <1>3, <1>4, <1>5, <1>6, <1>7, StepKinds

(* The invariant of the relay always holds.                                 *)
LEMMA SpecRelayInv == RelaySpec => []RelayInv
BY InitRelayInv, NextRelayInv, PTL DEF RelaySpec

----------------------------------------------------------------------------
(* What the steps send.                                                    *)

(* The answer to a Subscribe goes out under the id that the delegate is     *)
(* told, to what the id stands for, if it is in use.                        *)
LEMMA SubscribeSends ==
    ASSUME RelayInv, RelaySubscribe
    PROVE  \E c \in Context, n \in Namespace, id \in Id :
             /\ calls' = {[cb |-> "onSubscribe", ns |-> n, id |-> id, ctx |-> c]}
             /\ told' = told \cup {[ns |-> n, id |-> id, ctx |-> c]}
             /\ UNCHANGED <<conn, publish_namespaces, sending, fan, ended>>
             /\ fan = None
             /\ sent' = IF id \in DOMAIN subscribe_id_state'
                        THEN {[to |-> subscribe_id_state'[id], id |-> id,
                               msg |-> [type |-> "SubscribeResponse", ns |-> n]]}
                        ELSE {}
             /\ Live(id)' => subscribe_id_state'[id] = c
             /\ \/ /\ id = subscriber_id
                   /\ subscribe_id_state' = Put(subscribe_id_state, id, c)
                \/ /\ UNCHANGED subscribe_id_state
                   /\ Has(subscribe_state, NameOf[n], c)
                   /\ subscribe_state[NameOf[n]].subs[c] = id
<1>1. PICK c \in Context, n \in Namespace, id \in Id :
        /\ calls' = {[cb |-> "onSubscribe", ns |-> n, id |-> id, ctx |-> c]}
        /\ told' = told \cup {[ns |-> n, id |-> id, ctx |-> c]}
        /\ UNCHANGED <<conn, publish_state, publish_namespaces, answering, sending>>
        /\ \/ /\ id = subscriber_id
              /\ subscribe_id_state' = Put(subscribe_id_state, id, c)
           \/ /\ UNCHANGED <<subscribe_state, subscribe_id_state, subscriber_id>>
              /\ Has(subscribe_state, NameOf[n], c)
              /\ subscribe_state[NameOf[n]].subs[c] = id
    BY SubscribeFacts DEF RelayInv, RelaySubscribe
<1> DEFINE call == [cb |-> "onSubscribe", ns |-> n, id |-> id, ctx |-> c]
           answer == [type |-> "SubscribeResponse", ns |-> n]
<1>2. sent' = ToSubscriber(subscribe_id_state', answer, id) /\ UNCHANGED <<fan, ended>>
  <2>1. onSubscribe(call)
    BY <1>1 DEF RelaySubscribe
  <2>. QED
    BY <2>1 DEF onSubscribe
<1>3. Live(id)' => subscribe_id_state'[id] = c
  <2>1. CASE subscribe_id_state' = Put(subscribe_id_state, id, c)
    BY <2>1 DEF Put
  <2>2. CASE /\ UNCHANGED subscribe_id_state
             /\ Has(subscribe_state, NameOf[n], c)
             /\ subscribe_state[NameOf[n]].subs[c] = id
    BY <2>2, IdentifiedIff DEF RelayInv, IInv, Identified, Live, LiveIn
  <2>. QED
    BY <1>1, <2>1, <2>2
<1>4. fan = None
    BY DEF RelayInv, FanInv, RelaySubscribe, handle_subscribe, Dispatching
<1> HIDE DEF answer
<1>5. sent' = IF id \in DOMAIN subscribe_id_state'
              THEN {[to |-> subscribe_id_state'[id], id |-> id, msg |-> answer]} ELSE {}
    BY <1>2 DEF ToSubscriber
<1>. QED
    BY <1>1, <1>2, <1>3, <1>4, <1>5, Zenon DEF answer

(* What goes out under the id of an ended subscription goes to no            *)
(* connection, unless a send holds a reference to one; and none gets hold    *)
(* of one any more.                                                          *)
LEMMA EndedStep ==
    ASSUME RelayInv, RelayNext, ~ContextReuse, NEW id \in ended, ~UnderWay(id)
    PROVE  /\ ~UnderWay(id)'
           /\ \A m \in sent' : "id" \in DOMAIN m /\ m.id = id => m.to = None
<1>1. ~Live(id) /\ ~Live(id)'
  <2>1. ended \subseteq ended'
    BY StepKinds, UnseenFacts, SubscribeSends, LeaveFacts, EndFacts, PublishFacts, CopyingKeeps,
       PublishIntentFacts, PublishIntentEndFacts
  <2>. QED
    BY <2>1, NextRelayInv DEF RelayInv, EndedAreGone
<1>2. CASE sending' = sending /\ sent' = {}
    BY <1>2 DEF UnderWay
<1>3. CASE RelaySubscribe
  <2>1. sending' = sending
    BY <1>3, SubscribeSends
  <2>2. \A m \in sent' : m.id \in DOMAIN subscribe_id_state' /\ m.to = subscribe_id_state'[m.id]
    BY <1>3, SubscribeSends
  <2>. QED
    BY <1>1, <2>1, <2>2 DEF UnderWay, Live
<1>4. CASE RelayUnsubscribe \/ \E c \in Context : RelayDisconnect(c)
  <2>1. PICK c \in Context : LeavingOf(c, calls') /\ onUnsubscribe(calls')
    BY <1>4, LeaveFacts
  <2>2. sending' = sending
    BY <2>1 DEF LeavingOf
  <2>3. \A m \in sent' : m.id \in DOMAIN subscribe_id_state /\ m.to = subscribe_id_state[m.id]
    BY <2>1, EndFacts
  <2>. QED
    BY <1>1, <2>2, <2>3 DEF UnderWay, Live
<1>5. ASSUME NEW f, RelayCopy(f) PROVE ~UnderWay(id)' /\ sent' = {}
    BY <1>5, CopyFacts DEF UnderWay
<1>6. CASE RelayFind
  <2>1. PICK q : /\ sending' = {q} /\ q.id \in DOMAIN subscribe_id_state'
                 /\ q.ref = subscribe_id_state'[q.id]
    BY <1>6, RelayFindFacts
  <2>2. sent' = {}
    BY <1>6, RelayFindFacts
  <2>. QED
    BY <1>1, <2>1, <2>2 DEF UnderWay, Live
<1>7. CASE RelayEnqueue
  <2>1. PICK x \in sending : \E c \in Addressees(x) :
          sent' = {[to |-> c, id |-> x.id, msg |-> x.msg]} /\ x.bound
    BY <1>7, RelayEnqueueFacts
  <2>2. PICK c \in Addressees(x) : sent' = {[to |-> c, id |-> x.id, msg |-> x.msg]}
    BY <2>1
  <2>3. ASSUME x.id = id PROVE c = None
    <3>1. x.ref = None
      BY <2>3 DEF UnderWay
    <3>2. x.id \in DOMAIN subscribe_id_state
      BY <2>1, <3>1 DEF RelayInv, FanInv, GhostsStay
    <3>3. subscribe_id_state[x.id] = None
      BY <1>1, <2>3, <3>2 DEF Live
    <3>. QED
      BY <2>2, <3>1, <3>2, <3>3 DEF Addressees
  <2>4. \A m \in sent' : m.id = x.id /\ m.to = c
    BY <2>2
  <2>5. sending' = {}
    BY <1>7, RelayEnqueueFacts
  <2>. QED
    BY <2>3, <2>4, <2>5 DEF UnderWay
<1>8. CASE RelayPublishIntent
  <2>1. sending' = sending /\ \A m \in sent' : "id" \notin DOMAIN m
    BY <1>8, PublishIntentFacts
  <2>. QED
    BY <2>1 DEF UnderWay
<1>9. CASE Unseen \/ RelayPublish \/ RelayPublished \/ (handle_publish_intent_end /\ Quiet)
    BY <1>2, <1>9, UnseenFacts, PublishFacts, PublishIntentEndFacts DEF RelayPublished
<1>. QED
    BY <1>3, <1>4, <1>5, <1>6, <1>7, <1>8, <1>9, StepKinds DEF Copying

(* After the SubscribeEnd of an id and the one copy that may be under way,   *)
(* no connection gets anything under it, however sends, subscribers,         *)
(* publishers and disconnects overlap.                                       *)
THEOREM EndsAreFinal == RelaySpec => EndIsFinal
<1>1. RelayInv /\ [RelayNext]_allVars =>
        [~ContextReuse => \A id \in ended : ~UnderWay(id) =>
          /\ ~UnderWay(id)'
          /\ \A m \in sent' : "id" \in DOMAIN m /\ m.id = id => m.to = None]_allVars
    BY EndedStep
<1>. QED
    BY <1>1, SpecRelayInv, PTL DEF RelaySpec, EndIsFinal

(* When the copies of an object are out, they went to every live            *)
(* subscription that covers its name, and to nobody who never subscribed.   *)
THEOREM ExactFanout == RelaySpec => []FanoutExact
<1>1. RelayInv => FanoutExact
  <2> SUFFICES ASSUME RelayInv, FanoutOver PROVE FanoutExact
    BY DEF FanoutExact
  <2>1. CopiesKept /\ fan.todo = {} /\ sending = {}
    BY DEF FanoutOver, RelayInv, FanInv
  <2>2. \A s \in told : fan.name \in Covers[s.ns] /\ Live(s.id) => s.id \in fan.done
    BY <2>1 DEF CopiesKept
  <2>3. \A i \in fan.done : \E s \in told : fan.name \in Covers[s.ns] /\ i = s.id
    BY <2>1 DEF CopiesKept
  <2>. QED
    BY <2>2, <2>3 DEF FanoutExact
<1>. QED
    BY <1>1, SpecRelayInv, PTL

(* Only a copy is a Publish, and it is the only one under its id.           *)
LEMMA OneCopyStep ==
    ASSUME RelayInv, RelayNext, DistinctKeys, NEW m \in sent', m.msg.type = "Publish"
    PROVE  m.id \notin fan.done
<1>1. CASE RelayEnqueue
  <2>1. PICK x \in sending : \E c : sent' = {[to |-> c, id |-> x.id, msg |-> x.msg]}
    BY <1>1, RelayEnqueueFacts
  <2>2. m.id = x.id
    BY <2>1
  <2>3. CopiesOnce
    BY <1>1, RelayEnqueueFacts DEF RelayInv, FanInv
  <2>. QED
    BY <2>2, <2>3 DEF CopiesOnce
<1>2. CASE RelaySubscribe
    BY <1>2, SubscribeSends
<1>3. CASE RelayUnsubscribe \/ \E c \in Context : RelayDisconnect(c)
    BY <1>3, LeaveFacts, EndFacts
<1>4. CASE RelayPublishIntent
    BY <1>4, PublishIntentFacts
<1>5. CASE Unseen \/ RelayPublish \/ (\E f : RelayCopy(f)) \/ RelayFind \/ RelayPublished
             \/ (handle_publish_intent_end /\ Quiet)
    BY <1>5, UnseenFacts, PublishFacts, CopyFacts, RelayFindFacts, PublishIntentEndFacts
    DEF RelayPublished
<1>. QED
    BY <1>1, <1>2, <1>3, <1>4, <1>5, StepKinds DEF Copying

(* A subscriber id gets an object at most once, however often it subscribed *)
(* again, if no two namespaces share a key.                                 *)
THEOREM OneCopy == RelaySpec => OneCopyPerId
<1>1. RelayInv /\ [RelayNext]_allVars =>
        [DistinctKeys => \A m \in sent' :
            m.msg.type = "Publish" => m.id \notin fan.done]_allVars
    BY OneCopyStep
<1>. QED
    BY <1>1, SpecRelayInv, PTL DEF RelaySpec, OneCopyPerId

(* The last Subscribe was answered.                                         *)
LEMMA NextAnswered ==
    RelayInv /\ SubscribeAnswered /\ [RelayNext]_allVars => SubscribeAnswered'
<1> SUFFICES ASSUME RelayInv, SubscribeAnswered, [RelayNext]_allVars
             PROVE  SubscribeAnswered'
    OBVIOUS
<1>1. CASE UNCHANGED allVars
    BY <1>1 DEF SubscribeAnswered, allVars, vars
<1>2. CASE RelaySubscribe
  <2>1. PICK c \in Context, n \in Namespace, id \in Id :
          /\ calls' = {[cb |-> "onSubscribe", ns |-> n, id |-> id, ctx |-> c]}
          /\ UNCHANGED conn
          /\ sent' = IF id \in DOMAIN subscribe_id_state'
                     THEN {[to |-> subscribe_id_state'[id], id |-> id,
                            msg |-> [type |-> "SubscribeResponse", ns |-> n]]}
                     ELSE {}
          /\ Live(id)' => subscribe_id_state'[id] = c
          /\ \/ /\ id = subscriber_id
                /\ subscribe_id_state' = Put(subscribe_id_state, id, c)
             \/ /\ UNCHANGED subscribe_id_state
                /\ Has(subscribe_state, NameOf[n], c)
                /\ subscribe_state[NameOf[n]].subs[c] = id
    BY <1>2, SubscribeSends
  <2>2. ASSUME ~ContextReuse, conn[c] = "up"
        PROVE  id \in DOMAIN subscribe_id_state' /\ subscribe_id_state'[id] = c
    <3>1. CASE subscribe_id_state' = Put(subscribe_id_state, id, c)
      BY <3>1 DEF Put
    <3>2. CASE /\ UNCHANGED subscribe_id_state
               /\ Has(subscribe_state, NameOf[n], c)
               /\ subscribe_state[NameOf[n]].subs[c] = id
      BY <2>1, <2>2, <3>2, ReachableIff DEF RelayInv, IInv, Reachable, Live, LiveIn
    <3>. QED
      BY <2>1, <3>1, <3>2
  <2>3. \A call \in calls' : call.ctx = c
    BY <2>1
  <2> DEFINE answer == [to |-> c, id |-> id, msg |-> [type |-> "SubscribeResponse", ns |-> n]]
  <2>4. answer.to = c /\ answer.msg.type = "SubscribeResponse"
    OBVIOUS
  <2>5. ~ContextReuse /\ conn[c] = "up" => answer \in sent'
    BY <2>1, <2>2
  <2> HIDE DEF answer
  <2>. QED
    BY <2>1, <2>3, <2>4, <2>5 DEF SubscribeAnswered
<1>3. CASE RelayNext /\ ~RelaySubscribe
  <2>1. \A call \in calls' : call.cb # "onSubscribe"
    <3>1. CASE Unseen \/ Copying
      BY <3>1, UnseenFacts, CopyingKeeps
    <3>2. CASE RelayUnsubscribe \/ \E c \in Context : RelayDisconnect(c)
      BY <3>2, LeaveFacts DEF LeavingOf
    <3>3. CASE RelayPublish
      BY <3>3, PublishFacts
    <3>4. CASE RelayPublishIntent
      BY <3>4, PublishIntentFacts
    <3>5. CASE handle_publish_intent_end /\ Quiet
      BY <3>5, PublishIntentEndFacts
    <3>. QED
      BY <1>3, <3>1, <3>2, <3>3, <3>4, <3>5, StepKinds
  <2>. QED
    BY <2>1 DEF SubscribeAnswered
<1>. QED
    BY <1>1, <1>2, <1>3

(* A connection that is up gets its SubscribeResponse, if connection ids    *)
(* are not reused: an entry left behind never swallows the answer.          *)
THEOREM Answered == RelaySpec => []SubscribeAnswered
<1>1. RelayInit => SubscribeAnswered
    BY DEF RelayInit, Init, SubscribeAnswered
<1>. QED
    BY <1>1, NextAnswered, SpecRelayInv, PTL DEF RelaySpec

----------------------------------------------------------------------------
(* The refinement.  The variables of Broker, as ReallyServer!Peers maps     *)
(* them.                                                                    *)

CopyTo(s, nm) == [to |-> s.ctx, id |-> s.id, msg |-> Copy(nm, s.ns)]

MembersBar == {s \in told : Live(s.id)}
UsedBar == {s.id : s \in told}
AnnouncedBar == {publish_namespaces[k].ns : k \in DOMAIN publish_namespaces}
SourceBar == IF fan = None THEN {} ELSE fan.source
PendingBar == {CopyTo(s, fan.name) : s \in {t \in told : Due(t)}}
OutBar == {m \in sent : "id" \in DOMAIN m /\ m.to # None}

(* The send x is the copy for subscription s.                               *)
For(x, s) == x.id = s.id /\ x.msg = Copy(fan.name, s.ns)

(* Nothing is due between two objects ...                                   *)
LEMMA NothingDue ==
    ASSUME fan = None
    PROVE  PendingBar = {} /\ SourceBar = {}
BY DEF PendingBar, SourceBar, Due

(* ... what is on the list is due between two copies ...                    *)
LEMMA DueBetween ==
    ASSUME fan # None, sending = {}, NEW s
    PROVE  Due(s) <=> Live(s.id) /\ Item(s) \in fan.todo
BY DEF Due, Item

(* ... and so is the copy that is being sent, while the id stands for a      *)
(* connection or the send has a reference to one.                            *)
LEMMA DueWithin ==
    ASSUME fan # None, NEW x, sending = {x}, NEW s
    PROVE  Due(s) <=> \/ Live(s.id) /\ (For(x, s) \/ Item(s) \in fan.todo)
                      \/ For(x, s) /\ x.ref # None
<1> DEFINE begun == {y \in sending : y.id = s.id /\ y.msg = Copy(fan.name, s.ns)}
<1>1. \A y : y \in begun <=> y = x /\ For(x, s)
    BY DEF For
<1>2. Due(s) <=> \/ Live(s.id) /\ (begun # {} \/ Item(s) \in fan.todo)
                 \/ \E y \in begun : y.ref # None
    BY DEF Due, Item
<1> HIDE DEF begun
<1>. QED
    BY <1>1, <1>2

(* The relay starts as a broker does.                                       *)
LEMMA InitPeers == RelayInit => Peers!Init
<1> SUFFICES ASSUME RelayInit PROVE Peers!Init
    OBVIOUS
<1>1. fan = None /\ told = {} /\ sent = {} /\ DOMAIN publish_namespaces = {}
    BY DEF RelayInit, Init, EmptyMap
<1>. QED
    BY <1>1 DEF Peers!Init

(* A step that the peers do not see.                                        *)
LEMMA SilentPeers ==
    ASSUME UNCHANGED <<MembersBar, UsedBar, AnnouncedBar, SourceBar, PendingBar>>, OutBar' = {}
    PROVE  Peers!Next
<1>1. Peers!Silent
    BY DEF Peers!Silent, MembersBar, UsedBar, AnnouncedBar, SourceBar, PendingBar, OutBar, CopyTo
<1>. QED
    BY <1>1 DEF Peers!Next

(* A Subscribe is a Join, or, when the id it finds is over, nothing.        *)
LEMMA SubscribePeers ==
    ASSUME RelayInv, RelaySubscribe
    PROVE  Peers!Next
<1>1. PICK c \in Context, n \in Namespace, id \in Id :
        /\ told' = told \cup {[ns |-> n, id |-> id, ctx |-> c]}
        /\ UNCHANGED <<publish_namespaces, fan>>
        /\ fan = None
        /\ sent' = IF id \in DOMAIN subscribe_id_state'
                   THEN {[to |-> subscribe_id_state'[id], id |-> id,
                          msg |-> [type |-> "SubscribeResponse", ns |-> n]]}
                   ELSE {}
        /\ Live(id)' => subscribe_id_state'[id] = c
        /\ \/ /\ id = subscriber_id
              /\ subscribe_id_state' = Put(subscribe_id_state, id, c)
           \/ /\ UNCHANGED subscribe_id_state
              /\ Has(subscribe_state, NameOf[n], c)
              /\ subscribe_state[NameOf[n]].subs[c] = id
    BY SubscribeSends
<1> DEFINE new == [ns |-> n, id |-> id, ctx |-> c]
           answer == [to |-> c, id |-> id, msg |-> [type |-> "SubscribeResponse", ns |-> n]]
<1>2. new.id = id /\ new.ctx = c /\ new.ns = n /\ told' = told \cup {new}
    BY <1>1
<1>3. "id" \in DOMAIN answer /\ answer.to = c
    OBVIOUS
<1>4. Live(id)' => sent' = {answer}
    BY <1>1 DEF Live
<1>5. ~Live(id)' => \A m \in sent' : m.to = None
    BY <1>1 DEF Live
<1> HIDE DEF new, answer
<1>6. UsedBar' = UsedBar \cup {id} /\ AnnouncedBar' = AnnouncedBar
    BY <1>1, <1>2 DEF UsedBar, AnnouncedBar
<1>7. \A s \in told : s.id # subscriber_id
  <2>1. \A s \in told : s.id \in Nat /\ s.id < subscriber_id
    BY BoundAssumption DEF RelayInv, IInv, TypeOK, IdsAreOld, Id
  <2>. QED
    BY <2>1
<1>8. /\ PendingBar' = {} /\ PendingBar = {}
      /\ SourceBar' = SourceBar
  <2>1. PendingBar = {}
    BY <1>1, NothingDue
  <2>2. fan' = None
    BY <1>1
  <2>3. PendingBar' = {}
    BY <2>2 DEF PendingBar, Due
  <2>4. SourceBar' = SourceBar
    BY <1>1 DEF SourceBar
  <2>. QED
    BY <2>1, <2>3, <2>4
<1>9. CASE Live(id)'
  <2>1. OutBar' = {answer}
    BY <1>3, <1>4, <1>9, NoneAssumption DEF OutBar
  <2>2. /\ MembersBar' = MembersBar \cup {new}
        /\ \/ id \notin UsedBar
           \/ \E other \in MembersBar : other.id = id /\ other.ctx = c
    <3>1. CASE /\ id = subscriber_id
               /\ subscribe_id_state' = Put(subscribe_id_state, id, c)
      <4>1. /\ DOMAIN subscribe_id_state' = DOMAIN subscribe_id_state \cup {id}
            /\ \A i \in DOMAIN subscribe_id_state \ {id} :
                  subscribe_id_state'[i] = subscribe_id_state[i]
        BY <3>1 DEF Put
      <4>2. \A s \in told : Live(s.id)' <=> Live(s.id)
        BY <1>7, <3>1, <4>1 DEF Live
      <4>. QED
        BY <1>2, <1>7, <1>9, <3>1, <4>2 DEF MembersBar, UsedBar
    <3>2. CASE /\ UNCHANGED subscribe_id_state
               /\ Has(subscribe_state, NameOf[n], c)
               /\ subscribe_state[NameOf[n]].subs[c] = id
      <4>1. \E s \in told : s.id = id /\ s.ctx = c
        BY <3>2 DEF RelayInv, EntriesWereTold
      <4>2. \A i : Live(i)' <=> Live(i)
        BY <3>2 DEF Live
      <4>. QED
        BY <1>2, <1>9, <3>2, <4>1, <4>2 DEF MembersBar
    <3>. QED
      BY <1>1, <3>1, <3>2
  <2>3. new = [id |-> id, ctx |-> c, ns |-> n]
    BY DEF new
  <2>4. Peers!Join([id |-> id, ctx |-> c, ns |-> n])
    BY <1>6, <1>8, <2>1, <2>2, <2>3
    DEF Peers!Join, Peers!Send, MembersBar, UsedBar, AnnouncedBar, SourceBar, PendingBar,
        CopyTo, OutBar,
        answer
  <2>. QED
    BY <2>4 DEF Peers!Next
<1>10. CASE ~Live(id)'
  <2>1. OutBar' = {}
    BY <1>5, <1>10 DEF OutBar
  <2>2. subscribe_id_state' = Put(subscribe_id_state, id, c) => Live(id)'
    BY NoneAssumption DEF Put, Live
  <2>3. /\ UNCHANGED subscribe_id_state
        /\ \E s \in told : s.id = id
    BY <1>1, <1>10, <2>2 DEF RelayInv, EntriesWereTold
  <2>4. \A i : Live(i)' <=> Live(i)
    BY <2>3 DEF Live
  <2>5. UsedBar' = UsedBar /\ MembersBar' = MembersBar
    BY <1>2, <1>6, <1>10, <2>3, <2>4 DEF UsedBar, MembersBar
  <2>. QED
    BY <1>6, <1>8, <2>1, <2>5, SilentPeers
<1>. QED
    BY <1>9, <1>10

(* An Unsubscribe and a disconnect are a Leave of one connection.           *)
LEMMA LeavePeers ==
    ASSUME RelayInv, NEW c \in Context, LeavingOf(c, calls'), onUnsubscribe(calls')
    PROVE  Peers!Next
<1> DEFINE known == {v \in calls' : v.id \in DOMAIN subscribe_id_state}
           live == {v \in calls' : Live(v.id)}
           end(u) == [to |-> subscribe_id_state[u.id], id |-> u.id,
                      msg |-> [type |-> "SubscribeEnd", ns |-> u.ns]]
<1>1. /\ sent' = {end(u) : u \in known}
      /\ fan' = fan
      /\ \A u \in live : subscribe_id_state[u.id] = c
    BY EndFacts
<1>2. /\ \A u \in live : u.ns \in Namespace
      /\ \A u, v \in live : u.id = v.id => u = v
      /\ UNCHANGED <<publish_namespaces, sending, told>>
    BY DEF LeavingOf
<1>3. \A u \in live : u.id \in Id
    BY IdsToConnections DEF RelayInv, Live
<1>4. PICK ids \in SUBSET Id : ids = {u.id : u \in live}
    BY <1>3
<1>5. PICK ns \in [ids -> Namespace] : \A u \in live : ns[u.id] = u.ns
  <2> DEFINE of(i) == CHOOSE u \in live : u.id = i
             ns == [i \in ids |-> of(i).ns]
  <2>1. \A i \in ids : of(i) \in live /\ of(i).id = i
    BY <1>4
  <2>2. \A u \in live : u.id \in ids /\ of(u.id) = u
    BY <1>2, <1>4, <2>1
  <2> HIDE DEF of, live
  <2>3. ns \in [ids -> Namespace]
    BY <1>2, <2>1
  <2>4. \A u \in live : ns[u.id] = u.ns
    BY <2>2
  <2>. QED
    BY <2>3, <2>4
<1>6. ids \subseteq {m.id : m \in {x \in MembersBar : x.ctx = c}}
  <2> SUFFICES ASSUME NEW u \in live
               PROVE  \E s \in told : s.id = u.id /\ s.ctx = c
    BY <1>4 DEF MembersBar
  <2>. QED
    BY DEF LeavingOf, RelayInv, EntriesWereTold
<1>7. \A i : Live(i)' <=> Live(i) /\ i \notin ids
  <2>1. /\ DOMAIN subscribe_id_state' = DOMAIN subscribe_id_state \ {u.id : u \in calls'}
        /\ \A i \in DOMAIN subscribe_id_state' : subscribe_id_state'[i] = subscribe_id_state[i]
    BY DEF LeavingOf, EraseKeys, Restrict
  <2>2. \A i : Live(i) => (i \in ids <=> i \in {u.id : u \in calls'})
    BY <1>4
  <2>3. \A i : Live(i)' <=> Live(i) /\ i \notin {u.id : u \in calls'}
    BY <2>1 DEF Live
  <2>. QED
    BY <2>2, <2>3
<1>8. MembersBar' = {m \in MembersBar : m.id \notin ids}
    BY <1>2, <1>7 DEF MembersBar
<1>9. UNCHANGED <<UsedBar, AnnouncedBar, SourceBar>>
    BY <1>1, <1>2 DEF UsedBar, AnnouncedBar, SourceBar
<1>10. {p \in PendingBar : p.id \notin ids} \subseteq PendingBar' /\ PendingBar' \subseteq PendingBar
  <2>1. \A s \in told : Due(s)' => Due(s)
    BY <1>1, <1>2, <1>7 DEF Due
  <2>2. \A s \in told : Due(s) /\ s.id \notin ids => Due(s)'
    BY <1>1, <1>2, <1>7 DEF Due
  <2>3. \A s : CopyTo(s, fan.name).id = s.id
    BY DEF CopyTo
  <2>4. fan'.name = fan.name
    BY <1>1
  <2>5. ASSUME NEW p \in PendingBar' PROVE p \in PendingBar
    <3>1. PICK s \in told : Due(s)' /\ p = CopyTo(s, fan.name)
      BY <1>2, <2>4 DEF PendingBar
    <3>. QED
      BY <2>1, <3>1 DEF PendingBar
  <2>6. ASSUME NEW p \in PendingBar, p.id \notin ids PROVE p \in PendingBar'
    <3>1. PICK s \in told : Due(s) /\ p = CopyTo(s, fan.name)
      BY DEF PendingBar
    <3>2. Due(s)'
      BY <2>2, <2>3, <2>6, <3>1
    <3>. QED
      BY <1>2, <2>4, <3>1, <3>2 DEF PendingBar
  <2>. QED
    BY <2>5, <2>6
<1> DEFINE leave(i) == [to |-> c, id |-> i, msg |-> [type |-> "SubscribeEnd", ns |-> ns[i]]]
<1>11. OutBar' = {leave(i) : i \in ids}
  <2>1. \A u \in live : end(u) = leave(u.id)
    BY <1>1, <1>5
  <2>2. \A i : "id" \in DOMAIN leave(i) /\ leave(i).to = c /\ c # None
    BY NoneAssumption
  <2>3. \A u \in known : u \notin live => end(u).to = None
    BY DEF Live
  <2>4. live \subseteq known
    BY DEF Live
  <2> HIDE DEF end, leave, live, known
  <2>5. ASSUME NEW m \in OutBar' PROVE \E i \in ids : m = leave(i)
    <3>1. PICK u \in known : m = end(u)
      BY <1>1 DEF OutBar
    <3>2. u \in live
      BY <2>3, <3>1 DEF OutBar
    <3>. QED
      BY <1>4, <2>1, <3>1, <3>2
  <2>6. ASSUME NEW i \in ids PROVE leave(i) \in OutBar'
    <3>1. PICK u \in live : i = u.id
      BY <1>4
    <3>2. leave(i) \in sent'
      BY <1>1, <2>1, <2>4, <3>1
    <3>. QED
      BY <2>2, <3>2 DEF OutBar
  <2>. QED
    BY <2>5, <2>6
<1>12. \A i : Peers!Send([ctx |-> c, id |-> i], "SubscribeEnd", ns[i]) = leave(i)
    BY DEF Peers!Send
<1> HIDE DEF leave
<1>13. OutBar' = {Peers!Send([ctx |-> c, id |-> i], "SubscribeEnd", ns[i]) : i \in ids}
    BY <1>11, <1>12
<1>14. \E n \in [ids -> Namespace] :
         OutBar' = {Peers!Send([ctx |-> c, id |-> i], "SubscribeEnd", n[i]) : i \in ids}
    BY <1>13
<1>15. Peers!Leave(c, ids)
    BY <1>6, <1>8, <1>9, <1>10, <1>14, Zenon
    DEF Peers!Leave, MembersBar, UsedBar, AnnouncedBar, SourceBar, PendingBar,
        CopyTo, OutBar
<1>. QED
    BY <1>15 DEF Peers!Next

(* An accepted object makes a copy due for each member that covers it, any  *)
(* other is not seen.                                                       *)
LEMMA PublishPeers ==
    ASSUME RelayInv, RelayPublish
    PROVE  Peers!Next
<1>1. /\ UNCHANGED <<subscribe_id_state, publish_namespaces, told>>
      /\ fan = None /\ sending' = {} /\ sent' = {}
    BY PublishFacts DEF subVars
<1>2. \A i : Live(i)' <=> Live(i)
    BY <1>1 DEF Live
<1>3. /\ UNCHANGED <<MembersBar, UsedBar, AnnouncedBar>> /\ OutBar' = {} /\ PendingBar = {}
      /\ SourceBar = {}
    BY <1>1, <1>2, NothingDue DEF MembersBar, UsedBar, AnnouncedBar, OutBar
<1>4. CASE fan' = None
  <2>1. PendingBar' = {} /\ SourceBar' = {}
    BY <1>4 DEF PendingBar, SourceBar, Due
  <2>. QED
    BY <1>3, <2>1, SilentPeers
<1>5. ASSUME NEW nm \in Name, Accepting(nm), fan' \in Fan, fan'.name = nm,
             NEW c \in Context, NEW d \in Context, fan'.source = {c, d},
             fan'.todo = {Item(s) : s \in {t \in told : nm \in Covers[t.ns]}}
      PROVE  Peers!Next
  <2>1. \E n \in AnnouncedBar : nm \in Covers[n]
    BY <1>5 DEF Accepting, AnnouncedBar
  <2>2. fan' # None
    BY <1>5, FanAssumption
  <2>3. \A s : Due(s)' <=> Live(s.id)' /\ Item(s) \in fan'.todo
    BY <1>1, <2>2 DEF Due, Item
  <2>4. ASSUME NEW s \in told PROVE Item(s) \in fan'.todo <=> nm \in Covers[s.ns]
    BY <1>5, ItemFacts
  <2>5. \A s \in told : Due(s)' <=> Live(s.id) /\ nm \in Covers[s.ns]
    BY <1>2, <2>3, <2>4
  <2>6. PendingBar' = {CopyTo(s, nm) : s \in {t \in told : Due(t)'}}
    BY <1>1, <1>5 DEF PendingBar
  <2>7. {t \in told : Due(t)'} = {x \in MembersBar : nm \in Covers[x.ns]}
    BY <2>5 DEF MembersBar
  <2>8. PendingBar' = {CopyTo(s, nm) : s \in {x \in MembersBar : nm \in Covers[x.ns]}}
    BY <2>6, <2>7
  <2>9. \A s : Peers!CopyFor(s, nm) = CopyTo(s, nm)
    BY DEF Peers!CopyFor, CopyTo, Copy
  <2>10. SourceBar' = {c, d}
    BY <1>5, <2>2 DEF SourceBar
  <2> DEFINE covering == {m \in MembersBar : nm \in Covers[m.ns]}
  <2>11. /\ {Peers!CopyFor(m, nm) : m \in {x \in covering : x.ctx \notin SourceBar'}}
               \subseteq PendingBar'
         /\ PendingBar' \subseteq {Peers!CopyFor(m, nm) : m \in covering}
    BY <2>8, <2>9
  <2>12. Peers!Accept(nm, c, d)
    BY <1>3, <2>1, <2>10, <2>11, Zenon
    DEF Peers!Accept, MembersBar, UsedBar, AnnouncedBar, SourceBar, PendingBar,
        CopyTo, OutBar
  <2>. QED
    BY <2>12 DEF Peers!Next
<1>. QED
    BY <1>4, <1>5, PublishFacts

(* The copies are of one object.                                            *)
LEMMA SameSource ==
    ASSUME RelayInv, RelayEnqueue \/ \E f : RelayCopy(f)
    PROVE  fan'.source = fan.source
<1>1. CASE RelayEnqueue
  <2>1. fan # None
    BY <1>1, RelayEnqueueFacts
  <2>2. fan \in Fan /\ \E i : fan' = [fan EXCEPT !.done = @ \cup {i}]
    BY <1>1, <2>1 DEF RelayEnqueue, RelayInv, FanInv
  <2>. QED
    BY <2>2 DEF Fan
<1>2. CASE \E f : RelayCopy(f)
  <2>1. fan \in Fan /\ \E f : fan' = [fan EXCEPT !.todo = @ \ {f}]
    BY <1>2 DEF RelayCopy, RelayInv, FanInv
  <2>. QED
    BY <2>1 DEF Fan
<1>. QED
    BY <1>1, <1>2

(* The first lookup of a copy takes the subscription off the list and puts  *)
(* it under way.                                                            *)
LEMMA CopyPeers ==
    ASSUME RelayInv, NEW f, RelayCopy(f)
    PROVE  Peers!Next
<1>1. /\ fan # None /\ fan' # None /\ fan'.name = fan.name /\ fan'.todo = fan.todo \ {f}
      /\ f \in fan.todo /\ sending = {} /\ sent' = {}
      /\ UNCHANGED <<subscribe_id_state, publish_namespaces, told>>
    BY CopyFacts
<1>2. PICK s \in told :
        /\ fan.name \in Covers[s.ns] /\ f = Item(s)
        /\ \/ s.id \notin DOMAIN subscribe_id_state /\ sending' = {}
           \/ /\ s.id \in DOMAIN subscribe_id_state
              /\ \E x : /\ sending' = {x}
                        /\ x.id = s.id /\ x.msg = Copy(fan.name, s.ns)
                        /\ x.bound = FALSE /\ x.ref = None
    BY CopyFacts
<1>3. \A i : Live(i)' <=> Live(i)
    BY <1>1 DEF Live
<1>4. ASSUME NEW t \in told PROVE Due(t)' <=> Due(t)
  <2>1. Due(t) <=> Live(t.id) /\ Item(t) \in fan.todo
    BY <1>1, DueBetween
  <2>2. CASE sending' = {} /\ s.id \notin DOMAIN subscribe_id_state
    <3>1. Due(t)' <=> Live(t.id)' /\ Item(t) \in fan'.todo
      BY <1>1, <2>2 DEF Due, Item
    <3>2. Item(t) = f => ~Live(t.id)
      BY <1>2, <2>2, ItemFacts DEF Live
    <3>. QED
      BY <1>1, <1>3, <2>1, <3>1, <3>2
  <2>3. ASSUME NEW x, sending' = {x}, x.id = s.id, x.msg = Copy(fan.name, s.ns), x.ref = None
        PROVE  Due(t)' <=> Due(t)
    <3> DEFINE begun == {y \in sending' : y.id = t.id /\ y.msg = Copy(fan'.name, t.ns)}
    <3>1. Due(t)' <=> \/ Live(t.id)' /\ (begun # {} \/ Item(t) \in fan'.todo)
                      \/ \E y \in begun : y.ref # None
      BY <1>1 DEF Due, Item
    <3>2. \A y : y \in begun <=> y = x /\ Item(t) = f
      BY <1>1, <1>2, <2>3, ItemFacts
    <3> HIDE DEF begun
    <3>. QED
      BY <1>1, <1>3, <2>1, <2>3, <3>1, <3>2
  <2>. QED
    BY <1>2, <2>2, <2>3
<1>5. PendingBar' = PendingBar
    BY <1>1, <1>4 DEF PendingBar
<1>6. UNCHANGED <<MembersBar, UsedBar, AnnouncedBar, SourceBar>> /\ OutBar' = {}
    BY <1>1, <1>3, SameSource DEF MembersBar, UsedBar, AnnouncedBar, SourceBar, OutBar
<1>. QED
    BY <1>5, <1>6, SilentPeers

(* The second lookup finds a connection exactly if the copy was due.        *)
LEMMA FindPeers ==
    ASSUME RelayInv, RelayFind
    PROVE  Peers!Next
<1>1. /\ fan # None /\ sent' = {}
      /\ \A i : Live(i)' <=> Live(i)
      /\ UNCHANGED <<publish_namespaces, told, fan>>
    BY RelayFindFacts
<1>2. PICK x \in sending : \E q :
        /\ sending = {x} /\ sending' = {q}
        /\ x.ref = None
        /\ q.id = x.id /\ q.msg = x.msg
        /\ q.ref = subscribe_id_state'[x.id]
        /\ x.id \in DOMAIN subscribe_id_state'
    BY RelayFindFacts
<1>3. PICK q :
        /\ sending = {x} /\ sending' = {q}
        /\ x.ref = None
        /\ q.id = x.id /\ q.msg = x.msg
        /\ q.ref = subscribe_id_state'[x.id]
        /\ x.id \in DOMAIN subscribe_id_state'
    BY <1>2
<1>4. q.ref # None => Live(x.id)
    BY <1>1, <1>3 DEF Live
<1>5. ASSUME NEW t \in told PROVE Due(t)' <=> Due(t)
  <2>1. Due(t) <=> Live(t.id) /\ (For(x, t) \/ Item(t) \in fan.todo)
    BY <1>1, <1>3, DueWithin
  <2> DEFINE begun == {y \in sending' : y.id = t.id /\ y.msg = Copy(fan'.name, t.ns)}
  <2>2. Due(t)' <=> \/ Live(t.id)' /\ (begun # {} \/ Item(t) \in fan'.todo)
                    \/ \E y \in begun : y.ref # None
    BY <1>1 DEF Due, Item
  <2>3. \A y : y \in begun <=> y = q /\ For(x, t)
    BY <1>1, <1>3 DEF For
  <2>4. For(x, t) /\ q.ref # None => Live(t.id)
    BY <1>4 DEF For
  <2> HIDE DEF begun
  <2>. QED
    BY <1>1, <2>1, <2>2, <2>3, <2>4
<1>6. PendingBar' = PendingBar
    BY <1>1, <1>5 DEF PendingBar
<1>7. UNCHANGED <<MembersBar, UsedBar, AnnouncedBar, SourceBar>> /\ OutBar' = {}
    BY <1>1 DEF MembersBar, UsedBar, AnnouncedBar, SourceBar, OutBar
<1>. QED
    BY <1>6, <1>7, SilentPeers

(* A copy that is due may be forwarded.                                     *)
LEMMA ForwardPeers ==
    ASSUME NEW q \in PendingBar, Peers!Forward(q)
    PROVE  Peers!Next
<1>1. PendingBar = {[to |-> s.ctx, id |-> s.id, msg |-> Copy(fan.name, s.ns)] :
                      s \in {t \in told : Due(t)}}
    BY DEF PendingBar, CopyTo
<1>2. \E p \in {[to |-> s.ctx, id |-> s.id, msg |-> Copy(fan.name, s.ns)] :
                  s \in {t \in told : Due(t)}} : Peers!Forward(p)
    BY <1>1, Zenon
<1>. QED
    BY <1>2, Zenon DEF Peers!Next

(* A copy is forwarded; one whose subscription was over when its id was     *)
(* looked up again goes to nobody, or is a stray.                           *)
LEMMA EnqueuePeers ==
    ASSUME RelayInv, RelayEnqueue
    PROVE  Peers!Next
<1>1. /\ fan \in Fan /\ fan # None /\ fan' # None /\ fan'.name = fan.name
      /\ fan'.todo = fan.todo /\ sending' = {}
      /\ UNCHANGED <<subscribe_id_state, publish_namespaces, told>>
    BY RelayEnqueueFacts
<1>2. PICK x \in sending : \E d \in Addressees(x) :
        /\ sending = {x} /\ x.bound
        /\ d \in Context \cup {None}
        /\ sent' = {[to |-> d, id |-> x.id, msg |-> x.msg]}
    BY RelayEnqueueFacts
<1>3. PICK d \in Addressees(x) :
        /\ sending = {x} /\ x.bound
        /\ d \in Context \cup {None}
        /\ sent' = {[to |-> d, id |-> x.id, msg |-> x.msg]}
    BY <1>2
<1>4. PICK s \in told : /\ fan.name \in Covers[s.ns]
                        /\ x.id = s.id /\ x.msg = Copy(fan.name, s.ns)
                        /\ Item(s) \notin fan.todo
    BY <1>1 DEF RelayInv, FanInv, CopiesKept
<1>5. s.ns \in Namespace /\ s.id \in Id /\ fan.name \in Name
    BY <1>1 DEF RelayInv, IInv, TypeOK, Fan
<1>p. PICK p : p = CopyTo(s, fan.name)
    OBVIOUS
<1> DEFINE m == [to |-> d, id |-> x.id, msg |-> x.msg]
<1>6. \A i : Live(i)' <=> Live(i)
    BY <1>1 DEF Live
<1>7. UNCHANGED <<MembersBar, UsedBar, AnnouncedBar, SourceBar>>
    BY <1>1, <1>6, SameSource DEF MembersBar, UsedBar, AnnouncedBar, SourceBar
<1>8. OutBar' = IF d = None THEN {} ELSE {m}
  <2>1. "id" \in DOMAIN m /\ m.to = d /\ sent' = {m}
    BY <1>3
  <2> HIDE DEF m
  <2>. QED
    BY <2>1 DEF OutBar
<1>9. \A t \in told : For(x, t) => CopyTo(t, fan.name) = p
  <2>1. ASSUME NEW t \in told, For(x, t)
        PROVE  t.id = s.id /\ t.ns = s.ns /\ t.ctx = s.ctx
    <3>1. t.id = s.id /\ Copy(fan.name, t.ns) = Copy(fan.name, s.ns)
      BY <1>4, <2>1 DEF For
    <3>2. t.ns = s.ns
      BY <3>1, ItemFacts
    <3>3. t.ctx = s.ctx
      BY <3>1 DEF RelayInv, OneKeyPerId
    <3>. QED
      BY <3>1, <3>2, <3>3
  <2>. QED
    BY <1>p, <2>1 DEF CopyTo
<1>10. \A t \in told : Due(t)' <=> Live(t.id) /\ Item(t) \in fan.todo
    BY <1>1, <1>6 DEF Due, Item
<1>11. \A t \in told :
          Due(t) <=> \/ Live(t.id) /\ (For(x, t) \/ Item(t) \in fan.todo)
                     \/ For(x, t) /\ x.ref # None
    BY <1>1, <1>3, DueWithin
<1>12. \A t \in told : Item(t) \in fan.todo => CopyTo(t, fan.name) # p
  <2>1. \A t : CopyTo(t, fan.name) = p => t.id = s.id /\ t.ns = s.ns
    <3>1. \A t : CopyTo(t, fan.name).id = t.id /\ CopyTo(t, fan.name).msg = Copy(fan.name, t.ns)
      BY DEF CopyTo
    <3>2. ASSUME NEW t, CopyTo(t, fan.name) = p PROVE t.id = s.id /\ t.ns = s.ns
      <4>1. t.id = s.id /\ Copy(fan.name, t.ns) = Copy(fan.name, s.ns)
        BY <1>p, <3>1, <3>2
      <4>. QED
        BY <4>1, ItemFacts
    <3>. QED
      BY <3>2
  <2>. QED
    BY <1>4, <2>1, ItemFacts
<1>13. For(x, s)
    BY <1>4 DEF For
<1>14. CASE Live(s.id) \/ x.ref # None
  <2>1. p \in PendingBar
    BY <1>p, <1>11, <1>13, <1>14 DEF PendingBar
  <2>2. PendingBar' = PendingBar \ {p}
    <3>1. ASSUME NEW q \in PendingBar' PROVE q \in PendingBar \ {p}
      <4>1. PICK t \in told : Due(t)' /\ q = CopyTo(t, fan.name)
        BY <1>1 DEF PendingBar
      <4>. QED
        BY <1>10, <1>11, <1>12, <4>1 DEF PendingBar
    <3>2. ASSUME NEW q \in PendingBar \ {p} PROVE q \in PendingBar'
      <4>1. PICK t \in told : Due(t) /\ q = CopyTo(t, fan.name)
        BY DEF PendingBar
      <4>2. Due(t)'
        BY <1>9, <1>10, <1>11, <4>1
      <4>. QED
        BY <1>1, <4>1, <4>2 DEF PendingBar
    <3>. QED
      BY <3>1, <3>2
  <2>3. p.id = s.id /\ p = [to |-> s.ctx, id |-> s.id, msg |-> Copy(fan.name, s.ns)]
    BY <1>p DEF CopyTo
  <2>4. CASE Live(s.id)
    <3>1. x.ref = subscribe_id_state[s.id] /\ subscribe_id_state[s.id] = s.ctx
      BY <1>3, <1>4, <2>4 DEF RelayInv, IInv, SendsAsTold, IdsAsTold
    <3>2. d = s.ctx
      BY <1>3, <1>4, <2>4, <3>1 DEF Addressees, Live
    <3>3. d # None
      BY <3>2, NoneAssumption DEF RelayInv, IInv, TypeOK
    <3>4. OutBar' = {p}
      BY <1>4, <1>8, <2>3, <3>2, <3>3
    <3>5. \E y \in MembersBar : y.id = p.id
      BY <2>3, <2>4 DEF MembersBar
    <3>6. Peers!Forward(p)
      BY <1>7, <2>1, <2>2, <3>4, <3>5
      DEF Peers!Forward, MembersBar, UsedBar, AnnouncedBar, SourceBar, PendingBar,
        CopyTo, OutBar
    <3>. QED
      BY <2>1, <3>6, ForwardPeers
  <2>5. CASE ~Live(s.id)
    <3>1. ~\E y \in MembersBar : y.id = p.id
      BY <2>3, <2>5 DEF MembersBar
    <3>2. m = [p EXCEPT !.to = d]
      BY <1>4, <2>3
    <3> HIDE DEF m
    <3>3. OutBar' = {} \/ \E e \in Context : OutBar' = {[p EXCEPT !.to = e]}
      BY <1>3, <1>8, <3>2
    <3>4. Peers!Forward(p)
      BY <1>7, <2>1, <2>2, <3>1, <3>3, Zenon
      DEF Peers!Forward, MembersBar, UsedBar, AnnouncedBar, SourceBar, PendingBar,
        CopyTo, OutBar
    <3>. QED
      BY <2>1, <3>4, ForwardPeers
  <2>. QED
    BY <2>4, <2>5
<1>15. CASE ~Live(s.id) /\ x.ref = None
  <2>1. \A t \in told : Due(t)' <=> Due(t)
    BY <1>4, <1>10, <1>11, <1>15 DEF For
  <2>2. PendingBar' = PendingBar
    BY <1>1, <2>1 DEF PendingBar
  <2>3. CASE d = None
    BY <1>7, <1>8, <2>2, <2>3, SilentPeers
  <2>4. CASE d # None
    <3>1. s.id \notin DOMAIN subscribe_id_state
      BY <1>3, <1>4, <1>15, <2>4 DEF Addressees, Live
    <3>2. ContextReuse
      BY <1>3, <1>4, <1>15, <3>1 DEF RelayInv, FanInv, GhostsStay
    <3>3. s.id \in UsedBar \ {y.id : y \in MembersBar}
      BY <1>15 DEF UsedBar, MembersBar
    <3>4. Peers!CopyFor([ctx |-> d, id |-> s.id, ns |-> s.ns], fan.name) = m
      BY <1>4 DEF Peers!CopyFor, Copy
    <3>5. OutBar' = {Peers!CopyFor([ctx |-> d, id |-> s.id, ns |-> s.ns], fan.name)}
      BY <1>8, <2>4, <3>4
    <3>6. Peers!Stray(s.id, fan.name, s.ns, d)
      BY <1>7, <2>2, <3>2, <3>3, <3>5, Zenon
      DEF Peers!Stray, MembersBar, UsedBar, AnnouncedBar, SourceBar, PendingBar,
        CopyTo, OutBar
    <3>. QED
      BY <1>3, <1>5, <2>4, <3>6 DEF Peers!Next
  <2>. QED
    BY <2>3, <2>4
<1>. QED
    BY <1>14, <1>15

(* At the end of the loop nothing is due.                                   *)
LEMMA PublishedPeers ==
    ASSUME RelayInv, RelayPublished
    PROVE  Peers!Next
<1>1. /\ fan # None /\ fan.todo = {} /\ sending = {} /\ fan' = None /\ sent' = {}
      /\ UNCHANGED <<subscribe_id_state, publish_namespaces, told>>
    BY DEF RelayPublished, FanoutOver, subVars, pubVars
<1>2. \A i : Live(i)' <=> Live(i)
    BY <1>1 DEF Live
<1>3. PendingBar = {} /\ PendingBar' = {} /\ SourceBar' = {}
  <2>1. \A s : ~Due(s)
    BY <1>1, DueBetween
  <2>2. \A s : ~Due(s)'
    BY <1>1 DEF Due
  <2>. QED
    BY <1>1, <2>1, <2>2 DEF PendingBar, SourceBar
<1>4. UNCHANGED <<MembersBar, UsedBar, AnnouncedBar>> /\ OutBar' = {}
    BY <1>1, <1>2 DEF MembersBar, UsedBar, AnnouncedBar, OutBar
<1>5. Peers!Done
    BY <1>3, <1>4
    DEF Peers!Done, MembersBar, UsedBar, AnnouncedBar, SourceBar, PendingBar,
        CopyTo, OutBar
<1>. QED
    BY <1>5 DEF Peers!Next

(* A step that leaves the tables and the fan-out alone.                     *)
LEMMA SameBars ==
    ASSUME UNCHANGED <<subscribe_id_state, sending, told, fan>>
    PROVE  UNCHANGED <<MembersBar, UsedBar, SourceBar, PendingBar>>
<1>1. \A i : Live(i)' <=> Live(i)
    BY DEF Live
<1>2. \A s : Due(s)' <=> Due(s)
    BY <1>1 DEF Due
<1>. QED
    BY <1>1, <1>2 DEF MembersBar, UsedBar, SourceBar, PendingBar

(* A PublishIntent announces, or is not seen when its key is taken.         *)
LEMMA IntentPeers ==
    ASSUME RelayInv, RelayPublishIntent
    PROVE  Peers!Next
<1>1. PICK n \in Namespace :
        /\ DOMAIN publish_namespaces' = DOMAIN publish_namespaces \cup {NameOf[n]}
        /\ \A k \in DOMAIN publish_namespaces :
              publish_namespaces'[k].ns = publish_namespaces[k].ns
        /\ NameOf[n] \notin DOMAIN publish_namespaces =>
              publish_namespaces'[NameOf[n]].ns = n
    BY PublishIntentFacts
<1>2. UNCHANGED <<MembersBar, UsedBar, SourceBar, PendingBar>>
  <2>1. UNCHANGED <<subscribe_id_state, sending, told, fan>>
    BY PublishIntentFacts DEF subVars
  <2>. QED
    BY <2>1, SameBars
<1>3. OutBar' = {}
    BY PublishIntentFacts DEF OutBar
<1>4. CASE NameOf[n] \in DOMAIN publish_namespaces
  <2>1. AnnouncedBar' = AnnouncedBar
    BY <1>1, <1>4 DEF AnnouncedBar
  <2>. QED
    BY <1>2, <1>3, <2>1, SilentPeers
<1>5. CASE NameOf[n] \notin DOMAIN publish_namespaces
  <2>1. AnnouncedBar' = AnnouncedBar \cup {n}
    BY <1>1, <1>5 DEF AnnouncedBar
  <2>2. Peers!Announce(n)
    BY <1>2, <1>3, <2>1
    DEF Peers!Announce, MembersBar, UsedBar, AnnouncedBar, SourceBar, PendingBar,
        CopyTo, OutBar
  <2>. QED
    BY <2>2 DEF Peers!Next
<1>. QED
    BY <1>4, <1>5

(* A PublishIntentEnd withdraws what is stored under the key.               *)
LEMMA IntentEndPeers ==
    ASSUME RelayInv, handle_publish_intent_end, Quiet
    PROVE  Peers!Next
<1>1. PICK n \in Namespace :
        /\ DOMAIN publish_namespaces' = DOMAIN publish_namespaces \ {NameOf[n]}
        /\ \A k \in DOMAIN publish_namespaces' :
              publish_namespaces'[k] = publish_namespaces[k]
    BY PublishIntentEndFacts
<1>2. UNCHANGED <<MembersBar, UsedBar, SourceBar, PendingBar>>
  <2>1. UNCHANGED <<subscribe_id_state, sending, told, fan>>
    BY PublishIntentEndFacts DEF subVars
  <2>. QED
    BY <2>1, SameBars
<1>3. OutBar' = {}
    BY PublishIntentEndFacts DEF OutBar
<1>4. AnnouncedBar' = {x \in AnnouncedBar : NameOf[x] # NameOf[n]}
    BY <1>1 DEF AnnouncedBar, RelayInv, KeyedByName
<1>5. Peers!Withdraw(n)
    BY <1>2, <1>3, <1>4
    DEF Peers!Withdraw, MembersBar, UsedBar, AnnouncedBar, SourceBar, PendingBar,
        CopyTo, OutBar
<1>. QED
    BY <1>5 DEF Peers!Next

(* Every step of the relay is a step of the broker, or one it does not see. *)
LEMMA StepPeers == RelayInv /\ [RelayNext]_allVars => [Peers!Next]_(Peers!vars)
<1> SUFFICES ASSUME RelayInv, [RelayNext]_allVars PROVE [Peers!Next]_(Peers!vars)
    OBVIOUS
<1>1. CASE Unseen
  <2>1. /\ UNCHANGED <<subscribe_id_state, publish_namespaces, sending, told, fan>>
        /\ sent' = {}
    BY <1>1, UnseenFacts
  <2>2. UNCHANGED <<MembersBar, UsedBar, AnnouncedBar, SourceBar, PendingBar>> /\ OutBar' = {}
    BY <2>1, SameBars DEF AnnouncedBar, OutBar
  <2>. QED
    BY <2>2, SilentPeers
<1>2. CASE RelaySubscribe
    BY <1>2, SubscribePeers
<1>3. CASE RelayUnsubscribe \/ \E c \in Context : RelayDisconnect(c)
    BY <1>3, LeaveFacts, LeavePeers
<1>4. CASE RelayPublish
    BY <1>4, PublishPeers
<1>5. CASE RelayPublishIntent
    BY <1>5, IntentPeers
<1>6. CASE handle_publish_intent_end /\ Quiet
    BY <1>6, IntentEndPeers
<1>7. CASE UNCHANGED allVars
  <2>1. UNCHANGED <<subscribe_id_state, publish_namespaces, sending, told, fan, sent>>
    BY <1>7 DEF allVars, vars, relayVars
  <2>2. UNCHANGED <<MembersBar, UsedBar, AnnouncedBar, SourceBar, PendingBar, OutBar>>
    BY <2>1, SameBars DEF AnnouncedBar, OutBar
  <2>. QED
    BY <2>2 DEF Peers!vars, MembersBar, UsedBar, AnnouncedBar, SourceBar, PendingBar,
        CopyTo, OutBar
<1>8. CASE Copying
    BY <1>8, CopyPeers, FindPeers, EnqueuePeers, PublishedPeers DEF Copying
<1>. QED
    BY <1>1, <1>2, <1>3, <1>4, <1>5, <1>6, <1>7, <1>8, StepKinds

(* The relay implements the broker, for any set of connections, namespaces  *)
(* and ids, colliding keys and reused connection ids included, although its *)
(* sends look each id up twice without the mutex.                           *)
THEOREM RelayImplementsBroker == RelaySpec => ImplementsBroker
BY InitPeers, StepPeers, SpecRelayInv, PTL DEF RelaySpec, ImplementsBroker, Peers!Spec
=============================================================================
