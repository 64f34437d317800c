------------------------- MODULE QuicRServerProofs -------------------------
(***************************************************************************)
(* Proofs about QuicRServer, for any set of connections, names and         *)
(* namespaces, colliding keys and reused connection ids included.          *)
(***************************************************************************)
EXTENDS QuicRServer, MapTheorems

----------------------------------------------------------------------------
(* Lemmas about subscribe_state: what each operation on it leaves.         *)

SubRec == [ns : Namespace, subs : PartialFn(Context, Id)]
SubMap == PartialFn(Name, SubRec)
Has(ss, k, c) == k \in DOMAIN ss /\ c \in DOMAIN ss[k].subs

(* What the type of subscribe_state says of one of its namespaces.          *)
LEMMA SubMapFacts ==
    ASSUME NEW ss \in SubMap, NEW k \in DOMAIN ss
    PROVE  /\ k \in Name
           /\ ss[k] \in SubRec
           /\ ss[k].ns \in Namespace
           /\ ss[k].subs \in PartialFn(Context, Id)
           /\ DOMAIN ss[k].subs \subseteq Context
           /\ \A c \in DOMAIN ss[k].subs : ss[k].subs[c] \in Id
<1>1. k \in Name /\ ss[k] \in SubRec
    BY PartialFnIff DEF SubMap
<1>2. ss[k].ns \in Namespace /\ ss[k].subs \in PartialFn(Context, Id)
    BY <1>1 DEF SubRec
<1>. QED
    BY <1>1, <1>2, PartialFnIff

(* operator[] on subscribe_state adds and changes no subscription.          *)
LEMMA TouchFacts ==
    ASSUME NEW ss \in SubMap, NEW n \in Namespace
    PROVE  /\ Touch(ss, n) \in SubMap
           /\ NameOf[n] \in DOMAIN Touch(ss, n)
           /\ \A k, c : Has(Touch(ss, n), k, c) <=> Has(ss, k, c)
           /\ \A k, c : Has(ss, k, c) => Touch(ss, n)[k].subs[c] = ss[k].subs[c]
<1>0. NameOf[n] \in Name
    BY NamespaceAssumption
<1>1. CASE NameOf[n] \in DOMAIN ss
    BY <1>1 DEF Touch
<1>2. CASE NameOf[n] \notin DOMAIN ss
  <2> DEFINE r == [ns |-> n, subs |-> EmptyMap]
  <2>1. r \in SubRec
    BY EmptyPartial DEF SubRec
  <2>2. Touch(ss, n) = Put(ss, NameOf[n], r)
    BY <1>2 DEF Touch
  <2>3. Touch(ss, n) \in SubMap
    BY <2>1, <2>2, <1>0, PutPartial DEF SubMap
  <2>4. DOMAIN r.subs = {}
    BY DEF EmptyMap
  <2> HIDE DEF r
  <2>5. /\ DOMAIN Touch(ss, n) = DOMAIN ss \cup {NameOf[n]}
        /\ Touch(ss, n)[NameOf[n]] = r
        /\ \A k \in DOMAIN ss : Touch(ss, n)[k] = ss[k]
    BY <2>2, <1>2 DEF Put
  <2>. QED
    BY <2>3, <2>4, <2>5, <1>2 DEF Has
<1>. QED
    BY <1>1, <1>2

(* The insertion of handle_subscribe adds one subscription, with the given id. *)
LEMMA AddSubFacts ==
    ASSUME NEW ss \in SubMap, NEW n \in Namespace, NEW d \in Context, NEW id \in Id
    PROVE  /\ AddSub(ss, n, d, id) \in SubMap
           /\ \A k, c : Has(AddSub(ss, n, d, id), k, c) <=>
                          Has(ss, k, c) \/ (k = NameOf[n] /\ c = d)
           /\ AddSub(ss, n, d, id)[NameOf[n]].subs[d] = id
           /\ \A k, c : Has(ss, k, c) /\ ~(k = NameOf[n] /\ c = d) =>
                          AddSub(ss, n, d, id)[k].subs[c] = ss[k].subs[c]
<1> DEFINE s == Touch(ss, n)
           m == NameOf[n]
           new == [s EXCEPT ![m].subs = Put(@, d, id)]
           rec == [s[m] EXCEPT !.subs = Put(@, d, id)]
<1>1. s \in SubMap /\ m \in DOMAIN s
    BY TouchFacts
<1>2. s[m] \in SubRec /\ s[m].subs \in PartialFn(Context, Id)
    BY <1>1, SubMapFacts
<1>3. Put(s[m].subs, d, id) \in PartialFn(Context, Id)
    BY <1>2, PutPartial
<1>4. rec \in SubRec /\ rec.subs = Put(s[m].subs, d, id)
    BY <1>2, <1>3 DEF SubRec
<1>5. AddSub(ss, n, d, id) = new
    BY DEF AddSub
<1>6. \A k \in DOMAIN s : s[k] \in SubRec
    BY <1>1, SubMapFacts
<1>7. s = [k \in DOMAIN s |-> s[k]]
    BY <1>1, PartialFnIff DEF SubMap
<1>8. /\ new = [k \in DOMAIN new |-> new[k]]
      /\ DOMAIN new = DOMAIN s
      /\ new[m] = rec
      /\ \A k \in DOMAIN s \ {m} : new[k] = s[k]
    BY <1>1, <1>7
<1>9. new \in SubMap
    BY <1>1, <1>4, <1>6, <1>8, PartialFnIff, SMT DEF SubMap
<1>10. /\ \A k, c : Has(s, k, c) <=> Has(ss, k, c)
       /\ \A k, c : Has(ss, k, c) => s[k].subs[c] = ss[k].subs[c]
    BY TouchFacts
<1>11. /\ DOMAIN rec.subs = DOMAIN s[m].subs \cup {d}
       /\ rec.subs[d] = id
       /\ \A c \in DOMAIN s[m].subs \ {d} : rec.subs[c] = s[m].subs[c]
    BY <1>4 DEF Put
<1> HIDE DEF s, m, new, rec
<1>12. \A k, c : Has(new, k, c) <=> Has(ss, k, c) \/ (k = m /\ c = d)
    BY <1>1, <1>8, <1>10, <1>11 DEF Has
<1>13. new[m].subs[d] = id
    BY <1>8, <1>11
<1>14. \A k, c : Has(ss, k, c) /\ ~(k = m /\ c = d) => new[k].subs[c] = ss[k].subs[c]
    BY <1>1, <1>8, <1>10, <1>11 DEF Has
<1>. QED
    BY <1>5, <1>9, <1>12, <1>13, <1>14 DEF m

(* What handle_unsubscribe leaves, with or without its whole-namespace erase. *)
LEMMA DropSubFacts ==
    ASSUME NEW ss \in SubMap, NEW n \in Namespace, NEW d \in Context
    PROVE  /\ DropSub(ss, n, d) \in SubMap
           /\ \A k, c : Has(DropSub(ss, n, d), k, c) =>
                /\ Has(ss, k, c)
                /\ ~(k = NameOf[n] /\ c = d)
                /\ DropSub(ss, n, d)[k].subs[c] = ss[k].subs[c]
<1> DEFINE s == Touch(ss, n)
           m == NameOf[n]
           rest == EraseKeys(s[m].subs, {d})
           new == [s EXCEPT ![m].subs = rest]
           rec == [s[m] EXCEPT !.subs = rest]
<1>1. s \in SubMap /\ m \in DOMAIN s
    BY TouchFacts
<1>2. s[m] \in SubRec /\ s[m].subs \in PartialFn(Context, Id)
    BY <1>1, SubMapFacts
<1>3. rest \in PartialFn(Context, Id)
    BY <1>2, ErasePartial
<1>4. /\ DOMAIN rest = DOMAIN s[m].subs \ {d}
      /\ \A c \in DOMAIN rest : rest[c] = s[m].subs[c]
    BY DEF EraseKeys, Restrict
<1>5. /\ \A k, c : Has(s, k, c) <=> Has(ss, k, c)
      /\ \A k, c : Has(ss, k, c) => s[k].subs[c] = ss[k].subs[c]
    BY TouchFacts
<1>6. CASE DOMAIN rest # {}
  <2>1. DropSub(ss, n, d) = EraseKeys(s, {m})
    BY <1>6 DEF DropSub
  <2>2. EraseKeys(s, {m}) \in SubMap
    BY <1>1, ErasePartial DEF SubMap
  <2>3. /\ DOMAIN EraseKeys(s, {m}) = DOMAIN s \ {m}
        /\ \A k \in DOMAIN s \ {m} : EraseKeys(s, {m})[k] = s[k]
    BY DEF EraseKeys, Restrict
  <2> HIDE DEF s, m
  <2>4. \A k, c : Has(EraseKeys(s, {m}), k, c) =>
            Has(s, k, c) /\ k # m /\ EraseKeys(s, {m})[k].subs[c] = s[k].subs[c]
    BY <2>3 DEF Has
  <2>. QED
    BY <2>1, <2>2, <2>4, <1>5 DEF m
<1>7. CASE DOMAIN rest = {}
  <2>1. DropSub(ss, n, d) = new
    BY <1>7 DEF DropSub
  <2>2. s = [k \in DOMAIN s |-> s[k]]
    BY <1>1, PartialFnIff DEF SubMap
  <2>3. /\ new = [k \in DOMAIN new |-> new[k]]
        /\ DOMAIN new = DOMAIN s
        /\ new[m] = rec
        /\ \A k \in DOMAIN s \ {m} : new[k] = s[k]
    BY <1>1, <2>2
  <2>4. rec \in SubRec /\ rec.subs = rest
    BY <1>2, <1>3 DEF SubRec
  <2>5. \A k \in DOMAIN s : s[k] \in SubRec
    BY <1>1, SubMapFacts
  <2>6. new \in SubMap
    BY <1>1, <2>3, <2>4, <2>5, PartialFnIff, SMT DEF SubMap
  <2> HIDE DEF s, m, rest, new, rec
  <2>7. \A k, c : Has(new, k, c) =>
            Has(s, k, c) /\ k # m /\ new[k].subs[c] = s[k].subs[c]
    BY <1>7, <2>3, <2>4 DEF Has
  <2>. QED
    BY <2>1, <2>6, <2>7, <1>5 DEF m
<1>. QED
    BY <1>6, <1>7

(* A disconnect leaves every entry of subscribe_state where it is.          *)
LEMMA AfterDisconnectFacts ==
    ASSUME NEW ss \in SubMap, NEW d
    PROVE  /\ AfterDisconnect(ss, d) \in SubMap
           /\ \A k, c : Has(AfterDisconnect(ss, d), k, c) <=> Has(ss, k, c)
           /\ \A k, c : Has(ss, k, c) =>
                          AfterDisconnect(ss, d)[k].subs[c] = ss[k].subs[c]
<1> DEFINE K == {k \in KeysOf(ss, d) : DOMAIN ss[k].subs = {}}
<1>1. AfterDisconnect(ss, d) = EraseKeys(ss, K)
    BY DEF AfterDisconnect
<1>2. K = {}
    BY DEF KeysOf
<1>3. EraseKeys(ss, K) \in SubMap
    BY ErasePartial DEF SubMap
<1>4. /\ DOMAIN EraseKeys(ss, K) = DOMAIN ss \ K
      /\ \A k \in DOMAIN ss \ K : EraseKeys(ss, K)[k] = ss[k]
    BY DEF EraseKeys, Restrict
<1> HIDE DEF K
<1>. QED
    BY <1>1, <1>2, <1>3, <1>4 DEF Has

----------------------------------------------------------------------------
(* The inductive invariant.                                                *)

(* No id in use, and none the delegate ever heard of, is still to be       *)
(* handed out.                                                             *)
IdsAreOld ==
    /\ \A id \in DOMAIN subscribe_id_state : id < subscriber_id
    /\ \A s \in told : s.id < subscriber_id

(* The receive thread: between its lookup and its lock an Unsubscribe keeps *)
(* the entry it found, and a Subscribe was only taken below the bound.      *)
ReceiveThread ==
    handling # None =>
        /\ handling.found =>
              /\ handling.msg.type = "Unsubscribe"
              /\ Has(subscribe_state, NameOf[handling.msg.ns], handling.ctx)
        /\ handling.msg.type = "Subscribe" => subscriber_id < MaxId
        /\ conn[handling.ctx] # "new"

(* A connection that never came up has no entry.                           *)
NewHasNoEntry ==
    \A k, c : Has(subscribe_state, k, c) => conn[c] # "new"

(* An id that stands for a connection stands for the one onSubscribe named, *)
(* and so does the reference that a send has taken to it.                   *)
IdsAsTold ==
    \A s \in told : Live(s.id) => subscribe_id_state[s.id] = s.ctx

SendsAsTold ==
    \A s \in sending :
        /\ s.id < subscriber_id
        /\ s.bound /\ Live(s.id) => s.ref = subscribe_id_state[s.id]

IInv ==
    /\ TypeOK
    /\ IdsIdentifySubscriptions
    /\ IdsAreOld
    /\ IdsAsTold
    /\ SendsAsTold
    /\ ReceiveThread
    /\ NewHasNoEntry
    /\ ReachableWhileUp

(* IdsIdentifySubscriptions and ReachableWhileUp, with the lookups named.  *)
LiveIn(ids, i) == i \in DOMAIN ids /\ ids[i] # None

Identified(ss, ids, next) ==
    /\ \A k, c : Has(ss, k, c) =>
         /\ ss[k].subs[c] < next
         /\ LiveIn(ids, ss[k].subs[c]) => ids[ss[k].subs[c]] = c
    /\ \A k, c, k2, c2 :
         Has(ss, k, c) /\ Has(ss, k2, c2) /\ ss[k2].subs[c2] = ss[k].subs[c]
           => k2 = k /\ c2 = c

Reachable(ss, ids, status) ==
    ~ContextReuse => \A k, c :
        Has(ss, k, c) /\ status[c] = "up" => LiveIn(ids, ss[k].subs[c])

(* The two forms of IdsIdentifySubscriptions agree ...                      *)
LEMMA IdentifiedIff ==
    IdsIdentifySubscriptions <=> Identified(subscribe_state, subscribe_id_state, subscriber_id)
BY Zenon DEF IdsIdentifySubscriptions, Identified, Has, Live, LiveIn

(* ... in the next state too.                                               *)
LEMMA IdentifiedIffPrime ==
    IdsIdentifySubscriptions' <=> Identified(subscribe_state', subscribe_id_state', subscriber_id')
BY Zenon DEF IdsIdentifySubscriptions, Identified, Has, Live, LiveIn

(* The two forms of ReachableWhileUp agree ...                              *)
LEMMA ReachableIff ==
    ReachableWhileUp <=> Reachable(subscribe_state, subscribe_id_state, conn)
BY Zenon DEF ReachableWhileUp, Reachable, Has, Live, LiveIn

(* ... in the next state too.                                               *)
LEMMA ReachableIffPrime ==
    ReachableWhileUp' <=> Reachable(subscribe_state', subscribe_id_state', conn')
BY Zenon DEF ReachableWhileUp, Reachable, Has, Live, LiveIn

(* TypeOK, with all maps as members of a PartialFn.                        *)
IntentRec ==
    [ns : Namespace, state : {"Unknown", "Pending", "Ready"}, ctx : Context \cup {None}]

(* From TypeOK to the map types.                                            *)
LEMMA TypeMaps ==
    ASSUME TypeOK
    PROVE  /\ subscribe_state \in SubMap
           /\ publish_namespaces \in PartialFn(Name, IntentRec)
BY PartialFnDomain DEF TypeOK, SubMap, SubRec, IntentRec

(* From the map types back to TypeOK: subscribe_state ...                   *)
LEMMA SubMapType ==
    ASSUME NEW f \in SubMap
    PROVE  /\ f \in [DOMAIN f -> [ns : Namespace, subs : PartialFn(Context, Id)]]
           /\ DOMAIN f \subseteq Name
BY PartialFnDomain DEF SubMap, SubRec

(* ... and publish_namespaces.                                              *)
LEMMA IntentMapType ==
    ASSUME NEW f \in PartialFn(Name, IntentRec)
    PROVE  /\ f \in [DOMAIN f ->
                 [ns : Namespace, state : {"Unknown", "Pending", "Ready"},
                  ctx : Context \cup {None}]]
           /\ DOMAIN f \subseteq Name
BY PartialFnDomain DEF IntentRec

(* A first announcement keeps the type of publish_namespaces ...            *)
LEMMA AddIntentType ==
    ASSUME NEW f \in PartialFn(Name, IntentRec), NEW n \in Namespace, NEW c \in Context
    PROVE  AddIntent(f, n, c) \in PartialFn(Name, IntentRec)
<1>1. NameOf[n] \in Name
    BY NamespaceAssumption
<1>2. [ns |-> n, state |-> "Pending", ctx |-> c] \in IntentRec
    BY DEF IntentRec
<1>. QED
    BY <1>1, <1>2, PutPartial DEF AddIntent

(* ... and so does an answer to it.                                         *)
LEMMA AnswerIntentType ==
    ASSUME NEW f \in PartialFn(Name, IntentRec), NEW n \in Namespace
    PROVE  AnswerIntent(f, n) \in PartialFn(Name, IntentRec)
<1>1. f \in [DOMAIN f -> IntentRec] /\ DOMAIN f \subseteq Name
    BY PartialFnDomain
<1>2. CASE NameOf[n] \in DOMAIN f
  <2> DEFINE g == [f EXCEPT ![NameOf[n]].state = "Ready"]
  <2>1. f[NameOf[n]] \in IntentRec
    BY <1>1, <1>2
  <2>2. [f[NameOf[n]] EXCEPT !.state = "Ready"] \in IntentRec
    BY <2>1 DEF IntentRec
  <2>3. g \in [DOMAIN f -> IntentRec] /\ DOMAIN g = DOMAIN f
    BY <1>1, <1>2, <2>2
  <2>4. AnswerIntent(f, n) = g
    BY <1>2 DEF AnswerIntent
  <2> HIDE DEF g
  <2>. QED
    BY <1>1, <2>3, <2>4, PartialFnDomain
<1>3. CASE NameOf[n] \notin DOMAIN f
    BY <1>3 DEF AnswerIntent
<1>. QED
    BY <1>2, <1>3

(* A message of one of the four namespace types carries a namespace, and a *)
(* Publish carries a name.                                                 *)
LEMMA MessageFacts ==
    ASSUME NEW m \in Message
    PROVE  /\ m.type \in {"Subscribe", "Unsubscribe", "PublishIntent", "PublishIntentEnd"}
                => m.ns \in Namespace
           /\ m.type = "Publish" => m.name \in Name
BY DEF Message

(* The receive thread, when it is at work, has a connection and a message.  *)
LEMMA HandlingFacts ==
    ASSUME TypeOK, handling # None
    PROVE  /\ handling \in [ctx : Context, msg : Message, found : BOOLEAN]
           /\ handling.ctx \in Context
           /\ handling.msg \in Message
BY DEF TypeOK

----------------------------------------------------------------------------
(* Each kind of step preserves the invariant, whatever a delegate sends to *)
(* connections in it.                                                      *)
SentOK == \A m \in sent : m.to \in Context \cup {None}

(* The server starts with empty maps.                                       *)
LEMMA InitIInv == Init => IInv
<1> SUFFICES ASSUME Init PROVE IInv
    OBVIOUS
<1>1. /\ DOMAIN subscribe_state = {}
      /\ DOMAIN subscribe_id_state = {}
      /\ told = {} /\ sending = {}
      /\ handling = None
    BY DEF Init, EmptyMap
<1>2. TypeOK
  <2>1. /\ subscribe_state \in SubMap
        /\ subscribe_id_state \in PartialFn(Id, Context \cup {None})
        /\ publish_state \in PartialFn(Name, Context)
        /\ publish_namespaces \in PartialFn(Name, IntentRec)
    BY EmptyPartial DEF Init, SubMap
  <2>2. subscriber_id \in Id
    BY BoundAssumption DEF Init, Id
  <2>. QED
    BY <2>1, <2>2, SubMapType, IntentMapType DEF Init, TypeOK
<1>. QED
    BY <1>1, <1>2
    DEF IInv, IdsIdentifySubscriptions, IdsAreOld, IdsAsTold, SendsAsTold, ReceiveThread,
        NewHasNoEntry, ReachableWhileUp, Has

(* A new subscription: a fresh id in both maps.                            *)
LEMMA SubscribeStep ==
    ASSUME IInv, handle_subscribe, SentOK'
    PROVE  IInv'
<1> DEFINE c == handling.ctx
           n == handling.msg.ns
           new == subscriber_id
<1>1. /\ handling # None /\ handling.msg.type = "Subscribe"
      /\ c \in Context /\ n \in Namespace /\ NameOf[n] \in Name
      /\ conn[c] # "new" /\ subscriber_id < MaxId /\ c # None
    BY HandlingFacts, MessageFacts, NamespaceAssumption, NoneAssumption
    DEF IInv, handle_subscribe, Dispatching, ReceiveThread
<1>2. /\ handling' = None /\ conn' = conn /\ sending' = sending
      /\ UNCHANGED <<publish_state, publish_namespaces, answering>>
    BY DEF handle_subscribe, pubVars
<1>3. /\ subscribe_state \in SubMap
      /\ subscribe_id_state \in PartialFn(Id, Context \cup {None})
      /\ subscriber_id \in Id /\ subscriber_id \in Nat /\ MaxId \in Nat
      /\ told \subseteq [ns : Namespace, id : Id, ctx : Context]
    BY TypeMaps, BoundAssumption DEF IInv, TypeOK, Id
<1>4. /\ Identified(subscribe_state, subscribe_id_state, subscriber_id)
      /\ Reachable(subscribe_state, subscribe_id_state, conn)
      /\ NewHasNoEntry /\ IdsAreOld /\ IdsAsTold /\ SendsAsTold
    BY IdentifiedIff, ReachableIff DEF IInv
<1>5. CASE ~HasSub(subscribe_state, n, c)
  <2>1. /\ subscribe_state' = AddSub(subscribe_state, n, c, new)
        /\ subscribe_id_state' = Put(subscribe_id_state, new, c)
        /\ subscriber_id' = new + 1
        /\ told' = told \cup {[ns |-> n, id |-> new, ctx |-> c]}
    BY <1>5 DEF handle_subscribe, FreshId
  <2>2. /\ subscribe_state' \in SubMap
        /\ \A k, d : Has(subscribe_state', k, d) <=>
                       Has(subscribe_state, k, d) \/ (k = NameOf[n] /\ d = c)
        /\ subscribe_state'[NameOf[n]].subs[c] = new
        /\ \A k, d : Has(subscribe_state, k, d) /\ ~(k = NameOf[n] /\ d = c) =>
                       subscribe_state'[k].subs[d] = subscribe_state[k].subs[d]
    BY <1>1, <1>3, <2>1, AddSubFacts
  <2>3. ~Has(subscribe_state, NameOf[n], c)
    BY <1>5 DEF HasSub, Has
  <2>4. /\ DOMAIN subscribe_id_state' = DOMAIN subscribe_id_state \cup {new}
        /\ subscribe_id_state'[new] = c
        /\ \A i \in DOMAIN subscribe_id_state \ {new} :
              subscribe_id_state'[i] = subscribe_id_state[i]
    BY <2>1 DEF Put
  <2>5. subscribe_id_state' \in PartialFn(Id, Context \cup {None})
    BY <1>1, <1>3, <2>1, PutPartial
  <2>6. subscriber_id' \in Id
    BY <1>1, <1>3, <2>1 DEF Id
  <2>7. \A k, d : Has(subscribe_state, k, d) => subscribe_state[k].subs[d] \in Nat
    BY <1>3, SubMapFacts DEF Has, Id
  <2>8. \A s \in told : s.id \in Nat
    BY <1>3 DEF Id
  <2>9. told' \subseteq [ns : Namespace, id : Id, ctx : Context]
    BY <1>1, <1>3, <2>1
  <2>10. \A i \in DOMAIN subscribe_id_state : i \in Nat
    BY <1>3, PartialFnIff DEF Id
  <2> HIDE DEF c, n, new
  <2>11. TypeOK'
    BY <1>2, <2>2, <2>5, <2>6, <2>9, SubMapType DEF IInv, TypeOK, SentOK
  <2>12. Identified(subscribe_state', subscribe_id_state', subscriber_id')
    BY <1>3, <1>4, <2>1, <2>2, <2>3, <2>4, <2>7 DEF Identified, LiveIn, new
  <2>13. IdsAreOld'
    BY <1>3, <1>4, <2>1, <2>4, <2>8, <2>10 DEF IdsAreOld, new
  <2>14. IdsAsTold' /\ SendsAsTold'
    <3>1. \A s \in sending : s.id \in Nat
      BY DEF IInv, TypeOK, Id
    <3>2. \A i \in Nat : i < new => i # new /\ i < new + 1
      BY <1>3 DEF new
    <3>3. IdsAsTold'
      BY <1>3, <1>4, <2>1, <2>4, <2>8, <3>2 DEF IdsAsTold, IdsAreOld, Live, new
    <3>4. SendsAsTold'
      BY <1>2, <1>4, <2>1, <2>4, <3>1, <3>2 DEF SendsAsTold, Live, new
    <3>. QED
      BY <3>3, <3>4
  <2>15. ReceiveThread' /\ NewHasNoEntry'
    BY <1>1, <1>2, <1>4, <2>2 DEF ReceiveThread, NewHasNoEntry, c
  <2>16. Reachable(subscribe_state', subscribe_id_state', conn')
    BY <1>2, <1>4, <2>2, <2>3, <2>4, <1>1 DEF Reachable, LiveIn
  <2>. QED
    BY <2>11, <2>12, <2>13, <2>14, <2>15, <2>16, IdentifiedIffPrime, ReachableIffPrime
    DEF IInv
<1>6. CASE HasSub(subscribe_state, n, c)
  <2> DEFINE id == subscribe_state[NameOf[n]].subs[c]
  <2>1. /\ UNCHANGED <<subscribe_state, subscribe_id_state, subscriber_id>>
        /\ told' = told \cup {[ns |-> n, id |-> id, ctx |-> c]}
    BY <1>6 DEF handle_subscribe, SubId, HasSub
  <2>2. Has(subscribe_state, NameOf[n], c)
    BY <1>6 DEF HasSub, Has
  <2>3. id \in Id /\ id < subscriber_id
        /\ (Live(id) => subscribe_id_state[id] = c)
    BY <1>3, <1>4, <2>2, SubMapFacts DEF Has, Identified, Live, LiveIn
  <2>4. TypeOK'
    BY <1>1, <1>2, <2>1, <2>3 DEF IInv, TypeOK, SentOK
  <2> HIDE DEF c, n, id
  <2>5. IdsAreOld' /\ IdsAsTold' /\ SendsAsTold'
    BY <1>2, <1>4, <2>1, <2>3 DEF IdsAreOld, IdsAsTold, SendsAsTold, Live
  <2>6. ReceiveThread' /\ NewHasNoEntry'
    BY <1>2, <1>4, <2>1 DEF ReceiveThread, NewHasNoEntry, Has
  <2>7. /\ Identified(subscribe_state', subscribe_id_state', subscriber_id')
        /\ Reachable(subscribe_state', subscribe_id_state', conn')
    BY <1>2, <1>4, <2>1
  <2>. QED
    BY <2>4, <2>5, <2>6, <2>7, IdentifiedIffPrime, ReachableIffPrime DEF IInv
<1>. QED
    BY <1>5, <1>6

(* The unlocked lookup may only insert an empty namespace.                 *)
LEMMA UnsubscribeCheckStep ==
    ASSUME IInv, handle_unsubscribe_check, SentOK'
    PROVE  IInv'
<1> DEFINE c == handling.ctx
           n == handling.msg.ns
<1>1. /\ handling # None /\ handling.msg.type = "Unsubscribe"
      /\ handling \in [ctx : Context, msg : Message, found : BOOLEAN]
      /\ c \in Context /\ n \in Namespace /\ conn[c] # "new"
    BY HandlingFacts, MessageFacts
    DEF IInv, handle_unsubscribe_check, Dispatching, ReceiveThread
<1>2. /\ UNCHANGED <<conn, subscribe_id_state, subscriber_id, publish_state,
                     publish_namespaces, answering, sending, told>>
      /\ subscribe_state' = Touch(subscribe_state, n)
      /\ handling' = IF HasSub(subscribe_state, n, c)
                     THEN [handling EXCEPT !.found = TRUE] ELSE None
    BY DEF handle_unsubscribe_check, pubVars
<1>3. subscribe_state \in SubMap
    BY TypeMaps DEF IInv
<1>4. /\ subscribe_state' \in SubMap
      /\ \A k, d : Has(subscribe_state', k, d) <=> Has(subscribe_state, k, d)
      /\ \A k, d : Has(subscribe_state, k, d) =>
                     subscribe_state'[k].subs[d] = subscribe_state[k].subs[d]
    BY <1>1, <1>2, <1>3, TouchFacts
<1>5. /\ handling' \in [ctx : Context, msg : Message, found : BOOLEAN] \cup {None}
      /\ handling' # None => /\ Has(subscribe_state, NameOf[n], c)
                             /\ handling'.ctx = c
                             /\ handling'.msg = handling.msg
    BY <1>1, <1>2 DEF HasSub, Has
<1>6. /\ Identified(subscribe_state, subscribe_id_state, subscriber_id)
      /\ Reachable(subscribe_state, subscribe_id_state, conn)
      /\ NewHasNoEntry /\ IdsAreOld /\ IdsAsTold /\ SendsAsTold
    BY IdentifiedIff, ReachableIff DEF IInv
<1>7. TypeOK'
    BY <1>2, <1>4, <1>5, SubMapType DEF IInv, TypeOK, SentOK
<1> HIDE DEF c, n
<1>8. Identified(subscribe_state', subscribe_id_state', subscriber_id')
    BY <1>2, <1>4, <1>6 DEF Identified
<1>9. Reachable(subscribe_state', subscribe_id_state', conn')
    BY <1>2, <1>4, <1>6 DEF Reachable
<1>10. IdsAreOld' /\ IdsAsTold' /\ SendsAsTold' /\ NewHasNoEntry'
    BY <1>2, <1>4, <1>6 DEF IdsAreOld, IdsAsTold, SendsAsTold, NewHasNoEntry, Live
<1>11. ReceiveThread'
    BY <1>1, <1>2, <1>4, <1>5 DEF ReceiveThread, n
<1>. QED
    BY <1>7, <1>8, <1>9, <1>10, <1>11, IdentifiedIffPrime, ReachableIffPrime DEF IInv

(* What the locked part of handle_unsubscribe erases.                      *)
LEMMA UnsubscribeFacts ==
    ASSUME IInv, handle_unsubscribe
    PROVE  LET c == handling.ctx
               n == handling.msg.ns
               id == subscribe_state[NameOf[n]].subs[c]
           IN  /\ c \in Context /\ n \in Namespace
               /\ Has(subscribe_state, NameOf[n], c)
               /\ subscribe_state' = DropSub(subscribe_state, n, c)
               /\ subscribe_id_state' = EraseKeys(subscribe_id_state, {id})
               /\ handling' = None
               /\ UNCHANGED <<conn, subscriber_id, publish_state, publish_namespaces, answering, sending,
                              told>>
<1>1. /\ handling # None /\ handling.found /\ handling.msg.type = "Unsubscribe"
      /\ Has(subscribe_state, NameOf[handling.msg.ns], handling.ctx)
    BY DEF IInv, handle_unsubscribe, ReceiveThread
<1>2. handling.ctx \in Context /\ handling.msg.ns \in Namespace
    BY <1>1, HandlingFacts, MessageFacts DEF IInv
<1>3. SubId(subscribe_state, handling.msg.ns, handling.ctx)
        = subscribe_state[NameOf[handling.msg.ns]].subs[handling.ctx]
    BY <1>1 DEF SubId, Has
<1>. QED
    BY <1>1, <1>2, <1>3 DEF handle_unsubscribe, pubVars

(* The locked part of handle_unsubscribe.                                   *)
LEMMA UnsubscribeStep ==
    ASSUME IInv, handle_unsubscribe, SentOK'
    PROVE  IInv'
<1> DEFINE c == handling.ctx
           n == handling.msg.ns
           id == subscribe_state[NameOf[n]].subs[c]
<1>1. /\ c \in Context /\ n \in Namespace
      /\ Has(subscribe_state, NameOf[n], c)
      /\ subscribe_state' = DropSub(subscribe_state, n, c)
      /\ subscribe_id_state' = EraseKeys(subscribe_id_state, {id})
      /\ handling' = None
      /\ UNCHANGED <<conn, subscriber_id, publish_state, publish_namespaces, answering, sending,
                              told>>
    BY UnsubscribeFacts
<1>2. /\ subscribe_state \in SubMap
      /\ subscribe_id_state \in PartialFn(Id, Context \cup {None})
    BY TypeMaps DEF IInv, TypeOK
<1>3. /\ subscribe_state' \in SubMap
      /\ \A k, d : Has(subscribe_state', k, d) =>
            /\ Has(subscribe_state, k, d)
            /\ ~(k = NameOf[n] /\ d = c)
            /\ subscribe_state'[k].subs[d] = subscribe_state[k].subs[d]
    BY <1>1, <1>2, DropSubFacts
<1>4. subscribe_id_state' \in PartialFn(Id, Context \cup {None})
    BY <1>1, <1>2, ErasePartial
<1>5. /\ DOMAIN subscribe_id_state' = DOMAIN subscribe_id_state \ {id}
      /\ \A i \in DOMAIN subscribe_id_state' : subscribe_id_state'[i] = subscribe_id_state[i]
    BY <1>1 DEF EraseKeys, Restrict
<1>6. /\ Identified(subscribe_state, subscribe_id_state, subscriber_id)
      /\ Reachable(subscribe_state, subscribe_id_state, conn)
      /\ NewHasNoEntry /\ IdsAreOld /\ IdsAsTold /\ SendsAsTold
    BY IdentifiedIff, ReachableIff DEF IInv
<1>7. TypeOK'
    BY <1>1, <1>3, <1>4, SubMapType DEF IInv, TypeOK, SentOK
<1> HIDE DEF c, n, id
<1>8. Identified(subscribe_state', subscribe_id_state', subscriber_id')
  <2>1. ASSUME NEW k, NEW d, Has(subscribe_state', k, d)
        PROVE  LET i == subscribe_state'[k].subs[d]
               IN  /\ i < subscriber_id'
                   /\ LiveIn(subscribe_id_state', i) => subscribe_id_state'[i] = d
    <3>1. /\ Has(subscribe_state, k, d)
          /\ subscribe_state'[k].subs[d] = subscribe_state[k].subs[d]
        BY <2>1, <1>3
    <3>. QED
        BY <3>1, <1>1, <1>5, <1>6 DEF Identified, LiveIn
  <2>2. ASSUME NEW k, NEW d, NEW k2, NEW d2,
               Has(subscribe_state', k, d), Has(subscribe_state', k2, d2),
               subscribe_state'[k2].subs[d2] = subscribe_state'[k].subs[d]
        PROVE  k2 = k /\ d2 = d
    <3>1. /\ Has(subscribe_state, k, d) /\ Has(subscribe_state, k2, d2)
          /\ subscribe_state[k2].subs[d2] = subscribe_state[k].subs[d]
        BY <2>2, <1>3
    <3>. QED
        BY <3>1, <1>6 DEF Identified
  <2>. QED
    BY <2>1, <2>2 DEF Identified
<1>9. Reachable(subscribe_state', subscribe_id_state', conn')
  <2> SUFFICES ASSUME ~ContextReuse, NEW k, NEW d, Has(subscribe_state', k, d), conn'[d] = "up"
               PROVE  LiveIn(subscribe_id_state', subscribe_state'[k].subs[d])
    BY DEF Reachable
  <2>1. /\ Has(subscribe_state, k, d)
        /\ ~(k = NameOf[n] /\ d = c)
        /\ subscribe_state'[k].subs[d] = subscribe_state[k].subs[d]
    BY <1>3
  <2>2. LiveIn(subscribe_id_state, subscribe_state[k].subs[d])
    BY <1>1, <1>6, <2>1 DEF Reachable
  <2>3. subscribe_state[k].subs[d] # id
    BY <1>1, <1>6, <2>1 DEF Identified, id
  <2>. QED
    BY <1>5, <2>1, <2>2, <2>3 DEF LiveIn
<1>10. IdsAreOld' /\ IdsAsTold' /\ SendsAsTold' /\ NewHasNoEntry' /\ ReceiveThread'
    BY <1>1, <1>3, <1>5, <1>6
    DEF IdsAreOld, IdsAsTold, SendsAsTold, NewHasNoEntry, ReceiveThread, Live
<1>. QED
    BY <1>7, <1>8, <1>9, <1>10, IdentifiedIffPrime, ReachableIffPrime DEF IInv

(* A disconnect erases ids of the connection and keeps every entry.        *)
LEMMA DisconnectStep ==
    ASSUME IInv, NEW c \in Context, on_disconnected(c), SentOK'
    PROVE  IInv'
<1>1. /\ conn[c] = "up"
      /\ conn' = [conn EXCEPT ![c] = "down"]
      /\ subscribe_state' = AfterDisconnect(subscribe_state, c)
      /\ subscribe_id_state' = EraseKeys(subscribe_id_state, IdsOf(subscribe_state, c))
      /\ UNCHANGED <<handling, subscriber_id, publish_state, publish_namespaces, answering, sending,
                     told>>
    BY DEF on_disconnected, pubVars
<1>2. /\ subscribe_state \in SubMap
      /\ subscribe_id_state \in PartialFn(Id, Context \cup {None})
      /\ conn \in [Context -> {"new", "up", "down"}]
    BY TypeMaps DEF IInv, TypeOK
<1>3. /\ subscribe_state' \in SubMap
      /\ \A k, d : Has(subscribe_state', k, d) <=> Has(subscribe_state, k, d)
      /\ \A k, d : Has(subscribe_state, k, d) =>
                     subscribe_state'[k].subs[d] = subscribe_state[k].subs[d]
    BY <1>1, <1>2, AfterDisconnectFacts
<1>4. subscribe_id_state' \in PartialFn(Id, Context \cup {None})
    BY <1>1, <1>2, ErasePartial
<1>5. /\ DOMAIN subscribe_id_state' =
            DOMAIN subscribe_id_state \ IdsOf(subscribe_state, c)
      /\ \A i \in DOMAIN subscribe_id_state' : subscribe_id_state'[i] = subscribe_id_state[i]
    BY <1>1 DEF EraseKeys, Restrict
<1>6. \A i : i \in IdsOf(subscribe_state, c) <=>
               \E k : Has(subscribe_state, k, c) /\ i = subscribe_state[k].subs[c]
    BY DEF IdsOf, KeysOf, Has
<1>7. /\ conn' \in [Context -> {"new", "up", "down"}]
      /\ conn'[c] = "down"
      /\ \A d : d # c => conn'[d] = conn[d]
    BY <1>1, <1>2
<1>8. /\ Identified(subscribe_state, subscribe_id_state, subscriber_id)
      /\ Reachable(subscribe_state, subscribe_id_state, conn)
      /\ NewHasNoEntry /\ IdsAreOld /\ IdsAsTold /\ SendsAsTold
      /\ ReceiveThread
    BY IdentifiedIff, ReachableIff DEF IInv
<1>9. TypeOK'
    BY <1>1, <1>3, <1>4, <1>7, SubMapType DEF IInv, TypeOK, SentOK
<1>10. Identified(subscribe_state', subscribe_id_state', subscriber_id')
    BY <1>1, <1>3, <1>5, <1>8 DEF Identified, LiveIn
<1>11. Reachable(subscribe_state', subscribe_id_state', conn')
    BY <1>1, <1>3, <1>5, <1>6, <1>7, <1>8 DEF Reachable, Identified, LiveIn
<1>12. IdsAreOld' /\ IdsAsTold' /\ SendsAsTold'
    BY <1>1, <1>5, <1>8 DEF IdsAreOld, IdsAsTold, SendsAsTold, Live
<1>13. NewHasNoEntry' /\ ReceiveThread'
    BY <1>1, <1>3, <1>7, <1>8 DEF NewHasNoEntry, ReceiveThread
<1>. QED
    BY <1>9, <1>10, <1>11, <1>12, <1>13, IdentifiedIffPrime, ReachableIffPrime DEF IInv

(* A step that leaves the subscriptions and the connections alone, and at   *)
(* most finishes the message in hand.                                       *)
LEMMA QuietStep ==
    ASSUME IInv, TypeOK', UNCHANGED <<conn, subVars, sending, told>>,
           handling' = handling \/ handling' = None
    PROVE  IInv'
<1>1. UNCHANGED <<conn, subscribe_state, subscribe_id_state, subscriber_id, sending, told>>
    BY DEF subVars
<1>2. /\ IdsIdentifySubscriptions' /\ IdsAreOld' /\ IdsAsTold' /\ SendsAsTold'
      /\ NewHasNoEntry' /\ ReachableWhileUp'
    BY <1>1
    DEF IInv, IdsIdentifySubscriptions, IdsAreOld, IdsAsTold, SendsAsTold, NewHasNoEntry,
        ReachableWhileUp, Has, Live
<1>3. ReceiveThread'
    BY <1>1 DEF IInv, ReceiveThread, Has
<1>. QED
    BY <1>2, <1>3 DEF IInv

(* on_new_connection: a connection without entries comes up.                *)
LEMMA NewConnectionStep ==
    ASSUME IInv, NEW c \in Context, on_new_connection(c)
    PROVE  IInv'
<1>1. /\ conn[c] = "new" \/ (ContextReuse /\ conn[c] = "down")
      /\ conn' = [conn EXCEPT ![c] = "up"]
      /\ sent' = {}
      /\ UNCHANGED <<handling, subscribe_state, subscribe_id_state, subscriber_id,
                     publish_state, publish_namespaces, answering, sending, told>>
    BY DEF on_new_connection, subVars, pubVars
<1>2. conn \in [Context -> {"new", "up", "down"}]
    BY DEF IInv, TypeOK
<1>3. /\ conn' \in [Context -> {"new", "up", "down"}]
      /\ conn'[c] = "up"
      /\ \A d : d # c => conn'[d] = conn[d]
    BY <1>1, <1>2
<1>4. TypeOK'
    BY <1>1, <1>3 DEF IInv, TypeOK
<1>5. IdsIdentifySubscriptions' /\ IdsAreOld' /\ IdsAsTold' /\ SendsAsTold'
    BY <1>1 DEF IInv, IdsIdentifySubscriptions, IdsAreOld, IdsAsTold, SendsAsTold, Live
<1>6. NewHasNoEntry' /\ ReceiveThread'
    BY <1>1, <1>3 DEF IInv, NewHasNoEntry, ReceiveThread, Has
<1>7. Reachable(subscribe_state', subscribe_id_state', conn')
    BY <1>1, <1>3, ReachableIff DEF IInv, Reachable, NewHasNoEntry, Has
<1>. QED
    BY <1>4, <1>5, <1>6, <1>7, ReachableIffPrime DEF IInv

(* on_recv_notify takes a message.                                          *)
LEMMA ReceiveStep ==
    ASSUME IInv, NEW c \in Context, NEW m \in Message, on_recv_notify(c, m)
    PROVE  IInv'
<1>1. /\ conn[c] = "up"
      /\ m.type = "Subscribe" => subscriber_id < MaxId
      /\ handling' = [ctx |-> c, msg |-> m, found |-> FALSE]
      /\ sent' = {}
      /\ UNCHANGED <<conn, subscribe_state, subscribe_id_state, subscriber_id,
                     publish_state, publish_namespaces, answering, sending, told>>
    BY DEF on_recv_notify, subVars, pubVars
<1>2. TypeOK'
    BY <1>1 DEF IInv, TypeOK
<1>3. /\ IdsIdentifySubscriptions' /\ IdsAreOld' /\ IdsAsTold' /\ SendsAsTold'
      /\ NewHasNoEntry' /\ ReachableWhileUp'
    BY <1>1
    DEF IInv, IdsIdentifySubscriptions, IdsAreOld, IdsAsTold, SendsAsTold, NewHasNoEntry,
        ReachableWhileUp, Has, Live
<1>4. ReceiveThread'
    BY <1>1 DEF ReceiveThread
<1>. QED
    BY <1>2, <1>3, <1>4 DEF IInv

(* handle_publish does not touch the subscriptions.                         *)
LEMMA PublishStep ==
    ASSUME IInv, handle_publish, SentOK'
    PROVE  IInv'
<1> DEFINE nm == handling.msg.name
           p == PublisherOf(nm, handling.ctx)
<1>1. handling.ctx \in Context /\ nm \in Name
    BY HandlingFacts, MessageFacts DEF IInv, handle_publish, Dispatching
<1>2. publish_state \in PartialFn(Name, Context)
    BY DEF IInv, TypeOK
<1>3. p \in Context
    BY <1>1, <1>2, PartialFnIff DEF PublisherOf
<1>4. publish_state' \in PartialFn(Name, Context)
    BY <1>1, <1>2, <1>3, PutPartial DEF handle_publish
<1>5. /\ UNCHANGED <<conn, subVars, publish_namespaces, answering, sending, told>>
      /\ handling' = None
    BY DEF handle_publish
<1>6. TypeOK'
    BY <1>4, <1>5 DEF IInv, TypeOK, SentOK, subVars
<1>. QED
    BY <1>5, <1>6, QuietStep

(* Nor does handle_publish_intent ...                                       *)
LEMMA PublishIntentStep ==
    ASSUME IInv, handle_publish_intent, SentOK'
    PROVE  IInv'
<1>1. handling.ctx \in Context /\ handling.msg.ns \in Namespace
    BY HandlingFacts, MessageFacts
    DEF IInv, handle_publish_intent, PublishIntentHandled, Dispatching
<1>2. /\ publish_namespaces' =
            AddIntent(publish_namespaces, handling.msg.ns, handling.ctx)
      /\ UNCHANGED <<conn, subVars, publish_state, answering, sending, told>>
      /\ handling' = None
    BY DEF handle_publish_intent, PublishIntentHandled
<1>3. publish_namespaces' \in PartialFn(Name, IntentRec)
    BY <1>1, <1>2, TypeMaps, AddIntentType DEF IInv
<1>4. TypeOK'
    BY <1>2, <1>3, IntentMapType DEF IInv, TypeOK, SentOK, subVars
<1>. QED
    BY <1>2, <1>4, QuietStep

(* ... nor handle_publish_intent_end.                                       *)
LEMMA PublishIntentEndStep ==
    ASSUME IInv, handle_publish_intent_end, SentOK'
    PROVE  IInv'
<1>1. /\ \/ UNCHANGED <<publish_state, publish_namespaces>>
         \/ \E K, L : /\ publish_namespaces' = EraseKeys(publish_namespaces, K)
                      /\ publish_state' = EraseKeys(publish_state, L)
      /\ UNCHANGED <<conn, subVars, answering, sending, told>>
      /\ handling' = None
    BY DEF handle_publish_intent_end
<1>2. /\ publish_namespaces' \in PartialFn(Name, IntentRec)
      /\ publish_state' \in PartialFn(Name, Context)
    BY <1>1, TypeMaps, ErasePartial DEF IInv, TypeOK
<1>3. TypeOK'
    BY <1>1, <1>2, IntentMapType DEF IInv, TypeOK, SentOK, subVars
<1>. QED
    BY <1>1, <1>3, QuietStep

(* The lookup of an intent response changes nothing that is shared.         *)
LEMMA AnswerLookupStep ==
    ASSUME IInv, NEW n \in Namespace, answer_lookup(n)
    PROVE  IInv'
<1>1. /\ answering' = answering \cup {[ns |-> n, bound |-> FALSE, ref |-> None] :
                                        k \in DOMAIN publish_namespaces \cap {NameOf[n]}}
      /\ sent' = {}
      /\ UNCHANGED <<conn, handling, subVars, publish_state, publish_namespaces, sending, told>>
    BY DEF answer_lookup
<1>2. ASSUME NEW x \in answering' \ answering
      PROVE  x.ns = n /\ x.bound = FALSE /\ x.ref = None
    BY <1>1
<1>3. TypeOK'
    BY <1>1, <1>2 DEF IInv, TypeOK, subVars
<1>. QED
    BY <1>1, <1>3, QuietStep

(* What operator[] leaves in publish_namespaces: at most one namespace more, *)
(* under its own key.                                                       *)
LEMMA AnswerFindFacts ==
    ASSUME IInv, NEW x \in answering, answer_find(x)
    PROVE  /\ publish_namespaces' \in PartialFn(Name, IntentRec)
           /\ DOMAIN publish_namespaces' = DOMAIN publish_namespaces \cup {NameOf[x.ns]}
           /\ \A k \in DOMAIN publish_namespaces :
                 publish_namespaces'[k] = publish_namespaces[k]
           /\ NameOf[x.ns] \notin DOMAIN publish_namespaces =>
                 publish_namespaces'[NameOf[x.ns]].ns = x.ns
           /\ UNCHANGED <<conn, handling, subVars, publish_state, sending, told>>
<1> DEFINE k == NameOf[x.ns]
           r == [ns |-> x.ns, state |-> "Unknown", ctx |-> None]
<1>1. /\ publish_namespaces' = IF k \in DOMAIN publish_namespaces THEN publish_namespaces
                               ELSE Put(publish_namespaces, k, r)
      /\ UNCHANGED <<conn, handling, subVars, publish_state, sending, told>>
    BY DEF answer_find
<1>2. x.ns \in Namespace
    BY DEF IInv, TypeOK
<1>3. k \in Name /\ r \in IntentRec /\ r.ns = x.ns
    BY <1>2, NamespaceAssumption DEF IntentRec
<1>4. publish_namespaces \in PartialFn(Name, IntentRec)
    BY TypeMaps DEF IInv
<1> HIDE DEF k, r
<1>5. publish_namespaces' \in PartialFn(Name, IntentRec)
    BY <1>1, <1>3, <1>4, PutPartial
<1>6. CASE k \in DOMAIN publish_namespaces
    BY <1>1, <1>5, <1>6 DEF k
<1>7. CASE k \notin DOMAIN publish_namespaces
  <2>1. /\ DOMAIN publish_namespaces' = DOMAIN publish_namespaces \cup {k}
        /\ \A i \in DOMAIN publish_namespaces : publish_namespaces'[i] = publish_namespaces[i]
        /\ publish_namespaces'[k] = r
    BY <1>1, <1>7 DEF Put
  <2>. QED
    BY <1>1, <1>3, <1>5, <2>1 DEF k
<1>. QED
    BY <1>6, <1>7

(* The second lookup of an intent response may announce a namespace again,  *)
(* for no connection.                                                       *)
LEMMA AnswerFindStep ==
    ASSUME IInv, NEW x \in answering, answer_find(x)
    PROVE  IInv'
<1>1. /\ publish_namespaces' \in PartialFn(Name, IntentRec)
      /\ DOMAIN publish_namespaces' = DOMAIN publish_namespaces \cup {NameOf[x.ns]}
      /\ UNCHANGED <<conn, handling, subVars, publish_state, sending, told>>
    BY AnswerFindFacts
<1>2. publish_namespaces'[NameOf[x.ns]] \in IntentRec
    BY <1>1, PartialFnIff
<1>3. publish_namespaces'[NameOf[x.ns]].ctx \in Context \cup {None}
    BY <1>2 DEF IntentRec
<1>4. PICK q : q = [ns |-> x.ns, bound |-> TRUE,
                    ref |-> publish_namespaces'[NameOf[x.ns]].ctx]
    OBVIOUS
<1>5. answering' = (answering \ {x}) \cup {q} /\ sent' = {}
    BY <1>4 DEF answer_find
<1>6. q.ns \in Namespace /\ q.bound \in BOOLEAN /\ q.ref \in Context \cup {None}
    BY <1>3, <1>4 DEF IInv, TypeOK
<1>7. \A y \in answering' :
          y.ns \in Namespace /\ y.bound \in BOOLEAN /\ y.ref \in Context \cup {None}
    BY <1>5, <1>6 DEF IInv, TypeOK
<1>8. TypeOK'
    BY <1>1, <1>5, <1>7, IntentMapType DEF IInv, TypeOK, subVars
<1>. QED
    BY <1>1, <1>8, QuietStep

(* An answer keeps the keys of publish_namespaces and what they store.      *)
LEMMA AnswerKeepsNamespaces ==
    ASSUME NEW f \in PartialFn(Name, IntentRec), NEW n
    PROVE  /\ DOMAIN AnswerIntent(f, n) = DOMAIN f
           /\ \A k \in DOMAIN f : AnswerIntent(f, n)[k].ns = f[k].ns
<1>1. f \in [DOMAIN f -> IntentRec]
    BY PartialFnDomain
<1>. QED
    BY <1>1 DEF AnswerIntent, IntentRec

(* The end of an intent response marks a namespace at most.                 *)
LEMMA AnswerEnqueueFacts ==
    ASSUME IInv, NEW x \in answering, answer_enqueue(x)
    PROVE  /\ publish_namespaces' \in PartialFn(Name, IntentRec)
           /\ DOMAIN publish_namespaces' = DOMAIN publish_namespaces
           /\ \A k \in DOMAIN publish_namespaces :
                 publish_namespaces'[k].ns = publish_namespaces[k].ns
           /\ UNCHANGED <<conn, handling, subVars, publish_state, sending, told>>
<1>1. /\ \/ publish_namespaces' = AnswerIntent(publish_namespaces, x.ns)
         \/ publish_namespaces' = publish_namespaces
      /\ UNCHANGED <<conn, handling, subVars, publish_state, sending, told>>
    BY DEF answer_enqueue
<1>2. publish_namespaces \in PartialFn(Name, IntentRec)
    BY TypeMaps DEF IInv
<1>3. x.ns \in Namespace
    BY DEF IInv, TypeOK
<1>. QED
    BY <1>1, <1>2, <1>3, AnswerIntentType, AnswerKeepsNamespaces

(* It goes to a connection or to context 0.                                 *)
LEMMA AnswerEnqueueStep ==
    ASSUME IInv, NEW x \in answering, answer_enqueue(x)
    PROVE  IInv'
<1>1. /\ publish_namespaces' \in PartialFn(Name, IntentRec)
      /\ UNCHANGED <<conn, handling, subVars, publish_state, sending, told>>
    BY AnswerEnqueueFacts
<1>2. answering' = answering \ {x}
    BY DEF answer_enqueue
<1>3. x.ref \in Context \cup {None}
    BY DEF IInv, TypeOK
<1>4. PICK c \in Context \cup {None} :
          sent' = {[to |-> c, msg |-> [type |-> "PublishIntentResponse", ns |-> x.ns]]}
    BY <1>3 DEF answer_enqueue
<1>5. \A m \in sent' : m.to \in Context \cup {None}
    BY <1>4
<1>6. TypeOK'
    BY <1>1, <1>2, <1>5, IntentMapType DEF IInv, TypeOK, subVars
<1>. QED
    BY <1>1, <1>6, QuietStep

(* The lookup of a send: an id that is known was handed out.                *)
LEMMA LookupStep ==
    ASSUME IInv, NEW m, NEW id, send_lookup(m, id)
    PROVE  IInv'
<1>1. /\ sending' = sending \cup {[id |-> i, msg |-> m, bound |-> FALSE, ref |-> None] :
                                     i \in DOMAIN subscribe_id_state \cap {id}}
      /\ UNCHANGED <<conn, handling, subscribe_state, subscribe_id_state, subscriber_id,
                     publish_state, publish_namespaces, answering, told>>
      /\ sent' = {}
    BY DEF send_lookup, subVars, pubVars
<1>2. ASSUME NEW s \in sending' \ sending
      PROVE  /\ s.id \in DOMAIN subscribe_id_state
             /\ s.bound = FALSE /\ s.ref = None
    BY <1>1
<1>3. \A i \in DOMAIN subscribe_id_state : i \in Id /\ i < subscriber_id
    BY PartialFnIff DEF IInv, TypeOK, IdsAreOld
<1>4. TypeOK'
    BY <1>1, <1>2, <1>3 DEF IInv, TypeOK
<1>5. SendsAsTold'
    BY <1>1, <1>2, <1>3 DEF IInv, SendsAsTold, Live
<1>6. IdsIdentifySubscriptions' /\ IdsAreOld' /\ IdsAsTold'
    BY <1>1 DEF IInv, IdsIdentifySubscriptions, IdsAreOld, IdsAsTold, Live
<1>7. NewHasNoEntry' /\ ReceiveThread' /\ ReachableWhileUp'
    BY <1>1 DEF IInv, NewHasNoEntry, ReceiveThread, ReachableWhileUp, Has, Live
<1>. QED
    BY <1>4, <1>5, <1>6, <1>7 DEF IInv

(* What operator[] leaves in subscribe_id_state: at most one id more, which  *)
(* stands for no connection.                                                *)
LEMMA FindFacts ==
    ASSUME IInv, NEW s \in sending, send_find(s)
    PROVE  /\ subscribe_id_state' \in PartialFn(Id, Context \cup {None})
           /\ s.id \in Id /\ s.id < subscriber_id
           /\ DOMAIN subscribe_id_state' = DOMAIN subscribe_id_state \cup {s.id}
           /\ \A i \in DOMAIN subscribe_id_state : subscribe_id_state'[i] = subscribe_id_state[i]
           /\ s.id \notin DOMAIN subscribe_id_state => subscribe_id_state'[s.id] = None
           /\ \A i : LiveIn(subscribe_id_state', i) <=> LiveIn(subscribe_id_state, i)
           /\ UNCHANGED <<conn, handling, subscribe_state, subscriber_id,
                          publish_state, publish_namespaces, answering, told>>
<1>1. /\ subscribe_id_state' = IF s.id \in DOMAIN subscribe_id_state THEN subscribe_id_state
                               ELSE Put(subscribe_id_state, s.id, None)
      /\ UNCHANGED <<conn, handling, subscribe_state, subscriber_id,
                     publish_state, publish_namespaces, answering, told>>
    BY DEF send_find, pubVars
<1>2. s.id \in Id /\ s.id < subscriber_id
    BY DEF IInv, TypeOK, SendsAsTold
<1>3. subscribe_id_state \in PartialFn(Id, Context \cup {None})
    BY DEF IInv, TypeOK
<1>4. subscribe_id_state' \in PartialFn(Id, Context \cup {None})
    BY <1>1, <1>2, <1>3, PutPartial
<1>5. CASE s.id \in DOMAIN subscribe_id_state
    BY <1>1, <1>2, <1>4, <1>5
<1>6. CASE s.id \notin DOMAIN subscribe_id_state
  <2>1. /\ DOMAIN subscribe_id_state' = DOMAIN subscribe_id_state \cup {s.id}
        /\ \A i \in DOMAIN subscribe_id_state : subscribe_id_state'[i] = subscribe_id_state[i]
        /\ subscribe_id_state'[s.id] = None
    BY <1>1, <1>6 DEF Put
  <2>. QED
    BY <1>1, <1>2, <1>4, <1>6, <2>1 DEF LiveIn
<1>. QED
    BY <1>5, <1>6

(* The second lookup of a send may bring an id back, but not its connection. *)
LEMMA FindStep ==
    ASSUME IInv, NEW s \in sending, send_find(s)
    PROVE  IInv'
<1>1. /\ subscribe_id_state' \in PartialFn(Id, Context \cup {None})
      /\ s.id \in Id /\ s.id < subscriber_id
      /\ DOMAIN subscribe_id_state' = DOMAIN subscribe_id_state \cup {s.id}
      /\ \A i \in DOMAIN subscribe_id_state : subscribe_id_state'[i] = subscribe_id_state[i]
      /\ \A i : LiveIn(subscribe_id_state', i) <=> LiveIn(subscribe_id_state, i)
      /\ UNCHANGED <<conn, handling, subscribe_state, subscriber_id,
                     publish_state, publish_namespaces, answering, told>>
    BY FindFacts
<1>2. PICK q : q = [id |-> s.id, msg |-> s.msg, bound |-> TRUE, ref |-> subscribe_id_state'[s.id]]
    OBVIOUS
<1>3. sending' = (sending \ {s}) \cup {q} /\ sent' = {}
    BY <1>2 DEF send_find
<1>4. q.id = s.id /\ q.bound = TRUE /\ q.ref = subscribe_id_state'[s.id]
    BY <1>2
<1>5. subscribe_id_state'[s.id] \in Context \cup {None}
    BY <1>1, PartialFnIff
<1>6. TypeOK'
    BY <1>1, <1>3, <1>4, <1>5 DEF IInv, TypeOK
<1>7. \A i : Live(i)' <=> Live(i)
    BY <1>1 DEF Live, LiveIn
<1>8. SendsAsTold'
  <2> SUFFICES ASSUME NEW x \in sending'
               PROVE  /\ x.id < subscriber_id'
                      /\ x.bound /\ Live(x.id)' => x.ref = subscribe_id_state'[x.id]
    BY DEF SendsAsTold
  <2>1. CASE x = q
    BY <1>1, <1>4, <2>1
  <2>2. CASE x \in sending
    BY <1>1, <1>7, <2>2 DEF IInv, SendsAsTold, Live
  <2>. QED
    BY <1>3, <2>1, <2>2
<1>9. IdsAreOld' /\ IdsAsTold'
    BY <1>1, <1>7 DEF IInv, IdsAreOld, IdsAsTold, Live
<1>10. Identified(subscribe_state', subscribe_id_state', subscriber_id')
    BY <1>1, IdentifiedIff DEF IInv, Identified, LiveIn
<1>11. Reachable(subscribe_state', subscribe_id_state', conn')
    BY <1>1, ReachableIff DEF IInv, Reachable
<1>12. NewHasNoEntry' /\ ReceiveThread'
    BY <1>1 DEF IInv, NewHasNoEntry, ReceiveThread, Has
<1>. QED
    BY <1>6, <1>8, <1>9, <1>10, <1>11, <1>12, IdentifiedIffPrime, ReachableIffPrime DEF IInv

(* The end of a send leaves the maps alone.                                 *)
LEMMA EnqueueStep ==
    ASSUME IInv, NEW s \in sending, send_enqueue(s)
    PROVE  IInv'
<1>1. /\ sending' = sending \ {s}
      /\ UNCHANGED <<conn, handling, subscribe_state, subscribe_id_state, subscriber_id,
                     publish_state, publish_namespaces, answering, told>>
    BY DEF send_enqueue, subVars, pubVars
<1>2. PICK c \in Addressees(s) : sent' = {[to |-> c, id |-> s.id, msg |-> s.msg]}
    BY DEF send_enqueue
<1>3. c \in Context \cup {None}
    BY DEF Addressees, IInv, TypeOK
<1>4. TypeOK'
    BY <1>1, <1>2, <1>3 DEF IInv, TypeOK
<1>5. SendsAsTold'
    BY <1>1 DEF IInv, SendsAsTold, Live
<1>6. IdsIdentifySubscriptions' /\ IdsAreOld' /\ IdsAsTold'
    BY <1>1 DEF IInv, IdsIdentifySubscriptions, IdsAreOld, IdsAsTold, Live
<1>7. NewHasNoEntry' /\ ReceiveThread' /\ ReachableWhileUp'
    BY <1>1 DEF IInv, NewHasNoEntry, ReceiveThread, ReachableWhileUp, Has, Live
<1>. QED
    BY <1>4, <1>5, <1>6, <1>7 DEF IInv

(* An unknown message is dropped.                                           *)
LEMMA IgnoreStep ==
    ASSUME IInv, IgnoreMessage, SentOK'
    PROVE  IInv'
<1>1. /\ UNCHANGED <<conn, subVars, pubVars, sending, told>>
      /\ handling' = None
    BY DEF IgnoreMessage
<1>2. TypeOK'
    BY <1>1 DEF IInv, TypeOK, SentOK, subVars, pubVars
<1>. QED
    BY <1>1, <1>2, QuietStep

(* A step of somebody else.                                                 *)
LEMMA StutterStep ==
    ASSUME IInv, UNCHANGED vars
    PROVE  IInv'
<1>1. TypeOK'
    BY DEF IInv, TypeOK, vars
<1>. QED
    BY <1>1, QuietStep DEF vars, subVars

(* Every step of the server preserves the invariant.                        *)
LEMMA NextIInv == IInv /\ [Next]_vars => IInv'
<1> SUFFICES ASSUME IInv, [Next]_vars PROVE IInv'
    OBVIOUS
<1>1. ASSUME NEW c \in Context, on_new_connection(c) PROVE IInv'
    BY <1>1, NewConnectionStep
<1>2. ASSUME NEW c \in Context, NEW m \in Message, on_recv_notify(c, m) PROVE IInv'
    BY <1>2, ReceiveStep
<1>3. CASE Handle /\ sent' = {}
    BY <1>3, IgnoreStep, SubscribeStep, UnsubscribeCheckStep, UnsubscribeStep, PublishStep,
       PublishIntentStep, PublishIntentEndStep
    DEF Handle, SentOK
<1>4. ASSUME NEW c \in Context, on_disconnected(c), sent' = {} PROVE IInv'
    BY <1>4, DisconnectStep DEF SentOK
<1>5. ASSUME NEW m, NEW s, send_lookup(m, s.id) PROVE IInv'
    BY <1>5, LookupStep
<1>6. ASSUME NEW n \in Namespace, answer_lookup(n) PROVE IInv'
    BY <1>6, AnswerLookupStep
<1>7. ASSUME NEW s \in sending, send_find(s) \/ send_enqueue(s) PROVE IInv'
    BY <1>7, FindStep, EnqueueStep
<1>8. ASSUME NEW x \in answering, answer_find(x) \/ answer_enqueue(x) PROVE IInv'
    BY <1>8, AnswerFindStep, AnswerEnqueueStep
<1>9. CASE UNCHANGED vars
    BY <1>9, StutterStep
<1>. QED
    BY <1>1, <1>2, <1>3, <1>4, <1>5, <1>6, <1>7, <1>8, <1>9 DEF Next

(* The invariant always holds.                                              *)
LEMMA SpecIInv == Spec => []IInv
BY InitIInv, NextIInv, PTL DEF Spec

----------------------------------------------------------------------------
(* The theorems.                                                           *)

(* Type correctness of the server's maps and of what it sends.             *)
THEOREM TypeCorrect == Spec => []TypeOK
<1>1. IInv => TypeOK
    BY DEF IInv
<1>. QED
    BY <1>1, SpecIInv, PTL

(* However connections subscribe, unsubscribe, disconnect and race, the ids *)
(* in subscribe_state identify their subscriptions.                         *)
THEOREM IdsIdentify == Spec => []IdsIdentifySubscriptions
<1>1. IInv => IdsIdentifySubscriptions
    BY DEF IInv
<1>. QED
    BY <1>1, SpecIInv, PTL

(* What the last step sent under an id went where the id points.           *)
SentAsTold ==
    \A s \in told, m \in sent :
        "id" \in DOMAIN m /\ m.id = s.id /\ Live(s.id) => m.to = s.ctx

(* A send follows the reference it took, or dangles with its id erased.     *)
LEMMA EnqueueAsTold ==
    ASSUME IInv, NEW q \in sending, send_enqueue(q)
    PROVE  SentAsTold'
<1>1. UNCHANGED <<subscribe_id_state, told>> /\ q.bound
    BY DEF send_enqueue, subVars
<1>2. PICK c \in Addressees(q) : sent' = {[to |-> c, id |-> q.id, msg |-> q.msg]}
    BY DEF send_enqueue
<1>3. ASSUME NEW s \in told, q.id = s.id, Live(s.id)
      PROVE  c = s.ctx
  <2>1. q.ref = subscribe_id_state[q.id] /\ subscribe_id_state[q.id] = s.ctx
    BY <1>1, <1>3 DEF IInv, SendsAsTold, IdsAsTold
  <2>2. q.id \in DOMAIN subscribe_id_state
    BY <1>3 DEF Live
  <2>. QED
    BY <1>2, <2>1, <2>2 DEF Addressees
<1>4. \A m \in sent' : m.id = q.id /\ m.to = c
    BY <1>2
<1>5. \A s : Live(s.id)' <=> Live(s.id)
    BY <1>1 DEF Live
<1>. QED
    BY <1>1, <1>3, <1>4, <1>5 DEF SentAsTold

(* Every step sends as told.                                                *)
LEMMA NextSent == IInv /\ SentAsTold /\ [Next]_vars => SentAsTold'
<1> SUFFICES ASSUME IInv, SentAsTold, [Next]_vars PROVE SentAsTold'
    OBVIOUS
<1>1. CASE sent' = {}
    BY <1>1 DEF SentAsTold
<1>2. ASSUME NEW s \in sending, send_enqueue(s) PROVE SentAsTold'
    BY <1>2, EnqueueAsTold
<1>3. ASSUME NEW x \in answering, answer_enqueue(x) PROVE SentAsTold'
  <2>1. \A m \in sent' : "id" \notin DOMAIN m
    BY <1>3 DEF answer_enqueue
  <2>. QED
    BY <2>1 DEF SentAsTold
<1>4. CASE UNCHANGED vars
    BY <1>4 DEF SentAsTold, Live, vars
<1>. QED
    BY <1>1, <1>2, <1>3, <1>4
    DEF Next, on_new_connection, on_recv_notify, send_lookup, send_find, answer_lookup, answer_find

(* While a subscriber id stands for a connection, that is the one            *)
(* onSubscribe named for it and the one every message under it goes to,      *)
(* however the lookups of the sends interleave with the status thread.       *)
THEOREM Addressee == Spec => []AddresseeAsTold
<1>1. Init => SentAsTold
    BY DEF Init, SentAsTold
<1>2. IInv /\ SentAsTold => AddresseeAsTold
    BY DEF IInv, IdsAsTold, SentAsTold, AddresseeAsTold
<1>. QED
    BY <1>1, <1>2, SpecIInv, NextSent, PTL DEF Spec

(* Without reuse of connection ids, each entry of a connection that is up   *)
(* can be reached through subscribe_id_state.                               *)
THEOREM Reachability == Spec => []ReachableWhileUp
<1>1. IInv => ReachableWhileUp
    BY DEF IInv
<1>. QED
    BY <1>1, SpecIInv, PTL

(* What a step may do to subscribe_id_state: nothing, add the next id, add   *)
(* an id with context 0, or erase ids of a connection that unsubscribes or   *)
(* disconnects, those of context 0 among them.                               *)
LEMMA IdStateStep ==
    ASSUME IInv, Next
    PROVE  \/ UNCHANGED subscribe_id_state
           \/ \E c : subscribe_id_state' = Put(subscribe_id_state, subscriber_id, c)
           \/ \E i : subscribe_id_state' = Put(subscribe_id_state, i, None)
           \/ \E K : /\ subscribe_id_state' = EraseKeys(subscribe_id_state, K)
                     /\ \A id \in DOMAIN subscribe_id_state \cap K :
                          LET c == subscribe_id_state[id]
                          IN  \/ c = None
                              \/ conn[c] = "up" /\ conn'[c] = "down"
                              \/ handling # None /\ handling.found /\ handling.ctx = c
<1>1. CASE handle_subscribe
    BY <1>1 DEF handle_subscribe, FreshId
<1>2. CASE handle_unsubscribe
  <2> DEFINE c == handling.ctx
             id == subscribe_state[NameOf[handling.msg.ns]].subs[c]
  <2>1. /\ Has(subscribe_state, NameOf[handling.msg.ns], c)
        /\ subscribe_id_state' = EraseKeys(subscribe_id_state, {id})
    BY <1>2, UnsubscribeFacts
  <2>2. handling # None /\ handling.found
    BY <1>2 DEF handle_unsubscribe
  <2>3. id \in DOMAIN subscribe_id_state =>
            subscribe_id_state[id] = None \/ subscribe_id_state[id] = c
    BY <2>1, IdentifiedIff DEF IInv, Identified, LiveIn
  <2>4. \A i \in DOMAIN subscribe_id_state \cap {id} :
            subscribe_id_state[i] = None \/ handling.ctx = subscribe_id_state[i]
    BY <2>3
  <2> HIDE DEF id, c
  <2>. QED
    BY <2>1, <2>2, <2>4
<1>3. ASSUME NEW c \in Context, on_disconnected(c)
      PROVE  \E K : /\ subscribe_id_state' = EraseKeys(subscribe_id_state, K)
                    /\ \A id \in DOMAIN subscribe_id_state \cap K :
                         \/ subscribe_id_state[id] = None
                         \/ /\ conn[subscribe_id_state[id]] = "up"
                            /\ conn'[subscribe_id_state[id]] = "down"
  <2>1. subscribe_id_state' = EraseKeys(subscribe_id_state, IdsOf(subscribe_state, c))
    BY <1>3 DEF on_disconnected
  <2>2. conn[c] = "up" /\ conn'[c] = "down"
    BY <1>3 DEF on_disconnected, IInv, TypeOK
  <2>3. \A id \in DOMAIN subscribe_id_state \cap IdsOf(subscribe_state, c) :
            subscribe_id_state[id] = None \/ subscribe_id_state[id] = c
    BY IdentifiedIff DEF IInv, Identified, IdsOf, KeysOf, Has, LiveIn
  <2>. QED
    BY <2>1, <2>2, <2>3
<1>4. CASE \/ \E c \in Context : on_new_connection(c)
           \/ \E c \in Context, m \in Message : on_recv_notify(c, m)
           \/ IgnoreMessage \/ handle_unsubscribe_check \/ handle_publish
           \/ handle_publish_intent \/ handle_publish_intent_end
           \/ \E m \in SubscriberMessage, s \in told : send_lookup(m, s.id)
           \/ \E s \in sending : send_enqueue(s)
           \/ \E n \in Namespace : answer_lookup(n)
           \/ \E x \in answering : answer_find(x) \/ answer_enqueue(x)
    BY <1>4
    DEF on_new_connection, on_recv_notify, IgnoreMessage, handle_unsubscribe_check,
        handle_publish, handle_publish_intent, PublishIntentHandled,
        handle_publish_intent_end, send_lookup, send_enqueue, answer_lookup, answer_find,
        answer_enqueue, subVars
<1>5. ASSUME NEW s \in sending, send_find(s)
      PROVE  \/ UNCHANGED subscribe_id_state
             \/ \E i : subscribe_id_state' = Put(subscribe_id_state, i, None)
    BY <1>5 DEF send_find
<1>. QED
    BY <1>1, <1>2, <1>3, <1>4, <1>5 DEF Next, Handle

(* An id that stands for a connection is dropped only by that connection.  *)
THEOREM OnlyOwnIds == Spec => OnlyOwnIdsErased
<1>1. IInv /\ [Next]_vars =>
        [\A id \in DOMAIN subscribe_id_state \ DOMAIN subscribe_id_state' :
          LET c == subscribe_id_state[id]
          IN  \/ c = None
              \/ conn[c] = "up" /\ conn'[c] = "down"
              \/ handling # None /\ handling.found /\ handling.ctx = c]_vars
  <2> SUFFICES ASSUME IInv, Next,
                      NEW id \in DOMAIN subscribe_id_state \ DOMAIN subscribe_id_state'
               PROVE  LET c == subscribe_id_state[id]
                      IN  \/ c = None
                          \/ conn[c] = "up" /\ conn'[c] = "down"
                          \/ handling # None /\ handling.found /\ handling.ctx = c
    OBVIOUS
  <2>1. \A i, c : DOMAIN Put(subscribe_id_state, i, c) = DOMAIN subscribe_id_state \cup {i}
    BY DEF Put
  <2>2. \A K : DOMAIN EraseKeys(subscribe_id_state, K) = DOMAIN subscribe_id_state \ K
    BY DEF EraseKeys, Restrict
  <2>3. ~UNCHANGED subscribe_id_state
    OBVIOUS
  <2>4. ASSUME NEW i, NEW c, subscribe_id_state' = Put(subscribe_id_state, i, c)
        PROVE  FALSE
    <3>1. DOMAIN subscribe_id_state' = DOMAIN subscribe_id_state \cup {i}
      BY <2>1, <2>4
    <3>. QED
      BY <3>1
  <2>5. PICK K : /\ subscribe_id_state' = EraseKeys(subscribe_id_state, K)
                 /\ \A j \in DOMAIN subscribe_id_state \cap K :
                      LET c == subscribe_id_state[j]
                      IN  \/ c = None
                          \/ conn[c] = "up" /\ conn'[c] = "down"
                          \/ handling # None /\ handling.found /\ handling.ctx = c
    BY <2>3, <2>4, IdStateStep, Zenon
  <2>. QED
    BY <2>2, <2>5
<1>. QED
    BY <1>1, SpecIInv, PTL DEF Spec, OnlyOwnIdsErased

(* No id comes back to stand for a connection, and none changes hands.     *)
THEOREM NoReturn == Spec => IdsNeverReturn
<1>1. IInv /\ [Next]_vars =>
        [\A id \in DOMAIN subscribe_id_state' :
          \/ subscribe_id_state'[id] = None
          \/ id >= subscriber_id
          \/ /\ id \in DOMAIN subscribe_id_state
             /\ subscribe_id_state'[id] = subscribe_id_state[id]]_vars
  <2> SUFFICES ASSUME IInv, Next, NEW id \in DOMAIN subscribe_id_state'
               PROVE  \/ subscribe_id_state'[id] = None
                      \/ id >= subscriber_id
                      \/ /\ id \in DOMAIN subscribe_id_state
                         /\ subscribe_id_state'[id] = subscribe_id_state[id]
    OBVIOUS
  <2>0. subscriber_id \in Nat
    BY BoundAssumption DEF IInv, TypeOK, Id
  <2>1. ASSUME NEW c, subscribe_id_state' = Put(subscribe_id_state, subscriber_id, c)
        PROVE  \/ id = subscriber_id
               \/ /\ id \in DOMAIN subscribe_id_state
                  /\ subscribe_id_state'[id] = subscribe_id_state[id]
    BY <2>1 DEF Put
  <2>2. ASSUME NEW K, subscribe_id_state' = EraseKeys(subscribe_id_state, K)
        PROVE  /\ id \in DOMAIN subscribe_id_state
               /\ subscribe_id_state'[id] = subscribe_id_state[id]
    BY <2>2 DEF EraseKeys, Restrict
  <2>3. ASSUME NEW i, subscribe_id_state' = Put(subscribe_id_state, i, None)
        PROVE  \/ subscribe_id_state'[id] = None
               \/ /\ id \in DOMAIN subscribe_id_state
                  /\ subscribe_id_state'[id] = subscribe_id_state[id]
    BY <2>3 DEF Put
  <2>. QED
    BY <2>0, <2>1, <2>2, <2>3, IdStateStep
<1>. QED
    BY <1>1, SpecIInv, PTL DEF Spec, IdsNeverReturn

----------------------------------------------------------------------------
(* Publishing.  The map of announced namespaces is keyed by the masked name *)
(* of the namespace it stores, so without collisions the key tells which    *)
(* namespace an ending intent takes out.                                    *)

KeyedByName ==
    \A k \in DOMAIN publish_namespaces : NameOf[publish_namespaces[k].ns] = k

PubInv == IInv /\ KeyedByName /\ PublishedNamesCovered

(* Nothing is announced or published at the start.                          *)
LEMMA InitPubInv == Init => PubInv
<1> SUFFICES ASSUME Init PROVE PubInv
    OBVIOUS
<1>1. DOMAIN publish_namespaces = {} /\ DOMAIN publish_state = {}
    BY DEF Init, EmptyMap
<1>. QED
    BY <1>1, InitIInv DEF PubInv, KeyedByName, PublishedNamesCovered

(* Where the announced namespaces only grow and keep what they store, what *)
(* was accepted stays accepted.                                            *)
LEMMA GrowingIntents ==
    ASSUME KeyedByName, NEW pn,
           DOMAIN publish_namespaces \subseteq DOMAIN pn,
           \A k \in DOMAIN publish_namespaces : pn[k].ns = publish_namespaces[k].ns,
           \A k \in DOMAIN pn \ DOMAIN publish_namespaces : NameOf[pn[k].ns] = k,
           publish_namespaces' = pn
    PROVE  /\ KeyedByName'
           /\ \A nm : Accepting(nm) => Accepting(nm)'
BY DEF KeyedByName, Accepting

(* Every step preserves the invariant of publishing.                        *)
LEMMA NextPubInv == PubInv /\ [Next]_vars => PubInv'
<1> SUFFICES ASSUME PubInv, [Next]_vars
             PROVE  KeyedByName' /\ PublishedNamesCovered'
    BY NextIInv DEF PubInv
<1>0. IInv /\ KeyedByName /\ PublishedNamesCovered
    BY DEF PubInv
<1>1. CASE UNCHANGED <<publish_state, publish_namespaces>>
    BY <1>0, <1>1 DEF KeyedByName, PublishedNamesCovered, Accepting
<1>2. CASE handle_publish
  <2>1. publish_namespaces' = publish_namespaces
    BY <1>2 DEF handle_publish
  <2>2. \A nm \in DOMAIN publish_state' : nm \in DOMAIN publish_state \/ Accepting(nm)
    BY <1>2 DEF handle_publish, Put
  <2>. QED
    BY <1>0, <2>1, <2>2 DEF KeyedByName, PublishedNamesCovered, Accepting
<1>3. CASE handle_publish_intent
  <2> DEFINE n == handling.msg.ns
             pn == AddIntent(publish_namespaces, n, handling.ctx)
  <2>1. publish_namespaces' = pn /\ publish_state' = publish_state
    BY <1>3 DEF handle_publish_intent, PublishIntentHandled
  <2>2. /\ DOMAIN publish_namespaces \subseteq DOMAIN pn
        /\ \A k \in DOMAIN publish_namespaces : pn[k].ns = publish_namespaces[k].ns
        /\ \A k \in DOMAIN pn \ DOMAIN publish_namespaces : NameOf[pn[k].ns] = k
    BY DEF AddIntent, Put
  <2> HIDE DEF pn
  <2>3. KeyedByName' /\ \A nm : Accepting(nm) => Accepting(nm)'
    BY <1>0, <2>1, <2>2, GrowingIntents
  <2>. QED
    BY <1>0, <2>1, <2>3 DEF PublishedNamesCovered
<1>4. ASSUME NEW x \in answering, answer_find(x) \/ answer_enqueue(x)
      PROVE  KeyedByName' /\ PublishedNamesCovered'
  <2>1. /\ DOMAIN publish_namespaces \subseteq DOMAIN publish_namespaces'
        /\ \A k \in DOMAIN publish_namespaces :
              publish_namespaces'[k].ns = publish_namespaces[k].ns
        /\ \A k \in DOMAIN publish_namespaces' \ DOMAIN publish_namespaces :
              NameOf[publish_namespaces'[k].ns] = k
        /\ publish_state' = publish_state
    <3>1. CASE answer_find(x)
      <4>1. /\ DOMAIN publish_namespaces' = DOMAIN publish_namespaces \cup {NameOf[x.ns]}
            /\ \A k \in DOMAIN publish_namespaces :
                  publish_namespaces'[k] = publish_namespaces[k]
            /\ NameOf[x.ns] \notin DOMAIN publish_namespaces =>
                  publish_namespaces'[NameOf[x.ns]].ns = x.ns
            /\ publish_state' = publish_state
        BY <1>0, <3>1, AnswerFindFacts
      <4>. QED
        BY <4>1
    <3>2. CASE answer_enqueue(x)
      <4>1. /\ DOMAIN publish_namespaces' = DOMAIN publish_namespaces
            /\ \A k \in DOMAIN publish_namespaces :
                  publish_namespaces'[k].ns = publish_namespaces[k].ns
            /\ publish_state' = publish_state
        BY <1>0, <3>2, AnswerEnqueueFacts
      <4>. QED
        BY <4>1
    <3>. QED
      BY <1>4, <3>1, <3>2
  <2>2. KeyedByName' /\ \A nm : Accepting(nm) => Accepting(nm)'
    BY <1>0, <2>1, GrowingIntents
  <2>. QED
    BY <1>0, <2>1, <2>2 DEF PublishedNamesCovered
<1>5. CASE handle_publish_intent_end /\ ~UNCHANGED <<publish_state, publish_namespaces>>
  <2> DEFINE n == handling.msg.ns
  <2>1. /\ NameOf[n] \in DOMAIN publish_namespaces
        /\ publish_namespaces' = EraseKeys(publish_namespaces, {NameOf[n]})
        /\ publish_state' = EraseKeys(publish_state, Covers[n])
    BY <1>5 DEF handle_publish_intent_end, EndedNames
  <2>2. /\ DOMAIN publish_namespaces' = DOMAIN publish_namespaces \ {NameOf[n]}
        /\ \A k \in DOMAIN publish_namespaces' :
              publish_namespaces'[k] = publish_namespaces[k]
        /\ DOMAIN publish_state' = DOMAIN publish_state \ Covers[n]
    BY <2>1 DEF EraseKeys, Restrict
  <2>3. KeyedByName'
    BY <1>0, <2>2 DEF KeyedByName
  <2>4. n \in Namespace
    BY <1>0, <1>5, HandlingFacts, MessageFacts
    DEF IInv, handle_publish_intent_end, Dispatching
  <2>5. ASSUME DistinctKeys, NEW nm \in DOMAIN publish_state'
        PROVE  Accepting(nm)'
    <3>1. PICK k \in DOMAIN publish_namespaces : nm \in Covers[publish_namespaces[k].ns]
        BY <1>0, <2>2, <2>5 DEF PublishedNamesCovered, Accepting
    <3>2. publish_namespaces[k].ns \in Namespace
        BY <1>0 DEF IInv, TypeOK
    <3>3. k # NameOf[n]
      <4>1. SUFFICES ASSUME k = NameOf[n] PROVE FALSE
        OBVIOUS
      <4>2. NameOf[publish_namespaces[k].ns] = NameOf[n]
        BY <1>0, <4>1 DEF KeyedByName
      <4>3. publish_namespaces[k].ns = n
        BY <2>4, <2>5, <3>2, <4>2, NamespaceAssumption DEF DistinctKeys, IsInjective
      <4>. QED
        BY <2>2, <3>1, <4>3
    <3>. QED
        BY <2>2, <3>1, <3>3 DEF Accepting
  <2>. QED
    BY <2>3, <2>5 DEF PublishedNamesCovered
<1>6. CASE \/ \E c \in Context : on_new_connection(c)
           \/ \E c \in Context, m \in Message : on_recv_notify(c, m)
           \/ IgnoreMessage \/ handle_subscribe
           \/ handle_unsubscribe_check \/ handle_unsubscribe
           \/ \E c \in Context : on_disconnected(c)
           \/ \E m \in SubscriberMessage, s \in told : send_lookup(m, s.id)
           \/ \E s \in sending : send_find(s) \/ send_enqueue(s)
           \/ \E n \in Namespace : answer_lookup(n)
           \/ UNCHANGED vars
  <2>1. UNCHANGED <<publish_state, publish_namespaces>>
    BY <1>6
    DEF on_new_connection, on_recv_notify, IgnoreMessage, handle_unsubscribe_check,
        handle_subscribe, handle_unsubscribe, on_disconnected, send_lookup, send_find,
        send_enqueue, answer_lookup, vars, pubVars
  <2>. QED
    BY <1>1, <2>1
<1>. QED
    BY <1>1, <1>2, <1>3, <1>4, <1>5, <1>6 DEF Next, Handle

(* A name keeps a publisher only while a namespace that contains it is     *)
(* announced, if no two namespaces share a masked name.                    *)
THEOREM NamesCovered == Spec => []PublishedNamesCovered
<1>1. PubInv => PublishedNamesCovered
    BY DEF PubInv
<1>. QED
    BY <1>1, InitPubInv, NextPubInv, PTL DEF Spec
=============================================================================
