------------------------- MODULE QuicRClientProofs -------------------------
(***************************************************************************)
(* Proofs about QuicRClient, for any set of names, namespaces (colliding   *)
(* keys included), delegates and kinds of traffic: its types, the two      *)
(* invariants about registrations, and that it implements Subscriber.      *)
(***************************************************************************)
EXTENDS QuicRClient, MapTheorems

RegRec == [ns : Namespace, d : Delegate \cup {None}]
LiveRec == [key : Name, d : Delegate, link : {"up", "down"}, leaving : BOOLEAN]

(* The maps of registrations, as members of a PartialFn.                   *)
MapTypes ==
    /\ sub_delegates \in PartialFn(Name, RegRec)
    /\ subscribe_state \in PartialFn(Name, Namespace)
    /\ pub_delegates \in PartialFn(Name, RegRec)
    /\ live \subseteq LiveRec

(* The other variables.                                                    *)
OtherTypes ==
    /\ phase \in {"connecting", "ready", "failed", "closing", "resetting", "gone",
                 "crashed"}
    /\ client_status \in Status
    /\ link \in {"up", "down"}
    /\ alive \subseteq Delegate
    /\ sweep \in [Thread -> SUBSET Namespace]
    /\ handling \in Handling \cup {None}

(* TypeOK in these two parts ...                                           *)
LEMMA TypeOKIff == TypeOK <=> MapTypes /\ OtherTypes
BY PartialFnDomain DEF TypeOK, MapTypes, OtherTypes, RegRec, LiveRec

(* ... and in the next state.                                              *)
LEMMA TypeOKIffPrime == TypeOK' <=> MapTypes' /\ OtherTypes'
BY PartialFnDomain DEF TypeOK, MapTypes, OtherTypes, RegRec, LiveRec

(* A message about a namespace carries one, and an object has a name.      *)
LEMMA IncomingFacts ==
    ASSUME NEW m \in Incoming
    PROVE  /\ m.type \in {"SubscribeResponse", "SubscribeEnd", "PublishIntentResponse"}
                => m.ns \in Namespace
           /\ m.type = "Publish" => m.name \in Name
BY DEF Incoming

(* What a receive thread at work has in its hands.                         *)
LEMMA HandlingFacts ==
    ASSUME TypeOK, handling # None
    PROVE  /\ handling \in Handling
           /\ handling.msg \in Incoming
           /\ handling.visited \subseteq Name
           /\ handling.found \in Namespace \cup {None}
           /\ handling.held \in Held \cup {None}
BY DEF TypeOK, Handling

----------------------------------------------------------------------------
(* The inductive invariant.                                                *)

(* A subscription is stored under the masked name of its namespace, so the  *)
(* removal of the namespace finds it.                                       *)
StateKeyed ==
    \A k \in DOMAIN subscribe_state : NameOf[subscribe_state[k]] = k

(* A registration, the empty ones included, is under the key of its         *)
(* namespace: what the loop of an object finds is what it looks up.         *)
DelegatesKeyed ==
    \A k \in DOMAIN sub_delegates : NameOf[sub_delegates[k].ns] = k

(* Whoever did not ask for the end of its registration has a subscription:  *)
(* a removal of all collects it.                                            *)
StayingIsSubscribed ==
    \A r \in live : ~r.leaving => r.key \in DOMAIN subscribe_state

(* After a disconnect, a registration from before it that the application   *)
(* did not give up is still on the list of the removal.                     *)
SweepHasTheRest ==
    link = "down" =>
        \A r \in live :
            \/ r.link = "down"
            \/ r.leaving
            \/ \E n \in sweep["status"] : NameOf[n] = r.key

(* Only responses and objects are looked up and handed to a delegate, one   *)
(* registration at a time.                                                  *)
HeldForCallback ==
    handling # None =>
        /\ handling.found # None \/ handling.held # None =>
              handling.msg.type \in DelegateCallbacks
        /\ handling.found # None => handling.held = None

RegInv ==
    /\ SubscribedHasDelegate
    /\ StateKeyed
    /\ DelegatesKeyed
    /\ StayingIsSubscribed
    /\ SweepHasTheRest

IInv == TypeOK /\ RegInv /\ HeldForCallback

(* Nothing is registered at the start.                                     *)
LEMMA InitIInv == Init => IInv
<1> SUFFICES ASSUME Init PROVE IInv
    OBVIOUS
<1>1. /\ DOMAIN subscribe_state = {} /\ DOMAIN sub_delegates = {}
      /\ live = {} /\ handling = None
    BY DEF Init, EmptyMap
<1>2. MapTypes
    BY EmptyPartial DEF Init, MapTypes
<1>3. OtherTypes
    BY DEF Init, OtherTypes, Thread, Status
<1>. QED
    BY <1>1, <1>2, <1>3, TypeOKIff
    DEF IInv, RegInv, SubscribedHasDelegate, StateKeyed, DelegatesKeyed,
        StayingIsSubscribed, SweepHasTheRest, HeldForCallback

----------------------------------------------------------------------------
(* Each operation preserves the invariant of the registrations.            *)

(* subscribe: a first registration is noted in both maps; a repeated one   *)
(* takes back what the application had asked for.                          *)
LEMMA SubscribeStep ==
    ASSUME IInv, NEW d \in Delegate, NEW n \in Namespace, subscribe(d, n)
    PROVE  MapTypes' /\ RegInv'
<1> DEFINE k == NameOf[n]
           new == [key |-> k, d |-> d, link |-> link, leaving |-> FALSE]
<1>1. /\ k \in Name
      /\ MapTypes /\ OtherTypes /\ RegInv
    BY ClientNamespaceAssumption, TypeOKIff DEF IInv
<1>2. UNCHANGED <<link, sweep, pub_delegates>>
    BY DEF subscribe
<1>3. /\ sub_delegates' \in PartialFn(Name, RegRec)
      /\ DOMAIN sub_delegates' = DOMAIN sub_delegates \cup {k}
      /\ \A x \in DOMAIN sub_delegates : sub_delegates'[x] = sub_delegates[x]
      /\ k \notin DOMAIN sub_delegates => sub_delegates'[k].ns = n
  <2> DEFINE reg == [ns |-> n, d |-> d]
  <2>1. reg \in RegRec /\ reg.ns = n
    BY DEF RegRec
  <2>2. sub_delegates' = IF k \notin DOMAIN sub_delegates THEN Put(sub_delegates, k, reg)
                         ELSE sub_delegates
    BY DEF subscribe
  <2> HIDE DEF reg
  <2>3. Put(sub_delegates, k, reg) \in PartialFn(Name, RegRec)
    BY <1>1, <2>1, PutPartial DEF MapTypes
  <2>4. /\ DOMAIN Put(sub_delegates, k, reg) = DOMAIN sub_delegates \cup {k}
        /\ Put(sub_delegates, k, reg)[k] = reg
        /\ \A x \in DOMAIN sub_delegates \ {k} :
              Put(sub_delegates, k, reg)[x] = sub_delegates[x]
    BY DEF Put
  <2> HIDE DEF k
  <2>. QED
    BY <1>1, <2>1, <2>2, <2>3, <2>4 DEF MapTypes
<1>4. /\ subscribe_state' \in PartialFn(Name, Namespace)
      /\ DOMAIN subscribe_state' = DOMAIN subscribe_state \cup {k}
      /\ \A x \in DOMAIN subscribe_state : subscribe_state'[x] = subscribe_state[x]
      /\ k \notin DOMAIN subscribe_state => subscribe_state'[k] = n
  <2>1. subscribe_state' = IF k \in DOMAIN subscribe_state THEN subscribe_state
                           ELSE Put(subscribe_state, k, n)
    BY DEF subscribe
  <2>2. Put(subscribe_state, k, n) \in PartialFn(Name, Namespace)
    BY <1>1, PutPartial DEF MapTypes
  <2>3. /\ DOMAIN Put(subscribe_state, k, n) = DOMAIN subscribe_state \cup {k}
        /\ Put(subscribe_state, k, n)[k] = n
        /\ \A x \in DOMAIN subscribe_state \ {k} :
              Put(subscribe_state, k, n)[x] = subscribe_state[x]
    BY DEF Put
  <2> HIDE DEF k
  <2>. QED
    BY <1>1, <2>1, <2>2, <2>3 DEF MapTypes
<1>5. /\ live' \subseteq LiveRec
      /\ \A r \in live' : \/ r \in live /\ (r.key # k \/ k \notin DOMAIN sub_delegates)
                          \/ r.key = k /\ r.link = link
  <2>1. new \in LiveRec
    BY <1>1 DEF LiveRec, OtherTypes
  <2>2. CASE k \notin DOMAIN sub_delegates
    <3>1. live' = live \cup {new}
      BY <2>2 DEF subscribe
    <3>2. new.key = k /\ new.link = link
      OBVIOUS
    <3> HIDE DEF new, k
    <3>. QED
      BY <1>1, <2>1, <2>2, <3>1, <3>2 DEF MapTypes
  <2>3. CASE k \in DOMAIN sub_delegates
    <3>1. live' = {IF r.key = k THEN [r EXCEPT !.leaving = FALSE, !.link = link] ELSE r :
                     r \in live}
      BY <2>3 DEF subscribe, Staying
    <3>2. \A r \in live : /\ [r EXCEPT !.leaving = FALSE, !.link = link] \in LiveRec
                          /\ [r EXCEPT !.leaving = FALSE, !.link = link].key = r.key
                          /\ [r EXCEPT !.leaving = FALSE, !.link = link].link = link
      BY <1>1 DEF MapTypes, OtherTypes, LiveRec
    <3>. QED
      BY <1>1, <3>1, <3>2 DEF MapTypes
  <2>. QED
    BY <2>2, <2>3
<1>6. MapTypes'
    BY <1>1, <1>2, <1>3, <1>4, <1>5 DEF MapTypes
<1>7. SubscribedHasDelegate' /\ StateKeyed' /\ DelegatesKeyed'
    BY <1>1, <1>3, <1>4 DEF RegInv, SubscribedHasDelegate, StateKeyed, DelegatesKeyed
<1>8. StayingIsSubscribed'
    BY <1>1, <1>4, <1>5 DEF RegInv, StayingIsSubscribed
<1>9. SweepHasTheRest'
    BY <1>1, <1>2, <1>5 DEF RegInv, SweepHasTheRest
<1>. QED
    BY <1>6, <1>7, <1>8, <1>9 DEF RegInv

(* unsubscribe: the subscription goes, the registration is marked.         *)
LEMMA UnsubscribeStep ==
    ASSUME IInv, NEW n \in Namespace, unsubscribe(n)
    PROVE  MapTypes' /\ RegInv'
<1> DEFINE k == NameOf[n]
<1>1. MapTypes /\ OtherTypes /\ RegInv
    BY TypeOKIff DEF IInv
<1>2. /\ UNCHANGED <<link, sweep, sub_delegates, pub_delegates>>
      /\ subscribe_state' = EraseKeys(subscribe_state, {k})
      /\ live' = {IF r.key = k THEN [r EXCEPT !.leaving = TRUE] ELSE r : r \in live}
    BY DEF unsubscribe, Leaving
<1>3. /\ subscribe_state' \in PartialFn(Name, Namespace)
      /\ DOMAIN subscribe_state' = DOMAIN subscribe_state \ {k}
      /\ \A x \in DOMAIN subscribe_state' : subscribe_state'[x] = subscribe_state[x]
  <2>1. subscribe_state' \in PartialFn(Name, Namespace)
    BY <1>1, <1>2, ErasePartial DEF MapTypes
  <2>. QED
    BY <1>2, <2>1 DEF EraseKeys, Restrict
<1>4. /\ live' \subseteq LiveRec
      /\ \A r \in live' : r.leaving \/ (r \in live /\ r.key # k)
  <2>1. \A r \in live : /\ [r EXCEPT !.leaving = TRUE] \in LiveRec
                        /\ [r EXCEPT !.leaving = TRUE].leaving
    BY <1>1 DEF MapTypes, LiveRec
  <2>. QED
    BY <1>1, <1>2, <2>1 DEF MapTypes
<1>5. MapTypes'
    BY <1>1, <1>2, <1>3, <1>4 DEF MapTypes
<1>6. SubscribedHasDelegate' /\ StateKeyed' /\ DelegatesKeyed' /\ StayingIsSubscribed'
    BY <1>1, <1>2, <1>3, <1>4
    DEF RegInv, SubscribedHasDelegate, StateKeyed, DelegatesKeyed, StayingIsSubscribed
<1>7. SweepHasTheRest'
    BY <1>1, <1>2, <1>4 DEF RegInv, SweepHasTheRest
<1>. QED
    BY <1>5, <1>6, <1>7 DEF RegInv

(* What the removal of one namespace does, whoever asks for it.            *)
LEMMA RemoveFacts ==
    ASSUME IInv, NEW n, removeSubscribeState(n)
    PROVE  /\ sub_delegates' \in PartialFn(Name, RegRec)
           /\ subscribe_state' \in PartialFn(Name, Namespace)
           /\ live' \subseteq LiveRec
           /\ SubscribedHasDelegate' /\ StateKeyed' /\ DelegatesKeyed'
           /\ StayingIsSubscribed'
<1> DEFINE k == NameOf[n]
<1>1. MapTypes /\ RegInv
    BY TypeOKIff DEF IInv
<1>2. /\ sub_delegates' = EraseKeys(sub_delegates, {k})
      /\ subscribe_state' = EraseKeys(subscribe_state, {k})
      /\ live' = {r \in live : r.key # k}
    BY DEF removeSubscribeState
<1>3. /\ sub_delegates' \in PartialFn(Name, RegRec)
      /\ subscribe_state' \in PartialFn(Name, Namespace)
    BY <1>1, <1>2, ErasePartial DEF MapTypes
<1>4. /\ DOMAIN sub_delegates' = DOMAIN sub_delegates \ {k}
      /\ DOMAIN subscribe_state' = DOMAIN subscribe_state \ {k}
      /\ \A x \in DOMAIN sub_delegates' : sub_delegates'[x] = sub_delegates[x]
      /\ \A x \in DOMAIN subscribe_state' : subscribe_state'[x] = subscribe_state[x]
    BY <1>2 DEF EraseKeys, Restrict
<1> HIDE DEF k
<1>. QED
    BY <1>1, <1>2, <1>3, <1>4
    DEF MapTypes, RegInv, SubscribedHasDelegate, StateKeyed, DelegatesKeyed,
    StayingIsSubscribed

(* A step of a removal of all: what it takes off the list, it has removed. *)
LEMMA SweepStep ==
    ASSUME IInv, NEW t \in Thread, sweepStep(t)
    PROVE  MapTypes' /\ RegInv' /\ sweep' \in [Thread -> SUBSET Namespace]
<1>1. PICK n \in sweep[t] : /\ removeSubscribeState(n)
                            /\ sweep' = [sweep EXCEPT ![t] = @ \ {n}]
    BY DEF sweepStep
<1>2. UNCHANGED <<link, pub_delegates>>
    BY DEF sweepStep
<1>3. MapTypes /\ OtherTypes /\ RegInv
    BY TypeOKIff DEF IInv
<1>4. sweep' \in [Thread -> SUBSET Namespace]
    BY <1>1, <1>3 DEF OtherTypes
<1>5. \A x \in sweep["status"] : x = n \/ x \in sweep'["status"]
    BY <1>1, <1>3 DEF OtherTypes, Thread
<1>6. live' = {r \in live : r.key # NameOf[n]}
    BY <1>1 DEF removeSubscribeState
<1>7. SweepHasTheRest'
    BY <1>2, <1>3, <1>5, <1>6 DEF RegInv, SweepHasTheRest
<1>. QED
    BY <1>1, <1>2, <1>3, <1>4, <1>7, RemoveFacts DEF MapTypes, RegInv

(* A SubscribeEnd.                                                         *)
LEMMA SubscribeEndStep ==
    ASSUME IInv, handle_subscribe_end
    PROVE  MapTypes' /\ RegInv'
<1>1. /\ removeSubscribeState(handling.msg.ns)
      /\ UNCHANGED <<link, sweep, pub_delegates>>
    BY DEF handle_subscribe_end
<1>2. MapTypes /\ RegInv
    BY TypeOKIff DEF IInv
<1>3. live' \subseteq live
    BY <1>1 DEF removeSubscribeState
<1>4. SweepHasTheRest'
    BY <1>1, <1>2, <1>3 DEF RegInv, SweepHasTheRest
<1>. QED
    BY <1>1, <1>2, <1>4, RemoveFacts DEF MapTypes, RegInv

(* A disconnect puts on its list what was subscribed to at that moment.    *)
LEMMA DisconnectStep ==
    ASSUME IInv, on_disconnected
    PROVE  MapTypes' /\ RegInv' /\ sweep' \in [Thread -> SUBSET Namespace]
<1>1. /\ UNCHANGED <<pub_delegates, sub_delegates, subscribe_state, live>>
      /\ sweep' = [sweep EXCEPT !["status"] = Range(subscribe_state)]
    BY DEF on_disconnected, collect, regVars
<1>2. MapTypes /\ OtherTypes /\ RegInv
    BY TypeOKIff DEF IInv
<1>3. /\ Range(subscribe_state) \subseteq Namespace
      /\ \A k \in DOMAIN subscribe_state : subscribe_state[k] \in Range(subscribe_state)
    BY <1>2, PartialFnIff DEF MapTypes, Range
<1>4. /\ sweep' \in [Thread -> SUBSET Namespace]
      /\ sweep'["status"] = Range(subscribe_state)
    BY <1>1, <1>2, <1>3 DEF OtherTypes, Thread
<1>5. SweepHasTheRest'
    BY <1>1, <1>2, <1>3, <1>4 DEF RegInv, SweepHasTheRest, StayingIsSubscribed, StateKeyed
<1>. QED
    BY <1>1, <1>2, <1>4, <1>5
    DEF MapTypes, RegInv, SubscribedHasDelegate, StateKeyed, DelegatesKeyed,
    StayingIsSubscribed

(* The destructor makes a list of its own.                                 *)
LEMMA DestroyStep ==
    ASSUME IInv, destroy
    PROVE  MapTypes' /\ RegInv' /\ sweep' \in [Thread -> SUBSET Namespace]
<1>1. /\ UNCHANGED <<link, pub_delegates, sub_delegates, subscribe_state, live>>
      /\ sweep' = [sweep EXCEPT !["app"] = Range(subscribe_state)]
    BY DEF destroy, collect, regVars
<1>2. MapTypes /\ OtherTypes /\ RegInv
    BY TypeOKIff DEF IInv
<1>3. Range(subscribe_state) \subseteq Namespace
    BY <1>2, PartialFnIff DEF MapTypes, Range
<1>4. /\ sweep' \in [Thread -> SUBSET Namespace]
      /\ sweep'["status"] = sweep["status"]
    BY <1>1, <1>2, <1>3 DEF OtherTypes, Thread
<1>. QED
    BY <1>1, <1>2, <1>4
    DEF MapTypes, RegInv, SubscribedHasDelegate, StateKeyed, DelegatesKeyed,
    StayingIsSubscribed,
        SweepHasTheRest

(* A step that leaves registrations, link and lists alone.                 *)
LEMMA QuietStep ==
    ASSUME IInv, UNCHANGED <<regVars, link, sweep>>,
           pub_delegates' \in PartialFn(Name, RegRec)
    PROVE  MapTypes' /\ RegInv'
BY TypeOKIff
DEF IInv, regVars, MapTypes, RegInv, SubscribedHasDelegate, StateKeyed,
    DelegatesKeyed, StayingIsSubscribed, SweepHasTheRest

(* What operator[] finds or makes: an entry under the key of the namespace, *)
(* with a delegate or without.                                              *)
LEMMA EnteredFacts ==
    ASSUME NEW f \in PartialFn(Name, RegRec), NEW n \in Namespace
    PROVE  /\ NameOf[n] \in Name
           /\ Entered(f, n) \in PartialFn(Name, RegRec)
           /\ DOMAIN Entered(f, n) = DOMAIN f \cup {NameOf[n]}
           /\ \A x \in DOMAIN f : Entered(f, n)[x] = f[x]
           /\ NameOf[n] \notin DOMAIN f => /\ Entered(f, n)[NameOf[n]].ns = n
                                           /\ Entered(f, n)[NameOf[n]].d = None
                                           /\ Entered(f, n) =
                                                Put(f, NameOf[n], [ns |-> n, d |-> None])
           /\ NameOf[n] \in DOMAIN f => Entered(f, n) = f
           /\ Entered(f, n)[NameOf[n]].d \in Delegate \cup {None}
<1> DEFINE k == NameOf[n]
           reg == [ns |-> n, d |-> None]
<1>1. k \in Name
    BY ClientNamespaceAssumption
<1>2. reg \in RegRec /\ reg.ns = n /\ reg.d = None
    BY DEF RegRec
<1>3. Entered(f, n) = IF k \in DOMAIN f THEN f ELSE Put(f, k, reg)
    BY DEF Entered
<1> HIDE DEF k, reg
<1>4. Put(f, k, reg) \in PartialFn(Name, RegRec)
    BY <1>1, <1>2, PutPartial
<1>5. /\ DOMAIN Put(f, k, reg) = DOMAIN f \cup {k}
      /\ Put(f, k, reg)[k] = reg
      /\ \A x \in DOMAIN f \ {k} : Put(f, k, reg)[x] = f[x]
    BY DEF Put
<1>6. Entered(f, n) \in PartialFn(Name, RegRec) /\ k \in DOMAIN Entered(f, n)
    BY <1>3, <1>4, <1>5
<1>7. Entered(f, n)[k].d \in Delegate \cup {None}
  <2>1. Entered(f, n)[k] \in RegRec
    BY <1>6, PartialFnIff
  <2>. QED
    BY <2>1 DEF RegRec
<1>. QED
    BY <1>1, <1>2, <1>3, <1>4, <1>5, <1>6, <1>7 DEF k, reg

(* What a lookup finds is in the map, and is the key it will be looked up   *)
(* by.                                                                      *)
LEMMA LookupFacts ==
    ASSUME IInv, handle_lookup
    PROVE  /\ handling \in Handling /\ handling # None
           /\ handling.held = None /\ handling.found = None
           /\ handling.msg.type \in DelegateCallbacks
           /\ handling' \in Handling
           /\ handling'.msg = handling.msg
           /\ handling'.held = None
           /\ handling'.found \in Namespace
           /\ NameOf[handling'.found] \in DOMAIN Table(handling.msg)
           /\ NameOf[handling'.found] \in Name
<1>1. /\ handling # None /\ handling.msg.type \in DelegateCallbacks
      /\ handling.held = None /\ handling.found = None
    BY DEF handle_lookup, InHandle
<1>2. /\ handling \in Handling
      /\ handling.msg \in Incoming
    BY <1>1, HandlingFacts DEF IInv
<1>3. MapTypes /\ DelegatesKeyed
    BY TypeOKIff DEF IInv, RegInv
<1> DEFINE n(k) == IF handling.msg.type = "Publish" THEN sub_delegates[k].ns
                   ELSE handling.msg.ns
<1>4. PICK k \in Matches(handling.msg) :
          handling' = [handling EXCEPT !.visited = @ \cup {k}, !.found = n(k)]
    BY DEF handle_lookup
<1>5. k \in DOMAIN Table(handling.msg) /\ k \in Name
    BY <1>3, PartialFnIff DEF Matches, Table, MapTypes
<1>6. n(k) \in Namespace /\ NameOf[n(k)] = k
  <2>1. CASE handling.msg.type = "Publish"
    <3>1. k \in DOMAIN sub_delegates
      BY <1>5, <2>1 DEF Table
    <3>2. sub_delegates[k] \in RegRec
      BY <1>3, <3>1, PartialFnIff DEF MapTypes
    <3>. QED
      BY <1>3, <2>1, <3>1, <3>2 DEF RegRec, DelegatesKeyed
  <2>2. CASE handling.msg.type # "Publish"
    BY <1>1, <1>2, <2>2, IncomingFacts DEF DelegateCallbacks, Matches
  <2>. QED
    BY <2>1, <2>2
<1> HIDE DEF n
<1>7. /\ handling' \in Handling /\ handling'.msg = handling.msg
      /\ handling'.held = None /\ handling'.found = n(k)
    BY <1>1, <1>2, <1>4, <1>5, <1>6 DEF Handling
<1>. QED
    BY <1>1, <1>2, <1>5, <1>6, <1>7

(* The second lookup: the entry, made anew if need be, and its delegate, if *)
(* it can be locked.                                                        *)
LEMMA FindFacts ==
    ASSUME IInv, handle_find
    PROVE  /\ handling \in Handling /\ handling # None
           /\ handling.held = None /\ handling.found \in Namespace
           /\ handling.msg.type \in DelegateCallbacks
           /\ handling' \in Handling
           /\ handling'.msg = handling.msg
           /\ handling'.found = None
           /\ LET k == NameOf[handling.found]
                  after == Entered(Table(handling.msg), handling.found)
              IN  handling'.held = IF after[k].d \in alive
                                   THEN [key |-> k, d |-> after[k].d] ELSE None
<1> DEFINE k == NameOf[handling.found]
           after == Entered(Table(handling.msg), handling.found)
<1>1. /\ handling # None /\ handling.msg.type \in DelegateCallbacks
      /\ handling.found # None /\ handling.held = None
    BY DEF handle_find, InHandle, IInv, HeldForCallback
<1>2. /\ handling \in Handling
      /\ handling.found \in Namespace
    BY <1>1, HandlingFacts DEF IInv
<1>3. Table(handling.msg) \in PartialFn(Name, RegRec)
    BY TypeOKIff DEF IInv, MapTypes, Table
<1>4. k \in Name /\ after[k].d \in Delegate \cup {None}
    BY <1>2, <1>3, EnteredFacts
<1>5. None \notin alive /\ alive \subseteq Delegate
    BY ClientNoneAssumption DEF IInv, TypeOK
<1>6. handling' = [handling EXCEPT !.found = None, !.held = Locked(k, after[k].d)]
    BY DEF handle_find
<1> HIDE DEF k, after
<1>7. Locked(k, after[k].d) = IF after[k].d \in alive THEN [key |-> k, d |-> after[k].d]
                              ELSE None
    BY <1>1 DEF Locked, Lockable
<1>8. Locked(k, after[k].d) \in Held \cup {None}
    BY <1>4, <1>5, <1>7 DEF Held
<1>9. /\ handling' \in Handling /\ handling'.msg = handling.msg
      /\ handling'.found = None /\ handling'.held = Locked(k, after[k].d)
    BY <1>2, <1>6, <1>8 DEF Handling
<1>. QED
    BY <1>1, <1>2, <1>7, <1>9 DEF k, after

(* It keeps the registrations in order, an empty one included.              *)
LEMMA FindStep ==
    ASSUME IInv, handle_find
    PROVE  MapTypes' /\ RegInv'
<1> DEFINE n == handling.found
           after == Entered(Table(handling.msg), n)
<1>1. n \in Namespace
    BY FindFacts
<1>2. MapTypes /\ RegInv
    BY TypeOKIff DEF IInv
<1>3. UNCHANGED <<link, subscribe_state, live, sweep>>
    BY DEF handle_find
<1>4. CASE handling.msg.type = "PublishIntentResponse"
  <2>1. pub_delegates' = Entered(pub_delegates, n) /\ UNCHANGED sub_delegates
    BY <1>4 DEF handle_find, Table
  <2>2. pub_delegates' \in PartialFn(Name, RegRec)
    BY <1>1, <1>2, <2>1, EnteredFacts DEF MapTypes
  <2>. QED
    BY <1>3, <2>1, <2>2, QuietStep DEF regVars
<1>5. CASE handling.msg.type # "PublishIntentResponse"
  <2>1. sub_delegates' = Entered(sub_delegates, n) /\ UNCHANGED pub_delegates
    BY <1>5 DEF handle_find, Table
  <2>2. /\ sub_delegates' \in PartialFn(Name, RegRec)
        /\ DOMAIN sub_delegates' = DOMAIN sub_delegates \cup {NameOf[n]}
        /\ \A x \in DOMAIN sub_delegates : sub_delegates'[x] = sub_delegates[x]
        /\ NameOf[n] \notin DOMAIN sub_delegates => sub_delegates'[NameOf[n]].ns = n
    <3> DEFINE e == Entered(sub_delegates, n)
    <3>1. sub_delegates \in PartialFn(Name, RegRec)
      BY <1>2 DEF MapTypes
    <3>2. /\ e \in PartialFn(Name, RegRec)
          /\ DOMAIN e = DOMAIN sub_delegates \cup {NameOf[n]}
          /\ \A x \in DOMAIN sub_delegates : e[x] = sub_delegates[x]
          /\ NameOf[n] \notin DOMAIN sub_delegates => e[NameOf[n]].ns = n
      BY <1>1, <3>1, EnteredFacts
    <3> HIDE DEF e
    <3>. QED
      BY <2>1, <3>2 DEF e
  <2> HIDE DEF n
  <2>3. DelegatesKeyed' /\ SubscribedHasDelegate'
    BY <1>2, <1>3, <2>2 DEF RegInv, DelegatesKeyed, SubscribedHasDelegate
  <2>4. StateKeyed' /\ StayingIsSubscribed' /\ SweepHasTheRest'
    BY <1>2, <1>3 DEF RegInv, StateKeyed, StayingIsSubscribed, SweepHasTheRest
  <2>. QED
    BY <1>2, <1>3, <2>1, <2>2, <2>3, <2>4 DEF MapTypes, RegInv
<1>. QED
    BY <1>4, <1>5

(* The receive thread: what it takes up, looks up and hands over.          *)
LEMMA ReceiveTypes ==
    ASSUME IInv, (\E m \in Incoming : on_recv_notify(m)) \/ Receive
    PROVE  handling' \in Handling \cup {None} /\ HeldForCallback'
<1>1. MapTypes /\ OtherTypes /\ HeldForCallback
    BY TypeOKIff DEF IInv
<1>2. DOMAIN sub_delegates \subseteq Name /\ DOMAIN pub_delegates \subseteq Name
    BY <1>1, PartialFnIff DEF MapTypes
<1>3. ASSUME NEW m \in Incoming, on_recv_notify(m)
      PROVE  handling' \in Handling /\ handling'.held = None /\ handling'.found = None
  <2>1. DOMAIN Table(m) \subseteq Name
    BY <1>2 DEF Table
  <2>. QED
    BY <1>3, <2>1 DEF on_recv_notify, Handling
<1>4. CASE handle_lookup
    BY <1>4, LookupFacts DEF HeldForCallback
<1>5. CASE handle_find
  <2>1. /\ handling' \in Handling /\ handling'.found = None
        /\ handling'.msg.type \in DelegateCallbacks
    BY <1>5, FindFacts
  <2>. QED
    BY <2>1 DEF HeldForCallback
<1>6. CASE handle_callback
  <2>1. handling # None /\ handling.msg.type \in DelegateCallbacks /\ handling.held # None
    BY <1>6 DEF handle_callback, InHandle
  <2>2. handling \in Handling /\ handling.found = None
    BY <1>1, <2>1, HandlingFacts DEF IInv, HeldForCallback
  <2>3. PICK x \in {handling.data, "moved"} :
          handling' = [handling EXCEPT !.held = None, !.data = x]
    BY <1>6 DEF handle_callback
  <2>. QED
    BY <2>2, <2>3 DEF Handling, HeldForCallback
<1>7. CASE handle_race
    BY <1>1, <1>7 DEF handle_race, OtherTypes, HeldForCallback
<1>8. CASE handle_return \/ handle_subscribe_end \/ handle_other
    BY <1>8 DEF handle_return, handle_subscribe_end, handle_other, HeldForCallback
<1>. QED
    BY <1>3, <1>4, <1>5, <1>6, <1>7, <1>8 DEF Receive, HeldForCallback

(* Intents do not touch the subscriptions.                                 *)
LEMMA IntentStep ==
    ASSUME IInv, NEW n \in PubNamespace,
           (\E d \in Delegate : publishIntent(d, n)) \/ publishIntentEnd(n)
    PROVE  MapTypes' /\ RegInv'
<1>1. n \in Namespace /\ NameOf[n] \in Name
    BY ClientPubAssumption, ClientNamespaceAssumption
<1>2. pub_delegates \in PartialFn(Name, RegRec)
    BY TypeOKIff DEF IInv, MapTypes
<1>3. ASSUME NEW d \in Delegate, publishIntent(d, n)
      PROVE  pub_delegates' \in PartialFn(Name, RegRec)
  <2>1. [ns |-> n, d |-> d] \in RegRec
    BY <1>1 DEF RegRec
  <2>. QED
    BY <1>1, <1>2, <1>3, <2>1, PutPartial DEF publishIntent
<1>4. ASSUME publishIntentEnd(n)
      PROVE  pub_delegates' \in PartialFn(Name, RegRec)
    BY <1>2, <1>4, ErasePartial DEF publishIntentEnd
<1>5. UNCHANGED <<regVars, link, sweep>>
    BY DEF publishIntent, publishIntentEnd
<1>. QED
    BY <1>3, <1>4, <1>5, QuietStep

(* Every step of the client preserves the invariant.                       *)
LEMMA NextIInv == IInv /\ [Next]_vars => IInv'
<1> SUFFICES ASSUME IInv, [Next]_vars PROVE IInv'
    OBVIOUS
<1>1. MapTypes /\ OtherTypes /\ RegInv /\ HeldForCallback
    BY TypeOKIff DEF IInv
<1>2. SUFFICES MapTypes' /\ OtherTypes' /\ RegInv' /\ HeldForCallback'
    BY TypeOKIffPrime DEF IInv
<1>3. ASSUME UNCHANGED handling
      PROVE  handling' \in Handling \cup {None} /\ HeldForCallback'
    BY <1>1, <1>3 DEF OtherTypes, HeldForCallback
<1>4. ASSUME UNCHANGED <<regVars, link, sweep, pub_delegates>>
      PROVE  MapTypes' /\ RegInv'
    BY <1>1, <1>4, QuietStep DEF MapTypes
<1>5. ASSUME NEW d \in Delegate, NEW n \in Namespace, subscribe(d, n)
      PROVE  MapTypes' /\ OtherTypes' /\ RegInv' /\ HeldForCallback'
    BY <1>1, <1>3, <1>5, SubscribeStep DEF subscribe, OtherTypes
<1>6. ASSUME NEW n \in Namespace, unsubscribe(n)
      PROVE  MapTypes' /\ OtherTypes' /\ RegInv' /\ HeldForCallback'
    BY <1>1, <1>3, <1>6, UnsubscribeStep DEF unsubscribe, OtherTypes
<1>7. ASSUME NEW n \in PubNamespace,
             (\E d \in Delegate : publishIntent(d, n)) \/ publishIntentEnd(n)
      PROVE  MapTypes' /\ OtherTypes' /\ RegInv' /\ HeldForCallback'
    BY <1>1, <1>3, <1>7, IntentStep DEF publishIntent, publishIntentEnd, OtherTypes
<1>8. ASSUME NEW d \in Delegate, release(d)
      PROVE  MapTypes' /\ OtherTypes' /\ RegInv' /\ HeldForCallback'
    BY <1>1, <1>3, <1>4, <1>8 DEF release, OtherTypes
<1>9. CASE on_disconnected
    BY <1>1, <1>3, <1>9, DisconnectStep DEF on_disconnected, OtherTypes
<1>10. ASSUME NEW t \in Thread, sweepStep(t)
       PROVE  MapTypes' /\ OtherTypes' /\ RegInv' /\ HeldForCallback'
    BY <1>1, <1>3, <1>10, SweepStep DEF sweepStep, OtherTypes
<1>11. CASE destroy
    BY <1>1, <1>3, <1>11, DestroyStep DEF destroy, OtherTypes
<1>12. CASE make_transport \/ transport_reset \/ transport_closed
    BY <1>1, <1>3, <1>4, <1>12
    DEF make_transport, transport_reset, transport_closed, OtherTypes
<1>13. ASSUME NEW m \in Incoming, on_recv_notify(m)
       PROVE  MapTypes' /\ OtherTypes' /\ RegInv' /\ HeldForCallback'
    BY <1>1, <1>4, <1>13, ReceiveTypes DEF on_recv_notify, OtherTypes
<1>14. CASE handle_subscribe_end
    BY <1>1, <1>14, ReceiveTypes, SubscribeEndStep
    DEF Receive, handle_subscribe_end, OtherTypes
<1>15. CASE handle_find
    BY <1>1, <1>15, ReceiveTypes, FindStep DEF Receive, handle_find, OtherTypes
<1>16. CASE Receive /\ ~handle_subscribe_end /\ ~handle_find
  <2>1. UNCHANGED <<regVars, link, sweep, pub_delegates, client_status, alive>>
    BY <1>16
    DEF Receive, handle_lookup, handle_callback, handle_return, handle_race, handle_other
  <2>2. phase' = phase \/ phase' = "crashed"
    BY <1>16
    DEF Receive, handle_lookup, handle_callback, handle_return, handle_race, handle_other
  <2>. QED
    BY <1>1, <1>4, <1>16, <2>1, <2>2, ReceiveTypes DEF OtherTypes
<1>17. CASE UNCHANGED vars
    BY <1>1, <1>3, <1>4, <1>17 DEF vars, regVars, OtherTypes
<1>. QED
    BY <1>5, <1>6, <1>7, <1>8, <1>9, <1>10, <1>11, <1>12, <1>13, <1>14, <1>15, <1>16, <1>17
    DEF Next

(* The client keeps the invariant.                                         *)
LEMMA SpecIInv == Spec => []IInv
BY InitIInv, NextIInv, PTL DEF Spec

----------------------------------------------------------------------------
(* The theorems.                                                           *)

(* Type correctness of the client, its receive thread included.            *)
THEOREM ClientTypeCorrect == Spec => []TypeOK
<1>1. IInv => TypeOK
    BY DEF IInv
<1>. QED
    BY <1>1, SpecIInv, PTL

(* No interleaving of subscribe, unsubscribe, SubscribeEnd, disconnect and  *)
(* destructor leaves a subscription without a delegate.                     *)
THEOREM HasDelegate == Spec => []SubscribedHasDelegate
<1>1. IInv => SubscribedHasDelegate
    BY DEF IInv, RegInv
<1>. QED
    BY <1>1, SpecIInv, PTL

(* The removal after a disconnect overlooks no registration that was open   *)
(* before it, except those the application had unsubscribed.                *)
THEOREM DisconnectEnds == Spec => []DisconnectEndsSubscribed
<1>1. IInv => DisconnectEndsSubscribed
    BY DEF IInv, RegInv, SweepHasTheRest, DisconnectEndsSubscribed
<1>. QED
    BY <1>1, SpecIInv, PTL
----------------------------------------------------------------------------
(* The client implements Subscriber.                                       *)

(* The variables of Subscriber, as the client's state determines them.     *)
OpenBar == [k \in DOMAIN sub_delegates |-> sub_delegates[k].d]
AliveBar == alive \cup HeldDelegates
LookingBar ==
    IF ForSubscriber /\ handling.found # None THEN NameOf[handling.found] ELSE None
InHandBar == IF ForSubscriber THEN handling.held ELSE None
ToldBar == {[cb |-> c.cb, key |-> c.key, d |-> c.d] :
              c \in {x \in calls : x.cb # "PublishIntentResponse"}}

(* A step that calls no delegate and leaves these variables alone.         *)
LEMMA SilentSim ==
    ASSUME UNCHANGED <<OpenBar, AliveBar, LookingBar, InHandBar>>, ToldBar' = {}
    PROVE  Delegates!Next
<1>1. Delegates!Silent
    BY DEF Delegates!Silent, OpenBar, AliveBar, LookingBar, InHandBar, ToldBar
<1>. QED
    BY <1>1 DEF Delegates!Next

(* What the receive thread has, as Subscriber sees it, while it is left     *)
(* alone.                                                                   *)
LEMMA SameHands ==
    ASSUME UNCHANGED handling
    PROVE  UNCHANGED <<LookingBar, InHandBar, HeldDelegates>>
BY DEF LookingBar, InHandBar, HeldDelegates, ForSubscriber

(* A thread with nothing found and nothing held is like one at rest.        *)
LEMMA EmptyHands ==
    ASSUME handling = None \/ (handling.found = None /\ handling.held = None)
    PROVE  LookingBar = None /\ InHandBar = None /\ HeldDelegates = {}
BY DEF LookingBar, InHandBar, HeldDelegates, ForSubscriber

(* ... likewise after a step.                                               *)
LEMMA EmptyHandsPrime ==
    ASSUME handling' = None \/ (handling'.found = None /\ handling'.held = None)
    PROVE  LookingBar' = None /\ InHandBar' = None /\ HeldDelegates' = {}
BY DEF LookingBar, InHandBar, HeldDelegates, ForSubscriber

(* weak_ptr::lock succeeds for the delegates that somebody owns.            *)
LEMMA LockableIff ==
    ASSUME NEW d
    PROVE  Lockable(d) <=> d \in AliveBar
BY DEF Lockable, AliveBar, HeldDelegates

(* The client starts as Subscriber does.                                   *)
LEMMA InitSim == Init => Delegates!Init
<1> SUFFICES ASSUME Init PROVE Delegates!Init
    OBVIOUS
<1>1. OpenBar = Delegates!EmptyMap
    BY DEF Init, OpenBar, EmptyMap, Delegates!EmptyMap
<1>2. LookingBar = None /\ InHandBar = None /\ AliveBar = Delegate
    BY EmptyHands DEF Init, AliveBar
<1>3. ToldBar = {}
    BY DEF Init, ToldBar
<1>. QED
    BY <1>1, <1>2, <1>3
    DEF Delegates!Init, OpenBar, AliveBar, LookingBar, InHandBar, ToldBar

(* subscribe opens a registration, unless the key has one, be it empty.     *)
LEMMA SubscribeSim ==
    ASSUME IInv, NEW d \in Delegate, NEW n \in Namespace, subscribe(d, n)
    PROVE  Delegates!Next
<1> DEFINE k == NameOf[n]
<1>1. k \in Name
    BY ClientNamespaceAssumption
<1>2. ToldBar' = {} /\ UNCHANGED <<LookingBar, InHandBar, AliveBar>>
    BY SameHands DEF subscribe, ToldBar, AliveBar
<1>3. CASE k \in DOMAIN sub_delegates
  <2>1. OpenBar' = OpenBar
    BY <1>3 DEF subscribe, OpenBar
  <2>. QED
    BY <1>2, <2>1, SilentSim
<1>4. CASE k \notin DOMAIN sub_delegates
  <2>1. sub_delegates' = Put(sub_delegates, k, [ns |-> n, d |-> d])
    BY <1>4 DEF subscribe
  <2>2. OpenBar' = Delegates!Put(OpenBar, k, d)
    BY <2>1 DEF OpenBar, Put, Delegates!Put
  <2>3. Delegates!Open(k, d)
    BY <1>2, <1>4, <2>2
    DEF Delegates!Open, OpenBar, AliveBar, LookingBar, InHandBar, ToldBar
  <2>. QED
    BY <1>1, <2>3 DEF Delegates!Next
<1>. QED
    BY <1>3, <1>4

(* The removal of a namespace ends the registration of its key, if there is *)
(* one, and tells its delegate, if there still is one.                      *)
LEMMA RemoveSim ==
    ASSUME IInv, NEW n \in Namespace, removeSubscribeState(n),
           UNCHANGED <<AliveBar, LookingBar, InHandBar>>
    PROVE  Delegates!Next
<1> DEFINE k == NameOf[n]
           end(x) == [cb |-> "onSubscriptionEnded", key |-> k, d |-> sub_delegates[x].d]
           ends == {end(x) : x \in {y \in DOMAIN sub_delegates \cap {k} :
                                      Lockable(sub_delegates[y].d)}}
<1>1. /\ k \in Name
      /\ MapTypes
    BY ClientNamespaceAssumption, TypeOKIff DEF IInv
<1>2. /\ sub_delegates' = EraseKeys(sub_delegates, {k})
      /\ calls' = ends
    BY DEF removeSubscribeState
<1>3. ToldBar' = ends
    BY <1>2 DEF ToldBar
<1>4. CASE k \in DOMAIN sub_delegates
  <2>1. OpenBar' = Delegates!EraseKeys(OpenBar, {k})
    BY <1>2 DEF OpenBar, EraseKeys, Restrict, Delegates!EraseKeys, Delegates!Restrict
  <2>2. k \in DOMAIN OpenBar /\ OpenBar[k] = sub_delegates[k].d
    BY <1>4 DEF OpenBar
  <2>3. Lockable(sub_delegates[k].d) <=> OpenBar[k] \in AliveBar
    BY <2>2, LockableIff
  <2>4. ToldBar' = IF OpenBar[k] \in AliveBar THEN {end(k)} ELSE {}
    BY <1>3, <1>4, <2>2, <2>3
  <2>5. Delegates!End(k)
    BY <2>1, <2>2, <2>4
    DEF Delegates!End, OpenBar, AliveBar, LookingBar, InHandBar, ToldBar
  <2>. QED
    BY <1>1, <2>5 DEF Delegates!Next
<1>5. CASE k \notin DOMAIN sub_delegates
  <2>1. OpenBar' = OpenBar
    BY <1>2, <1>5 DEF OpenBar, EraseKeys, Restrict
  <2>2. ToldBar' = {}
    BY <1>3, <1>5
  <2>. QED
    BY <2>1, <2>2, SilentSim
<1>. QED
    BY <1>4, <1>5

(* A lookup finds an open registration.                                    *)
LEMMA LookupSim ==
    ASSUME IInv, handle_lookup
    PROVE  Delegates!Next
<1>1. /\ handling \in Handling /\ handling # None
      /\ handling.held = None /\ handling.found = None
      /\ handling' \in Handling
      /\ handling'.msg = handling.msg
      /\ handling'.held = None
      /\ handling'.found \in Namespace
      /\ NameOf[handling'.found] \in DOMAIN Table(handling.msg)
      /\ NameOf[handling'.found] \in Name
    BY LookupFacts
<1>2. UNCHANGED <<alive, sub_delegates>> /\ ToldBar' = {}
    BY DEF handle_lookup, ToldBar, regVars
<1>3. handling' # None /\ handling'.found # None
    BY <1>1, ClientNoneAssumption
<1>4. LookingBar = None /\ InHandBar = None /\ HeldDelegates = {}
    BY <1>1, EmptyHands
<1>5. InHandBar' = None /\ HeldDelegates' = {}
    BY <1>1, <1>3 DEF InHandBar, HeldDelegates
<1>6. UNCHANGED <<OpenBar, AliveBar, InHandBar>>
    BY <1>2, <1>4, <1>5 DEF OpenBar, AliveBar
<1>7. CASE handling.msg.type = "PublishIntentResponse"
  <2>1. LookingBar' = None
    BY <1>1, <1>7 DEF LookingBar, ForSubscriber
  <2>. QED
    BY <1>2, <1>4, <1>6, <2>1, SilentSim
<1>8. CASE handling.msg.type # "PublishIntentResponse"
  <2>1. PICK k \in Name : k = NameOf[handling'.found]
    BY <1>1
  <2>2. LookingBar' = k
    BY <1>1, <1>3, <1>8, <2>1 DEF LookingBar, ForSubscriber
  <2>3. k \in DOMAIN OpenBar
    BY <1>1, <1>8, <2>1 DEF Table, OpenBar
  <2>4. Delegates!Look(k)
    BY <1>2, <1>4, <1>6, <2>2, <2>3
    DEF Delegates!Look, OpenBar, AliveBar, LookingBar, InHandBar, ToldBar
  <2>. QED
    BY <2>4 DEF Delegates!Next
<1>. QED
    BY <1>7, <1>8

(* The second lookup takes its delegate, if it is alive, or leaves an empty *)
(* registration if it has ended meanwhile.                                  *)
LEMMA FindSim ==
    ASSUME IInv, handle_find
    PROVE  Delegates!Next
<1>n. PICK n : n = handling.found
    OBVIOUS
<1>k. PICK k : k = NameOf[n]
    OBVIOUS
<1> DEFINE after == Entered(Table(handling.msg), n)
<1>1. /\ handling \in Handling /\ handling # None
      /\ handling.held = None /\ n \in Namespace
      /\ handling' \in Handling
      /\ handling'.msg = handling.msg
      /\ handling'.found = None
      /\ handling'.held = IF after[k].d \in alive THEN [key |-> k, d |-> after[k].d] ELSE None
    BY <1>n, <1>k, FindFacts
<1>2. UNCHANGED alive /\ ToldBar' = {}
    BY DEF handle_find, ToldBar
<1>3. handling' # None /\ n # None /\ None \notin alive
    BY <1>1, ClientNoneAssumption DEF IInv, TypeOK
<1>4. HeldDelegates = {} /\ HeldDelegates' \subseteq alive
  <2>1. HeldDelegates = {}
    BY <1>1 DEF HeldDelegates
  <2>2. CASE after[k].d \in alive
    BY <1>1, <1>3, <2>2 DEF HeldDelegates
  <2>3. CASE after[k].d \notin alive
    BY <1>1, <1>3, <2>3 DEF HeldDelegates
  <2>. QED
    BY <2>1, <2>2, <2>3
<1>5. AliveBar = alive /\ AliveBar' = alive
    BY <1>2, <1>4 DEF AliveBar
<1>6. LookingBar' = None
    BY <1>1 DEF LookingBar
<1>7. CASE handling.msg.type = "PublishIntentResponse"
  <2>1. LookingBar = None /\ InHandBar = None /\ InHandBar' = None
    BY <1>1, <1>7 DEF LookingBar, InHandBar, ForSubscriber
  <2>2. OpenBar' = OpenBar
    BY <1>7 DEF handle_find, OpenBar
  <2>. QED
    BY <1>2, <1>5, <1>6, <2>1, <2>2, SilentSim
<1>8. CASE handling.msg.type # "PublishIntentResponse"
  <2>1. LookingBar = k /\ InHandBar = None
    BY <1>n, <1>k, <1>1, <1>3, <1>8 DEF LookingBar, InHandBar, ForSubscriber
  <2>2. InHandBar' = IF after[k].d \in alive THEN [key |-> k, d |-> after[k].d] ELSE None
    BY <1>1, <1>3, <1>8 DEF InHandBar, ForSubscriber
  <2>3. sub_delegates' = after /\ after = Entered(sub_delegates, n)
    BY <1>n, <1>8 DEF handle_find, Table
  <2>4. sub_delegates \in PartialFn(Name, RegRec)
    BY TypeOKIff DEF IInv, MapTypes
  <2>5. k \in Name /\ k # None
    BY <1>k, <1>1, ClientNamespaceAssumption, ClientNoneAssumption
  <2>6. CASE k \in DOMAIN sub_delegates
    <3>1. after = sub_delegates
      BY <1>k, <1>1, <2>3, <2>4, <2>6, EnteredFacts
    <3>2. OpenBar' = OpenBar /\ k \in DOMAIN OpenBar /\ OpenBar[k] = sub_delegates[k].d
      BY <2>3, <2>6, <3>1 DEF OpenBar
    <3>3. InHandBar' = IF OpenBar[k] \in alive THEN [key |-> k, d |-> OpenBar[k]] ELSE None
      BY <2>2, <3>1, <3>2
    <3>4. InHandBar' = IF OpenBar[LookingBar] \in AliveBar
                       THEN [key |-> LookingBar, d |-> OpenBar[LookingBar]] ELSE None
      BY <1>5, <2>1, <3>3
    <3>5. LookingBar \in DOMAIN OpenBar
      BY <2>1, <3>2
    <3>6. Delegates!Take
      BY <1>2, <1>5, <1>6, <3>2, <3>4, <3>5
      DEF Delegates!Take, OpenBar, AliveBar, LookingBar, InHandBar, ToldBar
    <3>. QED
      BY <3>6 DEF Delegates!Next
  <2>7. CASE k \notin DOMAIN sub_delegates
    <3>1. after = Put(sub_delegates, k, [ns |-> n, d |-> None]) /\ after[k].d = None
      BY <1>k, <1>1, <2>3, <2>4, <2>7, EnteredFacts
    <3>2. InHandBar' = InHandBar
      BY <1>3, <2>1, <2>2, <3>1
    <3>3. OpenBar' = Delegates!Put(OpenBar, k, None)
      BY <2>3, <3>1 DEF OpenBar, Put, Delegates!Put
    <3>4. OpenBar' = Delegates!Put(OpenBar, LookingBar, None)
      BY <2>1, <3>3
    <3>5. LookingBar # None /\ LookingBar \notin DOMAIN OpenBar
      BY <2>1, <2>5, <2>7 DEF OpenBar
    <3>6. Delegates!Miss
      BY <1>2, <1>5, <1>6, <3>2, <3>4, <3>5
      DEF Delegates!Miss, OpenBar, AliveBar, LookingBar, InHandBar, ToldBar
    <3>. QED
      BY <3>6 DEF Delegates!Next
  <2>. QED
    BY <2>6, <2>7
<1>. QED
    BY <1>7, <1>8

(* The callback gives the message to the delegate that was taken, which     *)
(* may be gone afterwards.                                                  *)
LEMMA CallbackSim ==
    ASSUME IInv, handle_callback
    PROVE  Delegates!Next
<1> DEFINE call == [cb |-> handling.msg.type, key |-> handling.held.key,
                    d |-> handling.held.d, data |-> handling.data]
<1>1. /\ handling # None /\ handling.held # None
      /\ handling.msg.type \in DelegateCallbacks
      /\ UNCHANGED <<alive, sub_delegates>>
      /\ calls' = {call}
    BY DEF handle_callback, InHandle, regVars
<1>2. handling \in Handling /\ handling.found = None /\ handling.held \in Held
    BY <1>1, HandlingFacts DEF IInv, HeldForCallback
<1>3. handling' \in Handling /\ handling'.found = None /\ handling'.held = None
  <2>1. PICK x \in {handling.data, "moved"} :
          handling' = [handling EXCEPT !.held = None, !.data = x]
    BY DEF handle_callback
  <2>. QED
    BY <1>2, <2>1 DEF Handling
<1>4. LookingBar' = None /\ InHandBar' = None /\ HeldDelegates' = {}
    BY <1>3, EmptyHandsPrime
<1>d. PICK d \in Delegate : d = handling.held.d
    BY <1>2 DEF Held
<1>5. LookingBar = None /\ AliveBar = alive \cup {d} /\ AliveBar' = alive
    BY <1>1, <1>2, <1>4, <1>d DEF LookingBar, AliveBar, HeldDelegates
<1>6. AliveBar' \in {AliveBar, AliveBar \ {d}}
    BY <1>5
<1>7. OpenBar' = OpenBar
    BY <1>1 DEF OpenBar
<1>8. CASE handling.msg.type = "PublishIntentResponse"
  <2>1. ToldBar' = {} /\ InHandBar = None
    BY <1>1, <1>8 DEF ToldBar, InHandBar, ForSubscriber
  <2>2. CASE AliveBar' = AliveBar
    BY <1>4, <1>5, <1>7, <2>1, <2>2, SilentSim
  <2>3. CASE AliveBar' = AliveBar \ {d}
    <3>1. Delegates!Drop(d)
      BY <1>4, <1>5, <1>7, <2>1, <2>3
      DEF Delegates!Drop, OpenBar, AliveBar, LookingBar, InHandBar, ToldBar
    <3>. QED
      BY <3>1 DEF Delegates!Next
  <2>. QED
    BY <1>6, <2>2, <2>3
<1>9. CASE handling.msg.type # "PublishIntentResponse"
  <2>1. InHandBar = handling.held
    BY <1>1, <1>9 DEF InHandBar, ForSubscriber
  <2>2. PICK cb \in {"SubscribeResponse", "Publish"} : handling.msg.type = cb
    BY <1>1, <1>9 DEF DelegateCallbacks
  <2>3. ToldBar' = {[cb |-> cb, key |-> InHandBar.key, d |-> InHandBar.d]}
    <3>1. /\ call.cb = cb /\ call.key = handling.held.key
          /\ call.d = handling.held.d /\ call.cb # "PublishIntentResponse"
      BY <1>9, <2>2
    <3> HIDE DEF call
    <3>2. ToldBar' = {[cb |-> call.cb, key |-> call.key, d |-> call.d]}
      BY <1>1, <3>1 DEF ToldBar
    <3>. QED
      BY <2>1, <3>1, <3>2
  <2>4. AliveBar' \in {AliveBar, AliveBar \ {InHandBar.d}}
    BY <1>d, <1>6, <2>1
  <2>5. InHandBar # None
    BY <1>1, <2>1
  <2>6. Delegates!Give(cb)
    BY <1>4, <1>5, <1>7, <2>3, <2>4, <2>5
    DEF Delegates!Give, OpenBar, AliveBar, LookingBar, InHandBar, ToldBar
  <2>. QED
    BY <2>6 DEF Delegates!Next
<1>. QED
    BY <1>8, <1>9

(* The application lets a delegate go, which a callback may still hold.     *)
LEMMA ReleaseSim ==
    ASSUME IInv, NEW d \in Delegate, release(d)
    PROVE  Delegates!Next
<1>1. /\ alive' = alive \ {d} /\ UNCHANGED <<handling, sub_delegates>>
      /\ ToldBar' = {}
    BY DEF release, regVars, ToldBar
<1>2. UNCHANGED <<OpenBar, LookingBar, InHandBar, HeldDelegates>>
    BY <1>1, SameHands DEF OpenBar
<1>3. CASE d \in HeldDelegates
  <2>1. AliveBar' = AliveBar
    BY <1>1, <1>2, <1>3 DEF AliveBar
  <2>. QED
    BY <1>1, <1>2, <2>1, SilentSim
<1>4. CASE d \notin HeldDelegates
  <2>1. AliveBar' = AliveBar \ {d}
    BY <1>1, <1>2, <1>4 DEF AliveBar
  <2>2. Delegates!Drop(d)
    BY <1>1, <1>2, <2>1
    DEF Delegates!Drop, OpenBar, AliveBar, LookingBar, InHandBar, ToldBar
  <2>. QED
    BY <2>2 DEF Delegates!Next
<1>. QED
    BY <1>3, <1>4

(* Every step of the client is a step of Subscriber, or changes nothing that *)
(* Subscriber sees.                                                          *)
LEMMA StepSim == IInv /\ [Next]_vars => [Delegates!Next]_(Delegates!vars)
<1> SUFFICES ASSUME IInv, [Next]_vars PROVE [Delegates!Next]_(Delegates!vars)
    OBVIOUS
<1>1. ASSUME UNCHANGED <<sub_delegates, handling, alive>>, calls' = {}
      PROVE  Delegates!Next
  <2>1. UNCHANGED <<OpenBar, AliveBar, LookingBar, InHandBar>> /\ ToldBar' = {}
    BY <1>1, SameHands DEF OpenBar, AliveBar, ToldBar
  <2>. QED
    BY <2>1, SilentSim
<1>2. ASSUME UNCHANGED <<sub_delegates, alive>>, calls' = {},
             handling = None \/ (handling.found = None /\ handling.held = None),
             handling' = None \/ (handling'.found = None /\ handling'.held = None)
      PROVE  Delegates!Next
  <2>1. UNCHANGED <<OpenBar, AliveBar, LookingBar, InHandBar>> /\ ToldBar' = {}
    BY <1>2, EmptyHands, EmptyHandsPrime DEF OpenBar, AliveBar, ToldBar
  <2>. QED
    BY <2>1, SilentSim
<1>3. ASSUME NEW d \in Delegate, NEW n \in Namespace, subscribe(d, n)
      PROVE  Delegates!Next
    BY <1>3, SubscribeSim
<1>4. ASSUME NEW n \in Namespace, unsubscribe(n) PROVE Delegates!Next
    BY <1>1, <1>4 DEF unsubscribe
<1>5. ASSUME NEW n \in PubNamespace,
             (\E d \in Delegate : publishIntent(d, n)) \/ publishIntentEnd(n)
      PROVE  Delegates!Next
    BY <1>1, <1>5 DEF publishIntent, publishIntentEnd, regVars
<1>6. ASSUME NEW d \in Delegate, release(d) PROVE Delegates!Next
    BY <1>6, ReleaseSim
<1>7. CASE on_disconnected \/ destroy \/ make_transport \/ transport_reset \/ transport_closed
           \/ handle_race
    BY <1>1, <1>7
    DEF on_disconnected, destroy, make_transport, transport_reset, transport_closed,
        handle_race, regVars
<1>8. ASSUME NEW t \in Thread, sweepStep(t) PROVE Delegates!Next
  <2>1. UNCHANGED <<AliveBar, LookingBar, InHandBar>>
    BY <1>8, SameHands DEF sweepStep, AliveBar
  <2>2. PICK n \in sweep[t] : removeSubscribeState(n)
    BY <1>8 DEF sweepStep
  <2>3. n \in Namespace
    BY DEF IInv, TypeOK
  <2>. QED
    BY <2>1, <2>2, <2>3, RemoveSim
<1>9. ASSUME NEW m \in Incoming, on_recv_notify(m) PROVE Delegates!Next
    BY <1>2, <1>9 DEF on_recv_notify, regVars
<1>10. CASE handle_lookup
    BY <1>10, LookupSim
<1>11. CASE handle_find
    BY <1>11, FindSim
<1>12. CASE handle_callback
    BY <1>12, CallbackSim
<1>13. CASE handle_subscribe_end
  <2>1. /\ handling # None /\ handling.msg.type = "SubscribeEnd"
        /\ UNCHANGED alive /\ handling' = None
        /\ removeSubscribeState(handling.msg.ns)
    BY <1>13 DEF handle_subscribe_end, InHandle
  <2>2. handling.msg.ns \in Namespace
    BY <2>1, HandlingFacts, IncomingFacts DEF IInv
  <2>3. handling.found = None /\ handling.held = None
    BY <2>1 DEF IInv, HeldForCallback, DelegateCallbacks
  <2>4. UNCHANGED <<AliveBar, LookingBar, InHandBar>>
    BY <2>1, <2>3, EmptyHands, EmptyHandsPrime DEF AliveBar
  <2>5. PICK n \in Namespace : n = handling.msg.ns
    BY <2>2
  <2>. QED
    BY <2>1, <2>4, <2>5, RemoveSim
<1>14. CASE handle_return
    BY <1>2, <1>14 DEF handle_return, InHandle, regVars
<1>15. CASE handle_other
  <2>1. handling.found = None /\ handling.held = None
    BY <1>15 DEF handle_other, InHandle, IInv, HeldForCallback, DelegateCallbacks
  <2>. QED
    BY <1>2, <1>15, <2>1 DEF handle_other, regVars
<1>16. CASE UNCHANGED vars
  <2>1. UNCHANGED <<sub_delegates, handling, alive, calls>>
    BY <1>16 DEF vars
  <2>2. UNCHANGED <<OpenBar, AliveBar, LookingBar, InHandBar, ToldBar>>
    BY <2>1, SameHands DEF OpenBar, AliveBar, ToldBar
  <2>. QED
    BY <2>2 DEF Delegates!vars, OpenBar, AliveBar, LookingBar, InHandBar, ToldBar
<1>. QED
    BY <1>3, <1>4, <1>5, <1>6, <1>7, <1>8, <1>9, <1>10, <1>11, <1>12, <1>13, <1>14, <1>15, <1>16
    DEF Next, Receive

(* The client implements the life cycle of a registration: whatever         *)
(* subscribe, unsubscribe, SubscribeEnd, disconnect, destructor and the     *)
(* unlocked lookups of handle() do to each other, a registration ends once, *)
(* with one onSubscriptionEnded, only open ones are taken for a callback,   *)
(* and an empty one is left only by an end between the two lookups.         *)
THEOREM ClientImplementsSubscriber == Spec => ImplementsSubscriber
BY InitSim, StepSim, SpecIInv, PTL DEF Spec, ImplementsSubscriber, Delegates!Spec
=============================================================================
