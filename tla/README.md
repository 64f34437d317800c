# Specifications of libquicr

TLA+ models of libquicr: the client library, the server library, the relay
`really` that is built on it, client, relay and network together, the reassembly
of objects, names and namespaces and their text, and the message encoding.  TLC
checks them on small instances; TLAPS proves the safety properties of server,
relay, client and reassembly and of client and relay together, and the
refinements of `Broker` and `Subscriber`, for all values of the constants.

`PROJECT.json` maps each definition to the lines it translates.  Paths below are
relative to the repository.

## The system

A client publishes named objects and subscribes to namespaces, which are
prefixes of 128-bit names.  It talks to one server, through qtransport (a QUIC
or UDP library outside this repository).  The server library keeps track of
subscriptions and publishers and calls a delegate, the application; `really` is
such an application: it forwards what is published to whoever subscribed.

| Part | State | Operations | Interacts with |
|---|---|---|---|
| `QuicRServer` (src/quicr_server.cpp) | subscriptions by namespace and connection (`subscribe_state`), by id (`subscribe_id_state`), the id counter, publishers by name, announced namespaces | six message handlers, connection status, four sends of the application | transport: callbacks from two threads; delegate: callbacks, some under the mutex |
| `really` (cmd/really) | `Subscriptions`: (length, name) -> remotes | five callbacks | calls the server's sends from inside its callbacks |
| `QuicRClient` (src/quicr_client.cpp) | delegates by namespace (`weak_ptr`), subscriptions, publisher delegates, status | subscribe, unsubscribe, intents, destructor, `handle()`, disconnect | three threads; one mutex, which `handle()` does not take to look delegates up |
| Fragments (src/quicr_client.cpp) | a ring of buffers, static, shared by all clients of a process | cutting in `publishNamedObject`, putting together in `handle_pub_fragment` | a network that loses, reorders and repeats |
| `Name`, `Namespace` | two 64-bit words; a name and a length | shifts, sums, bit operators, order, containment | keys of all maps |
| `HexEndec` and names as text (include/quicr/hex_endec.h, quicr_name.h) | none | packing fields into hex digits and back | builds names |
| Encoding (src/encode.cpp, src/message_buffer.cpp) | the bytes of a message | `operator<<`, `operator>>` per message and field | every handler decodes first; an exception drops the message |

What is hard, and what makes each part correct:

* Server: two transport threads; `handle_unsubscribe` looks up before it locks;
  sends take no lock at all and look their id up twice; maps that must agree are
  updated in different places, and entries of closed connections stay behind.
  Correct: an id stands for one subscription for ever, reaches the connection
  that asked for it while that is up, is erased by nobody else, and once erased
  never reaches a connection again.
* Relay: an unlocked fan-out over a table that never forgets.  Correct: objects
  go to the live subscriptions that cover the name, all but perhaps those of the
  publisher, and of what an end overtakes only the copy under way comes after it.
* Client: removals collect under the lock and act after releasing it; `handle()`
  looks up without it; the destructor, a disconnect and a SubscribeEnd race.
  Correct: each registration
  is ended at most once, none is lost, and the destructor returns.
* Client and relay together: every message is a datagram that may be lost or
  overtake another; responses and ends carry nothing that tells two
  subscriptions to a namespace apart; each end notices the loss of the
  connection when it does.  Correct: both ends agree on what is subscribed, and
  the flows of docs/unsubscribe-flows.md come to their end.
* Fragments: order, loss, repetition, wrap of the ring.  Correct: what is
  delivered is what was published.
* Names and encoding: boundaries of words and of variable-length integers.

## Modules

| Module | Models | How |
|---|---|---|
| `Maps` | `std::map` | functions with a finite domain |
| `QuicRServer` | the server with any delegate | below |
| `ReallyServer` | the relay | extends `QuicRServer`; each callback is part of the handler's step |
| `Broker` | what a relay promises its peers | abstract; `ReallyServer` implements it |
| `QuicRClient` | the client | below |
| `Subscriber` | what the client promises a delegate | abstract; `QuicRClient` implements it |
| `System` | a client, the relay and the network | extends `ReallyServer`, instantiates `QuicRClient` |
| `Reassembly` | fragments | the ring, the network and the publisher |
| `QuicrName` | names and namespaces with words of `W` bits | operators, and an object that goes through them |
| `HexEndec` | names as text, and fields packed into it | extends `QuicrName` |
| `MessageBuffer`, `Encode` | bytes of `B` bits; the messages | operators, and a sender and a receiver |
| `MapTheorems` | | lemmas about `Maps` |
| `QuicRServerProofs` | | the theorems about `QuicRServer` |
| `ReallyServerProofs` | | the theorems about the relay; extends `QuicRServerProofs` |
| `QuicRClientProofs` | | the theorems about `QuicRClient` |
| `ReassemblyProofs` | | the theorems about `Reassembly` |
| `SystemProofs` | | the theorems about `System`; extends `ReallyServerProofs` |
| `MC...` | | finite instances for TLC |

**QuicRServer.** One action per handler.  `handling` is the message the receive
thread has dequeued and not finished; the status thread runs `on_disconnected`
at any time.  Handlers that hold the mutex are one step; `handle_unsubscribe` is
two, the lookup and the locked part.  The maps are keyed by `NameOf[n]`, the
masked name, because `operator<` on namespaces ignores the length
(src/quicr_namespace.cpp:59), and keep the namespace they were first given.
`calls` and `sent` are what the last step called and sent; `told` is the history
of what `onSubscribe` told the delegate, which may use any id of it for ever.
The streams of a connection are left out: a context stands for the pair.

A send of `onSubscribe` or `onUnsubscribe` runs under the mutex and is part of the
handler's step.  Any other send is three steps, since none of them locks:
`send_lookup` is the `count()` of the id, `send_find` its `operator[]`, and
`send_enqueue` the use of the reference that returned.  If the id is erased
between the first two, `operator[]` puts it back with a context 0, which is no
connection (`None`); if it is erased between the last two, the reference dangles
and the message may go to any connection or to none.  A reference to an id that
was erased and put back meanwhile is taken to be valid if it says the same.
`publishIntentResponse` has the same three steps on `publish_namespaces`
(`answer_lookup`, `answer_find`, `answer_enqueue`), which the end of an intent
overtakes: the namespace is announced again, for context 0.  Two threads that
work on one `std::map` may also end the process; that is the behaviour in which
nothing happens any more, which the specification has anyway.

**ReallyServer.** `RelaySubscribe` is `handle_subscribe` with `onSubscribe`
inside, and so on.  A namespace stands for the (length, name) pair of
`Subscriptions`.  `onPublisherObject` runs in the receive thread without the
mutex: `fan` is its loop, with the remotes it has still to serve (`todo`), and
each copy is the three steps of a send.  The status thread may run between any two
of them, the receive thread takes no other message until the loop is over.
`onPublishIntent` answers in the receive thread, the only one that changes
`publish_namespaces` in the relay, so its response is one step.  The context of a
`Remote` is never filled in; its zero is the id of no connection in the model.

**Broker.** A set of subscriptions that are served (`members`), the ids ever given
out, the announced namespaces, the copies of an object that are still to be sent
(`pending`) with its source, and what a step sends to subscribers.  A subscription
joins with a response and leaves with one SubscribeEnd.  `Accept` makes a copy
pending for every member that covers the name, and `Forward` sends one; a member
of the connection the object came from, or of the one its name is counted under,
may be left out, as the comment at cmd/really/really.cpp:173 says and the code does
not do.  The mapping reads `members` off the two places the code never makes
agree: what `onSubscribe` told the relay, cut down to the ids that stand for a
connection in `subscribe_id_state`.  Three liberties of the code are liberties of
the broker: a lost connection may leave some of its subscriptions behind, a
connection may get two subscriptions to one namespace, and the copy that is being
sent while its subscription ends may go astray.  Where connection ids are given
out again the code can end a subscription twice, and the copy may go astray the
second time as well (`Stray`).

**QuicRClient.** `handle()` takes no lock to look a delegate up, and is three steps
for each of the two maps of delegates: `count()`, then `operator[]` with
`lock()` of the `weak_ptr` it refers to, then the callback.  `handling.found` and
`handling.held` say how far it is and which `shared_ptr` it holds.  A removal
between the first two makes `operator[]` insert an empty `weak_ptr` (`d = None`):
nobody is called for it, and it keeps later delegates of the namespace out until a
SubscribeEnd or a removal takes it away.  A lookup that overlaps a change of
`sub_delegates` is a data race: besides its usual outcomes it may end the process
(`handle_race`).  `sweep[t]` is what thread `t` collected in
`removeSubscribeState(true)` and has still to remove.  `live` is the history of
registrations that were not ended, and of whether the application has asked for
their end.  `subscribe_state` entries are Pending for ever, as nothing in the code
makes one Ready.  That `client_status` never leaves its first value is not part of
the type invariant but a divergence (`Client_status`).

**Subscriber.** A registration is open from `subscribe` to its one
`onSubscriptionEnded`.  A message is looked up, the delegate is taken in hand, and
it is given the message, because `handle()` does it in these steps.  The code has
two liberties: a registration may end while its delegate is in hand
(`Client_late_callback` shows what that costs), and one that ends while it is
looked up leaves an empty registration behind.

**System.** `ByClient` and `ByRelay` make a step of one side a step of the whole:
they put what it enqueues on the network and take off what it dequeues.  The
network is a bag of messages in each direction, since the client's only stream is
created unreliable (src/quicr_client.cpp:182); `Lose` drops any of them.  A
connection that one end has given up carries nothing more.  A second connection,
`Other`, sends what `PeerTraffic` allows, straight into the relay's receive
thread.  A *patient* application is the subscriber of cmd/really/reallyTest.cpp
with its sleeps replaced by what they wait for: it unsubscribes once it has been
answered, and subscribes again once its delegate has been told of the end.
`answered` is the history of whose response has reached the delegate.

**Reassembly.** A fragment is its key `offset_and_fin` and its length, the
payload its byte positions (`Bytes`).  `Complete` is the test of
`notify_pub_fragment`: the loop leaves at the first offset that is not
`seq_bytes`, so up to there `seq_bytes` is the end of the fragment before.
`count` is what `size()` says, which differs from the number of names after an
erase through the wrong map (line 557).  That erase is undefined; the model has
what the tree of libstdc++ does with it.  The node leaves its own tree, whose
root, leftmost or rightmost pointer may keep pointing at it (`broken`: a later
use may crash or may not).  The rebalancing compares with the header of the
other map: in a tree of three black nodes it climbs to the tree's own header and
follows a null pointer at once, and from four names on it may rotate the root
away while the header still points at it.  With names 1 to 4 and root 2, erasing
1 leaves 3 and 4 stored but no longer found (`hidden`); their next fragments
open a second entry.  Which names that may be is left open: any of those that
are left.  It takes `MinRebalance` names in the tree, three in libstdc++; the
configurations say two, because their buffers hold two.

**QuicrName, HexEndec, MessageBuffer, Encode.** Words and bytes are scaled down;
the code's constants (64, 7, 14, 29, 61 bits) are written in terms of the width.
`QuicrName` has every operator of a name, the bit operators that no property
mentions included: they are operations of the class, and the component is listed
as a whole.  An oversized shift of a word is undefined and is a choice of the
build (`wide`).  A text is the sequence of its digits after "0x"; what is no
digit is read as the digit 0.  `HexEndec` has texts of one word and of two, for
its two versions.

## Runs

| Run | Checks | Bounds |
|---|---|---|
| `Server_any_delegate` | ids identify subscriptions, are reachable while the connection is up, are erased only by their owner, lead where the delegate was told or nowhere, and never lead anywhere again once erased | 2 connections, nested namespaces A and B, subscriptions only, 3 ids, 1 send under way |
| `Server_intents` | types; no publisher of an unannounced name | 2 connections, A and B, publishing only, 1 response under way |
| `Relay_forwarding` | `FanoutExact`, `OneCopyPerId`, `SubscribeAnswered`, `EndIsFinal`; the relay implements `Broker` | 2 connections, A and B, 3 ids, A announced |
| `Relay_reuse` | the relay implements `Broker` when connection ids are reused, keys collide and intents end | 2 connections, A and AA with one key, 2 ids |
| `Client_safety` | a subscription always has its entry among the delegates; a disconnect overlooks none; the client implements `Subscriber` | 2 delegates, A and B |
| `Client_intents` | types, mainly that no empty entry of either map is called | all messages, one announced namespace |
| `Client_liveness` | what is collected is ended; the destructor returns | 1 delegate, A and B |
| `Reassembly_ring` | objects intact, once, and delivered when complete and found; a name that is found in one buffer; the current buffer has room | 4 objects of 2 to 5 bytes, messages of 2, 2 buffers of 2 names, 2 repetitions |
| `System_safety` | who is answered is served; who is served is registered; one id per subscription; one response per registration | 1 namespace, 1 delegate, 4 ids, 3 messages each way, loss, the other connection subscribes and announces |
| `System_liveness` | a Subscribe is answered; an unsubscribe ends | 1 namespace, 1 delegate, 2 ids, 2 messages each way, no loss, the other connection announces |
| `System_objects` | an accepted object arrives | 1 namespace, 1 delegate, 1 id, no loss, the other connection publishes |
| `Name_operators` | shifts, sums and containment against arithmetic; texts are the numbers they denote; fields are found again | all names of 2 x 3 bits, all operands of sums, shifts by 0 to 5, lengths below the full one, digits of 1 bit, texts up to 7 digits, up to 2 fields |
| `Codec_roundtrip` | decoding undoes encoding; a cut message throws | bytes of 4 bits, integers at each boundary, payloads up to 70 bytes |
| `System_unsubscribe`, `Server_overlap` | a promise of the documentation that the code breaks | see below |

Why the bounds are enough.  Two connections and nested namespaces give every
pair of entries that can meet in a map: same key and other connection, same
connection and other key, neither.  Three ids allow an id to be given up and two
more to be handed out.  One send and one response under way at a time
(`MaxSends`) are overtaken by every other step; two of them would meet only in
an id that both put back, which the theorems cover.  The relay has no more: its
loop sends one copy at a time, and `SubscriberMessage`, what other threads of
the application send, is empty there.  In the client, two namespaces let a sweep
be overtaken between its removals.  In the ring, two buffers of two names make
the index wrap and purge, objects complete in the current and in the other
buffer, and the four sizes are one message, an exact multiple and two with a
rest.  In the system, four ids let the client subscribe, unsubscribe and
subscribe again beside the other connection, with a message of each of these
still under way; the application has one request of its own out at a time, so
more messages would only be more objects.  With 3-bit words every shift crosses,
meets or misses the boundary of the words. 4-bit bytes keep the four forms of a
variable-length integer apart.  Publishing and subscribing share no state in the
server, so they have a run each.  For the same reason no objects flow in
`System_safety` and `System_liveness`, and `System_objects` has them with one
subscription.

Deadlock is checked in the runs of the server, of names and of the encoding, and
in `Relay_reuse`.  It is not checked where the system may stop: a destroyed client,
an empty network, all connections closed for good, a crash.

Fairness.  `Client_liveness`: weak fairness of a thread that is inside the
client (a sweep, `handle()`) and of the destructor's next step.  The mutex is
held for a step at a time and released, so such a thread is never blocked for
good; whether the application calls and the server sends is left open.
`System_liveness` and `System_objects`: the same for the two receive threads in a
handler, the loop of the fan-out included; weak
fairness of the report of the client's connection; and strong fairness of the
delivery of each message, because the receiver is busy time and again with what
others send, and goes on to the next of all queues each time.  Applications,
peers, disconnects and the destructor owe nothing, and a client that is lost
(`Lost`) is excused.

The four properties of `System_safety` hold for patient applications only, and
those of `System_liveness` and
`System_objects` if nothing is lost: the divergences below have the
rest.

## Known divergences

TLC refutes each of these.  The first two are runs of the project; the others
have a configuration that shows the counterexample in the same way
(`tlc -config <name>.cfg <module>`).

| Configuration | Module | Says | Does |
|---|---|---|---|
| `System_unsubscribe` | `MCSystem` | an unsubscribe ends in `onSubscriptionEnded` (unsubscribe-flows.md:8, 16) | not if another subscriber of the namespace unsubscribed first: the relay has erased the entry (inverted test, quicr_server.cpp:268), ignores the message and goes on sending objects |
| `Server_overlap` | `MCQuicRServer` | the message goes to the subscriber (quicr_server.h:221) | a disconnect between `count()` and `operator[]` brings the id back with context 0 (quicr_server.cpp:192) |
| `Server_unsubscribe` | `MCQuicRServer` | `onUnsubscribe` for each unsubscribe message (quicr_server.h:124) | an unsubscribe of one connection erases the entries of the others (inverted test, quicr_server.cpp:268), whose own unsubscribes are then ignored |
| `Client_late_callback` | `MCQuicRClient` | no callback after `onSubscriptionEnded` (unsubscribe-flows.md:17) | a delegate that was looked up before is called after it (quicr_client.cpp:599) |
| `Reassembly_harm` | `MCReassembly` | incomplete objects only cost memory (quicr_client.cpp:32) | one that is completed late is erased through another map's `erase` (:557): a dangling pointer, other objects that are not found any more, or a crash |
| `Server_disconnect` | `MCQuicRServer` | "Removing state for context_id" (quicr_server.cpp:399) | the entry is never erased, as the test for an empty namespace counts it (:416) |
| `Server_publisher` | `MCQuicRServer` | the context the message was received on (quicr_server.h:63) | the context that first published the name (quicr_server.cpp:301) |
| `Relay_splithorizon` | `MCReallyServer` | no packets back to their source (really.cpp:174) | the context of a remote is never filled in (:221) |
| `Relay_forget` | `MCReallyServer` | the application frees its state (unsubscribe-flows.md:10) | `remove` erases what it did not find (subscription.cpp:34) |
| `Relay_intent` | `MCReallyServer` | a callback on the response to an intent (quicr_client.h:123) | a second publisher's response goes to the first (quicr_server.cpp:319) |
| `Client_disconnect` | `MCQuicRClient` | the delegate is removed (unsubscribe-flows.md:45) | not one whose unsubscribe was not yet answered (quicr_client.cpp:321) |
| `Client_registration` | `MCQuicRClient` | the delegate receives the callbacks (quicr_client.h:218) | an earlier one does, even if it has expired (quicr_client.cpp:280) |
| `Client_payload` | `MCQuicRClient` | the object arrives (quicr_client.h:57) | the first matching delegate may take the payload from the others (quicr_client.cpp:632) |
| `Client_status` | `MCQuicRClient` | tells whether the client is ready (quicr_client.h:179) | always TERMINATED (:354) |
| `Reassembly_clients` | `MCReassembly` | a complete object is delivered (quicr_client.cpp:27) | not if another client of the process completed it (static map, :36) |
| `System_timeout` | `MCSystem` | `onSubscribeResponse` on a response, "on error, or timeout" (quicr_client.h:35) | a lost Subscribe or response is never noticed (quicr_client.cpp:307) |
| `System_resubscribe` | `MCSystem` | the properties of `System_safety` | an application that subscribes again before the end of its last subscription is ended by the old SubscribeEnd, or believes an old response (quicr_client.cpp:596, 613) |
| `Hex_word` | `HexEndec` | "Encodes the last Dist bits of values" (hex_endec.h:50) | a field of 64 bits in a text of 64 is a shift by 64 (:112) |
| `Name_length` | `QuicrName` | lengths up to 128 (subscription.cpp:5) | the mask needs a word shift by 64 (quicr_name.cpp:89) |
| `Name_containment` | `QuicrName` | a wider namespace is not contained (test/namespace.cpp:41) | the length is not looked at (quicr_namespace.h:25) |
| `Codec_varint` | `Encode` | values below 2^61 (message_buffer.h:20) | 60 bits are written (message_buffer.cpp:260) |
| `Codec_payload` | `Encode` | the payload is kept (test/encode.cpp:103) | its length is read modulo 2^16 (message_buffer.cpp:232) |

## Proofs

All theorems are about the specifications TLC checks, for all values of the
constants under their named assumptions: types of `NameOf`, `Covers`, `Size`,
`ContextReuse` and the bounds; the limits of the ring are positive and a
`size_t` can count beyond a full buffer; `None` is no connection, no delegate
about to be called, no message being handled and no fan-out; the other connection of
`System` sends messages of the protocol.

| Theorem | Module | States |
|---|---|---|
| `TypeCorrect` | `QuicRServerProofs` | `Spec => []TypeOK` |
| `IdsIdentify` | | `Spec => []IdsIdentifySubscriptions` |
| `Addressee` | | `Spec => []AddresseeAsTold` |
| `Reachability` | | `Spec => []ReachableWhileUp` |
| `OnlyOwnIds` | | `Spec => OnlyOwnIdsErased` |
| `NoReturn` | | `Spec => IdsNeverReturn` |
| `NamesCovered` | | `Spec => []PublishedNamesCovered` |
| `EndsAreFinal` | `ReallyServerProofs` | `RelaySpec => EndIsFinal` |
| `ExactFanout` | | `RelaySpec => []FanoutExact` |
| `OneCopy` | | `RelaySpec => OneCopyPerId` |
| `Answered` | | `RelaySpec => []SubscribeAnswered` |
| `RelayImplementsBroker` | | `RelaySpec => ImplementsBroker` |
| `ClientTypeCorrect` | `QuicRClientProofs` | `Spec => []TypeOK` |
| `HasDelegate` | | `Spec => []SubscribedHasDelegate` |
| `DisconnectEnds` | | `Spec => []DisconnectEndsSubscribed` |
| `ClientImplementsSubscriber` | | `Spec => ImplementsSubscriber` |
| `ReassemblyTypeCorrect` | `ReassemblyProofs` | `Spec => []TypeOK` |
| `OneBuffer` | | `Spec => []NameInOneBuffer` |
| `RoomInCurrent` | | `Spec => []CurrentHasRoom` |
| `Intact` | | `Spec => []DeliveredIntact` |
| `Completed` | | one client: `Spec => []CompleteIsDelivered` |
| `Once` | | one client: `Spec => []DeliveredOnce` |
| `AnsweredServed` | `SystemProofs` | `Conditions`: `SystemSpec => []AnsweredIsServed` |
| `ServedRegistered` | | `Conditions`: `SystemSpec => []ServedIsRegistered` |
| `OneId` | | `Conditions`: `SystemSpec => []OneIdPerSubscription` |
| `OneAnswer` | | `Conditions`: `SystemSpec => AnsweredOnce` |

**Server.**  None of the invariants is inductive by itself.  `IInv` is their
conjunction with five more: `IdsAreOld` (ids that are stored or were told are
below the counter), `IdsAsTold` (an id that stands for a connection stands for the
one `onSubscribe` named), `SendsAsTold` (so does the reference that a send has
taken to it), `ReceiveThread` (the subscription that the unlocked lookup
of `handle_unsubscribe` found is still there when the lock is taken, because no
other step removes an entry of a connection) and `NewHasNoEntry` (a connection
that has not come up yet has no entry).  `IdsAreOld` is what makes a fresh id
fresh; `IdsAsTold` and `SendsAsTold` are what is left of the addressee when sends
overlap: an id that `operator[]` puts back has no connection and never gets one,
as only fresh ids do, so a reference taken while the id had its connection is right
as long as the id has it.  `ReceiveThread` is what makes the value-initialised id 0
of `operator[]` impossible, and with it the erasure of somebody else's id;
`NewHasNoEntry` carries `ReachableWhileUp` over the moment a connection comes up,
where the entries that a disconnect leaves behind would break it if ids were
reused.  There is one lemma per action and per map operation.  `PubInv` adds
`KeyedByName` (an announced namespace is stored under its own masked name) for
`NamesCovered`, where an ended intent must erase the publishers of all the names
it covers and no more; a namespace that an overlapping response announces again is
stored under its own name too.  The action properties follow from `IInv` and one
step.

**Relay.** Every step of the relay is a step of the server in which the delegate
does something in particular, so `IInv` is kept by the server's own lemmas.
`RelayInv` adds what ties the relay's table to the server's maps:
`ListsWhatWasTold` (`Subscriptions` has, under each namespace, exactly the ids
`onSubscribe` told for it, as `remove` removes nothing), `EntriesWereTold` (the
id of an entry of `subscribe_state` was told for its connection, and only under
the entry's key), `OneKeyPerId` (an id was told under one key only) and
`EndedAreGone` (an id whose SubscribeEnd was sent is old and stands for no
connection, though it may be back with context 0).  The last one is inductive
only because ids never return.  `FanInv` is about the object in hand.
`CopiesKept`: whatever is on the list, being sent or done was told of for the
name, and each live subscription that covers the name is at one of these stages;
`CopiesOnce`: at one only; `OneSend`: one copy is sent at a time; `GhostsStay`:
without reuse of connection ids nothing erases an id with context 0, so that a
reference to it never dangles, which is what `EndIsFinal` needs at the last step
of a send.  For the refinement there is one lemma per action that names the step
of `Broker` it maps to, or shows that it is a stutter.  A copy is pending in
`Broker` while its subscription lives and the copy is listed or being sent, and
beyond that only while a send holds a reference to the connection.  So an end
drops what is listed, and the one copy under way stays to go astray.  No
assumption on keys or connection ids is made beyond those the properties
themselves state.

**Client.** `RegInv` joins `SubscribedHasDelegate` with `StateKeyed` (a
subscription is stored under the masked name of its namespace), `DelegatesKeyed`
(so is an entry of the delegates, an empty one included), `StayingIsSubscribed`
(a registration the application has not asked to end has a subscription, so that
a removal of all collects it) and `SweepHasTheRest`, which is what makes the
unlocked removal right: while the status thread works off its list, every
registration from before the disconnect that is not leaving is of a namespace
still on the list.  They need each other and `TypeOK`, which types the receive
thread in the middle of `handle()` as well.  For the refinement of `Subscriber`,
the callbacks of one removal are one of its steps, and `handle()` is followed
from the lookup to the delegate in hand to the callback; `DelegatesKeyed` shows
that what the second lookup inserts is under the key the first one found.

**Reassembly.**  Three layers.  *Cutting*: an object of any size is cut into
blocks (`FragmentsAreBlocks`), each of which ends where the next begins
(`BlockOrder`), which partition its bytes (`FragmentsPartition`); a set of its
fragments passes the test of `notify_pub_fragment` if and only if it is all of
them (`CompleteIsExact`).  That last lemma is where the gap check and the fin bit
meet; it takes a well-founded argument (the first block that is missing).
*Ring*: `RingInv` says that the buffers hold nonempty parts of the objects; that a
name is in one buffer only, unless it is `lost`, that is, an erase through the
wrong map has once put it out of reach of `find()` (`FoundOnce`, `Sole`); that the
current buffer has room; that `size()` is exact until line 557 erases through the
wrong map; and that what is under way and what
was delivered are fragments of their object, in a delivery all of them.  It holds
for any number of clients: sharing the ring makes them lose objects
(`Reassembly_clients`) but never mixes any.  *One client*: `Kept` says that what
waits of an object is what came of it, unless it was delivered, purged or lost, or
the process is down.  `Spent` is an account: deliveries times fragments, plus the
fragments that wait, in however many buffers (`Held`), plus those under way, never
exceed the fragments of the object plus the repetitions.  Each fragment received
pays for one step of the left side, a purge only forgets.  It needs no exception
for lost names: a second entry holds no fragment that was not paid for.

**System.**  `Conditions` is what the theorems ask of the application and the
names: the application is patient, connection ids are not given out again, and
distinct namespaces have distinct keys.  `System_safety` has constants that meet
them; `System_resubscribe` shows that the first is needed, and `Relay_reuse` has
what the relay still promises without the other two.  Nothing is asked of the
network, which loses and reorders as it likes, of the other connection, or of the
number of namespaces, of which TLC's instance has one.

`SystemInv` is `RelayInv`, what the client keeps by itself (`Tidy`: mainly, that
no removal of all subscriptions is going on while the client is in use, and what
the receive thread holds between its lookup and the callback), and for each
namespace three parts.  `Lone`: each of the four messages about a namespace is in
one place at most, on the network or in the hands of the thread that works on it.
This is what makes a datagram without any number in it mean something.
`Exclusive`: the relay has one id at most; a Subscribe is under way only while the
relay does not serve the namespace and no response or end is under way; a
SubscribeEnd is under way only once the relay has stopped to serve; neither a
Subscribe nor a response is under way for a registration that has its response,
which is what `AnsweredOnce` comes down to at the callback.  `Agreed`:
while the client is in use, its tables differ from the relay's only as the
messages under way explain.  For instance an Unsubscribe under way is for a
registration that was answered and has no subscription any more, and a response
under way is for an id that the relay still has, unless it has lost the
connection.  None of the properties is inductive without all of this: that
an answered client is served needs that no response is left over from an earlier
subscription, which needs that none is under way when the client unsubscribes,
and so on round the protocol.

The proof has a lemma per kind of step, and two frames: a step of the client
leaves the relay alone, and the other way round, so that a step is followed on
one side and through the bag of its messages.  `ForgetKeeps` is used by most of
them: a step that only loses messages or the connection keeps the invariant.
The relay's part is kept by the lemmas of `ReallyServerProofs`; the steps of a
fan-out carry no message the invariant is about, and put back no id that is
served (`CopyingStep`).  The step where the code comes closest to breaking it is
an Unsubscribe of the other connection, whose handler erases the client's entry
from `subscribe_state` (src/quicr_server.cpp:268): the id and what the relay was
told of it stay, and `ServedIds` reads those.

Left to TLC: the liveness properties (fairness is beyond the prover); what the
encoding computes and what texts of names denote (inductions over the fields and
the digits); and `QuicrName`, whose bit operators are those of the `Bitwise`
module, which the prover cannot use, and whose properties rest on sums of powers
of two.

## Not modelled

* qtransport: not in the repository; its threads, queues and losses are modelled
  from their use.
* Names from bytes and `operator[]` of a name: copies of bytes.  (The constructors
  copy 16 bytes whatever the length of their argument, src/quicr_name.cpp:18 to
  43; what lies behind a shorter one is not defined.)
* `HexEndec` for less than a word (the text has the digits of a word all the
  same) and with distributions that do not fill the text.
* Several clients in `System`, and a client that publishes there: `Other` stands
  for all of them.
* `PublishStream`, `publishNamedObjectFragment`: unused, unimplemented.
* `run()` of the server, `main` of the programs, logging, benchmarks.
* `chatty` and `forty`: written for an earlier API (`QuicRClient::Delegate`,
  `register_names`) that is gone, and not built by cmd/CMakeLists.txt.
* Priorities, expiry, tokens, pacing: passed along or ignored by the code.
* The limit of 150 messages per notification of the client: how often the
  transport notifies again is unknown here.

## Plan

Done: server, relay and its refinement of `Broker`, client and its refinement of
`Subscriber`, client and relay together with the flows of
docs/unsubscribe-flows.md, fragments, names and their text, encoding; the
theorems about server, relay, client, fragments and system.

What could follow: the theorems of `System` for an application that does not wait,
once responses and ends name the subscription they are for
(`System_resubscribe`); a `QuicrName` on words that are sets of bits, so that
`ContainsIsPrefix` can be proved for every width; a second client in `System`.
